--------------------------- MODULE ChatStreamProofs ---------------------------
(* Proofs about ChatStream, for any bounds of the turn and of the keepalive   *)
(* thread: types, that the thread is joined, that the stream ends once, and   *)
(* that a request counted as a success has got its reply.                     *)
EXTENDS ChatStream, FiniteSets, SequenceTheorems, FiniteSetTheorems, FunctionTheorems, TLAPS

USE BoundsAssumption

-----------------------------------------------------------------------------
(* Streams of frames.                                                         *)

Quiet(w) == \A i \in 1..Len(w) : w[i].event \notin {"done", "end"}
NoEnd(w) == \A i \in 1..Len(w) : w[i].event # "end"
Ordered(w) ==
    \A i \in 1..Len(w) :
        /\ w[i].event = "done" => \A j \in (i + 1)..Len(w) : w[j].event = "end"
        /\ w[i].event = "end" => i = Len(w) /\ i > 1 /\ w[i - 1].event = "done"
LastDone(w) == w # <<>> /\ w[Len(w)].event = "done"
Ended(w) == w # <<>> /\ w[Len(w)].event = "end"
HasError(w) == \E i \in 1..Len(w) : w[i].event = "error"
(* Every done frame is one of a reply (good), or follows an error frame.      *)
Explained(w, good) ==
    \A i \in 1..Len(w) : w[i].event = "done" => good \/ \E j \in 1..(i - 1) : w[j].event = "error"

(* What one more frame, the frame that was read, and the loss of the last     *)
(* frames do to such a stream.                                                *)
LEMMA AppendFrame ==
    ASSUME NEW w \in Seq(Frames), NEW f \in Frames
    PROVE  /\ Append(w, f) \in Seq(Frames) /\ Len(Append(w, f)) = Len(w) + 1
           /\ \A i \in 1..Len(w) : Append(w, f)[i] = w[i]
           /\ Append(w, f)[Len(w) + 1] = f
           /\ Append(w, f) # <<>>
    BY AppendProperties

LEMMA AppendKeeps ==
    ASSUME NEW w \in Seq(Frames), NEW f \in Frames, NEW good \in BOOLEAN
    PROVE  /\ Quiet(w) /\ f.event \notin {"done", "end"} => Quiet(Append(w, f))
           /\ NoEnd(w) /\ f.event # "end" => NoEnd(Append(w, f))
           /\ Quiet(w) /\ f.event # "end" => Ordered(Append(w, f))
           /\ f.event = "done" => LastDone(Append(w, f))
           /\ Ordered(w) /\ NoEnd(w) /\ LastDone(w) /\ f.event = "end" => Ordered(Append(w, f)) /\ Ended(Append(w, f))
           /\ HasError(w) \/ f.event = "error" => HasError(Append(w, f))
           /\ Explained(w, good) /\ f.event # "done" => Explained(Append(w, f), good)
           /\ Explained(w, good) /\ (good \/ HasError(w)) => Explained(Append(w, f), good)
<1> DEFINE a == Append(w, f)
<1> HIDE DEF a
<1>1. /\ Len(w) \in Nat /\ Len(a) = Len(w) + 1 /\ a # <<>> /\ a[Len(w) + 1] = f
      /\ \A i \in 1..Len(w) : a[i] = w[i]
    BY AppendFrame, LenProperties DEF a
<1>2. /\ Quiet(w) /\ f.event \notin {"done", "end"} => Quiet(a)
      /\ NoEnd(w) /\ f.event # "end" => NoEnd(a)
    BY <1>1 DEF Quiet, NoEnd
<1>3. Quiet(w) /\ f.event # "end" => Ordered(a)
    BY <1>1 DEF Quiet, Ordered
<1>4. Ordered(w) /\ NoEnd(w) /\ LastDone(w) /\ f.event = "end" => Ordered(a) /\ Ended(a)
    BY <1>1, EmptySeq DEF Ordered, NoEnd, LastDone, Ended
<1>7. f.event = "done" => LastDone(a)
    BY <1>1 DEF LastDone
<1>5. HasError(w) \/ f.event = "error" => HasError(a)
    BY <1>1 DEF HasError
<1>6. Explained(w, good) /\ (f.event # "done" \/ good \/ HasError(w)) => Explained(a, good)
    BY <1>1 DEF Explained, HasError
<1> QED BY <1>2, <1>3, <1>4, <1>5, <1>6, <1>7 DEF a

LEMMA TailKeeps ==
    ASSUME NEW w \in Seq(Frames), w # <<>>, NEW good \in BOOLEAN
    PROVE  /\ Tail(w) \in Seq(Frames)
           /\ Quiet(w) => Quiet(Tail(w))
           /\ NoEnd(w) => NoEnd(Tail(w))
           /\ Ordered(w) /\ Head(w).event # "done" => Ordered(Tail(w))
           /\ LastDone(w) /\ Head(w).event # "done" => LastDone(Tail(w))
           /\ Ended(w) /\ Head(w).event # "end" => Ended(Tail(w))
           /\ HasError(w) /\ Head(w).event # "error" => HasError(Tail(w))
           /\ Explained(w, good) => Explained(Tail(w), good \/ Head(w).event = "error")
<1> DEFINE t == Tail(w)
<1> HIDE DEF t
<1>1. /\ Len(w) \in Nat \ {0} /\ t \in Seq(Frames) /\ Len(t) = Len(w) - 1 /\ Head(w) = w[1]
      /\ \A i \in 1..Len(t) : t[i] = w[i + 1]
    BY HeadTailProperties, LenProperties, EmptySeq DEF t
<1>2. (Quiet(w) => Quiet(t)) /\ (NoEnd(w) => NoEnd(t))
    BY <1>1 DEF Quiet, NoEnd
<1>3. Ordered(w) /\ Head(w).event # "done" => Ordered(t)
  <2> SUFFICES ASSUME Ordered(w), w[1].event # "done", NEW i \in 1..Len(t)
               PROVE  /\ t[i].event = "done" => \A j \in (i + 1)..Len(t) : t[j].event = "end"
                      /\ t[i].event = "end" => i = Len(t) /\ i > 1 /\ t[i - 1].event = "done"
      BY <1>1 DEF Ordered
  <2>1. i + 1 \in 1..Len(w) /\ t[i] = w[i + 1]
      BY <1>1
  <2>2. t[i].event = "done" => \A j \in (i + 1)..Len(t) : t[j].event = "end"
      BY <1>1, <2>1 DEF Ordered
  <2>3. ASSUME t[i].event = "end" PROVE i = Len(t) /\ i > 1 /\ t[i - 1].event = "done"
    <3>1. i + 1 = Len(w) /\ w[i].event = "done"
        BY <1>1, <2>1, <2>3 DEF Ordered
    <3>2. i # 1
        BY <3>1
    <3> QED BY <1>1, <2>1, <3>1, <3>2
  <2> QED BY <2>2, <2>3
<1>7. LastDone(w) /\ Head(w).event # "done" => LastDone(t)
    BY <1>1, EmptySeq DEF LastDone
<1>4. Ended(w) /\ Head(w).event # "end" => Ended(t)
    BY <1>1, EmptySeq DEF Ended
<1>5. HasError(w) /\ Head(w).event # "error" => HasError(t)
  <2> SUFFICES ASSUME NEW i \in 1..Len(w), w[i].event = "error", w[1].event # "error"
               PROVE  HasError(t)
      BY <1>1 DEF HasError
  <2>1. i - 1 \in 1..Len(t) /\ t[i - 1] = w[i]
      BY <1>1
  <2> QED BY <2>1 DEF HasError
<1>6. Explained(w, good) => Explained(t, good \/ Head(w).event = "error")
  <2> SUFFICES ASSUME Explained(w, good), ~good, w[1].event # "error",
                      NEW i \in 1..Len(t), t[i].event = "done"
               PROVE  \E j \in 1..(i - 1) : t[j].event = "error"
      BY <1>1 DEF Explained
  <2>1. i + 1 \in 1..Len(w) /\ w[i + 1].event = "done"
      BY <1>1
  <2>2. PICK j \in 1..i : w[j].event = "error"
      BY <2>1 DEF Explained
  <2>3. j - 1 \in 1..(i - 1) /\ t[j - 1] = w[j]
      BY <1>1, <2>2
  <2> QED BY <2>2, <2>3
<1> QED BY <1>1, <1>2, <1>3, <1>4, <1>5, <1>6, <1>7 DEF t

LEMMA PrefixKeeps ==
    ASSUME NEW w \in Seq(Frames), NEW n \in 0..Len(w), NEW good \in BOOLEAN
    PROVE  /\ SubSeq(w, 1, n) \in Seq(Frames)
           /\ Quiet(w) => Quiet(SubSeq(w, 1, n))
           /\ NoEnd(w) => NoEnd(SubSeq(w, 1, n))
           /\ Ordered(w) => Ordered(SubSeq(w, 1, n))
           /\ Explained(w, good) => Explained(SubSeq(w, 1, n), good)
<1> DEFINE p == SubSeq(w, 1, n)
<1> HIDE DEF p
<1>1. /\ Len(w) \in Nat /\ n \in Nat /\ p \in Seq(Frames) /\ Len(p) = n
      /\ \A i \in 1..n : p[i] = w[i]
    BY SubSeqProperties, LenProperties DEF p
<1>2. (Quiet(w) => Quiet(p)) /\ (NoEnd(w) => NoEnd(p))
    BY <1>1 DEF Quiet, NoEnd
<1>3. Ordered(w) => Ordered(p)
    BY <1>1 DEF Ordered
<1>4. Explained(w, good) => Explained(p, good)
    BY <1>1 DEF Explained
<1> QED BY <1>1, <1>2, <1>3, <1>4 DEF p
-----------------------------------------------------------------------------
(* Types.                                                                     *)

LEMMA KnownFrames ==
    /\ \A event \in Events : Frame(event) \in Frames
    /\ \A text \in Texts : TokenFrame(text) \in Frames
    BY DEF Frame, TokenFrame, Frames, Texts, Events

LEMMA TypesInit == Init => TypeOK
<1> SUFFICES ASSUME Init PROVE TypeOK
    OBVIOUS
<1>1. TurnTypes
    BY DEF Init, TurnTypes
<1>2. ReaderTypes
    BY DEF Init, ReaderTypes
<1>3. wire \in Seq(Frames)
    BY EmptySeq DEF Init
<1>4. FlagTypes
    BY Zenon DEF Init, FlagTypes
<1> QED BY <1>1, <1>2, <1>3, <1>4 DEF Init, TypeOK, HandlerSteps

(* Where a frame is sent or fails, the wire stays a stream of frames.         *)
LEMMA SendTypes ==
    ASSUME TypeOK, NEW frame \in Frames, Sent(frame) \/ Unsent
    PROVE  wire' \in Seq(Frames)
    BY AppendProperties DEF Sent, Unsent, TypeOK

(* The chunks the callback numbered are among those the provider streamed; a  *)
(* frame is about to be sent only within the bound; a reply is sent only when *)
(* there is one.                                                              *)
Numbered == live_seq <= spoken
Beating == keepalive = "about" => beats < MaxBeats
Replied ==
    /\ outcome = "reply" => reply \in [text : Texts, chunks : 0..MaxChunks]
    /\ handler \in {"reply", "replay", "done"} => outcome = "reply"
Types == TypeOK /\ Numbered /\ Beating /\ Replied

(* The flags, apart from the rest.                                            *)
LEMMA FlagsStep == FlagTypes /\ [Next]_vars => FlagTypes'
<1> SUFFICES ASSUME FlagTypes, [Next]_vars PROVE FlagTypes'
    OBVIOUS
<1> USE DEF FlagTypes, turn, beating, reader, server
<1>1. CASE UNCHANGED vars
    BY <1>1, Zenon DEF vars
<1>2. CASE Refuse \/ Accept \/ SpawnKeepalive \/ SendStatus \/ SendReplyStart
    BY <1>2, Zenon DEF Refuse, Accept, SpawnKeepalive, SendStatus, SendReplyStart
<1>3. CASE BuildMessages \/ Token \/ RunTools
    BY <1>3, Zenon DEF BuildMessages, Token, RunTools
<1>4. CASE FinalReply \/ ComposedReply \/ TurnFails
    BY <1>4, Zenon DEF FinalReply, ComposedReply, Replies, TurnFails
<1>5. CASE StopKeepalive \/ JoinKeepalive \/ SendReply \/ ReplayChunk \/ ReplayEnds \/ SendDone
    BY <1>5, Zenon DEF StopKeepalive, JoinKeepalive, SendReply, ReplayChunk, ReplayEnds, SendDone
<1>6. CASE SendError \/ SendErrorDone \/ Finish
    BY <1>6, Zenon DEF SendError, SendErrorDone, SendErrorFrame, Finish
<1>7. CASE Wake \/ Beat
    BY <1>7, Zenon DEF Wake, Beat
<1>8. CASE LinkDown \/ Deadline \/ Post
    BY <1>8, Zenon DEF LinkDown, Deadline, Post
<1>9. CASE ReadHead \/ ReadFrame \/ GiveUp \/ TimeOut \/ Lost
    BY <1>9, Zenon DEF ReadHead, ReadFrame, GiveUp, TimeOut, Lost, Return
<1> QED BY <1>1, <1>2, <1>3, <1>4, <1>5, <1>6, <1>7, <1>8, <1>9 DEF Next, Handler, Turn, Unwind, Keepalive, Client

LEMMA BeatingStep == Beating /\ [Next]_vars => Beating'
<1> SUFFICES ASSUME Beating, [Next]_vars PROVE Beating'
    OBVIOUS
<1>1. UNCHANGED beating => Beating'
    BY DEF Beating, beating
<1>2. CASE UNCHANGED vars
    BY <1>1, <1>2 DEF vars
<1>3. CASE SpawnKeepalive \/ StopKeepalive \/ Wake \/ Beat
    BY <1>3 DEF Beating, SpawnKeepalive, StopKeepalive, Wake, Beat
<1>4. CASE \/ Refuse \/ Accept \/ SendStatus \/ SendReplyStart \/ JoinKeepalive \/ SendReply \/ ReplayChunk
           \/ ReplayEnds \/ SendDone \/ SendError \/ SendErrorDone \/ Finish
    BY <1>1, <1>4 DEF Refuse, Accept, SendStatus, SendReplyStart, JoinKeepalive, SendReply, ReplayChunk,
                      ReplayEnds, SendDone, SendError, SendErrorDone, SendErrorFrame, Finish
<1>5. CASE BuildMessages \/ Token \/ RunTools \/ FinalReply \/ ComposedReply \/ TurnFails
    BY <1>1, <1>5 DEF BuildMessages, Token, RunTools, FinalReply, ComposedReply, Replies, TurnFails
<1>6. CASE LinkDown \/ Deadline \/ Post \/ Client
    BY <1>1, <1>6 DEF LinkDown, Deadline, Post, Client, ReadHead, ReadFrame, GiveUp, TimeOut, Lost, Return, server
<1> QED BY <1>2, <1>3, <1>4, <1>5, <1>6 DEF Next, Handler, Turn, Unwind, Keepalive

LEMMA RepliedStep == TypeOK /\ Replied /\ [Next]_vars => Replied'
<1> SUFFICES ASSUME TypeOK, Replied, [Next]_vars PROVE Replied'
    OBVIOUS
<1> USE DEF Replied, Proceed
<1>1. CASE UNCHANGED <<handler, turn>>
    BY <1>1 DEF turn
<1>2. CASE Refuse \/ Accept \/ SpawnKeepalive \/ StopKeepalive \/ JoinKeepalive \/ ReplayEnds
    BY <1>2 DEF Refuse, Accept, SpawnKeepalive, StopKeepalive, JoinKeepalive, AfterJoin, ReplayEnds, turn
<1>3. CASE SendStatus \/ SendReplyStart \/ SendDone \/ SendReply
    BY <1>3 DEF SendStatus, SendReplyStart, SendDone, SendReply, SendOr, turn
<1>4. CASE BuildMessages \/ Token \/ RunTools \/ ReplayChunk
    BY <1>4 DEF BuildMessages, Token, RunTools, ReplayChunk, SendOr
<1>5. CASE FinalReply \/ ComposedReply
    BY <1>5 DEF FinalReply, ComposedReply, Replies, Texts, TypeOK, TurnTypes
<1>6. CASE TurnFails \/ SendError \/ SendErrorDone \/ Finish \/ Post
    BY <1>6 DEF TurnFails, SendError, SendErrorDone, SendErrorFrame, Finish, Post, turn
<1>7. CASE UNCHANGED vars \/ Keepalive \/ LinkDown \/ Deadline \/ Client
    BY <1>1, <1>7 DEF vars, Keepalive, Wake, Beat, LinkDown, Deadline, Client, ReadHead, ReadFrame, GiveUp, TimeOut,
                      Lost, Return, server
<1> QED BY <1>2, <1>3, <1>4, <1>5, <1>6, <1>7 DEF Next, Handler, Turn, Unwind

LEMMA TypesStep == Types /\ [Next]_vars => Types'
<1> SUFFICES ASSUME TypeOK, Numbered, Beating, Replied, [Next]_vars PROVE TypeOK' /\ Numbered'
    BY BeatingStep, RepliedStep DEF Types
<1> USE DEF TypeOK, HandlerSteps, turn, beating, reader, server, Proceed
<1>f. FlagTypes'
    BY FlagsStep
<1>a. UNCHANGED turn => TurnTypes' /\ Numbered'
    BY DEF TurnTypes, Numbered
<1>b. UNCHANGED reader => ReaderTypes'
    BY DEF ReaderTypes
<1>1. CASE UNCHANGED vars
    BY <1>1, <1>a, <1>b, <1>f DEF vars
<1>2. CASE Refuse \/ Accept \/ SpawnKeepalive \/ StopKeepalive \/ JoinKeepalive \/ ReplayEnds
    BY <1>2, <1>a, <1>b, <1>f DEF Refuse, Accept, SpawnKeepalive, StopKeepalive, JoinKeepalive, AfterJoin, ReplayEnds
<1>3. CASE SendStatus \/ SendReplyStart \/ SendDone
  <2>1. wire' \in Seq(Frames)
      BY <1>3, SendTypes, KnownFrames DEF SendStatus, SendReplyStart, SendDone, SendOr, Events
  <2> QED BY <1>3, <2>1, <1>a, <1>b, <1>f DEF SendStatus, SendReplyStart, SendDone, SendOr
<1>4. CASE BuildMessages
  <2>1. TurnTypes' /\ Numbered'
      BY <1>4 DEF BuildMessages, TurnTypes, Numbered
  <2> QED BY <1>4, <2>1, <1>b, <1>f DEF BuildMessages
<1>5. CASE Token
  <2>1. wire' \in Seq(Frames)
      BY <1>5, SendTypes, KnownFrames DEF Token, Texts, TurnTypes
  <2>2. TurnTypes' /\ Numbered'
      BY <1>5 DEF Token, TurnTypes, Numbered
  <2> QED BY <1>5, <2>1, <2>2, <1>b, <1>f DEF Token
<1>6. CASE RunTools
  <2>1. wire' \in Seq(Frames)
      BY <1>6, SendTypes, KnownFrames DEF RunTools, Events
  <2>2. TurnTypes' /\ Numbered'
      BY <1>6 DEF RunTools, TurnTypes, Numbered
  <2> QED BY <1>6, <2>1, <2>2, <1>b, <1>f DEF RunTools
<1>7. CASE FinalReply \/ ComposedReply
  <2>1. PICK text \in Texts, chunks \in 0..MaxChunks : Replies(text, chunks)
      BY <1>7 DEF FinalReply, ComposedReply, Texts, TurnTypes
  <2>2. TurnTypes' /\ Numbered'
      BY <2>1 DEF Replies, TurnTypes, Numbered
  <2> QED BY <2>1, <2>2, <1>b, <1>f DEF Replies
<1>8. CASE TurnFails
  <2>1. TurnTypes' /\ Numbered'
      BY <1>8 DEF TurnFails, TurnTypes, Numbered
  <2> QED BY <1>8, <2>1, <1>b, <1>f DEF TurnFails
<1>9. CASE SendReply
  <2>1. wire' \in Seq(Frames)
      BY <1>9, SendTypes, KnownFrames DEF SendReply, SendOr, Events
  <2> QED BY <1>9, <2>1, <1>a, <1>b, <1>f DEF SendReply, SendOr
<1>10. CASE ReplayChunk
  <2>1. wire' \in Seq(Frames)
    <3>1. CASE UNCHANGED wire
        BY <3>1
    <3>2. CASE SendOr(TokenFrame(reply.text), "replay", "replay", "finish")
        BY <1>10, <3>2, SendTypes, KnownFrames DEF SendOr, ReplayChunk, Replied
    <3> QED BY <1>10, <3>1, <3>2 DEF ReplayChunk
  <2>2. TurnTypes' /\ Numbered'
      BY <1>10 DEF ReplayChunk, TurnTypes, Numbered, Replied
  <2> QED BY <1>10, <2>1, <2>2, <1>b, <1>f DEF ReplayChunk, SendOr
<1>11. CASE SendError \/ SendErrorDone
  <2>1. wire' \in Seq(Frames)
      BY <1>11, SendTypes, KnownFrames DEF SendError, SendErrorDone, SendErrorFrame, Events
  <2> QED BY <1>11, <2>1, <1>a, <1>b, <1>f DEF SendError, SendErrorDone, SendErrorFrame
<1>12. CASE Finish
  <2>1. wire' \in Seq(Frames)
      BY <1>12, AppendProperties, KnownFrames DEF Finish, Events
  <2> QED BY <1>12, <2>1, <1>a, <1>b, <1>f DEF Finish
<1>13. CASE Wake
    BY <1>13, <1>a, <1>b, <1>f DEF Wake
<1>14. CASE Beat
  <2>1. wire' \in Seq(Frames)
      BY <1>14, SendTypes, KnownFrames DEF Beat, Events
  <2> QED BY <1>14, <2>1, <1>a, <1>b, <1>f DEF Beat, Beating
<1>15. CASE LinkDown
  <2>1. wire' \in Seq(Frames)
      BY <1>15, PrefixKeeps DEF LinkDown
  <2> QED BY <1>15, <2>1, <1>a, <1>b, <1>f DEF LinkDown
<1>16. CASE Deadline \/ Post
  <2>1. ReaderTypes'
      BY <1>16 DEF Deadline, Post, ReaderTypes
  <2> QED BY <1>16, <2>1, <1>a, <1>f DEF Deadline, Post
<1>17. CASE \E r \in Reasons : Return(r)
  <2>1. ReaderTypes'
      BY <1>17 DEF Return, ReaderTypes
  <2>2. wire' \in Seq(Frames)
      BY <1>17, EmptySeq DEF Return
  <2> QED BY <1>17, <2>1, <2>2, <1>a, <1>f DEF Return
<1>18. CASE ReadHead \/ ReadFrame \/ GiveUp \/ TimeOut \/ Lost
  <2>1. CASE ReadHead
      BY <1>17, <2>1, <1>a, <1>f DEF ReadHead, ReaderTypes, Reasons
  <2>2. CASE ReadFrame /\ ~ \E r \in Reasons : Return(r)
    <3>1. wire' \in Seq(Frames)
        BY <2>2, TailKeeps DEF ReadFrame, Reasons
    <3>2. Head(wire).text \in Texts
      <4>1. wire \in Seq(Frames) /\ wire # <<>>
          BY <2>2 DEF ReadFrame
      <4>2. Head(wire) \in Frames
          BY <4>1, HeadTailProperties
      <4> QED BY <4>2 DEF Frames
    <3>3. ReaderTypes'
        BY <2>2, <3>2 DEF ReadFrame, ReaderTypes, Reasons
    <3> QED BY <2>2, <3>1, <3>3, <1>a, <1>f DEF ReadFrame, Reasons
  <2>3. CASE GiveUp \/ TimeOut \/ Lost
      BY <1>17, <2>3 DEF GiveUp, TimeOut, Lost, Reasons
  <2> QED BY <1>17, <1>18, <2>1, <2>2, <2>3
<1> QED BY <1>1, <1>2, <1>3, <1>4, <1>5, <1>6, <1>7, <1>8, <1>9, <1>10, <1>11, <1>12, <1>13, <1>14, <1>15,
           <1>16, <1>18 DEF Next, Handler, Turn, Unwind, Keepalive, Client
(* Every reachable state is well-typed, whatever the bounds of the turn.      *)
THEOREM TypeCorrect == Spec => []TypeOK
<1>1. Init => Types
    BY TypesInit, NoneAssumption DEF Init, Types, Numbered, Beating, Replied
<1>2. Types /\ [Next]_vars => Types'
    BY TypesStep
<1> QED BY <1>1, <1>2, PTL DEF Spec, Types

-----------------------------------------------------------------------------
(* The stream.                                                                *)

(* The thread runs only between its spawn and its join; the handler gives up  *)
(* without a turn only when the connection was lost; while the connection  *)
(* is up the stream is closed by the last step only; done and the chunk after *)
(* it are on the wire only when the handler has sent them.                    *)
KeepaliveInside == handler \notin {"reply_start", "turn", "stop", "join"} => keepalive \in {"none", "exited"}
LinkLost == handler \in {"stop", "join"} /\ outcome \notin {"reply", "failed"} => link = "down"
Inside == KeepaliveInside /\ LinkLost
ClosedByFinish == closed /\ link = "up" => handler = "over"
QuietBefore == handler \notin {"finish", "over"} => Quiet(wire)
EndBefore == handler # "over" => NoEnd(wire)
DoneBefore == handler = "finish" /\ link = "up" => LastDone(wire)
EndAfter == handler = "over" /\ head = "ok" /\ link = "up" => Ended(wire)
StreamInv ==
    /\ Inside /\ ClosedByFinish /\ QuietBefore /\ EndBefore /\ DoneBefore /\ EndAfter
    /\ Ordered(wire)

LEMMA QuietIsOrdered ==
    ASSUME NEW w, Quiet(w)
    PROVE  NoEnd(w) /\ Ordered(w) /\ \A good \in BOOLEAN : Explained(w, good)
    BY DEF Quiet, NoEnd, Ordered, Explained

LEMMA EmptyStream == Quiet(<<>>)
    BY EmptySeq DEF Quiet

LEMMA KeepaliveStep == KeepaliveInside /\ [Next]_vars => KeepaliveInside'
<1> SUFFICES ASSUME KeepaliveInside, [Next]_vars PROVE KeepaliveInside'
    OBVIOUS
<1> USE DEF KeepaliveInside, Proceed, beating
<1>1. CASE UNCHANGED vars
    BY <1>1 DEF vars
<1>2. CASE Refuse \/ Accept \/ SendStatus \/ SpawnKeepalive \/ SendReplyStart \/ Post
    BY <1>2 DEF Refuse, Accept, SendStatus, SpawnKeepalive, SendReplyStart, SendOr, Post
<1>3. CASE Turn
    BY <1>3 DEF Turn, BuildMessages, Token, RunTools, FinalReply, ComposedReply, Replies, TurnFails
<1>4. CASE StopKeepalive \/ JoinKeepalive
    BY <1>4 DEF StopKeepalive, JoinKeepalive, AfterJoin
<1>5. CASE SendReply \/ ReplayChunk \/ ReplayEnds \/ SendDone \/ SendError \/ SendErrorDone \/ Finish
    BY <1>5 DEF SendReply, ReplayChunk, ReplayEnds, SendDone, SendError, SendErrorDone, SendErrorFrame, Finish, SendOr
<1>6. CASE Keepalive
    BY <1>6 DEF Keepalive, Wake, Beat
<1>7. CASE LinkDown \/ Deadline \/ Client
    BY <1>7 DEF LinkDown, Deadline, Client, ReadHead, ReadFrame, GiveUp, TimeOut, Lost, Return, server
<1> QED BY <1>1, <1>2, <1>3, <1>4, <1>5, <1>6, <1>7 DEF Next, Handler, Unwind

(* The keepalive thread uses the handler's stack; it is never left running    *)
(* when the handler has returned, for any number of rounds, chunks and beats. *)
THEOREM ThreadJoined == Spec => []KeepaliveJoined
<1>1. Init => KeepaliveInside
    BY DEF Init, KeepaliveInside
<1>2. KeepaliveInside => KeepaliveJoined
    BY DEF KeepaliveInside, KeepaliveJoined
<1> QED BY <1>1, <1>2, KeepaliveStep, PTL DEF Spec
LEMMA InsideStep == TypeOK /\ Inside /\ ClosedByFinish /\ [Next]_vars => Inside'
<1> SUFFICES ASSUME TypeOK, Inside, ClosedByFinish, [Next]_vars PROVE LinkLost'
    BY KeepaliveStep DEF Inside
<1> USE DEF Inside, LinkLost, Proceed, turn
<1>1. CASE UNCHANGED vars
    BY <1>1 DEF vars
<1>2. CASE Refuse \/ Accept \/ SendStatus \/ SpawnKeepalive \/ Post
    BY <1>2 DEF Refuse, Accept, SendStatus, SpawnKeepalive, SendOr, Post
<1>3. CASE SendReplyStart
    BY <1>3 DEF SendReplyStart, SendOr, ClosedByFinish, Unsent, TypeOK
<1>4. CASE Turn
    BY <1>4 DEF Turn, BuildMessages, Token, RunTools, FinalReply, ComposedReply, Replies, TurnFails
<1>5. CASE StopKeepalive \/ JoinKeepalive
    BY <1>5 DEF StopKeepalive, JoinKeepalive, AfterJoin
<1>6. CASE SendReply \/ ReplayChunk \/ ReplayEnds \/ SendDone \/ SendError \/ SendErrorDone \/ Finish
    BY <1>6 DEF SendReply, ReplayChunk, ReplayEnds, SendDone, SendError, SendErrorDone, SendErrorFrame, Finish, SendOr
<1>7. CASE Keepalive
    BY <1>7 DEF Keepalive, Wake, Beat
<1>8. CASE LinkDown \/ Deadline \/ Client
    BY <1>8 DEF LinkDown, Deadline, Client, ReadHead, ReadFrame, GiveUp, TimeOut, Lost, Return, server
<1> QED BY <1>1, <1>2, <1>3, <1>4, <1>5, <1>6, <1>7, <1>8 DEF Next, Handler, Unwind

(* A step that sends a frame other than done, or fails, before the handler    *)
(* finishes.                                                                  *)
LEMMA FrameSent ==
    ASSUME TypeOK, StreamInv, NEW frame \in Frames, frame.event \notin {"done", "end"},
           Sent(frame), UNCHANGED <<closed, link>>,
           handler \notin {"finish", "over"}, handler' \notin {"finish", "over"}, Inside'
    PROVE  StreamInv'
<1>1. Quiet(wire) /\ Quiet(wire')
    BY AppendKeeps DEF StreamInv, QuietBefore, Sent, TypeOK
<1> QED BY <1>1, QuietIsOrdered DEF StreamInv, ClosedByFinish, QuietBefore, EndBefore, DoneBefore, EndAfter, Sent

(* A send that fails leaves by way of finish(), or for the error frames.      *)
LEMMA FrameUnsent ==
    ASSUME TypeOK, StreamInv, Unsent, UNCHANGED link, closed' = closed \/ closed' = TRUE,
           handler \notin {"finish", "over"}, handler' # "over", Inside'
    PROVE  StreamInv'
<1>1. link = "down" /\ wire' = wire /\ Quiet(wire)
    BY DEF StreamInv, ClosedByFinish, QuietBefore, Unsent, TypeOK
<1> QED BY <1>1, QuietIsOrdered DEF StreamInv, ClosedByFinish, QuietBefore, EndBefore, DoneBefore, EndAfter

LEMMA DoneSent ==
    ASSUME TypeOK, StreamInv, Sent(Frame("done")), UNCHANGED <<closed, link>>,
           handler \notin {"finish", "over"}, handler' = "finish", Inside'
    PROVE  StreamInv'
<1>1. Frame("done") \in Frames /\ Frame("done").event = "done" /\ wire \in Seq(Frames) /\ Quiet(wire)
    BY KnownFrames DEF Frame, Events, TypeOK, StreamInv, QuietBefore
<1>2. NoEnd(wire) /\ Ordered(wire)
    BY <1>1, QuietIsOrdered
<1>3. Ordered(wire') /\ NoEnd(wire') /\ (link = "up" => LastDone(wire'))
    BY <1>1, <1>2, AppendKeeps DEF Sent
<1> QED BY <1>3 DEF StreamInv, ClosedByFinish, QuietBefore, EndBefore, DoneBefore, EndAfter, Sent

(* A step of the handler that sends nothing.                                  *)
LEMMA NothingSent ==
    ASSUME TypeOK, StreamInv, UNCHANGED <<closed, link, wire>>,
           \/ handler \notin {"finish", "over"} /\ handler' \notin {"finish", "over"}
           \/ UNCHANGED <<handler, head>>,
           Inside'
    PROVE  StreamInv'
    BY DEF StreamInv, ClosedByFinish, QuietBefore, EndBefore, DoneBefore, EndAfter

(* What is left of the stream when the connection is down.                    *)
LEMMA CutOff ==
    ASSUME StreamInv, link' = "down", Quiet(wire) => Quiet(wire'), NoEnd(wire) => NoEnd(wire'), Ordered(wire'),
           UNCHANGED handler, Inside'
    PROVE  StreamInv'
    BY DEF StreamInv, ClosedByFinish, QuietBefore, EndBefore, DoneBefore, EndAfter

LEMMA StreamStep == TypeOK /\ Replied /\ StreamInv /\ [Next]_vars => StreamInv'
<1> SUFFICES ASSUME TypeOK, Replied, StreamInv, [Next]_vars PROVE StreamInv'
    OBVIOUS
<1>k. Inside'
    BY InsideStep DEF StreamInv
<1>p. Frame("progress") \in Frames /\ Frame("progress").event \notin {"done", "end"}
    BY KnownFrames DEF Frame, Events
<1> USE DEF Proceed
<1>1. CASE UNCHANGED vars \/ Wake \/ Deadline
    BY <1>1, <1>k, NothingSent DEF vars, Wake, Deadline, server
<1>2. CASE Refuse \/ (Accept /\ handler' = "over")
    BY <1>2, <1>k, NoneAssumption DEF Refuse, Accept, StreamInv, ClosedByFinish, QuietBefore, EndBefore, DoneBefore,
                                      EndAfter
<1>3. CASE Accept /\ handler' # "over"
    BY <1>3, <1>k, NothingSent DEF Accept
<1>4. CASE SpawnKeepalive \/ BuildMessages \/ StopKeepalive \/ ReplayEnds \/ Post
    BY <1>4, <1>k, NothingSent DEF SpawnKeepalive, BuildMessages, StopKeepalive, ReplayEnds, Post, beating
<1>5. CASE FinalReply \/ ComposedReply \/ TurnFails
    BY <1>5, <1>k, NothingSent DEF FinalReply, ComposedReply, Replies, TurnFails
<1>6. CASE SendStatus \/ SendReplyStart
  <2>1. \A e \in {"status", "reply_start"} : Frame(e) \in Frames /\ Frame(e).event \notin {"done", "end"}
      BY KnownFrames DEF Frame, Events
  <2> QED BY <1>6, <1>k, <2>1, FrameSent, FrameUnsent DEF SendStatus, SendReplyStart, SendOr
<1>7. CASE Token
  <2>1. TokenFrame(round) \in Frames /\ TokenFrame(round).event \notin {"done", "end"}
      BY KnownFrames DEF TokenFrame, TypeOK, TurnTypes, Texts
  <2> QED BY <1>7, <1>k, <2>1, FrameSent, FrameUnsent, NothingSent DEF Token
<1>8. CASE RunTools
    BY <1>8, <1>k, <1>p, FrameSent, FrameUnsent DEF RunTools
<1>9. CASE JoinKeepalive
  <2>1. handler' \notin {"finish", "over"} \/ link = "down"
      BY <1>9 DEF JoinKeepalive, AfterJoin, StreamInv, Inside, LinkLost
  <2>2. CASE handler' \notin {"finish", "over"}
      BY <1>9, <1>k, <2>2, NothingSent DEF JoinKeepalive
  <2>3. CASE link = "down" /\ handler' = "finish"
      BY <1>9, <1>k, <2>3, QuietIsOrdered DEF JoinKeepalive, StreamInv, ClosedByFinish, QuietBefore, EndBefore,
                                              DoneBefore, EndAfter
  <2> QED BY <1>9, <2>1, <2>2, <2>3 DEF JoinKeepalive, AfterJoin
<1>10. CASE SendReply
  <2>1. Frame("tool_only_summary") \in Frames /\ Frame("tool_only_summary").event \notin {"done", "end"}
      BY KnownFrames DEF Frame, Events
  <2> QED BY <1>10, <1>k, <2>1, FrameSent, FrameUnsent, NothingSent DEF SendReply, SendOr
<1>11. CASE ReplayChunk
  <2>1. CASE SendOr(TokenFrame(reply.text), "replay", "replay", "finish")
    <3>1. TokenFrame(reply.text) \in Frames /\ TokenFrame(reply.text).event \notin {"done", "end"}
        BY <2>1, KnownFrames DEF TokenFrame, Replied, SendOr
    <3> QED BY <1>11, <1>k, <2>1, <3>1, FrameSent, FrameUnsent DEF ReplayChunk, SendOr
  <2>2. CASE handler' = "error" /\ UNCHANGED wire
      BY <1>11, <1>k, <2>2, NothingSent DEF ReplayChunk
  <2> QED BY <1>11, <2>1, <2>2 DEF ReplayChunk
<1>12. CASE SendDone
    BY <1>12, <1>k, DoneSent, FrameUnsent DEF SendDone, SendOr
<1>13. CASE SendError
  <2>1. Frame("error") \in Frames /\ Frame("error").event \notin {"done", "end"}
      BY KnownFrames DEF Frame, Events
  <2> QED BY <1>13, <1>k, <2>1, FrameSent, FrameUnsent DEF SendError, SendErrorFrame
<1>14. CASE SendErrorDone
    BY <1>14, <1>k, DoneSent, FrameUnsent DEF SendErrorDone, SendErrorFrame
<1>15. CASE Finish
  <2>1. Frame("end") \in Frames /\ Frame("end").event = "end"
      BY KnownFrames DEF Frame, Events
  <2>2. Ordered(wire) /\ NoEnd(wire) /\ wire \in Seq(Frames)
      BY <1>15 DEF Finish, StreamInv, EndBefore, TypeOK
  <2>3. CASE link = "up"
    <3>1. ~closed /\ LastDone(wire)
        BY <1>15, <2>3 DEF Finish, StreamInv, ClosedByFinish, DoneBefore
    <3>2. Ordered(wire') /\ Ended(wire')
        BY <1>15, <2>1, <2>2, <2>3, <3>1, AppendKeeps DEF Finish
    <3> QED BY <1>15, <1>k, <3>2 DEF Finish, StreamInv, ClosedByFinish, QuietBefore, EndBefore, DoneBefore, EndAfter
  <2>4. CASE link = "down"
      BY <1>15, <1>k, <2>4 DEF Finish, StreamInv, ClosedByFinish, QuietBefore, EndBefore, DoneBefore, EndAfter
  <2> QED BY <2>3, <2>4 DEF TypeOK
<1>16. CASE Beat
  <2>1. handler \notin {"finish", "over"}
      BY <1>16 DEF Beat, StreamInv, Inside, KeepaliveInside
  <2> QED BY <1>16, <1>k, <1>p, <2>1, FrameSent, FrameUnsent DEF Beat, turn
<1>17. CASE LinkDown
  <2>1. PICK n \in 0..Len(wire) : wire' = SubSeq(wire, 1, n)
      BY <1>17 DEF LinkDown
  <2>2. /\ Quiet(wire) => Quiet(wire')
        /\ NoEnd(wire) => NoEnd(wire')
        /\ Ordered(wire')
      BY <2>1, PrefixKeeps DEF TypeOK, StreamInv
  <2> QED BY <1>17, <1>k, <2>2, CutOff DEF LinkDown, server
<1>18. CASE \E r \in Reasons : Return(r)
    BY <1>18, <1>k, EmptyStream, QuietIsOrdered, CutOff DEF Return, server
<1>19. CASE ReadFrame /\ ~ \E r \in Reasons : Return(r)
  <2>1. /\ wire # <<>> /\ wire \in Seq(Frames) /\ wire' = Tail(wire)
        /\ Head(wire).event \notin {"done", "end"}
        /\ UNCHANGED <<handler, closed, link, head>>
      BY <1>19 DEF ReadFrame, Reasons, server, TypeOK
  <2>2. /\ Quiet(wire) => Quiet(wire')
        /\ NoEnd(wire) => NoEnd(wire')
        /\ Ordered(wire) => Ordered(wire')
        /\ LastDone(wire) => LastDone(wire')
        /\ Ended(wire) => Ended(wire')
      BY <2>1, TailKeeps
  <2> QED BY <1>k, <2>1, <2>2 DEF StreamInv, ClosedByFinish, QuietBefore, EndBefore, DoneBefore, EndAfter
<1>20. CASE Client
  <2>1. CASE ReadHead
      BY <1>k, <1>18, <2>1, NothingSent DEF ReadHead, server, Reasons
  <2>2. CASE ReadFrame
      BY <2>2, <1>18, <1>19
  <2>3. CASE GiveUp \/ TimeOut \/ Lost
      BY <2>3, <1>18 DEF GiveUp, TimeOut, Lost, Reasons
  <2> QED BY <1>20, <2>1, <2>2, <2>3 DEF Client
<1> QED BY <1>1, <1>2, <1>3, <1>4, <1>5, <1>6, <1>7, <1>8, <1>9, <1>10, <1>11, <1>12, <1>13, <1>14, <1>15, <1>16,
           <1>17, <1>20 DEF Next, Handler, Turn, Unwind, Keepalive
LEMMA StreamInit == Init => StreamInv
<1> SUFFICES ASSUME Init PROVE StreamInv
    OBVIOUS
<1>1. Quiet(wire)
    BY EmptyStream DEF Init
<1> QED BY <1>1, QuietIsOrdered DEF Init, StreamInv, Inside, KeepaliveInside, LinkLost, ClosedByFinish, QuietBefore,
                                    EndBefore, DoneBefore, EndAfter

LEMMA TypedStream == Spec => [](Types /\ StreamInv)
<1>1. Init => Types /\ StreamInv
    BY TypesInit, StreamInit, NoneAssumption DEF Init, Types, Numbered, Beating, Replied
<1>2. Types /\ StreamInv /\ [Next]_vars => (Types /\ StreamInv)'
    BY TypesStep, StreamStep DEF Types
<1> QED BY <1>1, <1>2, PTL DEF Spec

(* Nothing follows done but the terminating chunk, which comes last and only  *)
(* after a done; a handler that answered 200 and has returned has terminated  *)
(* the stream of a client that is still connected.  So for every length of    *)
(* the turn, whichever sends fail and wherever the keepalive thread stands.   *)
THEOREM StreamEnds == Spec => []StreamEndsOnce
<1>1. StreamInv => StreamEndsOnce
    BY DEF StreamInv, StreamEndsOnce, Ordered, EndAfter, Ended
<1> QED BY <1>1, TypedStream, PTL

-----------------------------------------------------------------------------
(* Counting the chunks of a text on the wire.                                 *)

IsToken(f, t) == f.event = "token" /\ f.text = t
Tokens(w, t) == {i \in 1..Len(w) : IsToken(w[i], t)}
Count(w, t) == Cardinality(Tokens(w, t))

LEMMA TokensFinite ==
    ASSUME NEW w \in Seq(Frames), NEW t
    PROVE  IsFiniteSet(Tokens(w, t)) /\ Count(w, t) \in Nat
<1>1. IsFiniteSet(1..Len(w)) /\ Tokens(w, t) \in SUBSET (1..Len(w))
    BY FS_Interval, LenProperties DEF Tokens
<1> QED BY <1>1, FS_Subset, FS_CardinalityType DEF Count

LEMMA CountAppend ==
    ASSUME NEW w \in Seq(Frames), NEW f \in Frames, NEW t
    PROVE  Count(Append(w, f), t) = IF IsToken(f, t) THEN Count(w, t) + 1 ELSE Count(w, t)
<1>1. CASE IsToken(f, t)
  <2>1. Tokens(Append(w, f), t) = Tokens(w, t) \cup {Len(w) + 1} /\ Len(w) + 1 \notin Tokens(w, t)
      BY <1>1, AppendFrame, LenProperties DEF Tokens
  <2> QED BY <1>1, <2>1, TokensFinite, FS_AddElement DEF Count
<1>2. CASE ~IsToken(f, t)
  <2>1. Tokens(Append(w, f), t) = Tokens(w, t)
      BY <1>2, AppendFrame, LenProperties DEF Tokens
  <2> QED BY <1>2, <2>1 DEF Count
<1> QED BY <1>1, <1>2

LEMMA CountTail ==
    ASSUME NEW w \in Seq(Frames), w # <<>>, NEW t
    PROVE  Count(w, t) = IF IsToken(Head(w), t) THEN Count(Tail(w), t) + 1 ELSE Count(Tail(w), t)
<1> DEFINE T == Tokens(Tail(w), t)
           rest == Tokens(w, t) \ {1}
           shift == [i \in T |-> i + 1]
<1>1. /\ Len(w) \in Nat \ {0} /\ Tail(w) \in Seq(Frames) /\ Len(Tail(w)) = Len(w) - 1 /\ Head(w) = w[1]
      /\ \A i \in 1..Len(Tail(w)) : Tail(w)[i] = w[i + 1]
    BY HeadTailProperties, LenProperties, EmptySeq
<1>2. \A i \in T : i \in Nat /\ i + 1 \in rest
    BY <1>1 DEF Tokens
<1>3. \A j \in rest : j - 1 \in T /\ j - 1 \in Nat /\ (j - 1) + 1 = j
    BY <1>1 DEF Tokens
<1>4. ExistsBijection(T, rest)
  <2> HIDE DEF T, rest
  <2>1. shift \in Injection(T, rest)
      BY <1>2, Fun_IsInj
  <2>2. shift \in Surjection(T, rest)
      BY <1>2, <1>3, Fun_IsSurj
  <2> QED BY <2>1, <2>2 DEF ExistsBijection, Bijection
<1>5. Cardinality(rest) = Count(Tail(w), t)
    BY <1>1, <1>4, TokensFinite, FS_Bijection DEF Count
<1>6. 1 \in Tokens(w, t) <=> IsToken(Head(w), t)
    BY <1>1 DEF Tokens
<1>7. IF 1 \in Tokens(w, t) THEN Cardinality(rest) = Count(w, t) - 1 ELSE Cardinality(rest) = Count(w, t)
    BY TokensFinite, FS_RemoveElement DEF Count
<1> QED BY <1>1, <1>5, <1>6, <1>7, TokensFinite

(* No token comes after a done frame.                                         *)
LEMMA CountPrefix ==
    ASSUME NEW w \in Seq(Frames), Ordered(w), NEW n \in 0..Len(w), NEW t,
           NEW k \in 1..n, w[k].event = "done"
    PROVE  Count(SubSeq(w, 1, n), t) = Count(w, t)
<1> DEFINE p == SubSeq(w, 1, n)
<1> HIDE DEF p
<1>1. /\ Len(w) \in Nat /\ n \in Nat /\ Len(p) = n
      /\ \A i \in 1..n : p[i] = w[i]
    BY SubSeqProperties, LenProperties DEF p
<1>2. \A i \in (n + 1)..Len(w) : w[i].event = "end"
    BY <1>1 DEF Ordered
<1>3. Tokens(p, t) = Tokens(w, t)
    BY <1>1, <1>2 DEF Tokens, IsToken
<1> QED BY <1>3 DEF Count, p

LEMMA CountDone ==
    ASSUME NEW w \in Seq(Frames), Ordered(w), w # <<>>, Head(w).event = "done", NEW t
    PROVE  Count(w, t) = 0
<1>1. Len(w) \in Nat \ {0} /\ Head(w) = w[1]
    BY HeadTailProperties, LenProperties, EmptySeq
<1>2. Tokens(w, t) = {}
    BY <1>1 DEF Tokens, IsToken, Ordered
<1> QED BY <1>2, FS_EmptySet DEF Count

LEMMA CountEmpty == \A t : Count(<<>>, t) = 0
<1>1. \A t : Tokens(<<>>, t) = {}
    BY EmptySeq DEF Tokens
<1> QED BY <1>1, FS_EmptySet DEF Count

-----------------------------------------------------------------------------
(* Success.                                                                   *)

(* What the client has read of a text and what is on its way to it.           *)
Arriving(t) == got[t] + Count(wire, t)
SameCounts == \A t \in Texts : Arriving(t)' = Arriving(t)

(* Once the client reads on to the end, its success is justified.             *)
Whole == outcome = "reply" /\ ((reply.text = 0 /\ live_seq > 0) \/ Arriving(reply.text) = reply.chunks)

(* While the connection is up: before the reply, the callback has numbered    *)
(* what the provider said in this round, and that is what arrives of its      *)
(* text; nothing arrives of a text to come, nor of the composed one.  A reply *)
(* that was not streamed is at its beginning until it is replayed.            *)
Early == {"idle", "arriving", "status", "spawn", "reply_start", "turn"}
Streaming ==
    handler \in Early =>
        /\ seq = 0 /\ live_seq = spoken /\ Arriving(round) = live_seq
        /\ \A t \in Texts : t = 0 \/ t > round => Arriving(t) = 0
Answered ==
    handler \in {"stop", "join", "reply"} /\ outcome = "reply" =>
        seq = 0 /\ IF live_seq > 0 THEN Whole ELSE Arriving(reply.text) = 0
Replaying == handler = "replay" => Arriving(reply.text) = seq
Complete == handler = "done" => Whole
Counts == Streaming /\ Answered /\ Replaying /\ Complete
Unbroken == handler \in Early /\ link = "up" => ~client_gone
NoReply == handler \in Early => outcome # "reply"
InRound == speaking => round # 0
Counted == Unbroken /\ NoReply /\ InRound /\ (link = "up" => Counts)

LEMMA ArrivingType == TypeOK => \A t \in Texts : Arriving(t) \in Nat
    BY TokensFinite DEF Arriving, TypeOK, ReaderTypes

(* A frame that is not a token changes no count, nor does reading one.        *)
LEMMA FrameCounts ==
    ASSUME TypeOK, NEW f \in Frames, wire' = wire \/ wire' = Append(wire, f), got' = got
    PROVE  \A t \in Texts : Arriving(t)' = IF wire' # wire /\ IsToken(f, t) THEN Arriving(t) + 1 ELSE Arriving(t)
<1> SUFFICES ASSUME NEW t \in Texts
             PROVE  Arriving(t)' = IF wire' # wire /\ IsToken(f, t) THEN Arriving(t) + 1 ELSE Arriving(t)
    OBVIOUS
<1>1. wire \in Seq(Frames) /\ got[t] \in Nat /\ Count(wire, t) \in Nat
    BY TokensFinite DEF TypeOK, ReaderTypes
<1>2. wire' = wire => Arriving(t)' = Arriving(t)
    BY DEF Arriving
<1>3. ASSUME wire' # wire
      PROVE  Arriving(t)' = IF IsToken(f, t) THEN Arriving(t) + 1 ELSE Arriving(t)
  <2>1. Count(wire', t) = IF IsToken(f, t) THEN Count(wire, t) + 1 ELSE Count(wire, t)
      BY <1>1, <1>3, CountAppend
  <2> QED BY <1>1, <2>1 DEF Arriving, IsToken
<1> QED BY <1>2, <1>3

LEMMA PlainFrame ==
    ASSUME TypeOK, NEW f \in Frames, f.event # "token", Sent(f) \/ Unsent, got' = got
    PROVE  SameCounts
<1>1. wire' = wire \/ wire' = Append(wire, f)
    BY DEF Sent, Unsent
<1> QED BY <1>1, FrameCounts DEF SameCounts, IsToken

LEMMA ReadCounts ==
    ASSUME TypeOK, ReadFrame, Head(wire).event # "done"
    PROVE  SameCounts
<1>1. /\ wire \in Seq(Frames) /\ wire # <<>> /\ Head(wire) \in Frames /\ wire' = Tail(wire)
      /\ got' = IF Head(wire).event = "token" THEN [got EXCEPT ![Head(wire).text] = @ + 1] ELSE got
    BY HeadTailProperties DEF TypeOK, ReadFrame
<1> SUFFICES ASSUME NEW t \in Texts PROVE Arriving(t)' = Arriving(t)
    BY DEF SameCounts
<1>2. got'[t] = IF IsToken(Head(wire), t) THEN got[t] + 1 ELSE got[t]
    BY <1>1 DEF TypeOK, ReaderTypes, Frames, IsToken
<1>3. Count(wire, t) = IF IsToken(Head(wire), t) THEN Count(wire', t) + 1 ELSE Count(wire', t)
    BY <1>1, CountTail
<1>4. got[t] \in Nat /\ Count(wire, t) \in Nat /\ Count(wire', t) \in Nat
    BY <1>1, HeadTailProperties, TokensFinite DEF TypeOK, ReaderTypes
<1> QED BY <1>2, <1>3, <1>4 DEF Arriving

(* What justifies a success is not undone by a step that keeps the counts.    *)
LEMMA WholeKept ==
    ASSUME Replied, SameCounts, UNCHANGED <<outcome, reply, live_seq>>
    PROVE  Whole' <=> Whole
    BY DEF Replied, SameCounts, Whole

LEMMA CountsKept ==
    ASSUME TypeOK, Replied, Counts, SameCounts, UNCHANGED turn,
           \/ handler' = handler
           \/ handler \in Early /\ handler' \in Early
           \/ handler = "stop" /\ handler' = "join"
           \/ handler = "join" /\ handler' = "reply"
           \/ handler' \in {"error", "error_done", "finish", "over"}
    PROVE  Counts'
<1>1. Whole' <=> Whole
    BY WholeKept DEF turn
<1>2. round \in Texts /\ (outcome = "reply" => reply.text \in Texts)
    BY DEF TypeOK, TurnTypes, Texts, Replied
<1>3. Streaming'
    BY <1>2 DEF Counts, Streaming, SameCounts, turn, Early
<1>4. Answered'
    BY <1>1, <1>2 DEF Counts, Answered, SameCounts, turn, Early
<1>5. Replaying' /\ Complete'
    BY <1>1, <1>2 DEF Counts, Replaying, Complete, SameCounts, turn, Early, Replied
<1> QED BY <1>3, <1>4, <1>5 DEF Counts

(* The connection does not come back, and while it is up a send before the    *)
(* end succeeds.                                                              *)
LEMMA LinkStays == [Next]_vars /\ link' = "up" => link = "up"
<1> USE DEF turn, reader, server
<1> QED BY DEF vars, Next, Handler, Turn, Unwind, Keepalive, Client, Refuse, Accept, SendStatus, SpawnKeepalive,
               SendReplyStart, BuildMessages, Token, RunTools, FinalReply, ComposedReply, Replies, TurnFails,
               StopKeepalive, JoinKeepalive, SendReply, ReplayChunk, ReplayEnds, SendDone, SendError, SendErrorDone,
               SendErrorFrame, Finish, Wake, Beat, LinkDown, Deadline, Post, ReadHead, ReadFrame, GiveUp, TimeOut,
               Lost, Return

LEMMA SendSucceeds == ASSUME StreamInv, link = "up", handler # "over" PROVE ~Unsent
    BY DEF StreamInv, ClosedByFinish, Unsent

LEMMA UnbrokenStep ==
    ASSUME TypeOK, StreamInv, Unbroken, NoReply, InRound, [Next]_vars
    PROVE  Unbroken' /\ NoReply' /\ InRound'
<1> USE DEF Unbroken, NoReply, InRound, Early, Proceed
<1>1. CASE UNCHANGED <<handler, turn>>
    BY <1>1, LinkStays DEF turn
<1>2. CASE Refuse \/ Accept \/ SpawnKeepalive \/ StopKeepalive \/ JoinKeepalive \/ ReplayEnds \/ Post
    BY <1>2, LinkStays DEF Refuse, Accept, SpawnKeepalive, StopKeepalive, JoinKeepalive, AfterJoin, ReplayEnds, Post,
                           turn
<1>3. CASE SendStatus \/ SendReplyStart \/ SendDone \/ SendReply
    BY <1>3, LinkStays DEF SendStatus, SendReplyStart, SendDone, SendReply, SendOr, turn
<1>4. CASE BuildMessages
    BY <1>4, LinkStays DEF BuildMessages, TypeOK, TurnTypes
<1>5. CASE Token \/ RunTools
    BY <1>5, LinkStays, SendSucceeds DEF Token, RunTools
<1>6. CASE FinalReply \/ ComposedReply \/ TurnFails
    BY <1>6 DEF FinalReply, ComposedReply, Replies, TurnFails
<1>7. CASE ReplayChunk \/ SendError \/ SendErrorDone \/ Finish
    BY <1>7 DEF ReplayChunk, SendOr, SendError, SendErrorDone, SendErrorFrame, Finish, turn
<1>8. CASE UNCHANGED vars \/ Keepalive \/ LinkDown \/ Deadline \/ Client
    BY <1>1, <1>8 DEF vars, Keepalive, Wake, Beat, LinkDown, Deadline, Client, ReadHead, ReadFrame, GiveUp, TimeOut,
                      Lost, Return, server
<1> QED BY <1>2, <1>3, <1>4, <1>5, <1>6, <1>7, <1>8 DEF Next, Handler, Turn, Unwind

LEMMA CountsStep ==
    ASSUME TypeOK, Numbered, Replied, StreamInv, Unbroken, NoReply, InRound, Counts, link = "up", link' = "up",
           [Next]_vars
    PROVE  Counts'
<1> USE DEF Proceed
<1>t. /\ \A e \in {"status", "reply_start", "progress", "tool_only_summary", "error", "done", "end"} :
            Frame(e) \in Frames /\ Frame(e).event # "token"
      /\ round \in Texts /\ round \in Nat /\ (outcome = "reply" => reply.text \in Texts /\ reply.chunks \in Nat)
      /\ spoken \in Nat /\ live_seq \in Nat /\ seq \in Nat
    BY KnownFrames DEF Frame, Events, Texts, TypeOK, TurnTypes, Replied
<1>s. UNCHANGED <<wire, got>> => SameCounts
    BY DEF SameCounts, Arriving
<1>1. CASE UNCHANGED vars \/ Wake \/ Deadline
    BY <1>1, <1>s, CountsKept DEF vars, Wake, Deadline, server, turn, reader
<1>2. CASE Refuse \/ Accept \/ SpawnKeepalive \/ StopKeepalive \/ Post
    BY <1>2, <1>s, CountsKept DEF Refuse, Accept, SpawnKeepalive, StopKeepalive, Post, Early, turn, reader
<1>3. CASE JoinKeepalive
    BY <1>3, <1>s, CountsKept DEF JoinKeepalive, AfterJoin, turn, reader
<1>4. CASE SendStatus \/ SendReplyStart \/ SendError \/ SendErrorDone
  <2>1. SameCounts
      BY <1>t, <1>4, PlainFrame DEF SendStatus, SendReplyStart, SendOr, SendError, SendErrorDone, SendErrorFrame, reader
  <2>2. handler # "over"
      BY <1>4 DEF SendStatus, SendReplyStart, SendOr, SendError, SendErrorDone, SendErrorFrame
  <2> QED BY <1>4, <2>1, <2>2, SendSucceeds, CountsKept
             DEF SendStatus, SendReplyStart, SendOr, SendError, SendErrorDone, SendErrorFrame, Early, turn, reader
<1>5. CASE SendDone \/ Finish
  <2>1. SameCounts
    <3>1. CASE SendDone
        BY <1>t, <3>1, PlainFrame DEF SendDone, SendOr, reader
    <3>2. CASE Finish
        BY <1>t, <3>2, FrameCounts DEF Finish, SameCounts, IsToken, reader
    <3> QED BY <1>5, <3>1, <3>2
  <2> QED BY <1>5, <2>1, CountsKept DEF SendDone, SendOr, Finish, turn, reader
<1>6. CASE Beat
  <2>1. SameCounts
      BY <1>t, <1>6, PlainFrame DEF Beat, reader
  <2> QED BY <1>6, <2>1, CountsKept DEF Beat, turn, reader
<1>7. CASE LinkDown \/ GiveUp \/ TimeOut \/ Lost
    BY <1>7 DEF LinkDown, GiveUp, TimeOut, Lost, Return
<1>8. CASE ReadHead
    BY <1>8, <1>s, CountsKept DEF ReadHead, Return, server, turn
<1>9. CASE ReadFrame
  <2>1. Head(wire).event # "done"
      BY <1>9 DEF ReadFrame, Return
  <2>2. SameCounts
      BY <1>9, <2>1, ReadCounts
  <2> QED BY <1>9, <2>1, <2>2, CountsKept DEF ReadFrame, server, turn
<1>10. CASE BuildMessages
  <2>1. SameCounts /\ handler = "turn" /\ handler' = "turn" /\ round' = round + 1 /\ live_seq' = 0 /\ spoken' = 0
        /\ seq' = seq /\ round' \in Texts
      BY <1>10, <1>s DEF BuildMessages, Texts, TypeOK, TurnTypes, reader
  <2> QED BY <1>t, <2>1 DEF Counts, Streaming, Answered, Replaying, Complete, SameCounts, Early, Texts
<1>11. CASE RunTools
  <2>1. SameCounts
      BY <1>t, <1>11, PlainFrame DEF RunTools, reader
  <2>2. handler = "turn" /\ handler' = "turn" /\ UNCHANGED <<round, live_seq, spoken, seq>>
      BY <1>11 DEF RunTools
  <2> QED BY <1>t, <2>1, <2>2 DEF Counts, Streaming, Answered, Replaying, Complete, SameCounts, Early
<1>12. CASE Token
  <2>1. /\ wire' = Append(wire, TokenFrame(round)) /\ live_seq' = live_seq + 1 /\ round # 0
        /\ handler = "turn" /\ handler' = "turn" /\ spoken' = spoken + 1 /\ UNCHANGED <<round, seq, got>>
      BY <1>12, SendSucceeds DEF Token, Sent, Unbroken, InRound, Early, reader
  <2>2. TokenFrame(round) \in Frames /\ \A t \in Texts : IsToken(TokenFrame(round), t) <=> t = round
      BY <1>t, KnownFrames DEF TokenFrame, IsToken
  <2>3. wire' # wire
      BY <2>1, <2>2, AppendFrame DEF TypeOK
  <2>4. \A t \in Texts : Arriving(t)' = IF t = round THEN Arriving(t) + 1 ELSE Arriving(t)
      BY <2>1, <2>2, <2>3, FrameCounts
  <2> QED BY <1>t, <2>1, <2>4, ArrivingType DEF Counts, Streaming, Answered, Replaying, Complete, Early
<1>13. CASE FinalReply \/ ComposedReply
  <2>1. PICK text \in Texts, chunks \in 0..MaxChunks :
            /\ Replies(text, chunks)
            /\ \/ text = round /\ (spoken > 0 => chunks = spoken)
               \/ text = 0
    <3>1. CASE FinalReply
      <4>1. \E n \in 0..MaxChunks : Replies(round, n) /\ (spoken > 0 => n = spoken)
          BY <3>1 DEF FinalReply, TypeOK, TurnTypes
      <4> QED BY <1>t, <4>1
    <3>2. CASE ComposedReply
      <4>1. 0 \in Texts /\ \E n \in 1..MaxChunks : Replies(0, n)
          BY <3>2 DEF ComposedReply, Texts
      <4> QED BY <4>1
    <3> QED BY <1>13, <3>1, <3>2
  <2>2. SameCounts /\ handler = "turn" /\ handler' = "stop" /\ outcome' = "reply"
        /\ reply' = [text |-> text, chunks |-> chunks] /\ UNCHANGED <<live_seq, seq>>
      BY <2>1, <1>s DEF Replies, reader
  <2>3. reply'.text = text /\ reply'.chunks = chunks
      BY <2>2
  <2>4. Arriving(text)' = Arriving(text) /\ seq = 0 /\ live_seq = spoken
        /\ (text = 0 => Arriving(text) = 0) /\ (text = round => Arriving(text) = live_seq)
      BY <2>2 DEF Counts, Streaming, SameCounts, Early
  <2>5. live_seq > 0 => Whole'
      BY <1>t, <2>1, <2>2, <2>3, <2>4 DEF Whole
  <2>6. live_seq = 0 => Arriving(text)' = 0
      BY <2>1, <2>4
  <2>7. Answered'
      BY <1>t, <2>2, <2>3, <2>4, <2>5, <2>6 DEF Answered
  <2> QED BY <2>2, <2>7 DEF Counts, Streaming, Replaying, Complete, Early
<1>14. CASE TurnFails
    BY <1>14 DEF TurnFails, Counts, Streaming, Answered, Replaying, Complete, Early
<1>15. CASE SendReply
  <2>1. SameCounts /\ handler = "reply" /\ UNCHANGED <<outcome, reply, live_seq, seq>>
    <3>1. CASE wire' = wire
        BY <1>15, <1>s, <3>1 DEF SendReply, turn, reader
    <3>2. CASE SendOr(Frame("tool_only_summary"), "reply", "done", "finish")
        BY <1>t, <1>15, <3>2, PlainFrame DEF SendReply, SendOr, turn, reader
    <3> QED BY <1>15, <3>1, <3>2 DEF SendReply, turn
  <2>2. outcome = "reply" /\ (Whole' <=> Whole) /\ Arriving(reply.text)' = Arriving(reply.text)
      BY <1>t, <2>1, WholeKept DEF Replied, SameCounts
  <2>3. CASE handler' = "done"
    <3>1. Whole
        BY <1>15, <1>t, <2>1, <2>2, <2>3 DEF SendReply, SendOr, LiveStreamed, Counts, Answered, Whole
    <3> QED BY <2>2, <2>3, <3>1 DEF Counts, Streaming, Answered, Replaying, Complete, Early
  <2>4. CASE handler' = "replay"
    <3>1. Arriving(reply.text) = seq
        BY <1>15, <2>1, <2>2, <2>4 DEF SendReply, SendOr, LiveStreamed, Counts, Answered
    <3> QED BY <2>1, <2>2, <2>4, <3>1 DEF Counts, Streaming, Answered, Replaying, Complete, Early
  <2>5. CASE handler' = "finish"
      BY <2>5 DEF Counts, Streaming, Answered, Replaying, Complete, Early
  <2> QED BY <1>15, <2>3, <2>4, <2>5 DEF SendReply, SendOr
<1>16. CASE ReplayChunk
  <2>1. CASE handler' = "replay"
    <3>1. /\ wire' = Append(wire, TokenFrame(reply.text)) /\ seq' = seq + 1 /\ handler = "replay"
          /\ outcome = "reply" /\ UNCHANGED <<reply, got>>
        BY <1>16, <2>1, SendSucceeds DEF ReplayChunk, SendOr, Sent, Replied, reader
    <3>2. TokenFrame(reply.text) \in Frames /\ IsToken(TokenFrame(reply.text), reply.text)
        BY <1>t, <3>1, KnownFrames DEF TokenFrame, IsToken
    <3>3. wire' # wire
        BY <3>1, <3>2, AppendFrame DEF TypeOK
    <3>4. Arriving(reply.text)' = Arriving(reply.text) + 1
        BY <1>t, <3>1, <3>2, <3>3, FrameCounts
    <3> QED BY <2>1, <3>1, <3>4 DEF Counts, Streaming, Answered, Replaying, Complete, Early
  <2>2. CASE handler' # "replay"
      BY <1>16, <2>2 DEF ReplayChunk, SendOr, Counts, Streaming, Answered, Replaying, Complete, Early
  <2> QED BY <2>1, <2>2
<1>17. CASE ReplayEnds
  <2>1. SameCounts /\ handler = "replay" /\ handler' = "done" /\ seq = reply.chunks /\ outcome = "reply"
        /\ UNCHANGED <<outcome, reply, live_seq>>
      BY <1>17, <1>s DEF ReplayEnds, Replied, turn, reader
  <2>2. Whole
      BY <2>1 DEF Counts, Replaying, Whole
  <2> QED BY <2>1, <2>2, WholeKept DEF Counts, Streaming, Answered, Replaying, Complete, Early
<1> QED BY <1>1, <1>2, <1>3, <1>4, <1>5, <1>6, <1>7, <1>8, <1>9, <1>10, <1>11, <1>12, <1>13, <1>14, <1>15, <1>16,
           <1>17 DEF Next, Handler, Turn, Unwind, Keepalive, Client

LEMMA CountedStep == Types /\ StreamInv /\ Counted /\ [Next]_vars => Counted'
    BY LinkStays, UnbrokenStep, CountsStep DEF Types, Counted

(* A done frame that no error precedes is the end of a whole reply; a request *)
(* that was taken for a success has got it.                                   *)
Good == Whole \/ saw_error
ErrorFirst == handler = "error_done" /\ link = "up" => saw_error \/ HasError(wire)
DoneExplained == Explained(wire, Good)
Returned == result # None => client = "returned"
SuccessEarned == result = "ok" => SuccessHasReply /\ handler \in {"finish", "over"}
SuccessInv == ErrorFirst /\ DoneExplained /\ Returned /\ SuccessEarned

LEMMA ErrorFirstStep == TypeOK /\ StreamInv /\ ErrorFirst /\ [Next]_vars => ErrorFirst'
<1> SUFFICES ASSUME TypeOK, StreamInv, ErrorFirst, [Next]_vars, handler' = "error_done", link' = "up"
             PROVE  saw_error' \/ HasError(wire')
    BY DEF ErrorFirst
<1> USE DEF Proceed
<1>0. link = "up" /\ wire \in Seq(Frames)
    BY LinkStays DEF TypeOK
<1>1. CASE SendError
  <2>1. Frame("error") \in Frames /\ Frame("error").event = "error" /\ wire' = Append(wire, Frame("error"))
      BY <1>0, <1>1, KnownFrames, SendSucceeds DEF Frame, Events, SendError, SendErrorFrame, Sent
  <2> QED BY <1>0, <2>1, AppendKeeps
<1>2. CASE UNCHANGED <<handler, wire, saw_error>>
    BY <1>0, <1>2 DEF ErrorFirst
<1>3. CASE Beat
    BY <1>3 DEF Beat, StreamInv, Inside, KeepaliveInside
<1>4. CASE ReadFrame
  <2>1. /\ handler = "error_done" /\ wire # <<>> /\ wire' = Tail(wire)
        /\ saw_error' = (saw_error \/ Head(wire).event = "error")
      BY <1>4 DEF ReadFrame, Return, server
  <2>2. HasError(wire) => Head(wire).event = "error" \/ HasError(wire')
      BY <1>0, <2>1, TailKeeps
  <2> QED BY <1>0, <2>1, <2>2 DEF ErrorFirst
<1>5. CASE UNCHANGED vars \/ Wake \/ LinkDown \/ Deadline \/ ReadHead \/ GiveUp \/ TimeOut \/ Lost
    BY <1>2, <1>5 DEF vars, Wake, LinkDown, Deadline, ReadHead, GiveUp, TimeOut, Lost, Return, server, reader
<1>6. CASE Refuse \/ Accept \/ SendStatus \/ SpawnKeepalive \/ SendReplyStart \/ Turn \/ Post
    BY <1>6 DEF Refuse, Accept, SendStatus, SpawnKeepalive, SendReplyStart, SendOr, Turn, BuildMessages, Token,
                RunTools, FinalReply, ComposedReply, Replies, TurnFails, Post
<1>7. CASE StopKeepalive \/ JoinKeepalive \/ SendReply \/ ReplayChunk \/ ReplayEnds \/ SendDone \/ SendErrorDone
           \/ Finish
    BY <1>7 DEF StopKeepalive, JoinKeepalive, AfterJoin, SendReply, ReplayChunk, ReplayEnds, SendDone, SendErrorDone,
                SendErrorFrame, Finish, SendOr
<1> QED BY <1>1, <1>3, <1>4, <1>5, <1>6, <1>7 DEF Next, Handler, Unwind, Keepalive, Client

(* A request counts as a success when it reads a done frame and has seen no   *)
(* error.                                                                     *)
LEMMA ResultSteps ==
    [Next]_vars => \/ UNCHANGED <<client, result>>
                   \/ client \in {"idle", "waiting"} /\ client' \in {"waiting", "reading"} /\ result' = result
                   \/ \E r \in Reasons : Return(r) /\ (r = "ok" => ReadFrame /\ Head(wire).event = "done" /\ ~saw_error)
<1> USE DEF reader, server
<1>1. CASE ReadHead \/ ReadFrame
    BY <1>1 DEF ReadHead, ReadFrame, Reasons
<1>2. CASE GiveUp \/ TimeOut \/ Lost
    BY <1>2 DEF GiveUp, TimeOut, Lost, Reasons
<1>3. CASE UNCHANGED vars \/ Keepalive \/ LinkDown \/ Deadline \/ Post
    BY <1>3 DEF vars, Keepalive, Wake, Beat, LinkDown, Deadline, Post
<1>4. CASE Handler
    BY <1>4 DEF Handler, Turn, Unwind, Refuse, Accept, SendStatus, SpawnKeepalive, SendReplyStart, BuildMessages,
                Token, RunTools, FinalReply, ComposedReply, Replies, TurnFails, StopKeepalive, JoinKeepalive,
                SendReply, ReplayChunk, ReplayEnds, SendDone, SendError, SendErrorDone, SendErrorFrame, Finish
<1> QED BY <1>1, <1>2, <1>3, <1>4 DEF Next, Client

LEMMA ReturnedStep == Returned /\ [Next]_vars => Returned'
    BY ResultSteps DEF Returned, Return

(* Before the handler finishes there is no done frame.                        *)
LEMMA NotYet ==
    ASSUME TypeOK, StreamInv, StreamInv', SuccessEarned, [Next]_vars, handler \notin {"finish", "over"},
           handler' \notin {"finish", "over"}
    PROVE  DoneExplained' /\ SuccessEarned'
<1>1. Quiet(wire) /\ Quiet(wire')
    BY DEF StreamInv, QuietBefore
<1>2. DoneExplained'
    BY <1>1 DEF DoneExplained, Explained, Quiet
<1>3. result' # "ok"
  <2>1. result # "ok"
      BY DEF SuccessEarned
  <2>2. ReadFrame => Head(wire).event # "done"
      BY <1>1, HeadTailProperties, LenProperties, EmptySeq DEF ReadFrame, Quiet, TypeOK
  <2> QED BY <2>1, <2>2, ResultSteps DEF Return
<1> QED BY <1>2, <1>3 DEF SuccessEarned

(* The step after which the handler only has to finish.                       *)
LEMMA FinishSteps ==
    ASSUME [Next]_vars, handler \notin {"finish", "over"}, handler' \in {"finish", "over"}
    PROVE  /\ UNCHANGED <<outcome, reply, live_seq, saw_error, got, result>>
           /\ \/ wire' = wire
              \/ (SendDone \/ SendErrorDone) /\ Sent(Frame("done")) /\ link = "up" /\ wire' = Append(wire, Frame("done"))
<1> USE DEF Proceed, turn, reader, server
<1>1. CASE SendDone \/ SendErrorDone
    BY <1>1 DEF SendDone, SendErrorDone, SendErrorFrame, SendOr, Sent, Unsent
<1>2. CASE Refuse \/ Accept \/ SendStatus \/ SpawnKeepalive \/ SendReplyStart \/ Turn \/ Post
    BY <1>2 DEF Refuse, Accept, SendStatus, SpawnKeepalive, SendReplyStart, SendOr, Unsent, Turn, BuildMessages, Token,
                RunTools, FinalReply, ComposedReply, Replies, TurnFails, Post
<1>3. CASE StopKeepalive \/ JoinKeepalive \/ SendReply \/ ReplayChunk \/ ReplayEnds \/ SendError \/ Finish
    BY <1>3 DEF StopKeepalive, JoinKeepalive, AfterJoin, SendReply, ReplayChunk, ReplayEnds, SendError, SendErrorFrame,
                Finish, SendOr, Unsent
<1>4. CASE UNCHANGED vars \/ Keepalive \/ LinkDown \/ Deadline \/ Client
    BY <1>4 DEF vars, Keepalive, Wake, Beat, LinkDown, Deadline, Client, ReadHead, ReadFrame, GiveUp, TimeOut, Lost,
                Return
<1> QED BY <1>1, <1>2, <1>3, <1>4 DEF Next, Handler, Unwind

LEMMA AtTheEnd ==
    ASSUME Types, StreamInv, Counted, SuccessInv, [Next]_vars, handler \notin {"finish", "over"},
           handler' \in {"finish", "over"}
    PROVE  DoneExplained' /\ SuccessEarned'
<1>1. /\ UNCHANGED <<outcome, reply, live_seq, saw_error, got, result>> /\ wire \in Seq(Frames) /\ Quiet(wire)
      /\ result # "ok"
    BY FinishSteps DEF Types, TypeOK, StreamInv, QuietBefore, SuccessInv, SuccessEarned
<1>2. CASE wire' = wire
    BY <1>1, <1>2 DEF DoneExplained, SuccessEarned, Explained, Quiet
<1>3. CASE (SendDone \/ SendErrorDone) /\ link = "up" /\ wire' = Append(wire, Frame("done"))
  <2>1. Frame("done") \in Frames /\ Frame("done").event = "done"
      BY KnownFrames DEF Frame, Events
  <2>2. Good \/ HasError(wire)
      BY <1>3 DEF SendDone, SendErrorDone, SendErrorFrame, SendOr, Proceed, SuccessInv, ErrorFirst, Good, Counted,
                  Counts, Complete
  <2>3. SameCounts
      BY <1>1, <1>3, <2>1, FrameCounts DEF Types, SameCounts, IsToken
  <2>4. Good \in BOOLEAN /\ (Good' <=> Good)
      BY <1>1, <2>3, WholeKept DEF Types, Good
  <2>5. Explained(wire', Good)
      BY <1>1, <1>3, <2>1, <2>2, <2>4, AppendKeeps DEF SuccessInv, DoneExplained
  <2> QED BY <1>1, <2>4, <2>5 DEF DoneExplained, SuccessEarned, Explained
<1> QED BY <1>2, <1>3, FinishSteps

(* The steps after that: the last chunk is sent, the connection breaks, and   *)
(* the client reads.                                                          *)
LEMMA TailSteps ==
    ASSUME StreamInv, [Next]_vars, handler \in {"finish", "over"}
    PROVE  /\ handler' \in {"finish", "over"} /\ UNCHANGED turn
           /\ \/ UNCHANGED <<wire, saw_error, got, result>>
              \/ wire' = Append(wire, Frame("end")) /\ UNCHANGED <<saw_error, got, result>>
              \/ LinkDown
              \/ \E r \in Reasons : Return(r) /\ (r = "ok" => ReadFrame /\ Head(wire).event = "done" /\ ~saw_error)
              \/ ReadFrame /\ Head(wire).event # "done"
<1> USE DEF Proceed, reader, server
<1>1. CASE Finish
    BY <1>1 DEF Finish
<1>2. CASE Beat
    BY <1>2 DEF Beat, StreamInv, Inside, KeepaliveInside
<1>3. CASE Client
  <2>1. UNCHANGED <<handler, turn>>
      BY <1>3 DEF Client, ReadHead, ReadFrame, GiveUp, TimeOut, Lost, Return
  <2> QED BY <1>3, <2>1, ResultSteps DEF Client, ReadHead, ReadFrame, GiveUp, TimeOut, Lost, Return, Reasons
<1>4. CASE UNCHANGED vars \/ Wake \/ LinkDown \/ Deadline
    BY <1>4 DEF vars, Wake, LinkDown, Deadline
<1>5. CASE Refuse \/ Accept \/ SendStatus \/ SpawnKeepalive \/ SendReplyStart \/ Turn \/ Post
    BY <1>5 DEF Refuse, Accept, SendStatus, SpawnKeepalive, SendReplyStart, SendOr, Turn, BuildMessages, Token,
                RunTools, FinalReply, ComposedReply, Replies, TurnFails, Post
<1>6. CASE StopKeepalive \/ JoinKeepalive \/ SendReply \/ ReplayChunk \/ ReplayEnds \/ SendDone \/ SendError
           \/ SendErrorDone
    BY <1>6 DEF StopKeepalive, JoinKeepalive, SendReply, ReplayChunk, ReplayEnds, SendDone, SendError, SendErrorDone,
                SendErrorFrame, SendOr
<1> QED BY <1>1, <1>2, <1>3, <1>4, <1>5, <1>6 DEF Next, Handler, Unwind, Keepalive

LEMMA AfterTheEnd ==
    ASSUME Types, StreamInv, SuccessInv, [Next]_vars, handler \in {"finish", "over"}
    PROVE  DoneExplained' /\ SuccessEarned'
<1>0. /\ wire \in Seq(Frames) /\ Ordered(wire) /\ Explained(wire, Good) /\ Good \in BOOLEAN
      /\ handler' \in {"finish", "over"} /\ UNCHANGED turn
    BY TailSteps DEF Types, TypeOK, StreamInv, SuccessInv, DoneExplained, Good
<1>k. ASSUME SameCounts, saw_error => saw_error' PROVE Good => Good'
    BY <1>0, <1>k, WholeKept DEF Types, Good, turn
<1>s. ASSUME UNCHANGED <<got, result>> PROVE SuccessEarned'
    BY <1>0, <1>s DEF SuccessInv, SuccessEarned, SuccessHasReply, turn
<1>1. CASE UNCHANGED <<wire, saw_error, got, result>>
  <2>1. SameCounts
      BY <1>1 DEF SameCounts, Arriving
  <2> QED BY <1>0, <1>1, <1>k, <1>s, <2>1 DEF DoneExplained, Explained
<1>2. CASE wire' = Append(wire, Frame("end")) /\ UNCHANGED <<saw_error, got, result>>
  <2>1. Frame("end") \in Frames /\ Frame("end").event = "end"
      BY KnownFrames DEF Frame, Events
  <2>2. SameCounts
      BY <1>2, <2>1, FrameCounts DEF Types, SameCounts, IsToken
  <2>3. Explained(wire', Good)
      BY <1>0, <1>2, <2>1, AppendKeeps
  <2> QED BY <1>2, <1>k, <1>s, <2>2, <2>3 DEF DoneExplained, Explained
<1>3. CASE LinkDown
  <2>1. PICK n \in 0..Len(wire) : wire' = SubSeq(wire, 1, n)
      BY <1>3 DEF LinkDown
  <2>2. UNCHANGED <<saw_error, got, result>>
      BY <1>3 DEF LinkDown, reader
  <2>3. Explained(wire', Good)
      BY <1>0, <2>1, PrefixKeeps
  <2>4. /\ Len(wire) \in Nat /\ n \in Nat /\ Len(wire') = n
        /\ \A i \in 1..n : wire'[i] = wire[i]
      BY <1>0, <2>1, SubSeqProperties, LenProperties
  <2>5. ASSUME NEW k \in 1..n, wire[k].event = "done" PROVE SameCounts
    <3>1. \A t \in Texts : Count(wire', t) = Count(wire, t)
        BY <1>0, <2>1, <2>5, CountPrefix
    <3> QED BY <2>2, <3>1 DEF SameCounts, Arriving
  <2>6. DoneExplained'
    <3> SUFFICES ASSUME NEW i \in 1..n, wire'[i].event = "done"
                 PROVE  Good' \/ \E j \in 1..(i - 1) : wire'[j].event = "error"
        BY <2>4 DEF DoneExplained, Explained
    <3>1. Good => Good'
        BY <1>k, <2>2, <2>4, <2>5
    <3> QED BY <2>3, <2>4, <3>1 DEF Explained
  <2> QED BY <1>s, <2>2, <2>6
<1>4. ASSUME NEW r \in Reasons, Return(r), r = "ok" => ReadFrame /\ Head(wire).event = "done" /\ ~saw_error
      PROVE  DoneExplained' /\ SuccessEarned'
  <2>1. DoneExplained'
      BY <1>4, EmptyStream DEF Return, DoneExplained, Explained, Quiet
  <2>2. CASE r # "ok"
      BY <1>4, <2>1, <2>2 DEF Return, SuccessEarned
  <2>3. CASE r = "ok"
    <3>1. wire # <<>> /\ Len(wire) \in Nat \ {0} /\ Head(wire) = wire[1] /\ Head(wire).event = "done" /\ ~saw_error
        BY <1>0, <1>4, <2>3, EmptySeq, LenProperties, HeadTailProperties DEF ReadFrame
    <3>2. Whole
        BY <1>0, <3>1 DEF Explained, Good
    <3>3. reply.text \in Texts /\ got[reply.text] \in Nat /\ Count(wire, reply.text) = 0
        BY <1>0, <3>1, <3>2, CountDone DEF Types, Replied, Whole, TypeOK, ReaderTypes
    <3>4. SuccessHasReply'
        BY <1>0, <1>4, <3>2, <3>3 DEF Whole, Arriving, SuccessHasReply, Return, turn
    <3> QED BY <1>0, <2>1, <3>4 DEF SuccessEarned
  <2> QED BY <2>1, <2>2, <2>3
<1>5. CASE ReadFrame /\ Head(wire).event # "done"
  <2>1. /\ wire # <<>> /\ wire' = Tail(wire) /\ result' = result /\ client = "reading"
        /\ saw_error' = (saw_error \/ Head(wire).event = "error")
      BY <1>5 DEF ReadFrame
  <2>2. SameCounts
      BY <1>5, ReadCounts DEF Types
  <2>3. Explained(wire', Good \/ Head(wire).event = "error")
      BY <1>0, <2>1, TailKeeps
  <2>4. Good \/ Head(wire).event = "error" => Good'
      BY <1>k, <2>1, <2>2 DEF Good
  <2>5. result' # "ok"
      BY <2>1, NoneAssumption DEF SuccessInv, Returned, Reasons
  <2> QED BY <2>3, <2>4, <2>5 DEF DoneExplained, Explained, SuccessEarned
<1> QED BY <1>1, <1>2, <1>3, <1>4, <1>5, TailSteps

LEMMA SuccessStep == Types /\ StreamInv /\ StreamInv' /\ Counted /\ SuccessInv /\ [Next]_vars => SuccessInv'
    BY ErrorFirstStep, ReturnedStep, NotYet, AtTheEnd, AfterTheEnd DEF Types, SuccessInv

(* A request counts as a success only if its turn replied and every chunk of  *)
(* the reply was delivered, except where the code does not send a reply that  *)
(* was composed after a preamble was streamed: for any number of rounds and   *)
(* chunks, any loss of the connection and any keepalive frames in between.    *)
THEOREM SuccessBringsReply == Spec => []SuccessHasReply
<1>1. Init => Counted /\ SuccessInv
  <2> SUFFICES ASSUME Init PROVE Counted /\ SuccessInv
      OBVIOUS
  <2>1. \A t \in Texts : Arriving(t) = 0
      BY CountEmpty DEF Init, Arriving
  <2>2. Counted
      BY <2>1, NoneAssumption DEF Init, Counted, Unbroken, NoReply, InRound, Counts, Streaming, Answered, Replaying,
                                  Complete, Early, Texts
  <2>3. Quiet(wire)
      BY EmptyStream DEF Init
  <2> QED BY <2>2, <2>3, NoneAssumption
             DEF Init, SuccessInv, ErrorFirst, DoneExplained, Returned, SuccessEarned, Reasons, Explained, Quiet
<1>2. Types /\ StreamInv /\ StreamInv' /\ Counted /\ SuccessInv /\ [Next]_vars => (Counted /\ SuccessInv)'
    BY CountedStep, SuccessStep
<1>3. SuccessInv => SuccessHasReply
    BY DEF SuccessInv, SuccessEarned, SuccessHasReply
<1> QED BY <1>1, <1>2, <1>3, TypedStream, PTL DEF Spec
=============================================================================
