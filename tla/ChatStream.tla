------------------------------ MODULE ChatStream ------------------------------
(* One POST to /api/v1/chat/stream: the handler that runs the agent's turn    *)
(* and streams it (handleApiChatStreamSseConnection, src/src/gateway.zig),    *)
(* the keepalive thread it starts, the connection between them and the        *)
(* script that reads it (run_one in src/scripts/load-burst.py).               *)
(*                                                                            *)
(* A frame is sent under the stream's mutex, so a send is one step.  The      *)
(* sockets have no send timeout: a send fails only on a connection that is    *)
(* down, and may seem to succeed there, its bytes lost.                       *)
EXTENDS Naturals, Sequences

CONSTANTS
    MaxRounds, \* bound of the provider rounds of the turn
    MaxChunks, \* bound of the token frames of one round, or of a replayed reply
    MaxBeats,  \* bound of the keepalive frames
    None

ASSUME BoundsAssumption == MaxRounds \in Nat /\ MaxChunks \in Nat /\ MaxBeats \in Nat

VARIABLES
    handler,   \* where the handler stands
    outcome,   \* the turn's outcome: None, "reply" or "failed"
    reply,     \* what it replies: which text, and in how many chunks
    round,     \* the provider round in progress, 0 before the first
    speaking,  \* the round is still being streamed (else its tools run)
    spoken,    \* chunks the provider streamed in this round
    live_seq,  \* chunks of this round the callback has numbered
    client_gone, \* a send of the callback failed: it drops the rest
    seq,       \* chunks replayed
    keepalive, \* "none", "asleep", "about" (to send) or "exited"
    stop_flag,
    beats,
    closed,    \* nothing may be sent any more
    link,      \* the connection: "up" or "down"
    head,      \* the status line on its way: None, "ok" or "refused"
    wire,      \* frames on their way to the client
    client,    \* "idle", "waiting" (for the status), "reading" or "returned"
    saw_error,
    got,       \* per text: how many of its token frames were read
    late,      \* more than timeout_secs since the request was made
    result     \* the reason of its RequestResult, None before

turn == <<outcome, reply, round, speaking, spoken, live_seq, client_gone, seq>>
beating == <<keepalive, stop_flag, beats>>
reader == <<client, saw_error, got, late, result>>
vars == <<handler, turn, beating, closed, link, head, wire, reader>>

(* The text of a frame: the round that streamed it, or 0 for a reply composed *)
(* outside the provider's stream.                                             *)
Texts == 0..MaxRounds
Events == {"status", "reply_start", "progress", "token", "tool_only_summary", "error", "done", "end"}
Frames == [event : Events, text : Texts]
Frame(event) == [event |-> event, text |-> 0]
TokenFrame(text) == [event |-> "token", text |-> text]

HandlerSteps == {"idle", "arriving", "status", "spawn", "reply_start", "turn", "stop", "join", "reply",
                 "replay", "done", "error", "error_done", "finish", "over"}
Reasons == {"ok", "sse_error_done", "stream_no_done", "stream_timeout", "http_error", "timeout",
            "url_error", "exception"}

ASSUME NoneAssumption == None \notin Reasons \cup {"reply", "failed", "refused", "up", "down"}

Init ==
    /\ handler = "idle" /\ outcome = None /\ reply = None
    /\ round = 0 /\ speaking = FALSE /\ spoken = 0 /\ live_seq = 0 /\ client_gone = FALSE /\ seq = 0
    /\ keepalive = "none" /\ stop_flag = FALSE /\ beats = 0
    /\ closed = FALSE /\ link = "up" /\ head = None /\ wire = <<>>
    /\ client = "idle" /\ saw_error = FALSE /\ got = [t \in Texts |-> 0] /\ late = FALSE /\ result = None

-----------------------------------------------------------------------------
(* Sending: LockedSseStream.sendFrame either hands the frame over or fails.   *)

Sent(frame) ==
    /\ ~closed
    /\ wire' = IF link = "up" THEN Append(wire, frame) ELSE wire
Unsent == (closed \/ link = "down") /\ wire' = wire

Proceed(from, to) == handler = from /\ handler' = to

(* Deferred calls run when the handler returns early: keepalive first (once   *)
(* it exists), finish() last.                                                 *)
SendOr(frame, from, sent, failed) ==
    \/ Proceed(from, sent) /\ Sent(frame)
    \/ Proceed(from, failed) /\ Unsent

-----------------------------------------------------------------------------
(* The handler.                                                               *)

(* Every check before the stream: its answer is an HTTP error, whose body the *)
(* client's library does not let it read as a stream.                         *)
Refuse ==
    /\ Proceed("arriving", "over")
    /\ head' = IF link = "up" THEN "refused" ELSE head
    /\ UNCHANGED <<turn, beating, closed, link, wire, reader>>

(* chat_stream_total is counted, then the header is sent; if that fails the   *)
(* handler returns before finish() is deferred.                               *)
Accept ==
    /\ \/ Proceed("arriving", "status") /\ head' = IF link = "up" THEN "ok" ELSE head
       \/ Proceed("arriving", "over") /\ link = "down" /\ head' = head
    /\ UNCHANGED <<turn, beating, closed, link, wire, reader>>

SendStatus ==
    /\ SendOr(Frame("status"), "status", "spawn", "finish")
    /\ UNCHANGED <<turn, beating, closed, link, head, reader>>

SpawnKeepalive ==
    /\ Proceed("spawn", "reply_start")
    /\ keepalive' \in {"asleep", "none"}
    /\ UNCHANGED <<turn, stop_flag, beats, closed, link, head, wire, reader>>

SendReplyStart ==
    /\ SendOr(Frame("reply_start"), "reply_start", "turn", "stop")
    /\ UNCHANGED <<turn, beating, closed, link, head, reader>>

(* The turn.  The agent's loop announces every round with                     *)
(* build_provider_messages, on which the live counter is reset.               *)
MutantBuildMessages ==                              \* the counter is not reset
    /\ handler = "turn" /\ ~speaking /\ round < MaxRounds
    /\ round' = round + 1
    /\ speaking' = TRUE
    /\ spoken' = 0
    /\ UNCHANGED <<handler, outcome, reply, live_seq, client_gone, seq, beating, closed, link, head, wire, reader>>
BuildMessages ==
    /\ handler = "turn" /\ ~speaking /\ round < MaxRounds
    /\ round' = round + 1
    /\ speaking' = TRUE
    /\ spoken' = 0
    /\ live_seq' = 0
    /\ UNCHANGED <<handler, outcome, reply, client_gone, seq, beating, closed, link, head, wire, reader>>

(* liveStreamCallback: through the paced sink, whose write notes a failure    *)
(* and lets the frame be numbered all the same.                               *)
Token ==
    /\ handler = "turn" /\ speaking /\ spoken < MaxChunks
    /\ spoken' = spoken + 1
    /\ \/ client_gone /\ UNCHANGED <<client_gone, live_seq, wire>>
       \/ /\ ~client_gone
          /\ live_seq' = live_seq + 1
          /\ \/ Sent(TokenFrame(round)) /\ client_gone' = client_gone
             \/ Unsent /\ client_gone' = TRUE
    /\ UNCHANGED <<handler, outcome, reply, round, speaking, seq, beating, closed, link, head, reader>>

(* The round ends with tool calls: the tools run and report their progress,   *)
(* through the same sink.                                                     *)
RunTools ==
    /\ handler = "turn" /\ speaking
    /\ speaking' = FALSE
    /\ \/ Sent(Frame("progress")) /\ client_gone' = client_gone
       \/ Unsent /\ client_gone' = TRUE
    /\ UNCHANGED <<handler, outcome, reply, round, spoken, live_seq, seq, beating, closed, link, head, reader>>

Replies(text, chunks) ==
    /\ Proceed("turn", "stop")
    /\ outcome' = "reply"
    /\ reply' = [text |-> text, chunks |-> chunks]
    /\ UNCHANGED <<round, speaking, spoken, live_seq, client_gone, seq, beating, closed, link, head, wire, reader>>

(* The reply is what the round has streamed; a provider that does not stream  *)
(* brings it at once, and an empty one means the turn was tools only.         *)
FinalReply ==
    /\ speaking
    /\ IF spoken > 0 THEN Replies(round, spoken) ELSE \E n \in 0..MaxChunks : Replies(round, n)

(* The reply is composed outside the provider's stream: a slash command's     *)
(* answer, "[Cancelled]" at the head of the loop, the summary after a loop    *)
(* was detected or the iterations were used up.                               *)
ComposedReply == ~speaking /\ \E n \in 1..MaxChunks : Replies(0, n)

TurnFails ==
    /\ Proceed("turn", "stop")
    /\ outcome' = "failed"
    /\ UNCHANGED <<reply, round, speaking, spoken, live_seq, client_gone, seq, beating, closed, link, head, wire,
                   reader>>

StopKeepalive ==
    /\ Proceed("stop", "join")
    /\ stop_flag' = TRUE
    /\ UNCHANGED <<turn, keepalive, beats, closed, link, head, wire, reader>>

AfterJoin == CASE outcome = "reply" -> "reply" [] outcome = "failed" -> "error" [] OTHER -> "finish"
MutantJoinKeepalive ==                              \* the thread is not joined
    /\ Proceed("join", AfterJoin)
    /\ UNCHANGED <<turn, beating, closed, link, head, wire, reader>>
JoinKeepalive ==
    /\ keepalive \in {"none", "exited"}
    /\ Proceed("join", AfterJoin)
    /\ UNCHANGED <<turn, beating, closed, link, head, wire, reader>>

(* A reply that was streamed is not sent again.                               *)
LiveStreamed == live_seq > 0
SendReply ==
    /\ handler = "reply"
    /\ \/ reply.chunks = 0 /\ SendOr(Frame("tool_only_summary"), "reply", "done", "finish")
       \/ reply.chunks > 0 /\ LiveStreamed /\ Proceed("reply", "done") /\ wire' = wire
       \/ reply.chunks > 0 /\ ~LiveStreamed /\ Proceed("reply", "replay") /\ wire' = wire
    /\ UNCHANGED <<turn, beating, closed, link, head, reader>>

ReplayChunk ==
    /\ handler = "replay" /\ seq < reply.chunks
    /\ \/ SendOr(TokenFrame(reply.text), "replay", "replay", "finish") /\ seq' = seq + 1
       \/ Proceed("replay", "error") /\ UNCHANGED <<seq, wire>>     \* stream_encode_failed
    /\ UNCHANGED <<outcome, reply, round, speaking, spoken, live_seq, client_gone, beating, closed, link, head,
                   reader>>
ReplayEnds ==
    /\ handler = "replay" /\ seq = reply.chunks
    /\ Proceed("replay", "done")
    /\ UNCHANGED <<turn, beating, closed, link, head, wire, reader>>

SendDone ==
    /\ SendOr(Frame("done"), "done", "finish", "error")             \* stream_done_failed
    /\ UNCHANGED <<turn, beating, closed, link, head, reader>>

(* sendLockedSseErrorFrames: error, done, end; the first that fails closes    *)
(* the stream.                                                                *)
SendErrorFrame(frame, from, to) ==
    /\ \/ Proceed(from, to) /\ Sent(frame) /\ closed' = closed
       \/ Proceed(from, "finish") /\ Unsent /\ closed' = TRUE
    /\ UNCHANGED <<turn, beating, link, head, reader>>
SendError == SendErrorFrame(Frame("error"), "error", "error_done")
MutantSendErrorDone == SendErrorFrame(Frame("done"), "error_done", "over")  \* finish() is forgotten
SendErrorDone == SendErrorFrame(Frame("done"), "error_done", "finish")

(* finish(), explicit or deferred: the terminating chunk, once.               *)
Finish ==
    /\ Proceed("finish", "over")
    /\ wire' = IF closed \/ link = "down" THEN wire ELSE Append(wire, Frame("end"))
    /\ closed' = TRUE
    /\ UNCHANGED <<turn, beating, link, head, reader>>

(* What happens whatever the turn does; the turn itself may hang.             *)
Unwind == \/ StopKeepalive \/ JoinKeepalive \/ SendReply \/ ReplayChunk \/ ReplayEnds \/ SendDone
          \/ SendError \/ SendErrorDone \/ Finish
Turn == BuildMessages \/ Token \/ RunTools \/ FinalReply \/ ComposedReply \/ TurnFails
Handler == Refuse \/ Accept \/ SendStatus \/ SpawnKeepalive \/ SendReplyStart \/ Turn \/ Unwind

-----------------------------------------------------------------------------
(* The keepalive thread: it asks whether to stop before it sends, and may be  *)
(* told to stop in between.                                                   *)

Wake ==
    /\ keepalive = "asleep"
    /\ \/ stop_flag /\ keepalive' = "exited"
       \/ ~stop_flag /\ beats < MaxBeats /\ keepalive' = "about"
    /\ UNCHANGED <<handler, turn, stop_flag, beats, closed, link, head, wire, reader>>

MutantBeat ==                                       \* a failed send is retried for ever
    /\ keepalive = "about"
    /\ \/ /\ link = "up" /\ Sent(Frame("progress"))
          /\ keepalive' = "asleep" /\ beats' = beats + 1 /\ UNCHANGED <<stop_flag, closed>>
       \/ Unsent /\ UNCHANGED <<keepalive, beats, stop_flag, closed>>
    /\ UNCHANGED <<handler, turn, link, head, reader>>
Beat ==
    /\ keepalive = "about"
    /\ \/ Sent(Frame("progress")) /\ keepalive' = "asleep" /\ beats' = beats + 1 /\ UNCHANGED <<stop_flag, closed>>
       \/ Unsent /\ keepalive' = "exited" /\ closed' = TRUE /\ stop_flag' = TRUE /\ beats' = beats
    /\ UNCHANGED <<handler, turn, link, head, reader>>

Keepalive == Wake \/ Beat

-----------------------------------------------------------------------------
(* The connection and the client.                                             *)

server == <<handler, turn, beating, closed>>

(* The connection breaks: of what was under way only a prefix arrives.        *)
LinkDown ==
    /\ client \in {"waiting", "reading"} /\ link = "up"
    /\ link' = "down"
    /\ \E n \in 0..Len(wire) : wire' = SubSeq(wire, 1, n)
    /\ head' \in (IF client = "waiting" /\ wire' = <<>> THEN {head, None} ELSE {head})
    /\ UNCHANGED <<server, reader>>

Deadline ==
    /\ client \in {"waiting", "reading"} /\ ~late
    /\ late' = TRUE
    /\ UNCHANGED <<server, link, head, wire, client, saw_error, got, result>>

Post ==
    /\ client = "idle" /\ client' = "waiting"
    /\ Proceed("idle", "arriving")
    /\ UNCHANGED <<turn, beating, closed, link, head, wire, saw_error, got, late, result>>

(* Leaving the with block closes the connection.                              *)
Return(reason) ==
    /\ client' = "returned"
    /\ result' = reason
    /\ link' = "down"
    /\ wire' = <<>>
    /\ UNCHANGED <<server, head, saw_error, got, late>>

ReadHead ==
    /\ client = "waiting" /\ head # None
    /\ \/ head = "refused" /\ Return("http_error")
       \/ head = "ok" /\ client' = "reading" /\ UNCHANGED <<server, link, head, wire, saw_error, got, late, result>>

(* One frame of the stream: every line that arrives is held against the       *)
(* deadline, the empty line at the end of a frame dispatches it.  The end is  *)
(* not read: the frame before it is done, on which the client leaves.         *)
Overdue == late
ReadFrame ==
    /\ client = "reading" /\ wire # <<>> /\ Head(wire).event # "end" /\ ~Overdue
    /\ LET frame == Head(wire)
       IN \/ frame.event = "done" /\ Return(IF saw_error THEN "sse_error_done" ELSE "ok")
          \/ /\ frame.event # "done"
             /\ saw_error' = (saw_error \/ frame.event = "error")
             /\ got' = IF frame.event = "token" THEN [got EXCEPT ![frame.text] = @ + 1] ELSE got
             /\ wire' = Tail(wire)
             /\ UNCHANGED <<server, link, head, client, late, result>>

(* A stream that goes on past the deadline is given up at its next line; one  *)
(* that falls silent, by the socket's own timeout.                            *)
GiveUp == client = "reading" /\ wire # <<>> /\ Head(wire).event # "end" /\ Overdue /\ Return("stream_timeout")
MutantTimeOut ==                                    \* no timeout once the head was read
    client = "waiting" /\ head = None /\ late /\ \E r \in {"timeout", "url_error"} : Return(r)
TimeOut ==
    \/ client = "waiting" /\ head = None /\ late /\ \E r \in {"timeout", "url_error"} : Return(r)
    \/ client = "reading" /\ wire = <<>> /\ late /\ Return("timeout")

(* The connection is found broken.                                            *)
Lost ==
    /\ link = "down"
    /\ \/ client = "waiting" /\ head = None /\ \E r \in {"url_error", "exception"} : Return(r)
       \/ client = "reading" /\ wire = <<>> /\ \E r \in {"exception", "stream_no_done"} : Return(r)

Client == ReadHead \/ ReadFrame \/ GiveUp \/ TimeOut \/ Lost

(* Once the client has returned and the handler is through, nothing is left   *)
(* to happen.                                                                 *)
Next == Handler \/ Keepalive \/ LinkDown \/ Deadline \/ Post \/ Client

Spec == Init /\ [][Next]_vars

(* Threads that can run do; time passes; the turn is free to hang.            *)
Fairness == WF_vars(Unwind) /\ WF_vars(Keepalive) /\ WF_vars(Deadline) /\ WF_vars(Client) /\ WF_vars(Post)
FairSpec == Spec /\ Fairness

-----------------------------------------------------------------------------
TurnTypes ==
    /\ outcome \in {None, "reply", "failed"}
    /\ reply \in {None} \cup [text : Texts, chunks : 0..MaxChunks]
    /\ round \in 0..MaxRounds
    /\ spoken \in 0..MaxChunks /\ live_seq \in 0..MaxChunks /\ seq \in 0..MaxChunks
FlagTypes == {speaking, client_gone, stop_flag, closed, saw_error, late} \subseteq BOOLEAN
ReaderTypes ==
    /\ client \in {"idle", "waiting", "reading", "returned"}
    /\ got \in [Texts -> Nat]
    /\ result \in {None} \cup Reasons

(* Every variable of the exchange keeps its type; the wire is of known frames.*)
TypeOK ==
    /\ handler \in HandlerSteps
    /\ keepalive \in {"none", "asleep", "about", "exited"} /\ beats \in 0..MaxBeats
    /\ link \in {"up", "down"} /\ head \in {None, "ok", "refused"}
    /\ wire \in Seq(Frames)
    /\ TurnTypes /\ ReaderTypes /\ FlagTypes

(* The keepalive thread uses the handler's stack: when the handler has        *)
(* returned, by whichever of its ways, the thread is no longer running.       *)
KeepaliveJoined == handler = "over" => keepalive \notin {"asleep", "about"}

(* A stream ends once: after done, and after the terminating chunk, nothing   *)
(* is sent, a keepalive frame included, the chunk comes after a done, and a   *)
(* handler that answered 200 and has returned leaves a terminated stream to a *)
(* client still connected ("guarantee chunked-transfer termination on EVERY   *)
(* exit path").                                                               *)
StreamEndsOnce ==
    /\ \A i \in 1..Len(wire) :
          /\ wire[i].event = "done" => \A j \in (i + 1)..Len(wire) : wire[j].event = "end"
          /\ wire[i].event = "end" => i = Len(wire) /\ i > 1 /\ wire[i - 1].event = "done"
    /\ handler = "over" /\ head = "ok" /\ link = "up" => wire # <<>> /\ wire[Len(wire)].event = "end"

(* "tokens already delivered": a request that counts as a success brought all *)
(* chunks of its reply to the client ...                                      *)
OkHasReply == result = "ok" => got[reply.text] = reply.chunks

(* ... except that a reply composed outside the provider's stream is not sent *)
(* when the round before it had streamed a preamble.  A turn that failed is   *)
(* never a success.                                                           *)
SuccessHasReply ==
    result = "ok" =>
        /\ outcome = "reply"
        /\ (reply.text = 0 /\ live_seq > 0) \/ got[reply.text] = reply.chunks

(* The script gets a result for every request, though the turn may hang, the  *)
(* connection may break and the server may fall silent.                       *)
RequestReturns == (client = "waiting") ~> (client = "returned")

(* The join does not wait for ever, whatever the keepalive thread was doing   *)
(* when it was told to stop.                                                  *)
HandlerUnwinds == (handler = "stop") ~> (handler = "over")
=============================================================================
