------------------------- MODULE OperatorScriptsProofs -------------------------
(* Proofs about the operator's scripts, for every scenario, command line and  *)
(* traffic: what each of them concludes is true of the gateway it looked at.  *)
EXTENDS OperatorScripts, InboundIdentityProofs, Sequences, FiniteSetTheorems, WellFoundedInduction, TLAPS

(* A step of the scripts is one of the script that runs; the others stay.     *)
LEMMA StepOfOne ==
    ASSUME [ScriptsNext]_<<script, canary, burst, tool_probe>>
    PROVE  [ToolProbe!Next]_tool_probe /\ [Burst!Next]_burst /\ [Next]_vars
BY DEF ScriptsNext, tool_probe, burst, canary

-----------------------------------------------------------------------------
(* The probe of the tool surface.                                             *)

ProbeRow == [ok : BOOLEAN, context : (Nat \ {0}) \cup {None}]
ProbeType ==
    /\ messages \in Nat \ {0}
    /\ at \in {"start", "post", "stream", "context", "exited"}
    /\ turns \in [1..messages -> {"unsent", "waiting", "running", "answered", "failed"}]
    /\ last_turn \in 0..messages /\ stream_ok \in BOOLEAN
    /\ rows \in Seq(ProbeRow)
    /\ at \in {"stream", "context"} => Len(rows) < messages

(* A message is sent after those before it, and not before its request.       *)
SentInOrder ==
    \A m \in 1..messages : m > Len(rows) /\ (m = Len(rows) + 1 => at \in {"start", "post"}) => turns[m] = "unsent"

(* The turn the report describes is over.                                     *)
LastIsOver == last_turn # 0 => turns[last_turn] \in {"answered", "failed"}

(* A stream is good when its own turn is answered.                            *)
GoodIsAnswered ==
    /\ \A m \in 1..Len(rows) : m <= messages /\ (rows[m].ok => turns[m] = "answered")
    /\ at = "context" /\ stream_ok => turns[Len(rows) + 1] = "answered"

(* Once a later turn is answered, an earlier one whose stream was good is not *)
(* the last turn any more, and does not become it again: it was over by then. *)
GoodIsPast ==
    \A m \in 1..Len(rows), n \in 1..messages : rows[m].ok /\ m < n /\ turns[n] = "answered" => last_turn # m

ProbeInv == ProbeType /\ SentInOrder /\ LastIsOver /\ GoodIsAnswered /\ GoodIsPast /\ ContextIsOwn

LEMMA ProbeInit == ScriptsInit => ProbeInv
<1> SUFFICES ASSUME ScriptsInit PROVE ProbeInv
  OBVIOUS
<1>1. ToolProbe!Init
  BY DEF ScriptsInit
<1>2. messages \in Nat \ {0} /\ rows = <<>>
  BY <1>1, ScriptsAssumption DEF ToolProbe!Init
<1>3. at = "start" /\ turns = [m \in 1..messages |-> "unsent"] /\ last_turn = 0 /\ stream_ok = FALSE
  BY <1>1 DEF ToolProbe!Init
<1>4. DOMAIN rows = {} /\ Len(rows) = 0 /\ rows \in Seq(ProbeRow)
  BY <1>2
<1>5. ProbeType
  <2>1. turns \in [1..messages -> {"unsent", "waiting", "running", "answered", "failed"}]
    BY <1>3
  <2>2. last_turn \in 0..messages
    BY <1>2, <1>3
  <2>3. at \in {"stream", "context"} => Len(rows) < messages
    BY <1>3
  <2> QED
    BY <1>2, <1>3, <1>4, <2>1, <2>2, <2>3 DEF ProbeType
<1>6. SentInOrder /\ LastIsOver
  BY <1>2, <1>3, <1>4 DEF SentInOrder, LastIsOver
<1>7. GoodIsAnswered /\ GoodIsPast
  BY <1>3, <1>4 DEF GoodIsAnswered, GoodIsPast
<1>8. ContextIsOwn
  BY <1>4 DEF ContextIsOwn, ToolProbe!ContextIsOwn
<1> QED
  BY <1>5, <1>6, <1>7, <1>8 DEF ProbeInv

LEMMA ProbeStep == ASSUME ProbeInv, [ToolProbe!Next]_tool_probe PROVE ProbeInv'
<1> USE DEF ProbeType
<1>0. ProbeType
  BY DEF ProbeInv
<1>1. ASSUME ToolProbe!CheckToken PROVE ProbeInv'
  BY <1>1 DEF ToolProbe!CheckToken, ProbeInv, SentInOrder, LastIsOver, GoodIsAnswered, GoodIsPast,
     ContextIsOwn, ToolProbe!ContextIsOwn
<1>2. ASSUME ToolProbe!Post PROVE ProbeInv'
  BY <1>2 DEF ToolProbe!Post, ToolProbe!Message, ProbeInv, SentInOrder, LastIsOver, GoodIsAnswered, GoodIsPast,
     ContextIsOwn, ToolProbe!ContextIsOwn
<1>3. ASSUME NEW m \in 1..messages, ToolProbe!Lock(m) PROVE ProbeInv'
  BY <1>3 DEF ToolProbe!Lock, ProbeInv, SentInOrder, LastIsOver, GoodIsAnswered, GoodIsPast,
     ContextIsOwn, ToolProbe!ContextIsOwn
<1>4. ASSUME NEW m \in 1..messages, ToolProbe!EndTurn(m) PROVE ProbeInv'
  BY <1>4 DEF ToolProbe!EndTurn, ProbeInv, SentInOrder, LastIsOver, GoodIsAnswered, GoodIsPast,
     ContextIsOwn, ToolProbe!ContextIsOwn
<1>5. ASSUME ToolProbe!post_chat_stream PROVE ProbeInv'
  BY <1>5 DEF ToolProbe!post_chat_stream, ToolProbe!Good, ToolProbe!Message, ProbeInv, SentInOrder, LastIsOver,
     GoodIsAnswered, GoodIsPast, ContextIsOwn, ToolProbe!ContextIsOwn
<1>6. ASSUME ToolProbe!ReadContext PROVE ProbeInv'
  <2>1. at = "context" /\ at' = "post" /\ UNCHANGED <<messages, turns, last_turn, stream_ok>>
    BY <1>6 DEF ToolProbe!ReadContext
  <2>2. PICK row \in ProbeRow :
            /\ rows' = Append(rows, row) /\ row.ok = stream_ok
            /\ row.context # None => row.context = last_turn
    BY <1>0, <1>6 DEF ToolProbe!ReadContext, ProbeRow
  <2> DEFINE new == Len(rows) + 1
  <2>3. /\ rows' \in Seq(ProbeRow)
        /\ Len(rows') = new /\ new \in 1..messages
        /\ rows'[new] = row /\ \A i \in 1..Len(rows) : rows'[i] = rows[i]
    BY <1>0, <2>1, <2>2
  <2>4. ProbeType'
    BY <1>0, <2>1, <2>3
  <2>5. SentInOrder' /\ LastIsOver' /\ GoodIsAnswered'
    BY <2>1, <2>2, <2>3 DEF ProbeInv, SentInOrder, LastIsOver, GoodIsAnswered
  <2>6. GoodIsPast'
    BY <2>1, <2>2, <2>3 DEF ProbeInv, SentInOrder, GoodIsPast
  <2>7. ASSUME row.ok, row.context \notin {None, new}
        PROVE  row.context \in 1..Len(rows) /\ ~rows[row.context].ok
    <3>1. row.context = last_turn /\ last_turn # 0
      BY <2>2, <2>7 DEF ProbeRow
    <3>2. turns[new] = "answered"
      BY <2>1, <2>2, <2>7 DEF ProbeInv, GoodIsAnswered
    <3>3. last_turn \in 1..Len(rows)
      BY <2>1, <2>3, <2>7, <3>1 DEF ProbeInv, SentInOrder, LastIsOver
    <3> QED
      BY <2>3, <3>1, <3>2, <3>3 DEF ProbeInv, GoodIsPast
  <2>8. ToolProbe!ContextIsOwn'
    <3> SUFFICES ASSUME NEW i \in 1..new, rows'[i].ok, rows'[i].context \notin {None, i}
                 PROVE  rows'[i].context < i /\ ~rows'[rows'[i].context].ok
      BY <2>3 DEF ToolProbe!ContextIsOwn
    <3>1. CASE i = new
      BY <2>3, <2>7, <3>1
    <3>2. CASE i # new
      <4>1. i \in 1..Len(rows) /\ rows'[i] = rows[i] /\ rows[i].context \in Nat \ {0}
        <5>1. i \in 1..Len(rows) /\ rows'[i] = rows[i]
          BY <2>3, <3>2
        <5>2. rows[i] \in ProbeRow
          BY <1>0, <5>1
        <5>3. rows[i].context # None
          BY <5>1
        <5> QED
          BY <5>1, <5>2, <5>3 DEF ProbeRow
      <4>2. rows[i].context < i /\ ~rows[rows[i].context].ok
        BY <4>1 DEF ProbeInv, ContextIsOwn, ToolProbe!ContextIsOwn
      <4> QED
        BY <2>3, <4>1, <4>2
    <3> QED
      BY <3>1, <3>2
  <2> QED
    BY <2>4, <2>5, <2>6, <2>8 DEF ProbeInv, ContextIsOwn
<1>7. ASSUME ToolProbe!Report PROVE ProbeInv'
  BY <1>7 DEF ToolProbe!Report, ProbeInv, SentInOrder, LastIsOver, GoodIsAnswered, GoodIsPast,
     ContextIsOwn, ToolProbe!ContextIsOwn
<1>8. ASSUME UNCHANGED tool_probe PROVE ProbeInv'
  BY <1>8 DEF tool_probe, ProbeInv, SentInOrder, LastIsOver, GoodIsAnswered, GoodIsPast,
     ContextIsOwn, ToolProbe!ContextIsOwn
<1>9. DOMAIN turns = 1..messages
  BY <1>0
<1> QED
  BY <1>1, <1>2, <1>3, <1>4, <1>5, <1>6, <1>7, <1>8, <1>9 DEF ToolProbe!Next

(* The context that tool-surface-probe.py shows beside a good stream is that  *)
(* of its own turn, or of an earlier message whose stream was not good: the   *)
(* row never names a later turn or one it had reported as answered.           *)
THEOREM ProbeMixesNoTurns == ScriptsSpec => []ContextIsOwn
<1>1. ProbeInv /\ [ScriptsNext]_<<script, canary, burst, tool_probe>> => ProbeInv'
  BY StepOfOne, ProbeStep
<1>2. ProbeInv => ContextIsOwn
  BY DEF ProbeInv
<1> QED
  BY <1>1, <1>2, ProbeInit, PTL DEF ScriptsSpec

-----------------------------------------------------------------------------
(* The load generator.                                                        *)

(* One function, under the two names the modules give it.                     *)
LEMMA SameCardinality == \A S : Burst!Cardinality(S) = Cardinality(S)
BY DEF Burst!Cardinality, Cardinality, Burst!IsFiniteSet, IsFiniteSet

Series == {"baseline", "load", "under_load"}
Result == [ok : BOOLEAN, elapsed : Nat]
BurstType ==
    /\ args \in CommandLines
    /\ phase \in {"baseline", "before", "spawn", "submit", "collect", "join", "after", "report", "exited"}
    /\ submitted \in Nat /\ started \in Nat /\ counted \in Nat /\ uncounted \in Nat
    /\ probe \in {"none", "running", "assigned", "done"}
    /\ DOMAIN outcome \subseteq Series \X Nat /\ IsFiniteSet(DOMAIN outcome)
    /\ \A r \in DOMAIN outcome : outcome[r] \in Result \cup {None}
    /\ \A r \in DOMAIN outcome : outcome[r] # None /\ outcome[r].ok => outcome[r].elapsed \in Latencies

(* What has begun by which phase: the load and the probe beside it come after *)
(* the first snapshot, and the probe is over before the second one.           *)
Unstarted == phase \in {"baseline", "before", "spawn"}
Phases ==
    /\ Unstarted => submitted = 0 /\ started = 0 /\ probe = "none"
                    /\ \A r \in DOMAIN outcome : r[1] = "baseline"
    /\ ~Unstarted /\ args.probe_count > 0 => probe # "none"
    /\ phase \in {"after", "report", "exited"} => probe \in {"none", "done"}
    /\ phase # "exited" => code = None
    /\ phase \in {"baseline", "before"} => before = None
    /\ phase \in {"baseline", "before", "spawn", "submit", "collect", "join", "after"} => after = None

(* What is reported of a request is over: no list is handed over early, and   *)
(* no later request takes the number of one that is reported.                 *)
Over(series, name) ==
    \A r \in series : r \in DOMAIN outcome /\ r[1] = name /\ outcome[r] # None
Reported ==
    /\ Over(baseline, "baseline") /\ Over(results, "load") /\ Over(under_load, "under_load")
    /\ \A r \in DOMAIN outcome : r[1] = "load" => r[2] < started
    /\ phase = "baseline" => baseline = {}
    /\ probe \in {"none", "running"} => under_load = {}

(* A probe's list, once assigned, has all its requests.                       *)
Complete ==
    /\ phase # "baseline" => Cardinality(baseline) = args.probe_count
    /\ probe \in {"assigned", "done"} => Cardinality(under_load) = args.probe_count

(* Every success since the first snapshot is counted between the two.         *)
Successes == {r \in DOMAIN outcome : r[1] # "baseline" /\ outcome[r] # None /\ outcome[r].ok}
Bracket ==
    /\ before # None => before \in Nat /\ counted >= before + Cardinality(Successes)
    /\ before # None /\ after # None =>
          after - before >= Cardinality(Burst!Succeeded(results)) + Cardinality(Burst!Succeeded(under_load))

BurstInv == BurstType /\ Phases /\ Reported /\ Complete /\ Bracket

LEMMA BurstInit == ScriptsInit => BurstInv
<1> SUFFICES ASSUME ScriptsInit PROVE BurstInv
  OBVIOUS
<1>1. Burst!Init
  BY DEF ScriptsInit
<1>2. DOMAIN outcome = {} /\ IsFiniteSet(DOMAIN outcome)
  BY <1>1, FS_EmptySet DEF Burst!Init
<1>3. BurstType
  BY <1>1, <1>2 DEF Burst!Init, BurstType
<1>4. Phases /\ Reported /\ Complete /\ Bracket
  BY <1>1, <1>2 DEF Burst!Init, Phases, Unstarted, Reported, Over, Complete, Bracket
<1> QED
  BY <1>3, <1>4 DEF BurstInv

LEMMA MakeEffect ==
    ASSUME NEW r, Burst!Make(r)
    PROVE  /\ DOMAIN outcome' = DOMAIN outcome \cup {r} /\ outcome'[r] = None
           /\ \A q \in DOMAIN outcome : q # r => outcome'[q] = outcome[q]
BY DEF Burst!Make

(* A new request: only the numbers of the requests change.                    *)
LEMMA MakeType ==
    ASSUME BurstType, NEW s \in Series, NEW i \in Nat, Burst!Make(<<s, i>>),
           UNCHANGED <<args, phase, submitted, counted, uncounted, probe>>, started' \in Nat
    PROVE  BurstType'
<1> DEFINE new == <<s, i>>
<1>1. DOMAIN outcome' = DOMAIN outcome \cup {new} /\ outcome'[new] = None
      /\ \A r \in DOMAIN outcome \ {new} : outcome'[r] = outcome[r]
  BY DEF Burst!Make
<1>2. IsFiniteSet(DOMAIN outcome')
  <2>1. IsFiniteSet(DOMAIN outcome)
    BY DEF BurstType
  <2> HIDE DEF new
  <2> QED
    BY <1>1, <2>1, FS_AddElement
<1>3. new \in Series \X Nat
  OBVIOUS
<1> QED
  BY <1>1, <1>2, <1>3 DEF BurstType

(* A request in flight gets a result, a success having been counted.          *)
LEMMA FinishEffect ==
    ASSUME BurstType, Burst!Finish
    PROVE  \E r \in DOMAIN outcome :
               /\ outcome[r] = None /\ DOMAIN outcome' = DOMAIN outcome /\ outcome'[r] \in Result
               /\ outcome'[r].ok => outcome'[r].elapsed \in Latencies
               /\ \A q \in DOMAIN outcome : q # r => outcome'[q] = outcome[q]
               /\ counted' \in Nat /\ counted' >= counted /\ uncounted' \in Nat
               /\ outcome'[r].ok => counted' = counted + 1
               /\ UNCHANGED <<args, phase, submitted, started, results, probe, baseline, under_load, before, after, code>>
<1>1. PICK r \in DOMAIN outcome : outcome[r] = None /\ (Burst!Succeed(r) \/ Burst!FailRequest(r))
  BY DEF Burst!Finish
<1>2. UNCHANGED <<args, phase, submitted, started, results, probe, baseline, under_load, before, after, code>>
  BY DEF Burst!Finish, Burst!pool, Burst!probing, Burst!snapshots
<1>3. PICK result \in Result : outcome' = [outcome EXCEPT ![r] = result] /\ (result.ok => result.elapsed \in Latencies)
  <2>1. CASE Burst!Succeed(r)
    <3>1. PICK latency \in Latencies : outcome' = [outcome EXCEPT ![r] = Burst!Success(latency)]
      BY <2>1 DEF Burst!Succeed
    <3>2. Burst!Success(latency) \in Result /\ Burst!Success(latency).elapsed = latency
      BY ScriptsAssumption DEF Burst!Success, Result
    <3> QED
      BY <3>1, <3>2
  <2>2. CASE Burst!FailRequest(r)
    <3>1. Burst!Failure \in Result /\ ~Burst!Failure.ok
      BY DEF Burst!Failure, Result
    <3> QED
      BY <2>2, <3>1 DEF Burst!FailRequest
  <2> QED
    BY <1>1, <2>1, <2>2
<1>4. counted' \in Nat /\ counted' >= counted /\ uncounted' \in Nat /\ (outcome'[r].ok => counted' = counted + 1)
  BY <1>1 DEF BurstType, Burst!Succeed, Burst!FailRequest, Burst!Failure
<1> QED
  BY <1>1, <1>2, <1>3, <1>4

(* Every step keeps the types.                                                *)
LEMMA BurstTypeStep == ASSUME BurstInv, [Burst!Next]_burst PROVE BurstType'
<1>0. BurstType
  BY DEF BurstInv
<1>m. \A name : Burst!Made(name) \subseteq DOMAIN outcome /\ IsFiniteSet(Burst!Made(name))
            /\ Cardinality(Burst!Made(name)) \in Nat
  BY <1>0, FS_Subset, FS_CardinalityType DEF Burst!Made, BurstType
<1>1. CASE Burst!BaselineProbe
  <2>0. Cardinality(Burst!Made("baseline")) \in Nat
    BY <1>m
  <2>1. Burst!Make(<<"baseline", Cardinality(Burst!Made("baseline"))>>)
    BY <1>1, SameCardinality DEF Burst!BaselineProbe, Burst!ProbeNext
  <2>2. UNCHANGED <<args, phase, submitted, started, counted, uncounted, probe>> /\ started' \in Nat
    BY <1>0, <1>1 DEF Burst!BaselineProbe, Burst!pool, Burst!probing, BurstType
  <2> QED
    BY <1>0, <2>0, <2>1, <2>2, MakeType DEF Series
<1>2. CASE Burst!UnderLoadProbe
  <2>0. Cardinality(Burst!Made("under_load")) \in Nat
    BY <1>m
  <2>1. Burst!Make(<<"under_load", Cardinality(Burst!Made("under_load"))>>)
    BY <1>2, SameCardinality DEF Burst!UnderLoadProbe, Burst!ProbeNext
  <2>2. UNCHANGED <<args, phase, submitted, started, counted, uncounted, probe>> /\ started' \in Nat
    BY <1>0, <1>2 DEF Burst!UnderLoadProbe, Burst!pool, Burst!probing, BurstType
  <2> QED
    BY <1>0, <2>0, <2>1, <2>2, MakeType DEF Series
<1>3. CASE Burst!WorkerTakes
  BY <1>0, <1>3, MakeType DEF Burst!WorkerTakes, Burst!probing, Series, BurstType
<1>4. CASE Burst!BaselineEnds \/ Burst!DiagnosticsBefore \/ Burst!StartProbeThread \/ Burst!Submit
  BY <1>0, <1>4 DEF BurstType, Burst!BaselineEnds, Burst!DiagnosticsBefore, Burst!StartProbeThread, Burst!Submit,
     Burst!Go, Burst!pool, Burst!probing
<1>5. CASE Burst!Collect \/ Burst!EndCollect \/ Burst!JoinProbe \/ Burst!DiagnosticsAfter \/ Burst!Report
           \/ Burst!UnderLoadEnds \/ UNCHANGED burst
  BY <1>0, <1>5 DEF BurstType, Burst!Collect, Burst!EndCollect, Burst!JoinProbe, Burst!DiagnosticsAfter, Burst!Report,
     Burst!UnderLoadEnds, Burst!Go, Burst!pool, Burst!probing, burst
<1>6. CASE Burst!Finish
  BY <1>0, <1>6, FinishEffect DEF BurstType
<1>7. CASE Burst!CountLate
  BY <1>0, <1>7 DEF BurstType, Burst!CountLate, Burst!pool, Burst!probing
<1> QED
  BY <1>1, <1>2, <1>3, <1>4, <1>5, <1>6, <1>7 DEF Burst!Next, Burst!Main

(* The steps that leave the requests alone.                                   *)
Requested == Burst!BaselineProbe \/ Burst!UnderLoadProbe \/ Burst!WorkerTakes
LEMMA QuietSteps ==
    ASSUME [Burst!Next]_burst, ~Requested, ~Burst!Finish
    PROVE  outcome' = outcome
BY DEF Requested, Burst!Next, Burst!Main, Burst!BaselineEnds, Burst!DiagnosticsBefore, Burst!StartProbeThread,
   Burst!Submit, Burst!Collect, Burst!EndCollect, Burst!JoinProbe, Burst!DiagnosticsAfter, Burst!Report,
   Burst!UnderLoadEnds, Burst!CountLate, burst

(* A new request is one of the series that is under way, and none of those    *)
(* that are reported has its number.                                          *)
LEMMA NewRequest ==
    ASSUME BurstInv, Requested
    PROVE  \E r : /\ Burst!Make(r) /\ UNCHANGED <<counted, before, after, results, baseline, under_load, phase, probe, args>>
                 /\ r \notin baseline \cup results \cup under_load
                 /\ \/ r[1] = "baseline" /\ phase = "baseline" /\ started' = started
                    \/ r[1] = "under_load" /\ probe = "running" /\ started' = started
                    \/ r[1] = "load" /\ r[2] = started /\ started < submitted /\ started' = started + 1
<1>0. BurstType /\ Phases /\ Reported
  BY DEF BurstInv
<1>1. CASE Burst!BaselineProbe
  <2> DEFINE new == <<"baseline", Cardinality(Burst!Made("baseline"))>>
  <2>1. Burst!Make(new) /\ phase = "baseline"
    BY <1>1, SameCardinality DEF Burst!BaselineProbe, Burst!ProbeNext
  <2>2. new[1] = "baseline"
    OBVIOUS
  <2>3. new \notin baseline \cup results \cup under_load
    BY <1>0, <2>1, <2>2 DEF Reported, Over
  <2>4. UNCHANGED <<counted, before, after, results, baseline, under_load, phase, probe, args, started>>
    BY <1>1 DEF Burst!BaselineProbe, Burst!pool, Burst!probing, Burst!snapshots
  <2> QED
    BY <2>1, <2>2, <2>3, <2>4
<1>2. CASE Burst!UnderLoadProbe
  <2> DEFINE new == <<"under_load", Cardinality(Burst!Made("under_load"))>>
  <2>1. Burst!Make(new) /\ probe = "running"
    BY <1>2, SameCardinality DEF Burst!UnderLoadProbe, Burst!ProbeNext
  <2>2. new[1] = "under_load"
    OBVIOUS
  <2>3. new \notin baseline \cup results \cup under_load
    BY <1>0, <2>1, <2>2 DEF Reported, Over
  <2>4. UNCHANGED <<counted, before, after, results, baseline, under_load, phase, probe, args, started>>
    BY <1>2 DEF Burst!UnderLoadProbe, Burst!pool, Burst!probing, Burst!snapshots
  <2> QED
    BY <2>1, <2>2, <2>3, <2>4
<1>3. CASE Burst!WorkerTakes
  <2> DEFINE new == <<"load", started>>
  <2>1. Burst!Make(new) /\ started < submitted /\ started' = started + 1
    BY <1>3 DEF Burst!WorkerTakes
  <2>2. new[1] = "load" /\ new[2] = started
    OBVIOUS
  <2>3. new \notin baseline \cup results \cup under_load
    BY <1>0, <2>2 DEF Reported, Over, BurstType
  <2>4. UNCHANGED <<counted, before, after, results, baseline, under_load, phase, probe, args>>
    BY <1>3 DEF Burst!WorkerTakes, Burst!probing, Burst!snapshots
  <2> QED
    BY <2>1, <2>2, <2>3, <2>4
<1> QED
  BY <1>1, <1>2, <1>3 DEF Requested

(* What is reported of a request does not change any more.                    *)
LEMMA ReportedStays ==
    ASSUME BurstInv, [Burst!Next]_burst, NEW r \in baseline \cup results \cup under_load
    PROVE  r \in DOMAIN outcome' /\ outcome'[r] = outcome[r] /\ outcome[r] # None
<1>0. r \in DOMAIN outcome /\ outcome[r] # None
  BY DEF BurstInv, Reported, Over
<1>1. CASE Requested
  BY <1>0, <1>1, NewRequest, MakeEffect
<1>2. CASE Burst!Finish
  BY <1>0, <1>2, FinishEffect DEF BurstInv
<1>3. CASE ~Requested /\ ~Burst!Finish
  BY <1>0, <1>3, QuietSteps
<1> QED
  BY <1>0, <1>1, <1>2, <1>3

LEMMA PhasesStep == ASSUME BurstInv, [Burst!Next]_burst PROVE Phases'
<1>0. BurstType /\ Phases
  BY DEF BurstInv
<1>a. BurstType'
  BY BurstTypeStep
<1> USE DEF Phases, Unstarted
<1>1. CASE Requested
  <2>1. PICK r : /\ Burst!Make(r) /\ UNCHANGED <<before, after, phase, probe, args>>
                 /\ \/ r[1] = "baseline" /\ phase = "baseline" /\ started' = started
                    \/ r[1] = "under_load" /\ probe = "running" /\ started' = started
                    \/ r[1] = "load" /\ started < submitted
    BY <1>1, NewRequest
  <2>2. submitted' = submitted /\ code' = code
    BY <1>1 DEF Requested, Burst!BaselineProbe, Burst!UnderLoadProbe, Burst!WorkerTakes, Burst!pool
  <2>3. Unstarted => r[1] = "baseline" /\ started' = started
    BY <1>0, <2>1
  <2>4. Unstarted => \A q \in DOMAIN outcome' : q[1] = "baseline"
    BY <1>0, <2>1, <2>3, MakeEffect
  <2> QED
    BY <1>0, <2>1, <2>2, <2>3, <2>4
<1>2. CASE Burst!Finish
  BY <1>0, <1>2, FinishEffect
<1>3. CASE ~Requested /\ ~Burst!Finish
  <2>1. outcome' = outcome
    BY <1>3, QuietSteps
  <2>2. CASE Burst!BaselineEnds \/ Burst!DiagnosticsBefore \/ Burst!StartProbeThread \/ Burst!Submit
    BY <1>0, <2>1, <2>2 DEF BurstType, Burst!BaselineEnds, Burst!DiagnosticsBefore, Burst!StartProbeThread,
       Burst!Submit, Burst!Go, Burst!pool, Burst!probing, Burst!snapshots, Burst!ProbeEnabled
  <2>3. CASE Burst!Collect \/ Burst!EndCollect \/ Burst!JoinProbe \/ Burst!DiagnosticsAfter \/ Burst!Report
    BY <1>0, <2>1, <2>3 DEF BurstType, Burst!Collect, Burst!EndCollect, Burst!JoinProbe, Burst!DiagnosticsAfter,
       Burst!Report, Burst!Go, Burst!pool, Burst!probing, Burst!snapshots, Burst!ProbeOver
  <2>4. CASE Burst!UnderLoadEnds \/ Burst!CountLate \/ UNCHANGED burst
    BY <1>0, <2>1, <2>4 DEF BurstType, Burst!UnderLoadEnds, Burst!CountLate, Burst!pool, Burst!probing,
       Burst!snapshots, burst
  <2> QED
    BY <1>3, <2>2, <2>3, <2>4 DEF Burst!Next, Burst!Main, Requested
<1> QED
  BY <1>1, <1>2, <1>3

(* A list is handed over when its series is complete.                         *)
LEMMA SeriesHandedOver ==
    ASSUME NEW name, Burst!SeriesOver(name)
    PROVE  Over(Burst!Made(name), name) /\ Cardinality(Burst!Made(name)) = args.probe_count
BY SameCardinality DEF Burst!SeriesOver, Burst!InFlight, Burst!Made, Over

LEMMA ReportedStep == ASSUME BurstInv, [Burst!Next]_burst PROVE Reported' /\ Complete'
<1>0. BurstType /\ Reported /\ Complete
  BY DEF BurstInv
<1> USE DEF Reported, Complete
<1>1. CASE Requested
  <2>1. PICK r : /\ Burst!Make(r) /\ UNCHANGED <<results, baseline, under_load, phase, probe, args>>
                 /\ \/ r[1] = "baseline" /\ started' = started
                    \/ r[1] = "under_load" /\ started' = started
                    \/ r[1] = "load" /\ r[2] = started /\ started' = started + 1
    BY <1>1, NewRequest
  <2>2. \A q \in DOMAIN outcome' : q[1] = "load" => q[2] < started'
    <3> SUFFICES ASSUME NEW q \in DOMAIN outcome', q[1] = "load" PROVE q[2] < started'
      OBVIOUS
    <3>1. CASE q = r
      BY <1>0, <2>1, <3>1 DEF BurstType
    <3>2. CASE q # r
      <4>1. q \in DOMAIN outcome
        BY <2>1, <3>2, MakeEffect
      <4>2. q[2] \in Nat /\ q[2] < started
        BY <1>0, <4>1 DEF BurstType
      <4> QED
        BY <1>0, <2>1, <4>2 DEF BurstType
    <3> QED
      BY <3>1, <3>2
  <2>3. Over(baseline, "baseline")' /\ Over(results, "load")' /\ Over(under_load, "under_load")'
    BY <1>0, <2>1, ReportedStays DEF Over
  <2> QED
    BY <1>0, <2>1, <2>2, <2>3
<1>2. CASE Burst!Finish
  <2>1. UNCHANGED <<args, phase, started, results, probe, baseline, under_load>> /\ DOMAIN outcome' = DOMAIN outcome
    BY <1>0, <1>2, FinishEffect
  <2>2. Over(baseline, "baseline")' /\ Over(results, "load")' /\ Over(under_load, "under_load")'
    BY <1>0, <2>1, ReportedStays DEF Over
  <2> QED
    BY <1>0, <2>1, <2>2
<1>3. CASE ~Requested /\ ~Burst!Finish
  <2>1. outcome' = outcome
    BY <1>3, QuietSteps
  <2>2. CASE Burst!BaselineEnds
    <3>1. UNCHANGED <<started, results, under_load, probe, args>> /\ phase' = "before"
          /\ baseline' = Burst!Made("baseline") /\ Burst!SeriesOver("baseline")
      BY <2>2 DEF Burst!BaselineEnds, Burst!Go, Burst!pool
    <3> QED
      BY <1>0, <2>1, <3>1, SeriesHandedOver DEF Over
  <2>3. CASE Burst!UnderLoadEnds
    <3>1. UNCHANGED <<started, results, baseline, phase, args>>
      BY <2>3 DEF Burst!UnderLoadEnds, Burst!pool
    <3>2. CASE probe = "running" /\ Burst!SeriesOver("under_load") /\ probe' = "assigned"
               /\ under_load' = Burst!Made("under_load")
      BY <1>0, <2>1, <3>1, <3>2, SeriesHandedOver DEF Over
    <3>3. CASE probe = "assigned" /\ probe' = "done" /\ under_load' = under_load
      BY <1>0, <2>1, <3>1, <3>3 DEF Over
    <3> QED
      BY <2>3, <3>2, <3>3 DEF Burst!UnderLoadEnds
  <2>4. CASE Burst!Collect
    <3>1. UNCHANGED <<started, baseline, under_load, phase, probe, args>>
      BY <2>4 DEF Burst!Collect, Burst!probing
    <3>2. PICK r \in Burst!Made("load") : outcome[r] # None /\ results' = results \cup {r}
      BY <2>4 DEF Burst!Collect
    <3>3. Over(results, "load")'
      BY <1>0, <2>1, <3>2 DEF Burst!Made, Over
    <3> QED
      BY <1>0, <2>1, <3>1, <3>3 DEF Over
  <2>5. CASE Burst!StartProbeThread
    <3>1. UNCHANGED <<started, results, baseline, under_load, args>> /\ probe = "none" /\ phase = "spawn"
          /\ phase' = "submit" /\ probe' \in {"none", "running"}
      BY <2>5 DEF Burst!StartProbeThread, Burst!Go, Burst!pool, BurstInv, Phases, Unstarted
    <3> QED
      BY <1>0, <2>1, <3>1 DEF Over
  <2>6. CASE \/ Burst!DiagnosticsBefore \/ Burst!Submit \/ Burst!EndCollect \/ Burst!JoinProbe
             \/ Burst!DiagnosticsAfter \/ Burst!Report \/ Burst!CountLate \/ UNCHANGED burst
    <3>1. UNCHANGED <<started, results, probe, baseline, under_load, args>>
          /\ (phase = "baseline" <=> phase' = "baseline")
      BY <2>6 DEF Burst!DiagnosticsBefore, Burst!Submit, Burst!EndCollect, Burst!JoinProbe, Burst!DiagnosticsAfter,
         Burst!Report, Burst!CountLate, Burst!Go, Burst!pool, Burst!probing, burst
    <3> QED
      BY <1>0, <2>1, <3>1 DEF Over
  <2> QED
    BY <1>3, <2>2, <2>3, <2>4, <2>5, <2>6 DEF Burst!Next, Burst!Main, Requested
<1> QED
  BY <1>1, <1>2, <1>3

-----------------------------------------------------------------------------
(* The counter of the gateway.                                                *)

(* A success is counted before it is one.                                     *)
LEMMA SuccessesStep ==
    ASSUME BurstInv, [Burst!Next]_burst
    PROVE  /\ IsFiniteSet(Successes) /\ Cardinality(Successes) \in Nat /\ Cardinality(Successes') \in Nat
           /\ counted' - counted >= Cardinality(Successes') - Cardinality(Successes)
<1>0. BurstType
  BY DEF BurstInv
<1>1. IsFiniteSet(Successes) /\ Cardinality(Successes) \in Nat
  <2>1. Successes \subseteq DOMAIN outcome /\ IsFiniteSet(DOMAIN outcome)
    BY <1>0 DEF Successes, BurstType
  <2> QED
    BY <2>1, FS_Subset, FS_CardinalityType
<1>2. CASE Requested
  <2>1. PICK r : Burst!Make(r) /\ counted' = counted
    BY <1>2, NewRequest
  <2>2. Successes' \subseteq Successes
    BY <2>1, MakeEffect DEF Successes
  <2>3. IsFiniteSet(Successes') /\ Cardinality(Successes') <= Cardinality(Successes)
    BY <1>1, <2>2, FS_Subset
  <2>4. Cardinality(Successes') \in Nat
    BY <2>3, FS_CardinalityType
  <2> QED
    BY <1>0, <1>1, <2>1, <2>3, <2>4 DEF BurstType
<1>3. CASE Burst!Finish
  <2>1. PICK r \in DOMAIN outcome :
            /\ outcome[r] = None /\ DOMAIN outcome' = DOMAIN outcome
            /\ \A q \in DOMAIN outcome : q # r => outcome'[q] = outcome[q]
            /\ counted' \in Nat /\ counted' >= counted /\ (outcome'[r].ok => counted' = counted + 1)
    BY <1>0, <1>3, FinishEffect
  <2>2. CASE outcome'[r].ok
    <3>1. Successes' \subseteq Successes \cup {r}
      BY <2>1 DEF Successes
    <3>2. IsFiniteSet(Successes \cup {r}) /\ Cardinality(Successes \cup {r}) <= Cardinality(Successes) + 1
      BY <1>1, FS_AddElement
    <3>3. IsFiniteSet(Successes') /\ Cardinality(Successes') <= Cardinality(Successes \cup {r})
      BY <3>1, <3>2, FS_Subset
    <3>4. Cardinality(Successes') \in Nat /\ Cardinality(Successes \cup {r}) \in Nat
      BY <3>2, <3>3, FS_CardinalityType
    <3> QED
      BY <1>0, <1>1, <2>1, <2>2, <3>2, <3>3, <3>4 DEF BurstType
  <2>3. CASE ~outcome'[r].ok
    <3>1. Successes' \subseteq Successes
      BY <2>1, <2>3 DEF Successes
    <3>2. IsFiniteSet(Successes') /\ Cardinality(Successes') <= Cardinality(Successes)
      BY <1>1, <3>1, FS_Subset
    <3>3. Cardinality(Successes') \in Nat
      BY <3>2, FS_CardinalityType
    <3> QED
      BY <1>0, <1>1, <2>1, <3>2, <3>3 DEF BurstType
  <2> QED
    BY <2>2, <2>3
<1>4. CASE ~Requested /\ ~Burst!Finish
  <2>1. Successes' = Successes
    BY <1>4, QuietSteps DEF Successes
  <2>2. counted' \in Nat /\ counted' >= counted
    BY <1>0, <1>4 DEF BurstType, Requested, Burst!Next, Burst!Main, Burst!BaselineEnds, Burst!DiagnosticsBefore,
       Burst!StartProbeThread, Burst!Submit, Burst!Collect, Burst!EndCollect, Burst!JoinProbe, Burst!DiagnosticsAfter,
       Burst!Report, Burst!UnderLoadEnds, Burst!CountLate, burst
  <2> QED
    BY <1>0, <1>1, <2>1, <2>2 DEF BurstType
<1> QED
  BY <1>1, <1>2, <1>3, <1>4

(* What the lists say stays what it was, except that of a list that grows.    *)
LEMMA SucceededStays ==
    ASSUME BurstInv, [Burst!Next]_burst
    PROVE  /\ \A S : S \subseteq baseline \cup results \cup under_load
                  => {r \in S : outcome'[r] # None /\ outcome'[r].ok} = Burst!Succeeded(S)
           /\ phase \in {"report", "exited"} => UNCHANGED <<results, under_load>>
<1>1. ASSUME NEW S, S \subseteq baseline \cup results \cup under_load
      PROVE  {r \in S : outcome'[r] # None /\ outcome'[r].ok} = Burst!Succeeded(S)
  <2>1. \A r \in S : outcome'[r] = outcome[r]
    BY <1>1, ReportedStays
  <2> QED
    BY <2>1 DEF Burst!Succeeded
<1>2. ASSUME phase \in {"report", "exited"} PROVE UNCHANGED <<results, under_load>>
  <2>1. probe \in {"none", "done"} /\ phase # "collect"
    BY <1>2 DEF BurstInv, Phases
  <2> QED
    BY <1>2, <2>1 DEF Burst!Next, Burst!Main, Burst!BaselineProbe, Burst!BaselineEnds, Burst!DiagnosticsBefore,
       Burst!StartProbeThread, Burst!Submit, Burst!Collect, Burst!EndCollect, Burst!JoinProbe, Burst!DiagnosticsAfter,
       Burst!Report, Burst!UnderLoadProbe, Burst!UnderLoadEnds, Burst!WorkerTakes, Burst!Finish, Burst!CountLate,
       Burst!Go, Burst!pool, Burst!probing, burst
<1> QED
  BY <1>1, <1>2

LEMMA SnapshotSteps ==
    ASSUME BurstInv, [Burst!Next]_burst
    PROVE  /\ Burst!DiagnosticsBefore \/ before' = before
           /\ Burst!DiagnosticsAfter \/ after' = after
BY DEF Burst!Next, Burst!Main, Burst!BaselineProbe, Burst!BaselineEnds, Burst!DiagnosticsBefore,
   Burst!StartProbeThread, Burst!Submit, Burst!Collect, Burst!EndCollect, Burst!JoinProbe, Burst!DiagnosticsAfter,
   Burst!Report, Burst!UnderLoadProbe, Burst!UnderLoadEnds, Burst!WorkerTakes, Burst!Finish, Burst!CountLate,
   Burst!snapshots, burst

(* The reported successes are different requests, none of them a baseline one. *)
LEMMA ReportedSuccesses ==
    ASSUME BurstInv
    PROVE  /\ Cardinality(Burst!Succeeded(results)) + Cardinality(Burst!Succeeded(under_load)) <= Cardinality(Successes)
           /\ Cardinality(Burst!Succeeded(results)) \in Nat /\ Cardinality(Burst!Succeeded(under_load)) \in Nat
           /\ Cardinality(Successes) \in Nat
<1> DEFINE A == Burst!Succeeded(results)
           B == Burst!Succeeded(under_load)
<1>1. Successes \subseteq DOMAIN outcome /\ IsFiniteSet(DOMAIN outcome)
  BY DEF BurstInv, BurstType, Successes
<1>2. A \subseteq Successes /\ B \subseteq Successes /\ A \cap B = {}
  BY DEF BurstInv, Reported, Over, Successes, Burst!Succeeded
<1>3. IsFiniteSet(Successes) /\ IsFiniteSet(A) /\ IsFiniteSet(B)
  BY <1>1, <1>2, FS_Subset
<1>4. Cardinality(A) \in Nat /\ Cardinality(B) \in Nat /\ Cardinality(Successes) \in Nat
  BY <1>3, FS_CardinalityType
<1>5. Cardinality(A \cup B) = Cardinality(A) + Cardinality(B)
  <2>1. Cardinality(A \cap B) = 0
    BY <1>2, FS_EmptySet
  <2>2. Cardinality(A \cup B) = Cardinality(A) + Cardinality(B) - Cardinality(A \cap B)
    BY <1>3, FS_Union
  <2> QED
    BY <1>4, <2>1, <2>2
<1>6. Cardinality(A \cup B) <= Cardinality(Successes)
  BY <1>2, <1>3, FS_Subset
<1> QED
  BY <1>4, <1>5, <1>6

LEMMA BracketStep == ASSUME BurstInv, [Burst!Next]_burst PROVE Bracket'
<1>0. BurstType /\ BurstType' /\ Phases /\ Bracket
  BY BurstTypeStep DEF BurstInv
<1>a. /\ Cardinality(Successes) \in Nat /\ Cardinality(Successes') \in Nat
      /\ counted' - counted >= Cardinality(Successes') - Cardinality(Successes)
  BY SuccessesStep
<1>b. counted \in Nat /\ counted' \in Nat
  BY <1>0 DEF BurstType
<1>1. before' # None => before' \in Nat /\ counted' >= before' + Cardinality(Successes')
  <2>1. CASE before' = before
    BY <1>0, <1>a, <1>b, <2>1 DEF Bracket
  <2>2. CASE Burst!DiagnosticsBefore
    <3>1. before' \in {counted, None} /\ counted' = counted /\ outcome' = outcome /\ phase = "before"
      BY <2>2 DEF Burst!DiagnosticsBefore, Burst!Snapshot, Burst!Go
    <3>2. Successes' = {}
      BY <1>0, <3>1 DEF Successes, Phases, Unstarted
    <3> QED
      BY <1>b, <3>1, <3>2, FS_EmptySet
  <2> QED
    BY <2>1, <2>2, SnapshotSteps
<1>2. ASSUME before' # None, after' # None
      PROVE  after' - before' >= Cardinality(Burst!Succeeded(results)') + Cardinality(Burst!Succeeded(under_load)')
  <2>1. CASE Burst!DiagnosticsAfter
    <3>1. after' \in {counted, None} /\ UNCHANGED <<before, outcome, results, under_load>>
      BY <2>1 DEF Burst!DiagnosticsAfter, Burst!Snapshot, Burst!pool, Burst!probing
    <3>2. Burst!Succeeded(results)' = Burst!Succeeded(results)
          /\ Burst!Succeeded(under_load)' = Burst!Succeeded(under_load)
      BY <3>1 DEF Burst!Succeeded
    <3>3. before \in Nat /\ counted >= before + Cardinality(Successes) /\ after' = counted
      BY <1>0, <1>2, <3>1 DEF Bracket
    <3> QED
      BY <1>b, <3>1, <3>2, <3>3, ReportedSuccesses
  <2>2. CASE after' = after
    <3>1. phase \in {"report", "exited"}
      BY <1>0, <1>2, <2>2 DEF Phases, BurstType
    <3>2. UNCHANGED <<results, under_load>>
      BY <3>1, SucceededStays
    <3>3. Burst!Succeeded(results)' = Burst!Succeeded(results)
          /\ Burst!Succeeded(under_load)' = Burst!Succeeded(under_load)
      BY <3>2, SucceededStays DEF Burst!Succeeded
    <3>4. before' = before
      BY <3>1, SnapshotSteps DEF Burst!DiagnosticsBefore, Burst!Go
    <3> QED
      BY <1>0, <1>2, <2>2, <3>3, <3>4 DEF Bracket
  <2> QED
    BY <2>1, <2>2, SnapshotSteps
<1> QED
  BY <1>1, <1>2 DEF Bracket

LEMMA BurstStep == BurstInv /\ [ScriptsNext]_<<script, canary, burst, tool_probe>> => BurstInv'
BY StepOfOne, BurstTypeStep, PhasesStep, ReportedStep, BracketStep DEF BurstInv

(* The gateway's counter rises, between load-burst.py's two readings, by at   *)
(* least the successes it reports of the load and of the probe beside it:     *)
(* whatever fails, is counted late, or is still in flight when it gives up.   *)
THEOREM CounterBracketsRun == ScriptsSpec => []DiagnosticsBracket
<1>1. BurstInv => DiagnosticsBracket
  BY SameCardinality DEF BurstInv, Bracket, DiagnosticsBracket, Burst!DiagnosticsBracket
<1> QED
  BY <1>1, BurstInit, BurstStep, PTL DEF ScriptsSpec

-----------------------------------------------------------------------------
(* The gate.                                                                  *)

(* round() is never more than a half above.                                   *)
LEMMA RoundBound ==
    ASSUME NEW a \in Int, NEW b \in Nat \ {0}, Burst!Round(a, b) <= 1500
    PROVE  2 * a <= 3001 * b
<1> DEFINE q == a \div b
           r == a % b
<1>1. q \in Int /\ r \in 0..(b - 1) /\ a = b * q + r
  OBVIOUS
<1>2. q <= 1499 \/ (q <= 1500 /\ 2 * r <= b)
  BY <1>1 DEF Burst!Round
<1> HIDE DEF q, r
<1>3. CASE q <= 1499
  <2>1. b * q <= b * 1499
    BY <1>1, <1>3
  <2> QED
    BY <1>1, <2>1
<1>4. CASE q <= 1500 /\ 2 * r <= b
  <2>1. b * q <= b * 1500
    BY <1>1, <1>4
  <2> QED
    BY <1>1, <1>4, <2>1
<1> QED
  BY <1>2, <1>3, <1>4

(* Of up to eleven values the 95th percentile is the last.                    *)
LEMMA LastIndex == ASSUME NEW n \in 1..11 PROVE Burst!Round(95 * (n - 1), 100) = n - 1
BY DEF Burst!Round

(* Naturals are well-founded, in the words of their order.                    *)
LEMMA Least == ASSUME NEW T, T \subseteq Nat, T # {} PROVE \E n \in T : \A k \in T : ~(k < n)
<1>1. PICK n \in T : \A k \in T : ~(<<k, n>> \in OpToRel(<, Nat))
  BY WFMin, NatLessThanWellFounded
<1>2. ASSUME NEW k \in T, k < n PROVE <<k, n>> \in OpToRel(<, Nat)
  <2>1. <<k, n>> \in Nat \X Nat /\ <<k, n>>[1] < <<k, n>>[2]
    BY <1>2
  <2> QED
    BY <2>1, Zenon DEF OpToRel
<1> QED
  BY <1>1, <1>2

(* A finite series has a slowest request: a smallest one without would be     *)
(* made by adding a request to a smaller one.                                 *)
LEMMA Slowest ==
    ASSUME NEW S, IsFiniteSet(S), S # {}, NEW f, \A s \in S : f[s] \in Int
    PROVE  \E m \in S : \A s \in S : f[s] <= f[m]
<1> DEFINE Top(T, m) == \A s \in T : f[s] <= f[m]
           Bad == {n \in Nat : \E T \in SUBSET S : T # {} /\ Cardinality(T) = n /\ \A m \in T : ~Top(T, m)}
<1>1. SUFFICES Bad = {}
  <2>1. Cardinality(S) \in Nat
    BY FS_CardinalityType
  <2> QED
    BY <2>1, <1>1
<1>2. SUFFICES ASSUME Bad # {} PROVE FALSE
  OBVIOUS
<1>3. PICK n \in Bad : \A k \in Bad : ~(k < n)
  BY <1>2, Least
<1>4. PICK T \in SUBSET S : T # {} /\ Cardinality(T) = n /\ \A m \in T : ~Top(T, m)
  BY <1>3
<1>5. PICK x \in T : TRUE
  BY <1>4
<1>6. IsFiniteSet(T) /\ n \in Nat /\ Cardinality(T \ {x}) = n - 1 /\ n - 1 \in Nat
  <2>1. IsFiniteSet(T)
    BY FS_Subset
  <2>2. Cardinality(T \ {x}) = n - 1 /\ IsFiniteSet(T \ {x})
    BY <1>4, <1>5, <2>1, FS_RemoveElement
  <2> QED
    BY <1>3, <2>1, <2>2, FS_CardinalityType
<1>7. CASE T = {x}
  BY <1>4, <1>7
<1>8. CASE T # {x}
  <2>1. n - 1 \notin Bad
    BY <1>3, <1>6
  <2>2. PICK m \in T \ {x} : Top(T \ {x}, m)
    <3>1. T \ {x} \in SUBSET S /\ T \ {x} # {}
      BY <1>5, <1>8
    <3> HIDE DEF Top
    <3> QED
      BY <1>6, <2>1, <3>1
  <2>3. Top(T, m) \/ Top(T, x)
    BY <1>5, <2>2
  <2> QED
    BY <1>4, <1>5, <2>2, <2>3
<1> QED
  BY <1>7, <1>8

(* The percentile of a series of up to eleven successes is the time of its    *)
(* slowest.                                                                   *)
LEMMA PercentileIsSlowest ==
    ASSUME BurstType, NEW S, S \subseteq DOMAIN outcome, S # {}, Cardinality(S) <= 11,
           Burst!Succeeded(S) = S
    PROVE  /\ \A r \in S : outcome[r].elapsed <= Burst!percentile(S, 95)
           /\ \E r \in S : outcome[r].elapsed = Burst!percentile(S, 95)
<1> DEFINE below(x) == Cardinality({r \in S : outcome[r].elapsed <= x})
           n == Cardinality(S)
           P(x) == below(x) > n - 1 /\ \A y \in Latencies : y < x => below(y) <= n - 1
<1>1. IsFiniteSet(S) /\ n \in 1..11
  <2>1. IsFiniteSet(S)
    BY FS_Subset DEF BurstType
  <2> QED
    BY <2>1, FS_CardinalityType, FS_EmptySet
<1>2. \A r \in S : outcome[r].elapsed \in Latencies /\ outcome[r].elapsed \in Nat
  BY ScriptsAssumption DEF BurstType, Burst!Succeeded
<1>3. PICK m \in S : \A r \in S : outcome[r].elapsed <= outcome[m].elapsed
  <2> DEFINE f == [r \in S |-> outcome[r].elapsed]
  <2>1. \A r \in S : f[r] \in Int
    BY <1>2
  <2>2. PICK m \in S : \A r \in S : f[r] <= f[m]
    <3> HIDE DEF f
    <3> QED
      BY <1>1, <2>1, Slowest
  <2> QED
    BY <2>2
<1>4. \A x : below(x) \in Nat /\ below(x) <= n /\ (below(x) = n <=> \A r \in S : outcome[r].elapsed <= x)
  <2> SUFFICES ASSUME NEW x
               PROVE  below(x) \in Nat /\ below(x) <= n /\ (below(x) = n <=> \A r \in S : outcome[r].elapsed <= x)
    OBVIOUS
  <2> DEFINE T == {r \in S : outcome[r].elapsed <= x}
  <2>1. T \in SUBSET S
    OBVIOUS
  <2>2. IsFiniteSet(T) /\ Cardinality(T) <= n /\ (n = Cardinality(T) => S = T)
    <3> HIDE DEF T
    <3> QED
      BY <1>1, <2>1, FS_Subset
  <2>3. Cardinality(T) \in Nat
    <3> HIDE DEF T
    <3> QED
      BY <2>2, FS_CardinalityType
  <2>4. T = S <=> \A r \in S : outcome[r].elapsed <= x
    OBVIOUS
  <2> QED
    BY <2>2, <2>3, <2>4
<1>5. P(outcome[m].elapsed)
  <2>1. below(outcome[m].elapsed) = n
    BY <1>3, <1>4
  <2>2. ASSUME NEW y \in Latencies, y < outcome[m].elapsed PROVE below(y) <= n - 1
    <3>1. ~(outcome[m].elapsed <= y)
      BY <1>2, <2>2, ScriptsAssumption
    <3>2. below(y) # n
      BY <1>4, <3>1
    <3> HIDE DEF below
    <3> QED
      BY <1>1, <1>4, <3>2
  <2> HIDE DEF below
  <2> QED
    BY <1>1, <2>1, <2>2
<1>6. Burst!percentile(S, 95) = CHOOSE x \in Latencies : P(x)
  <2>1. Burst!Round(95 * (n - 1), 100) = n - 1 /\ n # 0
    BY <1>1, LastIndex
  <2> QED
    BY <2>1, SameCardinality DEF Burst!percentile
<1>7. Burst!percentile(S, 95) \in Latencies /\ P(Burst!percentile(S, 95))
  <2> HIDE DEF P
  <2> QED
    BY <1>2, <1>5, <1>6
<1> DEFINE p == Burst!percentile(S, 95)
<1> HIDE DEF p
<1>8. p \in Nat /\ P(p)
  BY <1>7, ScriptsAssumption DEF p
<1>9. \A r \in S : outcome[r].elapsed <= p
  <2>1. below(p) = n
    <3> HIDE DEF below
    <3> QED
      BY <1>1, <1>4, <1>8
  <2> QED
    BY <1>4, <2>1
<1>10. ~(outcome[m].elapsed < p)
  <2>1. below(outcome[m].elapsed) = n
    BY <1>3, <1>4
  <2> HIDE DEF below
  <2> QED
    BY <1>1, <1>2, <1>8, <2>1
<1> QED
  BY <1>2, <1>8, <1>9, <1>10 DEF p

LEMMA NoErrors ==
    ASSUME BurstType, NEW S, S \subseteq DOMAIN outcome, Burst!Errors(S) = 0
    PROVE  Burst!Succeeded(S) = S
<1>1. IsFiniteSet(S)
  BY FS_Subset DEF BurstType
<1>2. IsFiniteSet(S \ Burst!Succeeded(S))
  BY <1>1, FS_Subset
<1>3. S \ Burst!Succeeded(S) = {}
  BY <1>2, FS_EmptySet, SameCardinality DEF Burst!Errors
<1> QED
  BY <1>3 DEF Burst!Succeeded

LEMMA GateHolds ==
    ASSUME \A a \in CommandLines : a.probe_count <= 11, BurstInv
    PROVE  GateSound
<1> SUFFICES ASSUME code # None, Burst!ProbeEnabled, Burst!GateStatus = "pass"
             PROVE  /\ \A s \in {baseline, under_load} : Cardinality(s) = args.probe_count /\ Burst!Succeeded(s) = s
                    /\ \A u \in under_load : \E b \in baseline :
                          20000 * (outcome[u].elapsed - outcome[b].elapsed) <= 3001 * outcome[b].elapsed
  BY SameCardinality DEF GateSound, Burst!GateSound
<1>0. BurstType /\ Phases /\ Reported /\ Complete
  BY DEF BurstInv
<1>1. args.probe_count \in 1..11
  BY <1>0, ScriptsAssumption DEF BurstType, Burst!ProbeEnabled
<1>2. phase = "exited" /\ probe = "done"
  BY <1>0, <1>1 DEF Phases, Unstarted
<1>3. Cardinality(baseline) = args.probe_count /\ Cardinality(under_load) = args.probe_count
  BY <1>0, <1>2 DEF Complete
<1>4. baseline \subseteq DOMAIN outcome /\ under_load \subseteq DOMAIN outcome /\ baseline # {} /\ under_load # {}
  <2>1. baseline \subseteq DOMAIN outcome /\ under_load \subseteq DOMAIN outcome
    BY <1>0 DEF Reported, Over
  <2>2. Cardinality({}) = 0 /\ args.probe_count # 0
    BY <1>1, FS_EmptySet
  <2>3. baseline # {} /\ under_load # {}
    BY <1>3, <2>2
  <2> QED
    BY <2>1, <2>3
<1> DEFINE base == Burst!percentile(Burst!Succeeded(baseline), 95)
           loaded == Burst!percentile(Burst!Succeeded(under_load), 95)
<1>5. /\ Burst!Errors(baseline) = 0 /\ Burst!Errors(under_load) = 0 /\ base > 0
      /\ Burst!Round(10000 * (loaded - base), base) <= 1500
  BY DEF Burst!GateStatus, Burst!MaxDegradation
<1>6. Burst!Succeeded(baseline) = baseline /\ Burst!Succeeded(under_load) = under_load
  BY <1>0, <1>4, <1>5, NoErrors
<1>7. PICK b \in baseline : outcome[b].elapsed = base
  BY <1>0, <1>1, <1>3, <1>4, <1>6, PercentileIsSlowest
<1>8. \A u \in under_load : outcome[u].elapsed <= loaded
  BY <1>0, <1>1, <1>3, <1>4, <1>6, PercentileIsSlowest
<1>9. PICK w \in under_load : outcome[w].elapsed = loaded
  BY <1>0, <1>1, <1>3, <1>4, <1>6, PercentileIsSlowest
<1>10. \A r \in baseline \cup under_load : outcome[r].elapsed \in Nat
  BY <1>0, <1>4, <1>6, ScriptsAssumption DEF BurstType, Burst!Succeeded
<1> HIDE DEF base, loaded
<1>11. base \in Nat \ {0} /\ loaded \in Nat
  BY <1>5, <1>7, <1>9, <1>10
<1>12. 20000 * (loaded - base) <= 3001 * base
  <2> DEFINE a == 10000 * (loaded - base)
  <2>1. a \in Int /\ 2 * a = 20000 * (loaded - base)
    BY <1>11
  <2>2. 2 * a <= 3001 * base
    <3> HIDE DEF a
    <3>1. Burst!Round(a, base) <= 1500
      BY <1>5 DEF a
    <3> QED
      BY <1>11, <2>1, <3>1, RoundBound
  <2> QED
    BY <2>1, <2>2
<1>13. ASSUME NEW u \in under_load
       PROVE  20000 * (outcome[u].elapsed - outcome[b].elapsed) <= 3001 * outcome[b].elapsed
  <2>1. outcome[u].elapsed \in Nat /\ outcome[u].elapsed <= loaded
    BY <1>8, <1>10
  <2> QED
    BY <1>7, <1>11, <1>12, <2>1
<1> QED
  BY <1>3, <1>6, <1>13

(* With at most eleven probes a series (beyond that the 95th percentile is    *)
(* not their slowest), load-burst.py's isolation gate passes only on two      *)
(* complete series without a failure, of which no request under load took     *)
(* more than 15.005 % longer than the slowest before.                         *)
THEOREM GatePassesOnEvidence ==
  ASSUME \A a \in CommandLines : a.probe_count <= 11
  PROVE  ScriptsSpec => []GateSound
BY BurstInit, BurstStep, GateHolds, PTL DEF ScriptsSpec
-----------------------------------------------------------------------------
(* The strict canaries.                                                       *)

(* Where the script stands tells what it has sent and what it knows.          *)
Starting == {"secret", "binding"}
BeforeCount == Starting \cup {"await_binding", "before"}
MappedUnsent == BeforeCount \cup {"mapped"}
UnmappedUnsent == MappedUnsent \cup {"await_mapped", "unmapped"}
Steps == UnmappedUnsent \cup {"await_unmapped", "after", "report", "exited"}
CanaryType ==
    /\ IdentityTypeOK
    /\ channel \in {"telegram", "slack"} /\ step \in Steps
    /\ binding_resp \in {None, "ok", "failed"}
    /\ mapped_resp \in Answers \cup {None} /\ unmapped_resp \in Answers \cup {None}
    /\ strict_before \in Nat \cup {None} /\ strict_after \in Nat \cup {None}
    /\ exit \in {None, 0, 1, 2, 3, 4}
Progress ==
    /\ step \in Starting => Binding \notin sent
    /\ step \in MappedUnsent => Mapped \notin sent
    /\ step \in UnmappedUnsent => Unmapped \notin sent
    /\ strict_before # None => step \notin BeforeCount
    /\ strict_after # None => step \in {"report", "exited"}
    /\ exit # None => step = "exited"

(* Nothing happens to a message before it is sent; its answer stays, and the  *)
(* script has been told no other.                                             *)
Told ==
    /\ \A w \in Deliveries : (w \notin sent => pc[w] = "idle") /\ (answer[w] # None => pc[w] = "answered")
    /\ mapped_resp # None => mapped_resp = answer[Mapped]
    /\ unmapped_resp # None => unmapped_resp = answer[Unmapped]

(* Refusals are a strict channel's, and counted.                              *)
Refused(w) == pc[w] = "refusing" \/ answer[w] = "strict_reject"
Refusal(w) == IF Refused(w) THEN 1 ELSE 0
Enforced ==
    /\ \A w \in Deliveries : Refused(w) => ChannelOf(w) \in strict
    /\ channel = "slack" => \A w \in Deliveries : kind[w] = "slack"
    /\ rejected > 0 \/ (strict_after # None /\ strict_after > 0) => strict # {}
    /\ exit = 0 => binding_resp = "ok" /\ Accepted(mapped_resp) /\ StrictSignal
Tallied ==
    /\ ~restarted /\ strict_before # None => rejected >= strict_before + Refusal(Mapped) + Refusal(Unmapped)
    /\ ~restarted /\ StrictDelta # None =>
         StrictDelta >= (IF IsStrictReject(mapped_resp) THEN 1 ELSE 0) + (IF IsStrictReject(unmapped_resp) THEN 1 ELSE 0)

(* As long as nobody else has changed a binding and no answer was overtaken,  *)
(* the script's own binding holds once it is made, and once acknowledged no   *)
(* lookup says otherwise.                                                     *)
Alone == IdOf[Mapped] \notin raced /\ \A e \in Others : edit[e] \in {"idle", "failed"}
Bound ==
    LET i == IdOf[Mapped]
    IN /\ binding_resp = "ok" => edit[Binding] = "ok"
       /\ Alone => /\ edit[Binding] \in {"changed", "ok"} => db[i] # None
                   /\ edit[Binding] = "ok" => negative[i] = None
       /\ Alone /\ binding_resp = "ok" => /\ pc[Mapped] \in {"store", "decide"} => found[Mapped] # None
                                          /\ ~Refused(Mapped)
CanaryInv == CanaryType /\ Progress /\ Told /\ Enforced /\ Tallied /\ Bound

USE CanaryAssumption DEF CanaryAssumption

LEMMA CanaryInit == ScriptsInit => CanaryInv
<1> SUFFICES ASSUME ScriptsInit PROVE CanaryInv
  OBVIOUS
<1>1. Init
  BY DEF ScriptsInit
<1>2. IdentityInit /\ IdentityTypeOK
  BY <1>1, IdentityInitType DEF Init
<1>3. /\ pc = [w \in Deliveries |-> "idle"] /\ answer = [w \in Deliveries |-> None]
      /\ edit = [e \in Edits |-> "idle"] /\ rejected = 0
  BY <1>2 DEF IdentityInit
<1>4. /\ channel \in {"telegram", "slack"} /\ step \in Starting
      /\ sent = (Deliveries \ {Mapped, Unmapped}) \cup (Edits \ {Binding})
      /\ binding_resp = None /\ mapped_resp = None /\ unmapped_resp = None
      /\ strict_before = None /\ strict_after = None /\ exit = None
  BY <1>1 DEF Init, Starting
<1>5. CanaryType
  BY <1>2, <1>4 DEF CanaryType, Steps, UnmappedUnsent, MappedUnsent, BeforeCount, Starting
<1>6. Progress
  <2>1. Binding \notin sent /\ Mapped \notin sent /\ Unmapped \notin sent
    BY <1>4
  <2> QED
    BY <1>4, <2>1 DEF Progress
<1>7. Told
  BY <1>3, <1>4 DEF Told
<1>8. \A w \in Deliveries : ~Refused(w)
  <2>1. None # "strict_reject"
    BY NoneAnswerAssumption DEF Answers
  <2> QED
    BY <1>3, <2>1 DEF Refused
<1>9. Enforced
  <2>1. channel = "slack" => \A w \in Deliveries : kind[w] = "slack"
    BY <1>1 DEF Init, KindsOf
  <2> QED
    BY <1>3, <1>4, <1>8, <2>1 DEF Enforced
<1>10. Tallied
  BY <1>4 DEF Tallied, StrictDelta
<1>11. Bound
  <2>1. edit[Binding] = "idle"
    BY <1>3
  <2> QED
    BY <1>4, <2>1 DEF Bound
<1> QED
  BY <1>5, <1>6, <1>7, <1>9, <1>10, <1>11 DEF CanaryInv

(* A step is the gateway's, or the script's, which only may use up a fault.   *)
GatewayStep == Gateway /\ exit = None /\ UNCHANGED canaryVars /\ (IdentityStep \/ RefuseElsewhere)
ScriptStep == Canary /\ UNCHANGED gateway /\ (Fail \/ NoFault)
LEMMA CanarySteps == ASSUME [Next]_vars PROVE GatewayStep \/ ScriptStep \/ UNCHANGED vars
<1>1. ASSUME Gateway PROVE GatewayStep
  BY <1>1 DEF Gateway, GatewayStep, IdentityStep
<1>2. ASSUME ResolveSecret \/ SendBinding \/ SendMapped \/ SendUnmapped \/ Report PROVE UNCHANGED gateway /\ NoFault
  BY <1>2 DEF ResolveSecret, SendBinding, SendMapped, SendUnmapped, Send, Report, identityVars, gateway, NoFault
<1>3. ASSUME AwaitBinding \/ DiagBefore \/ AwaitMapped \/ AwaitUnmapped \/ DiagAfter
      PROVE  UNCHANGED gateway /\ (Fail \/ NoFault)
  BY <1>3 DEF AwaitBinding, DiagBefore, AwaitMapped, AwaitUnmapped, DiagAfter, Response
<1> QED
  BY <1>1, <1>2, <1>3 DEF Next, Canary, ScriptStep

(* The exit code is 0 only on the evidence the script asks for.               *)
LEMMA ExitCodes ==
    /\ ExitCode \in {0, 2, 3, 4}
    /\ ExitCode = 0 => binding_resp = "ok" /\ Accepted(mapped_resp) /\ StrictSignal
<1>1. 2 # 0 /\ 3 # 0 /\ 4 # 0
  OBVIOUS
<1> QED
  BY <1>1, Zenon DEF ExitCode

LEMMA CanaryTypeStep == ASSUME CanaryType, [Next]_vars PROVE CanaryType'
<1>1. ASSUME GatewayStep PROVE CanaryType'
  <2>1. ASSUME RefuseElsewhere PROVE IdentityTypeOK'
    BY <2>1 DEF CanaryType, IdentityTypeOK, RefuseElsewhere, stored, cache, lookup
  <2>2. IdentityTypeOK'
    BY <1>1, <2>1, IdentityTypeStep DEF CanaryType, GatewayStep
  <2> QED
    BY <1>1, <2>2 DEF GatewayStep, CanaryType, canaryVars
<1>2. ASSUME ScriptStep PROVE CanaryType'
  <2>1. IdentityTypeOK'
    <3>1. LookupType /\ BindingType /\ CacheType /\ EditType /\ RestType
      BY TypeParts DEF CanaryType
    <3>2. LookupType' /\ BindingType' /\ CacheType' /\ EditType'
      BY <1>2, <3>1 DEF ScriptStep, gateway, stored, cache, lookup, LookupType, BindingType, CacheType, EditType
    <3>3. RestType'
      BY <1>2, <3>1, CountType DEF ScriptStep, gateway, RestType
    <3> QED
      BY <3>2, <3>3, TypePartsPrime
  <2>2. ASSUME ResolveSecret \/ SendBinding \/ SendMapped \/ SendUnmapped PROVE CanaryType'
    BY <2>1, <2>2 DEF ResolveSecret, Exit, SendBinding, SendMapped, SendUnmapped, Send, responses, CanaryType, Steps,
       UnmappedUnsent, MappedUnsent, BeforeCount, Starting
  <2>3. ASSUME AwaitBinding \/ AwaitMapped \/ AwaitUnmapped PROVE CanaryType'
    <3>1. /\ binding_resp' \in {None, "ok", "failed"}
          /\ mapped_resp' \in Answers \cup {None} /\ unmapped_resp' \in Answers \cup {None}
      <4>1. answer[Mapped] \in Answers \cup {None} /\ answer[Unmapped] \in Answers \cup {None}
        BY DEF CanaryType, IdentityTypeOK
      <4> QED
        BY <2>3, <4>1 DEF AwaitBinding, AwaitMapped, AwaitUnmapped, Response, BindingAnswered, CanaryType
    <3> QED
      BY <2>1, <2>3, <3>1 DEF AwaitBinding, AwaitMapped, AwaitUnmapped, CanaryType, Steps, UnmappedUnsent, MappedUnsent,
         BeforeCount
  <2>4. ASSUME DiagBefore \/ DiagAfter PROVE CanaryType'
    <3>1. strict_before' \in Nat \cup {None} /\ strict_after' \in Nat \cup {None}
      BY <2>4 DEF DiagBefore, DiagAfter, Response, CanaryType, IdentityTypeOK
    <3> QED
      BY <2>1, <2>4, <3>1 DEF DiagBefore, DiagAfter, responses, CanaryType, Steps, UnmappedUnsent, MappedUnsent
  <2>5. ASSUME Report PROVE CanaryType'
    BY <2>1, <2>5, ExitCodes DEF Report, Exit, responses, CanaryType, Steps
  <2> QED
    BY <1>2, <2>2, <2>3, <2>4, <2>5 DEF ScriptStep, Canary
<1>3. ASSUME UNCHANGED vars PROVE CanaryType'
  BY <1>3, TypeStutter DEF vars, canaryVars, CanaryType
<1> QED
  BY <1>1, <1>2, <1>3, CanarySteps

LEMMA ProgressStep == ASSUME CanaryType, Progress, [Next]_vars PROVE Progress'
<1> USE DEF Progress, UnmappedUnsent, MappedUnsent, BeforeCount, Starting
<1>1. ASSUME GatewayStep \/ UNCHANGED vars PROVE Progress'
  BY <1>1 DEF GatewayStep, vars, canaryVars
<1>2. ASSUME ResolveSecret \/ SendBinding \/ SendMapped \/ SendUnmapped PROVE Progress'
  BY <1>2 DEF ResolveSecret, Exit, SendBinding, SendMapped, SendUnmapped, Send, responses
<1>3. ASSUME AwaitBinding \/ AwaitMapped \/ AwaitUnmapped \/ DiagBefore \/ DiagAfter \/ Report PROVE Progress'
  BY <1>3 DEF AwaitBinding, AwaitMapped, AwaitUnmapped, DiagBefore, DiagAfter, Report, Exit, responses
<1> QED
  BY <1>1, <1>2, <1>3, CanarySteps DEF ScriptStep, Canary

(* One handler moves at a time, unless the gateway restarts.                  *)
Still(w) == pc'[w] = pc[w] /\ found'[w] = found[w] /\ answer'[w] = answer[w]
LEMMA HandlersApart ==
    ASSUME IdentityTypeOK, NEW w \in Deliveries, NEW v \in Deliveries, v # w, Receive(v) \/ Webhook(v)
    PROVE  Still(w)
<1> USE DEF IdentityTypeOK, Still, Goto
<1>1. ASSUME Receive(v) \/ Dedupe(v) \/ BindOwn(v) \/ InvalidateOwn(v) PROVE Still(w)
  BY <1>1 DEF Receive, Dedupe, BindOwn, InvalidateOwn, Answer, GoOn
<1>2. ASSUME ReadClock(v) \/ LookInCache(v) PROVE Still(w)
  BY <1>2 DEF ReadClock, LookInCache
<1>3. ASSUME Query(v) \/ Store(v) \/ Decide(v) \/ Reply(v) PROVE Still(w)
  BY <1>3 DEF Query, Store, Decide, Reply, Answer, GoOn
<1> QED
  BY <1>1, <1>2, <1>3 DEF Webhook

LEMMA OneHandler ==
    ASSUME IdentityTypeOK, IdentityStep, NEW w \in Deliveries
    PROVE  Still(w) \/ Receive(w) \/ Webhook(w) \/ Restart
<1>1. CASE Tick \/ \E e \in Edits : ChangeBinding(e) \/ Invalidate(e)
  BY <1>1 DEF Tick, ChangeBinding, Invalidate, Still, lookup
<1> QED
  BY <1>1, HandlersApart DEF IdentityStep

(* What a handler's own steps do: it is between the request and the answer,   *)
(* and refuses what it has decided to refuse.                                 *)
LEMMA OwnSteps ==
    ASSUME IdentityTypeOK, NEW w \in Deliveries, Receive(w) \/ Webhook(w)
    PROVE  /\ Receive(w) \/ pc[w] \notin {"idle", "answered"}
           /\ pc[w] # "answered"
           /\ pc'[w] = "answered" \/ answer'[w] = answer[w]
           /\ pc'[w] = "refusing" => Decide(w) /\ Rejects(w)
           /\ answer'[w] = "strict_reject" => pc[w] = "refusing" \/ answer[w] = "strict_reject"
<1> USE DEF IdentityTypeOK, Goto, lookup
<1>1. ASSUME Receive(w) \/ Dedupe(w) \/ BindOwn(w) \/ InvalidateOwn(w)
      PROVE  /\ Receive(w) \/ pc[w] \notin {"idle", "answered"}
             /\ pc[w] # "answered" /\ pc'[w] # "refusing"
             /\ pc'[w] = "answered" \/ answer'[w] = answer[w]
             /\ answer'[w] = "strict_reject" => answer[w] = "strict_reject"
  BY <1>1 DEF Receive, Dedupe, BindOwn, InvalidateOwn, Answer, GoOn
<1>2. ASSUME ReadClock(w) \/ LookInCache(w) \/ Query(w) \/ Store(w)
      PROVE  /\ pc[w] \notin {"idle", "answered"} /\ pc'[w] # "refusing"
             /\ pc'[w] = "answered" \/ answer'[w] = answer[w]
             /\ answer'[w] = "strict_reject" => answer[w] = "strict_reject"
  BY <1>2 DEF ReadClock, LookInCache, Query, Store, Answer, GoOn
<1>3. ASSUME Decide(w)
      PROVE  pc[w] = "decide" /\ answer'[w] = answer[w] /\ (pc'[w] = "refusing" => Rejects(w))
  BY <1>3 DEF Decide, GoOn
<1>4. ASSUME Reply(w)
      PROVE  /\ pc[w] \notin {"idle", "answered"} /\ pc'[w] = "answered"
             /\ answer'[w] = "strict_reject" => pc[w] = "refusing"
  BY <1>4 DEF Reply, Answer
<1> QED
  BY <1>1, <1>2, <1>3, <1>4 DEF Webhook

LEMMA ToldStep == ASSUME CanaryType, Told, [Next]_vars PROVE Told'
<1>1. ASSUME NEW w \in Deliveries PROVE answer'[w] # None => pc'[w] = "answered"
  <2>1. CASE UNCHANGED lookup
    BY <2>1 DEF lookup, Told
  <2>2. CASE Restart
    BY <2>2 DEF Restart, Told, CanaryType, IdentityTypeOK
  <2>3. CASE IdentityStep /\ ~Restart
    BY <2>3, OneHandler, OwnSteps DEF Told, Still, CanaryType
  <2> QED
    BY <2>1, <2>2, <2>3, CanarySteps DEF GatewayStep, RefuseElsewhere, ScriptStep, gateway, vars, identityVars
<1>2. ASSUME NEW w \in Deliveries, answer[w] # None PROVE answer'[w] = answer[w]
  <2>1. CASE UNCHANGED lookup
    BY <2>1 DEF lookup
  <2>2. CASE Restart
    BY <1>2, <2>2 DEF Restart, Told
  <2>3. CASE IdentityStep /\ ~Restart
    BY <1>2, <2>3, OneHandler, OwnSteps DEF Told, Still, CanaryType
  <2> QED
    BY <2>1, <2>2, <2>3, CanarySteps DEF GatewayStep, RefuseElsewhere, ScriptStep, gateway, vars, identityVars
<1>3. ASSUME NEW w \in Deliveries, w \notin sent' PROVE pc'[w] = "idle"
  <2>1. sent \subseteq sent'
    <3>1. ASSUME Canary PROVE sent \subseteq sent'
      BY <3>1 DEF Canary, ResolveSecret, SendBinding, AwaitBinding, DiagBefore, SendMapped, AwaitMapped, SendUnmapped,
         AwaitUnmapped, DiagAfter, Report, Send
    <3> QED
      BY <3>1, CanarySteps DEF GatewayStep, ScriptStep, vars, canaryVars
  <2>2. pc[w] = "idle" /\ w \notin sent
    BY <1>3, <2>1 DEF Told
  <2>3. CASE UNCHANGED lookup
    BY <2>2, <2>3 DEF lookup
  <2>4. CASE Gateway
    <3>1. ASSUME NEW v \in Deliveries, v # w, Receive(v) PROVE pc'[w] = "idle"
      BY <2>2, <3>1 DEF Receive, Answer, GoOn, Goto, CanaryType, IdentityTypeOK
    <3>2. ASSUME NEW v \in Deliveries, Webhook(v) PROVE Still(w)
      <4>1. pc[v] # "idle"
        BY <3>2 DEF Webhook, Dedupe, BindOwn, InvalidateOwn, ReadClock, LookInCache, Query, Store, Decide, Reply
      <4>2. v # w
        BY <2>2, <4>1
      <4> QED
        BY <2>2, <3>2, <4>2, HandlersApart DEF CanaryType
    <3>3. ASSUME Tick \/ \E e \in Edits : ChangeBinding(e) \/ Invalidate(e) PROVE pc'[w] = "idle"
      BY <2>2, <3>3 DEF Tick, ChangeBinding, Invalidate, lookup
    <3>4. ASSUME Restart PROVE pc'[w] = "idle"
      BY <2>2, <3>4 DEF Restart
    <3> QED
      BY <2>2, <2>4, <3>1, <3>2, <3>3, <3>4 DEF Gateway, Still, RefuseElsewhere, lookup
  <2> QED
    BY <2>3, <2>4, CanarySteps DEF GatewayStep, ScriptStep, gateway, vars, identityVars
<1>4. mapped_resp' \in {None, mapped_resp, answer[Mapped]} /\ unmapped_resp' \in {None, unmapped_resp, answer[Unmapped]}
  <2>1. ASSUME Canary
        PROVE  /\ mapped_resp' \in {None, mapped_resp, answer[Mapped]}
               /\ unmapped_resp' \in {None, unmapped_resp, answer[Unmapped]}
    BY <2>1 DEF Canary, ResolveSecret, SendBinding, AwaitBinding, DiagBefore, SendMapped, AwaitMapped, SendUnmapped,
       AwaitUnmapped, DiagAfter, Report, Send, Response, responses
  <2> QED
    BY <2>1, CanarySteps DEF GatewayStep, ScriptStep, vars, canaryVars
<1>5. /\ mapped_resp' # None => mapped_resp' = answer'[Mapped]
      /\ unmapped_resp' # None => unmapped_resp' = answer'[Unmapped]
  BY <1>2, <1>4 DEF Told
<1> QED
  BY <1>1, <1>3, <1>5 DEF Told

(* Only a decision makes a refusal, and it counts it.                         *)
LEMMA RefusalSteps ==
    ASSUME IdentityTypeOK, IdentityStep, NEW w \in Deliveries, Refused(w)', ~Refused(w)
    PROVE  Decide(w) /\ Rejects(w) /\ rejected' = rejected + 1
<1> USE NoneAnswerAssumption DEF Answers
<1>1. ~Still(w)
  BY DEF Still, Refused
<1>2. ~Restart
  BY DEF Restart, Refused, IdentityTypeOK
<1>3. Receive(w) \/ Webhook(w)
  BY <1>1, <1>2, OneHandler
<1>4. Decide(w) /\ Rejects(w)
  BY <1>3, OwnSteps DEF Refused
<1> QED
  BY <1>4 DEF Decide, Counted

LEMMA CounterSteps ==
    ASSUME IdentityTypeOK, IdentityStep
    PROVE  /\ UNCHANGED <<kind, strict>>
           /\ \/ Restart /\ rejected' = 0 /\ restarted'
              \/ restarted' = restarted /\ rejected' \in {rejected, rejected + 1}
           /\ rejected' = rejected + 1 => \E w \in Deliveries : Decide(w) /\ Rejects(w)
<1> USE DEF IdentityTypeOK
<1>1. ASSUME NEW v \in Deliveries, Receive(v) \/ Dedupe(v) \/ BindOwn(v) \/ InvalidateOwn(v)
      PROVE  UNCHANGED <<kind, strict, rejected, restarted>>
  BY <1>1 DEF Receive, Dedupe, BindOwn, InvalidateOwn
<1>2. ASSUME NEW v \in Deliveries, ReadClock(v) \/ LookInCache(v) \/ Query(v) \/ Store(v) \/ Reply(v)
      PROVE  UNCHANGED <<kind, strict, rejected, restarted>>
  BY <1>2 DEF ReadClock, LookInCache, Query, Store, Reply
<1>3. ASSUME NEW v \in Deliveries, Decide(v)
      PROVE  /\ UNCHANGED <<kind, strict, restarted>> /\ rejected' \in {rejected, rejected + 1}
             /\ rejected' = rejected + 1 => Rejects(v)
  BY <1>3 DEF Decide, Counted
<1>4. ASSUME Tick \/ \E e \in Edits : ChangeBinding(e) \/ Invalidate(e)
      PROVE  UNCHANGED <<kind, strict, rejected, restarted>>
  BY <1>4 DEF Tick, ChangeBinding, Invalidate
<1>5. ASSUME Restart PROVE UNCHANGED <<kind, strict>> /\ rejected' = 0 /\ restarted'
  BY <1>5 DEF Restart
<1>6. rejected # rejected + 1 /\ 0 # rejected + 1
  OBVIOUS
<1> QED
  BY <1>1, <1>2, <1>3, <1>4, <1>5, <1>6 DEF IdentityStep, Webhook

LEMMA EnforcedStep == ASSUME CanaryType, Told, Enforced, Progress, [Next]_vars PROVE Enforced'
<1> USE NoneAnswerAssumption DEF Answers
<1>1. kind' = kind /\ strict' = strict /\ channel' = channel
  <2>1. ASSUME Canary PROVE channel' = channel
    BY <2>1 DEF Canary, ResolveSecret, SendBinding, AwaitBinding, DiagBefore, SendMapped, AwaitMapped, SendUnmapped,
       AwaitUnmapped, DiagAfter, Report, Send
  <2> QED
    BY <2>1, CounterSteps, CanarySteps
       DEF GatewayStep, RefuseElsewhere, ScriptStep, gateway, vars, canaryVars, identityVars, CanaryType
<1>2. ASSUME NEW w \in Deliveries, Refused(w)' PROVE ChannelOf(w)' \in strict'
  <2>1. CASE Refused(w)
    BY <1>1, <2>1 DEF Enforced, ChannelOf
  <2>2. CASE ~Refused(w)
    <3>1. GatewayStep /\ IdentityStep
      BY <1>2, <2>2, CanarySteps
         DEF GatewayStep, RefuseElsewhere, ScriptStep, gateway, vars, identityVars, lookup, Refused
    <3> QED
      BY <1>1, <1>2, <2>2, <3>1, RefusalSteps DEF CanaryType, Rejects, ChannelOf
  <2> QED
    BY <2>1, <2>2
<1>3. rejected' > 0 => strict # {}
  <2>1. CASE GatewayStep /\ IdentityStep
    <3>1. IdentityTypeOK /\ rejected \in Nat
      BY DEF CanaryType, IdentityTypeOK
    <3>2. rejected' \in {0, rejected} \/ \E w \in Deliveries : Rejects(w)
      BY <2>1, <3>1, CounterSteps
    <3>3. (\E w \in Deliveries : Rejects(w)) => strict # {}
      BY DEF Rejects
    <3> QED
      BY <3>2, <3>3 DEF Enforced
  <2>2. CASE RefuseElsewhere
    BY <2>2 DEF RefuseElsewhere
  <2>3. CASE rejected' = rejected
    BY <2>3 DEF Enforced
  <2> QED
    BY <2>1, <2>2, <2>3, CanarySteps DEF GatewayStep, ScriptStep, gateway, vars, identityVars
<1>4. strict_after' # None /\ strict_after' > 0 => strict # {}
  <2>1. ASSUME Canary PROVE strict_after' \in {None, strict_after, rejected}
    BY <2>1 DEF Canary, ResolveSecret, SendBinding, AwaitBinding, DiagBefore, SendMapped, AwaitMapped, SendUnmapped,
       AwaitUnmapped, DiagAfter, Report, Send, Response
  <2>2. strict_after' \in {None, strict_after, rejected}
    BY <2>1, CanarySteps DEF GatewayStep, ScriptStep, vars, canaryVars
  <2> QED
    BY <2>2 DEF Enforced
<1>5. exit' = 0 => binding_resp' = "ok" /\ Accepted(mapped_resp)' /\ StrictSignal'
  <2>1. CASE UNCHANGED canaryVars
    BY <2>1 DEF canaryVars, Enforced, Accepted, StrictSignal, IsStrictReject, StrictDelta
  <2>2. CASE Report
    BY <2>2, ExitCodes DEF Report, Exit, responses, Accepted, StrictSignal, IsStrictReject, StrictDelta
  <2>3. CASE Canary /\ ~Report
    <3>1. exit = None /\ exit' \in {None, 1}
      BY <2>3 DEF Canary, ResolveSecret, SendBinding, AwaitBinding, DiagBefore, SendMapped, AwaitMapped, SendUnmapped,
         AwaitUnmapped, DiagAfter, Send, Exit, Progress
    <3> QED
      BY <3>1
  <2> QED
    BY <2>1, <2>2, <2>3, CanarySteps DEF GatewayStep, ScriptStep, vars
<1> QED
  BY <1>1, <1>2, <1>3, <1>4, <1>5 DEF Enforced

LEMMA TalliedStep ==
    ASSUME CanaryType, Progress, Told, Tallied, [Next]_vars PROVE Tallied'
<1> USE NoneAnswerAssumption DEF Answers
<1> USE DEF Refusal
<1>1. ASSUME GatewayStep, IdentityStep, ~restarted', strict_before' # None
      PROVE  rejected' >= strict_before' + Refusal(Mapped)' + Refusal(Unmapped)'
  <2>1. strict_before' = strict_before /\ strict_before \in Nat /\ rejected \in Nat
    BY <1>1 DEF GatewayStep, canaryVars, CanaryType, IdentityTypeOK
  <2>2. ~restarted /\ rejected' \in {rejected, rejected + 1}
    BY <1>1, CounterSteps DEF CanaryType
  <2>3. rejected >= strict_before + Refusal(Mapped) + Refusal(Unmapped)
    BY <1>1, <2>1, <2>2 DEF Tallied
  <2>4. ASSUME Refused(Mapped)', ~Refused(Mapped) PROVE rejected' = rejected + 1 /\ Refusal(Unmapped)' <= Refusal(Unmapped)
    <3>1. Decide(Mapped) /\ rejected' = rejected + 1
      BY <1>1, <2>4, RefusalSteps DEF CanaryType
    <3>2. Still(Unmapped)
      BY <3>1, HandlersApart DEF CanaryType, Webhook
    <3> QED
      BY <3>1, <3>2 DEF Still, Refused
  <2>5. ASSUME Refused(Unmapped)', ~Refused(Unmapped) PROVE rejected' = rejected + 1
    BY <1>1, <2>5, RefusalSteps DEF CanaryType
  <2> HIDE DEF Refusal
  <2>6. Refusal(Mapped) \in 0..1 /\ Refusal(Unmapped) \in 0..1 /\ Refusal(Mapped)' \in 0..1 /\ Refusal(Unmapped)' \in 0..1
    BY DEF Refusal
  <2>7. /\ Refusal(Mapped)' <= Refusal(Mapped) \/ (rejected' = rejected + 1 /\ Refusal(Unmapped)' <= Refusal(Unmapped))
        /\ Refusal(Unmapped)' <= Refusal(Unmapped) \/ rejected' = rejected + 1
    BY <2>4, <2>5 DEF Refusal
  <2> QED
    BY <2>1, <2>2, <2>3, <2>6, <2>7
<1>2. ASSUME UNCHANGED lookup, rejected' \in {rejected, rejected + 1}, restarted' = restarted, strict_before' = strict_before,
             ~restarted', strict_before' # None
      PROVE  rejected' >= strict_before' + Refusal(Mapped)' + Refusal(Unmapped)'
  <2>1. Refusal(Mapped)' = Refusal(Mapped) /\ Refusal(Unmapped)' = Refusal(Unmapped)
    BY <1>2 DEF lookup, Refused
  <2>2. strict_before \in Nat /\ rejected \in Nat /\ rejected >= strict_before + Refusal(Mapped) + Refusal(Unmapped)
    BY <1>2 DEF CanaryType, IdentityTypeOK, Tallied
  <2> HIDE DEF Refusal
  <2>3. Refusal(Mapped) \in 0..1 /\ Refusal(Unmapped) \in 0..1
    BY DEF Refusal
  <2> QED
    BY <1>2, <2>1, <2>2, <2>3
<1>3. ASSUME DiagBefore, UNCHANGED gateway, strict_before' # None
      PROVE  rejected' >= strict_before' + Refusal(Mapped)' + Refusal(Unmapped)'
  <2>1. Mapped \notin sent /\ Unmapped \notin sent
    BY <1>3 DEF DiagBefore, Progress, MappedUnsent, UnmappedUnsent, BeforeCount
  <2>2. ~Refused(Mapped) /\ ~Refused(Unmapped)
    BY <2>1 DEF Told, Refused
  <2>3. ~Refused(Mapped)' /\ ~Refused(Unmapped)'
    BY <1>3, <2>2 DEF gateway, lookup, Refused
  <2>4. strict_before' = rejected /\ rejected' = rejected /\ rejected \in Nat
    BY <1>3 DEF DiagBefore, Response, gateway, CanaryType, IdentityTypeOK
  <2> QED
    BY <2>3, <2>4
<1>4. ASSUME ~restarted', strict_before' # None
      PROVE  rejected' >= strict_before' + Refusal(Mapped)' + Refusal(Unmapped)'
  <2>1. CASE GatewayStep
    <3>1. CASE RefuseElsewhere
      BY <1>2, <1>4, <2>1, <3>1 DEF GatewayStep, RefuseElsewhere, canaryVars
    <3> QED
      BY <1>1, <1>4, <2>1, <3>1 DEF GatewayStep
  <2>2. CASE ScriptStep /\ ~DiagBefore
    <3>1. strict_before' = strict_before
      BY <2>2 DEF ScriptStep, Canary, ResolveSecret, SendBinding, AwaitBinding, SendMapped, AwaitMapped, SendUnmapped,
         AwaitUnmapped, DiagAfter, Report, Send
    <3> QED
      BY <1>2, <1>4, <2>2, <3>1 DEF ScriptStep, gateway
  <2>3. CASE UNCHANGED vars
    BY <1>2, <1>4, <2>3 DEF vars, canaryVars, identityVars
  <2> QED
    BY <1>3, <1>4, <2>1, <2>2, <2>3, CanarySteps DEF ScriptStep
<1> DEFINE Refusals == (IF IsStrictReject(mapped_resp) THEN 1 ELSE 0) + (IF IsStrictReject(unmapped_resp) THEN 1 ELSE 0)
<1>5. ASSUME ~restarted', StrictDelta' # None PROVE StrictDelta' >= Refusals'
  <2>1. restarted' = restarted \/ restarted'
    BY CanarySteps, CounterSteps
       DEF GatewayStep, RefuseElsewhere, ScriptStep, gateway, vars, identityVars, CanaryType
  <2>2. CASE UNCHANGED <<responses, strict_before, strict_after>>
    BY <1>5, <2>1, <2>2 DEF Tallied, StrictDelta, responses, IsStrictReject
  <2>3. CASE DiagAfter /\ UNCHANGED gateway
    <3>1. /\ strict_after' = rejected /\ strict_before' = strict_before /\ UNCHANGED responses
          /\ strict_before \in Nat /\ rejected \in Nat
      BY <1>5, <2>3 DEF DiagAfter, Response, StrictDelta, CanaryType, IdentityTypeOK
    <3>2. rejected >= strict_before + Refusal(Mapped) + Refusal(Unmapped)
      BY <1>5, <2>1, <3>1 DEF Tallied
    <3>3. /\ IsStrictReject(mapped_resp) => Refused(Mapped)
          /\ IsStrictReject(unmapped_resp) => Refused(Unmapped)
      BY DEF IsStrictReject, Told, Refused
    <3>4. StrictDelta' = rejected - strict_before
      BY <3>1 DEF StrictDelta
    <3>5. Refusals' = Refusals /\ Refusals \in Int /\ Refusals <= Refusal(Mapped) + Refusal(Unmapped)
      BY <3>1, <3>3 DEF responses, IsStrictReject
    <3> HIDE DEF Refusals, Refusal
    <3>6. Refusal(Mapped) \in 0..1 /\ Refusal(Unmapped) \in 0..1
      BY DEF Refusal
    <3> QED
      BY <3>1, <3>2, <3>4, <3>5, <3>6
  <2>4. CASE DiagBefore \/ AwaitBinding \/ AwaitMapped \/ AwaitUnmapped
    <3>1. strict_after = None /\ strict_after' = None
      BY <2>4 DEF DiagBefore, AwaitBinding, AwaitMapped, AwaitUnmapped, Progress
    <3> QED
      BY <1>5, <3>1 DEF StrictDelta
  <2>5. ASSUME ResolveSecret \/ SendBinding \/ SendMapped \/ SendUnmapped \/ Report
        PROVE  UNCHANGED <<responses, strict_before, strict_after>>
    BY <2>5 DEF ResolveSecret, SendBinding, SendMapped, SendUnmapped, Report, Send
  <2> QED
    BY <2>2, <2>3, <2>4, <2>5, CanarySteps DEF GatewayStep, ScriptStep, Canary, vars, canaryVars, responses
<1> QED
  BY <1>4, <1>5 DEF Tallied

(* Being alone is lost for good.                                              *)
EditsKept == \A e \in Others : edit'[e] \in {"idle", "failed"} => edit[e] \in {"idle", "failed"}
LEMMA AloneBefore ==
    ASSUME IdentityTypeOK, IdentityStep
    PROVE  raced \subseteq raced' /\ EditsKept
<1> USE DEF IdentityTypeOK, EditsKept, Others, cache
<1>1. ASSUME NEW v \in Deliveries, Receive(v) \/ Dedupe(v) \/ BindOwn(v) \/ InvalidateOwn(v)
      PROVE  raced' = raced /\ edit' = edit
  BY <1>1 DEF Receive, Dedupe, BindOwn, InvalidateOwn, Forget
<1>2. ASSUME NEW v \in Deliveries, ReadClock(v) \/ LookInCache(v) \/ Query(v) \/ Decide(v) \/ Reply(v)
      PROVE  raced' = raced /\ edit' = edit
  BY <1>2 DEF ReadClock, LookInCache, Query, Decide, Reply
<1>3. ASSUME NEW v \in Deliveries, Store(v) PROVE raced \subseteq raced' /\ edit' = edit
  BY <1>3 DEF Store
<1>4. ASSUME NEW e \in Edits, ChangeBinding(e) \/ Invalidate(e) PROVE raced' = raced /\ EditsKept
  BY <1>4 DEF ChangeBinding, Invalidate, Forget
<1>5. ASSUME Tick PROVE raced' = raced /\ edit' = edit
  BY <1>5 DEF Tick
<1>6. ASSUME Restart PROVE raced' = raced /\ EditsKept
  BY <1>6 DEF Restart
<1> QED
  BY <1>1, <1>2, <1>3, <1>4, <1>5, <1>6 DEF IdentityStep, Webhook

(* Alone, only this binding and private chats write, and they write users.    *)
LEMMA AloneBinds ==
    ASSUME IdentityTypeOK, IdentityStep, Alone'
    PROVE  /\ db[IdOf[Mapped]] # None => db'[IdOf[Mapped]] # None
           /\ edit'[Binding] \in {"changed", "ok"} => edit[Binding] \in {"changed", "ok"} \/ db'[IdOf[Mapped]] # None
<1> DEFINE Good == /\ db[IdOf[Mapped]] # None => db'[IdOf[Mapped]] # None
                   /\ edit'[Binding] \in {"changed", "ok"} => edit[Binding] \in {"changed", "ok"} \/ db'[IdOf[Mapped]] # None
<1> USE DEF IdentityTypeOK, stored
<1>1. ASSUME NEW v \in Deliveries, Receive(v) \/ Dedupe(v) \/ InvalidateOwn(v) \/ ReadClock(v) \/ LookInCache(v)
      PROVE  db' = db /\ edit' = edit
  BY <1>1 DEF Receive, Dedupe, InvalidateOwn, ReadClock, LookInCache
<1>2. ASSUME NEW v \in Deliveries, Query(v) \/ Store(v) \/ Decide(v) \/ Reply(v)
      PROVE  db' = db /\ edit' = edit
  BY <1>2 DEF Query, Store, Decide, Reply
<1>3. ASSUME NEW v \in Deliveries, BindOwn(v) PROVE Good
  <2>1. UserOf[v] # None /\ edit' = edit
    BY <1>3, IdentityAssumption DEF BindOwn, IdentityAssumption
  <2>2. db' = db \/ db' = [db EXCEPT ![IdOf[v]] = UserOf[v]]
    BY <1>3 DEF BindOwn, Bind
  <2> QED
    BY <2>1, <2>2, IdentityAssumption DEF IdentityAssumption
<1>4. ASSUME NEW e \in Edits, ChangeBinding(e) PROVE Good
  <2>1. CASE e = Binding
    <3>1. EditOf[Binding].user # None /\ IdOf[Mapped] \in Ids
      BY IdentityAssumption DEF IdentityAssumption
    <3>2. \/ db' = db /\ edit' = [edit EXCEPT ![Binding] = "failed"]
          \/ db' = [db EXCEPT ![IdOf[Mapped]] = EditOf[Binding].user]
      BY <1>4, <2>1 DEF ChangeBinding, Bind
    <3> QED
      BY <3>1, <3>2
  <2>2. CASE e # Binding
    <3>1. edit'[e] # "changed" /\ edit'[Binding] = edit[Binding]
      BY <1>4, <2>2 DEF Alone, Others, ChangeBinding
    <3>2. db' = db
      BY <1>4, <3>1 DEF ChangeBinding
    <3> QED
      BY <3>1, <3>2
  <2> QED
    BY <2>1, <2>2
<1>5. ASSUME NEW e \in Edits, Invalidate(e) PROVE Good
  BY <1>5 DEF Invalidate
<1>6. ASSUME Tick \/ Restart PROVE Good
  BY <1>6 DEF Tick, Restart
<1> QED
  BY <1>1, <1>2, <1>3, <1>4, <1>5, <1>6 DEF IdentityStep, Webhook

(* An acknowledged binding has been told to the cache, and nobody tells it    *)
(* the contrary.                                                              *)
LEMMA AloneCaches ==
    ASSUME CanaryType, Bound, IdentityStep, Alone, Alone', edit'[Binding] = "ok"
    PROVE  negative'[IdOf[Mapped]] = None
<1> DEFINE i == IdOf[Mapped]
<1>0. IdentityTypeOK /\ i \in Ids
  BY IdentityAssumption DEF CanaryType, IdentityAssumption
<1>1. CASE edit[Binding] = "ok"
  <2>1. db[i] # None /\ negative[i] = None
    BY <1>1 DEF Bound
  <2>2. CASE \A w \in Deliveries : Store(w) => IdOf[w] # i
    BY <1>0, <2>1, <2>2, CacheSteps DEF KeptOrDropped
  <2>3. ASSUME NEW w \in Deliveries, Store(w), IdOf[w] = i PROVE negative'[i] = None
    <3>1. found[w] = db[i]
      BY <2>3 DEF Store, Alone
    <3> QED
      BY <1>0, <2>1, <2>3, <3>1, StoreEntry
  <2> QED
    BY <2>2, <2>3
<1>2. CASE edit[Binding] # "ok"
  <2>1. ASSUME NEW v \in Deliveries, Receive(v) \/ Webhook(v) PROVE edit' = edit
    BY <2>1 DEF Receive, Webhook, Dedupe, BindOwn, InvalidateOwn, ReadClock, LookInCache, Query, Store, Decide, Reply
  <2>2. ASSUME NEW e \in Edits, ChangeBinding(e) PROVE edit'[Binding] \in {edit[Binding], "changed", "failed"}
    BY <1>0, <2>2 DEF ChangeBinding, IdentityTypeOK
  <2>3. ASSUME NEW e \in Edits, e # Binding, Invalidate(e) PROVE edit'[Binding] = edit[Binding]
    BY <1>0, <2>3 DEF Invalidate, IdentityTypeOK
  <2>4. ASSUME Tick \/ Restart PROVE edit'[Binding] \in {edit[Binding], "lost"}
    BY <1>0, <2>4 DEF Tick, Restart, IdentityTypeOK
  <2>5. Invalidate(Binding)
    BY <1>2, <2>1, <2>2, <2>3, <2>4 DEF IdentityStep
  <2> QED
    BY <1>0, <2>5 DEF Invalidate, Forget, IdentityTypeOK
<1> QED
  BY <1>1, <1>2

(* So the mapped message's own lookup finds a user.                           *)
LEMMA MappedFinds ==
    ASSUME CanaryType, Bound, IdentityStep, Alone, binding_resp = "ok", pc'[Mapped] \in {"store", "decide"}
    PROVE  found'[Mapped] # None
<1> DEFINE i == IdOf[Mapped]
<1>0. IdentityTypeOK /\ i \in Ids
  BY IdentityAssumption DEF CanaryType, IdentityAssumption
<1>1. db[i] # None /\ negative[i] = None /\ (pc[Mapped] \in {"store", "decide"} => found[Mapped] # None)
  BY DEF Bound
<1> USE DEF Goto
<1>2. ASSUME Receive(Mapped) \/ Dedupe(Mapped) \/ BindOwn(Mapped) \/ InvalidateOwn(Mapped) PROVE FALSE
  BY <1>0, <1>2 DEF Receive, Dedupe, BindOwn, InvalidateOwn, Answer, GoOn, IdentityTypeOK
<1>3. ASSUME ReadClock(Mapped) \/ Decide(Mapped) \/ Reply(Mapped) PROVE FALSE
  BY <1>0, <1>3 DEF ReadClock, Decide, Reply, Answer, GoOn, IdentityTypeOK
<1>4. ASSUME LookInCache(Mapped) PROVE found'[Mapped] # None
  <2>1. negative'[i] = None
    BY <1>0, <1>1, <1>4 DEF LookInCache, PurgedNegative
  <2>2. positive'[i] # None => positive'[i].user # None
    <3>1. positive'[i] \in {None, positive[i]}
      BY <1>0, <1>4 DEF LookInCache, PurgedPositive
    <3>2. positive[i] # None => positive[i].user \in Users
      BY <1>0 DEF IdentityTypeOK
    <3>3. None \notin Users
      BY IdentityAssumption DEF IdentityAssumption
    <3> QED
      BY <3>1, <3>2, <3>3
  <2>3. CASE positive'[i] # None /\ found' = [found EXCEPT ![Mapped] = positive'[i].user]
    BY <1>0, <2>2, <2>3 DEF IdentityTypeOK
  <2>4. CASE Goto(Mapped, "query")
    BY <1>0, <2>4 DEF IdentityTypeOK
  <2> QED
    BY <1>4, <2>1, <2>3, <2>4 DEF LookInCache
<1>5. ASSUME Query(Mapped) PROVE found'[Mapped] # None
  BY <1>0, <1>1, <1>5 DEF Query, Answer, IdentityTypeOK
<1>6. ASSUME Store(Mapped) PROVE found'[Mapped] # None
  BY <1>0, <1>1, <1>6 DEF Store, GoOn
<1>7. CASE Still(Mapped)
  BY <1>1, <1>7 DEF Still
<1>8. CASE Restart
  BY <1>0, <1>8 DEF Restart
<1> QED
  BY <1>0, <1>2, <1>3, <1>4, <1>5, <1>6, <1>7, <1>8, OneHandler DEF Webhook

LEMMA BoundStep == ASSUME CanaryType, Progress, Told, Bound, [Next]_vars PROVE Bound'
<1> DEFINE i == IdOf[Mapped]
<1>1. binding_resp' = "ok" => binding_resp = "ok" \/ (AwaitBinding /\ UNCHANGED gateway /\ edit[Binding] = "ok")
  <2>1. ASSUME Canary PROVE binding_resp' = binding_resp \/ (AwaitBinding /\ binding_resp' \in {None, edit[Binding]})
    BY <2>1 DEF Canary, ResolveSecret, SendBinding, AwaitBinding, DiagBefore, SendMapped, AwaitMapped, SendUnmapped,
       AwaitUnmapped, DiagAfter, Report, Send, Response, responses
  <2> QED
    BY <2>1, CanarySteps DEF GatewayStep, ScriptStep, vars, canaryVars
<1>2. CASE GatewayStep /\ IdentityStep
  <2>1. IdentityTypeOK /\ binding_resp' = binding_resp
    BY <1>2 DEF CanaryType, GatewayStep, canaryVars
  <2>2. binding_resp' = "ok" => edit'[Binding] = "ok"
    <3>1. ASSUME NEW v \in Deliveries, Receive(v) \/ Webhook(v) PROVE edit' = edit
      BY <3>1 DEF Receive, Webhook, Dedupe, BindOwn, InvalidateOwn, ReadClock, LookInCache, Query, Store, Decide, Reply
    <3>2. edit[Binding] = "ok" => edit'[Binding] = "ok"
      BY <1>2, <2>1, <3>1 DEF IdentityStep, ChangeBinding, Invalidate, Tick, Restart, IdentityTypeOK
    <3> QED
      BY <2>1, <3>2 DEF Bound
  <2>3. ASSUME Alone' PROVE Alone
    BY <1>2, <2>1, <2>3, AloneBefore DEF Alone, EditsKept
  <2>4. ASSUME Alone', edit'[Binding] \in {"changed", "ok"} PROVE db'[i] # None
    BY <1>2, <2>1, <2>3, <2>4, AloneBinds DEF Bound
  <2>5. ASSUME Alone', edit'[Binding] = "ok" PROVE negative'[i] = None
    BY <1>2, <2>3, <2>5, AloneCaches
  <2>6. ASSUME Alone', binding_resp' = "ok" PROVE pc'[Mapped] \in {"store", "decide"} => found'[Mapped] # None
    BY <1>2, <2>1, <2>3, <2>6, MappedFinds
  <2>7. ASSUME Alone', binding_resp' = "ok", Refused(Mapped)' PROVE FALSE
    <3>1. Alone /\ ~Refused(Mapped) /\ (pc[Mapped] \in {"store", "decide"} => found[Mapped] # None)
      BY <2>1, <2>3, <2>7 DEF Bound
    <3>2. Decide(Mapped) /\ Rejects(Mapped)
      BY <1>2, <2>1, <2>7, <3>1, RefusalSteps
    <3> QED
      BY <3>1, <3>2 DEF Decide, Rejects
  <2> QED
    BY <2>2, <2>4, <2>5, <2>6, <2>7 DEF Bound
<1>3. CASE UNCHANGED <<binding_resp, stored, cache, lookup, edit>>
  BY <1>3 DEF Bound, Alone, Refused, stored, cache, lookup
<1>4. CASE AwaitBinding /\ UNCHANGED gateway
  <2>1. pc[Mapped] = "idle" /\ answer[Mapped] = None
    <3>1. Mapped \notin sent
      BY <1>4 DEF AwaitBinding, Progress, MappedUnsent, BeforeCount
    <3>2. pc[Mapped] = "idle"
      BY <3>1 DEF Told
    <3> QED
      BY <3>2 DEF Told
  <2>2. pc'[Mapped] = "idle" /\ ~Refused(Mapped)'
    BY <1>4, <2>1, NoneAnswerAssumption DEF gateway, lookup, Refused, Answers
  <2>3. binding_resp' = "ok" => edit'[Binding] = "ok"
    BY <1>1, <1>4 DEF gateway, Bound
  <2>4. Alone' => Alone
    BY <1>4 DEF gateway, cache, Alone
  <2>5. UNCHANGED <<db, negative, edit>>
    BY <1>4 DEF gateway, stored, cache
  <2> QED
    BY <2>2, <2>3, <2>4, <2>5 DEF Bound
<1>5. ASSUME ScriptStep, ~AwaitBinding PROVE UNCHANGED <<binding_resp, stored, cache, lookup, edit>>
  BY <1>5 DEF ScriptStep, gateway, Canary, ResolveSecret, SendBinding, DiagBefore, SendMapped, AwaitMapped, SendUnmapped,
     AwaitUnmapped, DiagAfter, Report, Send, responses
<1> QED
  BY <1>2, <1>3, <1>4, <1>5, CanarySteps DEF GatewayStep, RefuseElsewhere, ScriptStep, vars, canaryVars, identityVars

LEMMA CanaryStep == CanaryInv /\ [ScriptsNext]_<<script, canary, burst, tool_probe>> => CanaryInv'
BY StepOfOne, CanaryTypeStep, ProgressStep, ToldStep, EnforcedStep, TalliedStep, BoundStep DEF CanaryInv

(* A canary that exits with 0 has seen enforcement: the channel it tests      *)
(* (Telegram's script: some channel) is strict, its binding was accepted and  *)
(* its mapped message was not refused, whatever else the gateway does, fails  *)
(* or restarts while it runs.                                                 *)
THEOREM CanarySeesEnforcement == ScriptsSpec => []SuccessMeansStrict
<1>1. CanaryInv => SuccessMeansStrict
  <2> SUFFICES ASSUME CanaryInv, exit = 0 PROVE SuccessMeansStrict
    BY DEF SuccessMeansStrict
  <2>1. binding_resp = "ok" /\ Accepted(mapped_resp) /\ StrictSignal
    BY DEF CanaryInv, Enforced
  <2>2. ASSUME IsStrictReject(unmapped_resp) PROVE ChannelOf(Unmapped) \in strict
    BY <2>2, NoneAnswerAssumption DEF CanaryInv, Told, Enforced, Refused, IsStrictReject, Answers
  <2>3. CASE channel = "slack"
    <3>1. IsStrictReject(unmapped_resp) /\ kind[Unmapped] = "slack"
      BY <2>1, <2>3 DEF StrictSignal, CanaryInv, Enforced
    <3> QED
      BY <2>1, <2>2, <2>3, <3>1 DEF ChannelOf, SuccessMeansStrict, Accepted
  <2>4. CASE channel # "slack"
    <3>1. CASE IsStrictReject(unmapped_resp)
      BY <2>1, <2>2, <2>4, <3>1 DEF SuccessMeansStrict, Accepted
    <3>2. CASE StrictDelta # None /\ StrictDelta > 0
      <4>1. strict_after \in Nat /\ strict_before \in Nat /\ strict_after - strict_before > 0
        BY <3>2 DEF StrictDelta, CanaryInv, CanaryType
      <4>2. strict # {}
        BY <4>1 DEF CanaryInv, Enforced
      <4> QED
        BY <2>1, <2>4, <4>2 DEF SuccessMeansStrict, Accepted
    <3> QED
      BY <2>1, <3>1, <3>2 DEF StrictSignal
  <2> QED
    BY <2>3, <2>4
<1> QED
  BY <1>1, CanaryInit, CanaryStep, PTL DEF ScriptsSpec

(* The strict-mode counter is exact enough for the script: unless the gateway *)
(* restarted, every refusal the canary was told of lies between its two       *)
(* readings, however much other traffic is refused meanwhile.                 *)
THEOREM CounterCoversRefusals == ScriptsSpec => []RefusalsCounted
<1>1. CanaryInv => RefusalsCounted
  BY DEF CanaryInv, Tallied, RefusalsCounted
<1> QED
  BY <1>1, CanaryInit, CanaryStep, PTL DEF ScriptsSpec

(* An acknowledged binding is effective at once: the mapped message is        *)
(* refused as unmapped only when somebody else edited a binding, or a lookup  *)
(* that was already under way put the old answer back into the cache.         *)
THEOREM AcknowledgedBindingHolds == ScriptsSpec => []BindingTakesEffect
<1>1. CanaryInv => BindingTakesEffect
  <2> SUFFICES ASSUME CanaryInv, mapped_resp = "strict_reject", binding_resp = "ok", Alone PROVE FALSE
    BY DEF BindingTakesEffect, Alone
  <2> QED
    BY NoneAnswerAssumption DEF CanaryInv, Told, Bound, Refused, Answers
<1> QED
  BY <1>1, CanaryInit, CanaryStep, PTL DEF ScriptsSpec

-----------------------------------------------------------------------------
(* The inbound path while the scripts and other channels use it.              *)

InboundInv == CanaryType /\ StaleInv /\ StaleOnlyByRace /\ OnceInv

(* The scripts' own steps and refusals elsewhere leave it alone, but for the  *)
(* counter.                                                                   *)
inbound == <<kind, strict, stored, cache, now, restarted, lookup, edit>>
LEMMA InboundSteps == ASSUME [Next]_vars PROVE [IdentityStep]_identityVars \/ UNCHANGED inbound
BY CanarySteps DEF GatewayStep, RefuseElsewhere, ScriptStep, gateway, vars, identityVars, inbound, stored, cache, lookup

LEMMA InboundStep == InboundInv /\ [ScriptsNext]_<<script, canary, burst, tool_probe>> => InboundInv'
<1> SUFFICES ASSUME InboundInv, [Next]_vars PROVE InboundInv'
  BY StepOfOne
<1>1. CanaryType' /\ IdentityTypeOK'
  BY CanaryTypeStep DEF InboundInv, CanaryType
<1>2. CASE [IdentityStep]_identityVars
  BY <1>1, <1>2, StaleInvStep, StaleOnlyByRaceStep, OnceStep DEF InboundInv, CanaryType
<1>3. CASE UNCHANGED inbound
  <2>1. /\ UNCHANGED <<db, changed, positive, negative, raced, now, pc, now_s, found, edit>>
        /\ UNCHANGED <<kind, updates, answer>>
    BY <1>3 DEF inbound, stored, cache, lookup
  <2>2. StaleInv'
    BY <1>1, <2>1 DEF InboundInv, StaleInv, NoFuture, LivesBounded, FoundWasTrue, StaleIsBounded
  <2>3. StaleOnlyByRace'
    BY <2>1 DEF InboundInv, StaleOnlyByRace, ChangePending
  <2>4. OnceInv'
    <3>1. \A w \in Deliveries : Worked(w)' = Worked(w) /\ Update(w)' = Update(w)
      BY <2>1 DEF Worked, Update
    <3> QED
      BY <2>1, <3>1 DEF InboundInv, OnceInv, Recorded, ProcessedAtMostOnce
  <2> QED
    BY <1>1, <2>2, <2>3, <2>4 DEF InboundInv
<1> QED
  BY <1>2, <1>3, InboundSteps

(* What InboundIdentity promises on its own also holds of the gateway the     *)
(* operator's scripts talk to: stale answers are bounded in time and explained*)
(* by a race, and an update is worked on once, while the canary binds and     *)
(* sends, other channels refuse and the other scripts run.                    *)
THEOREM InboundHoldsUnderScripts == ScriptsSpec => [](StaleIsBounded /\ StaleOnlyByRace /\ ProcessedAtMostOnce)
<1>1. ScriptsInit => InboundInv
  <2>1. IdentityInit => StaleOnlyByRace
    BY DEF IdentityInit, StaleOnlyByRace
  <2>2. ScriptsInit => IdentityInit
    BY DEF ScriptsInit, Init
  <2> QED
    BY <2>1, <2>2, CanaryInit, StaleInit, OnceInit DEF CanaryInv, InboundInv
<1>2. InboundInv => StaleIsBounded /\ StaleOnlyByRace /\ ProcessedAtMostOnce
  BY DEF InboundInv, StaleInv, OnceInv
<1> QED
  BY <1>1, <1>2, InboundStep, PTL DEF ScriptsSpec
=============================================================================
