---------------------------- MODULE ToolSurfaceProbe ----------------------------
(* The probe of the tool surface (scripts/tool-surface-probe.py, main): it    *)
(* sends the messages of a scenario to one session, one after the other, and  *)
(* after each asks the gateway for the session's context, which describes the *)
(* last turn.                                                                 *)
(*                                                                            *)
(* A message the script has given up on goes on at the gateway: its turn runs *)
(* or waits for the session's mutex, and the mutex is not first come, first   *)
(* served.  Nobody else uses the session, and the messages are no commands.   *)
EXTENDS Naturals, Sequences

CONSTANTS MaxMessages, None

VARIABLES
    messages, \* how many messages the scenario has
    at,       \* what the script is about to do
    turns,    \* per message: "unsent", "waiting", "running", "answered" or "failed"
    last_turn, \* the turn the agent's report describes, 0 before the first
    stream_ok, \* whether the stream of this message was good
    rows,
    probe_exit

probeVars == <<messages, at, turns, last_turn, stream_ok, rows, probe_exit>>

Message == Len(rows) + 1
Free == \A m \in DOMAIN turns : turns[m] # "running"

Init ==
    /\ messages \in 1..MaxMessages
    /\ at = "start"
    /\ turns = [m \in 1..messages |-> "unsent"]
    /\ last_turn = 0 /\ stream_ok = FALSE /\ rows = <<>> /\ probe_exit = None

CheckToken ==
    /\ at = "start"
    /\ \/ at' = "post" /\ probe_exit' = probe_exit
       \/ at' = "exited" /\ probe_exit' = 2
    /\ UNCHANGED <<messages, turns, last_turn, stream_ok, rows>>

Post ==
    /\ at = "post" /\ Message <= messages
    /\ at' = "stream"
    /\ turns' = [turns EXCEPT ![Message] = "waiting"]
    /\ UNCHANGED <<messages, last_turn, stream_ok, rows, probe_exit>>

(* The turn at the gateway; it resets last_turn_context when it begins, under *)
(* the mutex, or fails before that.                                           *)
Lock(m) ==
    /\ turns[m] = "waiting" /\ Free
    /\ turns' = [turns EXCEPT ![m] = "running"]
    /\ UNCHANGED <<messages, at, last_turn, stream_ok, rows, probe_exit>>
EndTurn(m) ==
    /\ turns[m] = "running"
    /\ \E how \in {"answered", "failed"} :
          /\ turns' = [turns EXCEPT ![m] = how]
          /\ last_turn' \in IF how = "answered" THEN {m} ELSE {m, last_turn}
    /\ UNCHANGED <<messages, at, stream_ok, rows, probe_exit>>

(* post_chat_stream: good if done came and no error before it, and done is    *)
(* sent when the turn is over.  Refused, timed out or broken off, it is not.  *)
MutantGood(m) == turns[m] \in {"running", "answered"}       \* done is not waited for
Good(m) == turns[m] = "answered"
post_chat_stream ==
    /\ at = "stream" /\ at' = "context"
    /\ stream_ok' \in IF Good(Message) THEN {TRUE, FALSE} ELSE {FALSE}
    /\ UNCHANGED <<messages, turns, last_turn, rows, probe_exit>>

(* The context is read under the session's mutex; whatever goes wrong with    *)
(* the request is noted as context_error and the row is added all the same.   *)
ReadContext ==
    /\ at = "context" /\ at' = "post"
    /\ \E context \in {None} \cup (IF Free /\ last_turn # 0 THEN {last_turn} ELSE {}) :
          rows' = Append(rows, [ok |-> stream_ok, context |-> context])
    /\ UNCHANGED <<messages, turns, last_turn, stream_ok, probe_exit>>

Report ==
    /\ at = "post" /\ Message > messages
    /\ at' = "exited"
    /\ probe_exit' = IF \A i \in DOMAIN rows : rows[i].ok THEN 0 ELSE 1
    /\ UNCHANGED <<messages, turns, last_turn, stream_ok, rows>>

Next ==
    \/ CheckToken \/ Post \/ post_chat_stream \/ ReadContext \/ Report
    \/ probe_exit = None /\ \E m \in DOMAIN turns : Lock(m) \/ EndTurn(m)

-----------------------------------------------------------------------------
(* The context beside a good stream is that of its own turn, unless an        *)
(* earlier message was given up: its turn may still have been waiting, and    *)
(* have run in between.  A script that succeeds has mixed up no two turns.    *)
ContextIsOwn ==
    \A i \in DOMAIN rows :
        rows[i].ok /\ rows[i].context \notin {None, i}
            => rows[i].context < i /\ ~rows[rows[i].context].ok
=============================================================================
