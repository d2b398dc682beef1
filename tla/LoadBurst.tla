------------------------------- MODULE LoadBurst -------------------------------
(* The load generator an operator runs against a live gateway                 *)
(* (scripts/load-burst.py, main): a pool of worker threads makes chat-stream  *)
(* requests, a probe thread makes its own one after the other meanwhile, and  *)
(* the report compares the probe's latencies under load with those it had     *)
(* before, and the gateway's counters before and after.                       *)
(*                                                                            *)
(* A request is module ChatStream seen from outside: it succeeds after some   *)
(* time, having been counted by the gateway, or it fails and is counted then, *)
(* later or never.  The lanes of the sessions only label the report and are   *)
(* left out.                                                                  *)
EXTENDS Integers, Sequences, FiniteSets

CONSTANTS
    CommandLines, \* sets of arguments to start from
    Latencies,    \* elapsed_ms of a request that succeeds
    None

VARIABLES
    args,      \* users, requests, workers, probe_count and capture
    phase,     \* what main is about to do
    submitted, \* load requests handed to the pool
    started,   \* load requests its workers have taken, in that order
    outcome,   \* per request made: None while it is in flight, or its result
    results,   \* load requests whose results as_completed has yielded
    probe,     \* the under-load thread: "none", "running", "assigned" or "done"
    baseline,  \* isolation_probe_baseline_results, as requests made
    under_load, \* isolation_probe_under_load_results
    counted,   \* the gateway's chat_stream_total
    uncounted, \* requests given up that the gateway may still count
    before,    \* the counter as read, or None when diagnostics failed
    after,
    code       \* the exit code, None while it runs

pool == <<submitted, started, results>>
probing == <<probe, baseline, under_load>>
snapshots == <<before, after>>
burstVars == <<args, phase, pool, outcome, probing, counted, uncounted, snapshots, code>>

Total == IF args.requests > 0 THEN args.requests ELSE args.users
Workers ==
    LET workers == IF args.workers > 0 THEN args.workers ELSE Total
    IN IF workers > 1 THEN workers ELSE 1
ProbeEnabled == args.probe_count > 0

(* Requests, by the series they belong to; probes are numbered from an offset *)
(* of their own.                                                              *)
Requests(series, count) == {<<series, i>> : i \in 0..(count - 1)}
Load == Requests("load", Total)
InFlight(series) == {r \in DOMAIN outcome : r[1] = series /\ outcome[r] = None}
Made(series) == {r \in DOMAIN outcome : r[1] = series}

Init ==
    /\ args \in CommandLines
    /\ phase = "baseline"
    /\ submitted = 0 /\ started = 0 /\ results = {}
    /\ outcome = <<>>
    /\ probe = "none" /\ baseline = {} /\ under_load = {}
    /\ counted = 0 /\ uncounted = 0
    /\ before = None /\ after = None /\ code = None

Go(from, to) == phase = from /\ phase' = to
Make(request) ==
    outcome' = [r \in DOMAIN outcome \cup {request} |-> IF r = request THEN None ELSE outcome[r]]

-----------------------------------------------------------------------------
(* run_probe_series: one request after the other.                             *)
ProbeNext(series) ==
    /\ InFlight(series) = {} /\ Cardinality(Made(series)) < args.probe_count
    /\ Make(<<series, Cardinality(Made(series))>>)
SeriesOver(series) == InFlight(series) = {} /\ Cardinality(Made(series)) = args.probe_count

BaselineProbe ==
    /\ phase = "baseline" /\ ProbeNext("baseline")
    /\ UNCHANGED <<args, phase, pool, probing, counted, uncounted, snapshots, code>>
BaselineEnds ==
    /\ Go("baseline", "before") /\ SeriesOver("baseline")
    /\ baseline' = Made("baseline")
    /\ UNCHANGED <<args, pool, outcome, probe, under_load, counted, uncounted, snapshots, code>>

(* fetch_diagnostics never raises: an error is reported beside None.          *)
Snapshot == IF args.capture THEN {counted, None} ELSE {None}
DiagnosticsBefore ==
    /\ Go("before", "spawn")
    /\ before' \in Snapshot
    /\ UNCHANGED <<args, pool, outcome, probing, counted, uncounted, after, code>>

StartProbeThread ==
    /\ Go("spawn", "submit")
    /\ probe' = IF ProbeEnabled THEN "running" ELSE "none"
    /\ UNCHANGED <<args, pool, outcome, baseline, under_load, counted, uncounted, snapshots, code>>
UnderLoadProbe ==
    /\ probe = "running" /\ ProbeNext("under_load")
    /\ UNCHANGED <<args, phase, pool, probing, counted, uncounted, snapshots, code>>
(* The list is assigned when the series is over, then the event is set.       *)
UnderLoadEnds ==
    /\ \/ /\ probe = "running" /\ SeriesOver("under_load") /\ probe' = "assigned"
          /\ under_load' = Made("under_load")
       \/ probe = "assigned" /\ probe' = "done" /\ under_load' = under_load
    /\ UNCHANGED <<args, phase, pool, outcome, baseline, counted, uncounted, snapshots, code>>

(* The pool starts at most Workers requests, in the order of their futures.   *)
Submit ==
    /\ \/ phase = "submit" /\ submitted < Total /\ submitted' = submitted + 1 /\ phase' = phase
       \/ Go("submit", "collect") /\ submitted = Total /\ submitted' = submitted
    /\ UNCHANGED <<args, started, results, outcome, probing, counted, uncounted, snapshots, code>>
WorkerTakes ==
    /\ started < submitted /\ Cardinality(InFlight("load")) < Workers
    /\ started' = started + 1
    /\ Make(<<"load", started>>)
    /\ UNCHANGED <<args, phase, submitted, results, probing, counted, uncounted, snapshots, code>>

Collect ==
    /\ phase = "collect"
    /\ \E r \in Made("load") \ results : outcome[r] # None /\ results' = results \cup {r}
    /\ UNCHANGED <<args, phase, submitted, started, outcome, probing, counted, uncounted, snapshots, code>>
Collected == results = Load
EndCollect ==
    /\ Go("collect", "join") /\ Collected
    /\ UNCHANGED <<args, pool, outcome, probing, counted, uncounted, snapshots, code>>

MutantProbeOver == TRUE                             \* the daemon thread is left behind
ProbeOver == probe \in {"none", "done"}
JoinProbe ==
    /\ Go("join", "after") /\ ProbeOver
    /\ UNCHANGED <<args, pool, outcome, probing, counted, uncounted, snapshots, code>>

DiagnosticsAfter ==
    /\ Go("after", "report")
    /\ after' \in Snapshot
    /\ UNCHANGED <<args, pool, outcome, probing, counted, uncounted, before, code>>

Report ==
    /\ Go("report", "exited")
    /\ code' = IF \A r \in results : outcome[r].ok THEN 0 ELSE 1
    /\ UNCHANGED <<args, pool, outcome, probing, counted, uncounted, snapshots>>

Main == \/ BaselineProbe \/ BaselineEnds \/ DiagnosticsBefore \/ StartProbeThread \/ Submit \/ Collect
        \/ EndCollect \/ JoinProbe \/ DiagnosticsAfter \/ Report

-----------------------------------------------------------------------------
(* The requests at the gateway: run_one returns a result whatever happens.    *)
Success(latency) == [ok |-> TRUE, elapsed |-> latency]
Failure == [ok |-> FALSE, elapsed |-> 0]

MutantSucceed(r) ==                                 \* counted at the end of the request, not when accepted
    /\ \E latency \in Latencies : outcome' = [outcome EXCEPT ![r] = Success(latency)]
    /\ uncounted' = uncounted + 1 /\ counted' = counted
Succeed(r) ==
    /\ \E latency \in Latencies : outcome' = [outcome EXCEPT ![r] = Success(latency)]
    /\ counted' = counted + 1 /\ uncounted' = uncounted
FailRequest(r) ==
    /\ outcome' = [outcome EXCEPT ![r] = Failure]
    /\ \/ counted' = counted + 1 /\ uncounted' = uncounted
       \/ uncounted' = uncounted + 1 /\ counted' = counted
Finish ==
    /\ \E r \in DOMAIN outcome : outcome[r] = None /\ (Succeed(r) \/ FailRequest(r))
    /\ UNCHANGED <<args, phase, pool, probing, snapshots, code>>
CountLate ==
    /\ uncounted > 0 /\ phase # "exited"
    /\ uncounted' = uncounted - 1 /\ counted' = counted + 1
    /\ UNCHANGED <<args, phase, pool, outcome, probing, snapshots, code>>

Next == Main \/ UnderLoadProbe \/ UnderLoadEnds \/ WorkerTakes \/ Finish \/ CountLate

-----------------------------------------------------------------------------
(* The report.  Percentages are in hundredths.                                *)

(* round(): to the nearest integer, a half to the even one.                   *)
Round(a, b) ==
    LET q == a \div b
        twice == 2 * (a % b)
    IN IF twice > b \/ (twice = b /\ q % 2 = 1) THEN q + 1 ELSE q

Succeeded(series) == {r \in series : outcome[r] # None /\ outcome[r].ok}
Errors(series) == Cardinality(series \ Succeeded(series))

(* The value at an index of the sorted list of latencies.                     *)
percentile(series, pct) ==
    LET n == Cardinality(series)
        below(x) == Cardinality({r \in series : outcome[r].elapsed <= x})
        index == Round(pct * (n - 1), 100)
    IN IF n = 0 THEN 0 ELSE CHOOSE x \in Latencies : below(x) > index /\ \A y \in Latencies : y < x => below(y) <= index

MaxDegradation == 1500
GateStatus ==
    LET base == percentile(Succeeded(baseline), 95)
        loaded == percentile(Succeeded(under_load), 95)
    IN CASE Errors(baseline) = 0 /\ Errors(under_load) = 0 /\ base > 0 ->
              IF Round(10000 * (loaded - base), base) <= MaxDegradation THEN "pass" ELSE "fail"
         [] OTHER -> "inconclusive"

(* The isolation gate passes only on evidence: both series are complete, no   *)
(* probe of either failed, and (with the few probes of these runs, whose 95th *)
(* percentile is their slowest) each took at most 15.005 % longer under load  *)
(* than the slowest one before.  The probe thread is a daemon: left running,  *)
(* it would leave an empty list, which looks like a latency of 0.             *)
GateSound ==
    code # None /\ ProbeEnabled /\ GateStatus = "pass" =>
        /\ \A s \in {baseline, under_load} : Cardinality(s) = args.probe_count /\ Succeeded(s) = s
        /\ \A u \in under_load : \E b \in baseline :
              20000 * (outcome[u].elapsed - outcome[b].elapsed) <= 3001 * outcome[b].elapsed

(* The gateway's counter, read before and after, has risen by at least the    *)
(* successes the script reports in between.                                   *)
DiagnosticsBracket ==
    code # None /\ before # None /\ after # None =>
        after - before >= Cardinality(Succeeded(results)) + Cardinality(Succeeded(under_load))
=============================================================================
