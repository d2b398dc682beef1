---------------------------- MODULE OperatorScripts ----------------------------
(* The scripts an operator runs against a live gateway, each with the part of *)
(* the gateway it looks at: the strict canaries (StrictCanary), the load      *)
(* generator (LoadBurst) and the probe of the tool surface                    *)
(* (ToolSurfaceProbe).  A behaviour is that of one of them.                   *)
EXTENDS StrictCanary

CONSTANTS CommandLines, Latencies, MaxMessages

(* A probe that is not enabled counts no requests.                            *)
ASSUME ScriptsAssumption ==
    /\ CommandLines \subseteq [users : Nat, requests : Int, workers : Int, probe_count : Nat, capture : BOOLEAN]
    /\ CommandLines # {} /\ Latencies \subseteq Nat /\ MaxMessages \in Nat \ {0}
    /\ None \notin [ok : BOOLEAN, elapsed : Nat]

VARIABLES script, args, phase, submitted, started, outcome, results, probe, baseline, under_load, counted,
          uncounted, before, after, code,
          messages, at, turns, last_turn, stream_ok, rows, probe_exit

Burst == INSTANCE LoadBurst
ToolProbe == INSTANCE ToolSurfaceProbe

canary == vars
burst == <<args, phase, submitted, started, outcome, results, probe, baseline, under_load, counted, uncounted, before,
           after, code>>
tool_probe == <<messages, at, turns, last_turn, stream_ok, rows, probe_exit>>

ScriptsInit ==
    /\ script \in {"canary", "burst", "tool_probe"}
    /\ IF script = "canary" THEN Init ELSE Init /\ channel = "slack" /\ strict = {}
    /\ IF script = "burst" THEN Burst!Init ELSE Burst!Init /\ args = CHOOSE a \in CommandLines : TRUE
    /\ IF script = "tool_probe" THEN ToolProbe!Init ELSE ToolProbe!Init /\ messages = 1

ScriptsNext ==
    /\ script' = script
    /\ \/ script = "canary" /\ Next /\ UNCHANGED <<burst, tool_probe>>
       \/ script = "burst" /\ Burst!Next /\ UNCHANGED <<canary, tool_probe>>
       \/ script = "tool_probe" /\ ToolProbe!Next /\ UNCHANGED <<canary, burst>>

ScriptsSpec == ScriptsInit /\ [][ScriptsNext]_<<script, canary, burst, tool_probe>>

(* load-burst.py's isolation gate passes only on two complete series without a *)
(* failure, none of them more than 15.005 % slower under load.                *)
GateSound == Burst!GateSound

(* Its two readings of the gateway's counter are at least as far apart as the *)
(* successes it reports.                                                      *)
DiagnosticsBracket == Burst!DiagnosticsBracket

(* tool-surface-probe.py shows beside a good stream the context of that turn, *)
(* or of one it had given up on.                                              *)
ContextIsOwn == ToolProbe!ContextIsOwn
=============================================================================
