--------------------------- MODULE MCSessionQueue ---------------------------
(* Instances of SessionQueue: the runs differ in the queue settings.          *)
EXTENDS SessionQueue, TLC

LatestOldest == [mode |-> "latest", cap |-> 1, drop |-> "oldest"]
LatestNewest == [mode |-> "latest", cap |-> 1, drop |-> "newest"]
SerialOldest == [mode |-> "serial", cap |-> 2, drop |-> "oldest"]
SerialSummarize == [mode |-> "serial", cap |-> 1, drop |-> "summarize"]

SwitchSettings == {LatestNewest, SerialSummarize}
NoSettings == {}

Symmetry == Permutations(Turns)

(* At most one of the turns changes the queue settings and one resets.        *)
FewCommands == \A m \in {"queue", "reset"} : Cardinality({t \in Turns : msg[t] = m}) <= 1
SwitchInit == Init /\ FewCommands
SwitchSpec == SwitchInit /\ [][Next]_vars
=============================================================================
