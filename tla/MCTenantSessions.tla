--------------------------- MODULE MCTenantSessions ---------------------------
(* The instance of TenantSessions: of two tenants one has turns and settings  *)
(* to change, the other an event stream.                                      *)
EXTENDS TenantSessions, TLC

MCUserOf == [q \in Turns \cup Readers \cup Patches |-> IF q \in Readers THEN "v" ELSE "u"]

Symmetry == Permutations(Keys) \cup Permutations(Turns) \cup Permutations(Patches)

(* Bound of the requests: two while time passes, three at one moment.         *)
Started == {q \in Turns \cup Readers \cup Patches : at[q] # "idle"}
FewRequests == Cardinality(Started) <= (IF now = 0 THEN 3 ELSE 2)

(* While a purge is at work, no other evictor, delete or unpinned reader is.  *)
PurgesAlone == Manager!PurgesAlone
=============================================================================
