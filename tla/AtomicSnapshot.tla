--------------------------- MODULE AtomicSnapshot ---------------------------
(***************************************************************************)
(* What the geofence map promises its readers: one value that writers      *)
(* replace atomically, each by the next version, and loads that return the *)
(* value of the instant they take effect.                                  *)
(***************************************************************************)
EXTENDS Naturals

CONSTANTS
  Readers,      \* threads that load
  MaxUpdates    \* bound: updates of the value

VARIABLES
  value,        \* the current version
  updates,      \* how often it was replaced: one update more is one version more
  result        \* what the last load of each reader returned

vars == <<value, updates, result>>

Init ==
  /\ value = 0 /\ updates = 0
  /\ result = [r \in Readers |-> 0]

Update ==
  /\ value < MaxUpdates
  /\ value' = value + 1 /\ updates' = updates + 1
  /\ UNCHANGED result

Load(r) ==
  /\ result' = [result EXCEPT ![r] = value]
  /\ UNCHANGED <<value, updates>>

Next == Update \/ \E r \in Readers : Load(r)

Spec == Init /\ [][Next]_vars
=============================================================================
