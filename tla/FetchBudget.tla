----------------------------- MODULE FetchBudget ----------------------------
(***************************************************************************)
(* What fetchMetadataAsync (cmd/bambulan/web.go) promises about the        *)
(* downloads it makes on behalf of pages: one at a time for a file, and    *)
(* none any more for a file that has failed Max times.  How a download     *)
(* goes about it, and who else runs, is left to WebStatus.                 *)
(***************************************************************************)
EXTENDS Naturals

CONSTANTS
  Jobs, \* the files one may fetch
  Max   \* failures after which a file is not fetched again

VARIABLES
  running, \* the files being fetched
  failures \* how often each has failed

vars == <<running, failures>>

Init ==
  /\ running = {}
  /\ failures = [j \in Jobs |-> 0]

Begin(j) ==
  /\ j \notin running
  /\ failures[j] < Max
  /\ running' = running \cup {j}
  /\ UNCHANGED failures

\* A running fetch fails; it was begun below the limit and counts once.
Fail(j) ==
  /\ j \in running
  /\ failures[j] < Max
  /\ failures' = [failures EXCEPT ![j] = @ + 1]
  /\ UNCHANGED running

End(j) ==
  /\ j \in running
  /\ running' = running \ {j}
  /\ UNCHANGED failures

Next == \E j \in Jobs : Begin(j) \/ Fail(j) \/ End(j)

Spec == Init /\ [][Next]_vars
=============================================================================
