--------------------------- MODULE SupervisedGuard ---------------------------
(***************************************************************************)
(* What a launcher may rely on about the guarded process it hands to its   *)
(* executor: the process is started at most once, its supervision ends     *)
(* with one report, and a clean report means that the process group is     *)
(* gone, so the permission window may close and the attempt be judged.     *)
(***************************************************************************)
VARIABLES
  guard,     \* its process group: "none", "running" or "done"
  outcome    \* the report: "none", "clean", "unclean" or "lost" (an exception)

vars == <<guard, outcome>>

Init == guard = "none" /\ outcome = "none"

Start ==
  /\ guard = "none" /\ outcome = "none"
  /\ guard' = "running"
  /\ UNCHANGED outcome

(* The group may end before the report, in the same step or long after it. *)
Exit ==
  /\ guard = "running"
  /\ guard' = "done"
  /\ UNCHANGED outcome

Report(how) ==
  /\ outcome = "none"
  /\ outcome' = how
  /\ \/ UNCHANGED guard
     \/ guard = "running" /\ guard' = "done"
  /\ how = "clean" => guard' = "done"

Next == Start \/ Exit \/ \E how \in {"clean", "unclean", "lost"} : Report(how)

Spec     == Init /\ [][Next]_vars
FairSpec == Spec /\ <>(outcome # "none")
=============================================================================
