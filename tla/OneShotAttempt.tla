--------------------------- MODULE OneShotAttempt ---------------------------
(***************************************************************************)
(* What a Gate C authorization promises: among all the launchers that ever *)
(* try it, one owns it, it starts at most one guarded process, and it is   *)
(* closed at most once, as verified only if that process was started.      *)
(***************************************************************************)
CONSTANT Launchers

VARIABLES
  owner,     \* the launcher whose claim holds, or "none"
  started,   \* a guarded process was started
  closure    \* "open", "verified" or "recovery"

vars == <<owner, started, closure>>

Init == owner = "none" /\ started = FALSE /\ closure = "open"

Claim(l) ==
  /\ owner = "none"
  /\ owner' = l
  /\ UNCHANGED <<started, closure>>

Start ==
  /\ owner # "none" /\ ~started /\ closure = "open"
  /\ started' = TRUE
  /\ UNCHANGED <<owner, closure>>

Close(how) ==
  /\ owner # "none" /\ closure = "open"
  /\ how = "verified" => started
  /\ closure' = how
  /\ UNCHANGED <<owner, started>>

Next ==
  \/ \E l \in Launchers : Claim(l)
  \/ Start
  \/ \E how \in {"verified", "recovery"} : Close(how)

Spec == Init /\ [][Next]_vars
=============================================================================
