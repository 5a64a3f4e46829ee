-------------------------- MODULE AttemptLifecycle --------------------------
(***************************************************************************)
(* What one A0X attempt promises, whatever runs it: the attempt walks the  *)
(* transition table of reduce_attempt, the sealed target is opened at most *)
(* once and only while activations are already sealed, and the first       *)
(* selected terminal outcome is final.  The module knows nothing of files, *)
(* clocks or models; MaterialRuntime is shown to implement it.             *)
(***************************************************************************)
EXTENDS Naturals

States   == {"preflight", "activation", "analysis", "sealed"}
Events   == {"activation_started", "target_reserved", "analysis_started",
             "terminal_selected"}
Statuses == {"positive", "null", "non_interpretable", "failed"}

(* The transition table, as a function of the legal (state, event) pairs. *)
AttemptTransitions ==
  [p \in {<<"preflight", "activation_started">>,
          <<"activation", "target_reserved">>,
          <<"analysis", "analysis_started">>}
         \cup ((States \ {"sealed"}) \X {"terminal_selected"}) |->
     IF p[2] = "activation_started" THEN "activation"
     ELSE IF p[2] = "terminal_selected" THEN "sealed" ELSE "analysis"]

Legal(state, event)         == <<state, event>> \in DOMAIN AttemptTransitions
ReduceAttempt(state, event) == AttemptTransitions[<<state, event>>]

VARIABLES
  attemptState,   \* AttemptState of the run
  opens,          \* how often the sealed target's content was opened
  outcome         \* status of the selected terminal, or "none"

vars == <<attemptState, opens, outcome>>

Init ==
  /\ attemptState = "preflight"
  /\ opens = 0
  /\ outcome = "none"

(* A lifecycle event other than the selection of the terminal. *)
Advance(event) ==
  /\ event # "terminal_selected"
  /\ Legal(attemptState, event)
  /\ attemptState' = ReduceAttempt(attemptState, event)
  /\ UNCHANGED <<opens, outcome>>

(* The only step that touches the sealed target. *)
OpenTarget ==
  /\ attemptState = "activation"
  /\ opens = 0
  /\ opens' = 1
  /\ UNCHANGED <<attemptState, outcome>>

(* A positive or null result needs the analysis that follows the one read;
   a failure or an exhausted budget may be selected from any open state.   *)
SelectTerminal(status) ==
  /\ Legal(attemptState, "terminal_selected")
  /\ status \in {"positive", "null"} => attemptState = "analysis" /\ opens = 1
  /\ attemptState' = ReduceAttempt(attemptState, "terminal_selected")
  /\ outcome' = status
  /\ UNCHANGED opens

Next ==
  \/ \E event \in Events : Advance(event)
  \/ OpenTarget
  \/ \E status \in Statuses : SelectTerminal(status)

Spec == Init /\ [][Next]_vars

TypeOK ==
  /\ attemptState \in States
  /\ opens \in {0, 1}
  /\ outcome \in Statuses \cup {"none"}

(* A terminal outcome and the sealed state come together, and a result that
   states an effect or its absence rests on exactly one read of the target. *)
OutcomeMatchesState ==
  /\ (outcome # "none") <=> (attemptState = "sealed")
  /\ outcome \in {"positive", "null"} => opens = 1
  /\ opens = 1 => attemptState # "preflight"

(* Once a terminal is selected nothing about the attempt changes any more:
   no retry, no second read, no relabelling of the outcome.               *)
SealedIsFinal == [][attemptState = "sealed" => UNCHANGED vars]_vars
=============================================================================
