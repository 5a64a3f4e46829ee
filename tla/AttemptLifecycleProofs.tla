----------------------- MODULE AttemptLifecycleProofs -----------------------
(***************************************************************************)
(* What the transition table alone guarantees of every attempt.            *)
(***************************************************************************)
EXTENDS AttemptLifecycle, TLAPS

(* The table has a row for the selection of a terminal in every state but
   "sealed", and no row at all out of "sealed" (_ATTEMPT_TRANSITIONS).     *)
LEMMA SelectionTable ==
  ASSUME NEW s \in States
  PROVE  Legal(s, "terminal_selected") <=> s # "sealed"
BY DEF Legal, AttemptTransitions, States

(* reduce_attempt never leaves "sealed", whatever the event. *)
LEMMA NothingAfterSealed ==
  ASSUME NEW e \in Events
  PROVE  ~Legal("sealed", e)
BY DEF Legal, AttemptTransitions, Events, States

(* Where each row of the table leads. *)
LEMMA Reduced ==
  ASSUME NEW s \in States, NEW e \in Events, Legal(s, e)
  PROVE  /\ ReduceAttempt(s, e) \in States \ {"preflight"}
         /\ ReduceAttempt(s, e) = "sealed" <=> e = "terminal_selected"
BY DEF Legal, ReduceAttempt, AttemptTransitions, Events, States

(* Every variable of an attempt keeps its type. *)
THEOREM AttemptTypeOK == Spec => []TypeOK
<1>1. Init => TypeOK
  BY DEF Init, TypeOK, States
<1>2. TypeOK /\ [Next]_vars => TypeOK'
  <2> SUFFICES ASSUME TypeOK, [Next]_vars PROVE TypeOK'
    OBVIOUS
  <2>1. ASSUME NEW event \in Events, Advance(event) PROVE TypeOK'
    BY <2>1, Reduced DEF Advance, TypeOK
  <2>2. CASE OpenTarget
    BY <2>2 DEF OpenTarget, TypeOK
  <2>3. ASSUME NEW status \in Statuses, SelectTerminal(status) PROVE TypeOK'
    BY <2>3, Reduced DEF SelectTerminal, TypeOK, Events
  <2>4. CASE UNCHANGED vars
    BY <2>4 DEF vars, TypeOK
  <2> QED
    BY <2>1, <2>2, <2>3, <2>4 DEF Next
<1> QED
  BY <1>1, <1>2, PTL DEF Spec

(* A terminal and the sealed state come together, and a positive or null
   outcome rests on the one read of the target.                            *)
THEOREM AttemptOutcomeMatchesState == Spec => []OutcomeMatchesState
<1>1. Init => OutcomeMatchesState
  BY DEF Init, OutcomeMatchesState
<1>2. TypeOK /\ OutcomeMatchesState /\ [Next]_vars => OutcomeMatchesState'
  <2> SUFFICES ASSUME TypeOK, OutcomeMatchesState, [Next]_vars
               PROVE  OutcomeMatchesState'
    OBVIOUS
  <2>1. ASSUME NEW event \in Events, Advance(event) PROVE OutcomeMatchesState'
    <3>1. attemptState # "sealed" /\ attemptState' # "sealed" /\ attemptState' # "preflight"
      BY <2>1, Reduced, NothingAfterSealed DEF Advance, TypeOK
    <3> QED
      BY <2>1, <3>1 DEF Advance, OutcomeMatchesState
  <2>2. CASE OpenTarget
    BY <2>2 DEF OpenTarget, OutcomeMatchesState
  <2>3. ASSUME NEW status \in Statuses, SelectTerminal(status) PROVE OutcomeMatchesState'
    <3>1. attemptState' = "sealed"
      BY <2>3, Reduced DEF SelectTerminal, TypeOK, Events
    <3> QED
      BY <2>3, <3>1 DEF SelectTerminal, OutcomeMatchesState, Statuses
  <2>4. CASE UNCHANGED vars
    BY <2>4 DEF vars, OutcomeMatchesState
  <2> QED
    BY <2>1, <2>2, <2>3, <2>4 DEF Next
<1> QED
  BY <1>1, <1>2, AttemptTypeOK, PTL DEF Spec

(* The first selected terminal is final: no event is legal after it, and the
   target is not opened any more.                                          *)
THEOREM AttemptSealedIsFinal == Spec => SealedIsFinal
<1>1. [Next]_vars => [attemptState = "sealed" => UNCHANGED vars]_vars
  <2> SUFFICES ASSUME [Next]_vars, attemptState = "sealed" PROVE UNCHANGED vars
    OBVIOUS
  <2>1. ASSUME NEW event \in Events, Advance(event) PROVE FALSE
    BY <2>1, NothingAfterSealed DEF Advance
  <2>2. CASE OpenTarget
    BY <2>2 DEF OpenTarget
  <2>3. ASSUME NEW status \in Statuses, SelectTerminal(status) PROVE FALSE
    BY <2>3, NothingAfterSealed DEF SelectTerminal, Events
  <2> QED
    BY <2>1, <2>2, <2>3 DEF Next
<1> QED
  BY <1>1, PTL DEF Spec, SealedIsFinal
=============================================================================
