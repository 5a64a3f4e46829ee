------------------------ MODULE WriteOncePublication ------------------------
(***************************************************************************)
(* What the publishers of one package directory promise: the destination   *)
(* goes from empty to one whole package in one step, nobody withdraws a    *)
(* package but the publisher that put it there and has not yet answered,   *)
(* and success is answered for a whole package in place.  Processes        *)
(* outside the protocol may disturb the destination; they are not bound.   *)
(***************************************************************************)
CONSTANT Publishers

VARIABLES
  holder,     \* whose directory the destination is: a publisher, "other" or "none"
  whole,      \* it holds the complete package of its publisher
  answer,     \* "working", "committed" or "refused"
  disturbed   \* some other process has acted on the namespace

vars == <<holder, whole, answer, disturbed>>

Init ==
  /\ holder = "none" /\ whole = FALSE /\ disturbed = FALSE
  /\ answer = [p \in Publishers |-> "working"]

(* The rename.  Once disturbed, the directory renamed may be another's or no
   longer complete.                                                         *)
Publish(p) ==
  /\ holder = "none" /\ answer[p] = "working"
  /\ holder' \in IF disturbed THEN {p, "other"} ELSE {p}
  /\ whole' \in IF disturbed THEN BOOLEAN ELSE {TRUE}
  /\ UNCHANGED <<answer, disturbed>>

(* The rollback of one's own package, file by file, then the directory and
   the refusal.  Once disturbed, the directory removed may be another's, but
   never a whole package.                                                   *)
Withdraw(p) ==
  /\ answer[p] = "working"
  /\ whole' \in IF disturbed THEN BOOLEAN ELSE {FALSE}
  /\ \/ holder = p /\ UNCHANGED <<holder, answer>>
     \/ /\ holder = p \/ (disturbed /\ holder # "none" /\ ~whole)
        /\ holder' = "none"
        /\ answer' = [answer EXCEPT ![p] = "refused"]
  /\ UNCHANGED disturbed

Answer(p, a) ==
  /\ answer[p] = "working"
  /\ a = "committed" => disturbed \/ (holder = p /\ whole)
  /\ answer' = [answer EXCEPT ![p] = a]
  /\ UNCHANGED <<holder, whole, disturbed>>

Disturb ==
  /\ disturbed' = TRUE
  /\ holder' \in {holder, "other", "none"}
  /\ whole' \in {whole, FALSE}
  /\ UNCHANGED answer

Next ==
  \/ \E p \in Publishers :
        Publish(p) \/ Withdraw(p) \/ \E a \in {"committed", "refused"} : Answer(p, a)
  \/ Disturb

Spec == Init /\ [][Next]_vars
=============================================================================
