--------------------------- MODULE TerminalLedger ---------------------------
(***************************************************************************)
(* What a campaign promises about the terminals of one run id: a terminal  *)
(* once on file is never taken back, and what is published is one          *)
(* terminal, chosen while it was the only one on file, and for good.       *)
(***************************************************************************)
CONSTANT Kinds

VARIABLES
  recorded,    \* the terminals on file
  published    \* the terminal the manifest names, or "absent"

vars == <<recorded, published>>

Init == recorded = {} /\ published = "absent"

Record(k) == recorded' = recorded \cup {k} /\ UNCHANGED published

Publish(k) ==
  /\ published = "absent" /\ recorded = {k}
  /\ published' = k
  /\ UNCHANGED recorded

Next == \E k \in Kinds : Record(k) \/ Publish(k)

Spec == Init /\ [][Next]_vars
=============================================================================
