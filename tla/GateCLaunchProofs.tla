-------------------------- MODULE GateCLaunchProofs --------------------------
(***************************************************************************)
(* The safety of Gate C for every set of launchers and targets: IInv is    *)
(* inductive, the invariants the run checks follow from it, there is one   *)
(* guarded process and a closed authorization stays closed, all launchers  *)
(* together implement OneShotAttempt, and each uses its executor as        *)
(* SupervisedGuard promises.                                               *)
(***************************************************************************)
EXTENDS GateCLaunch, TLAPS

(* The outer class of a result is one of the classes, and only an exit 0
   is called completed (_classify_vertical_outer_exit).                    *)
LEMMA OuterClassTable ==
  /\ \A bound : \A r \in Results : OuterClass(r, bound) \in Classes
  /\ \A bound : \A r \in Results : OuterClass(r, bound) = "completed" => r.returncode = "exit_0"
  /\ \A r \in Results \cup {NoResult} : FailureClass(r) \in Classes
  /\ \A w : Parsed(w) \in Wires /\ (Parsed(w) = "sealed" => w = "sealed")
  /\ NoResult \notin Results
<1>1. \A bound : \A r \in Results : OuterClass(r, bound) \in Classes
  BY DEF OuterClass, Results, Classes
<1>2. \A bound : \A r \in Results : OuterClass(r, bound) = "completed" => r.returncode = "exit_0"
  BY DEF OuterClass, Results
<1>3. \A r \in Results \cup {NoResult} : FailureClass(r) \in Classes
  BY <1>1 DEF FailureClass, Classes
<1>4. \A w : Parsed(w) \in Wires /\ (Parsed(w) = "sealed" => w = "sealed")
  BY DEF Parsed, Wires
<1>5. NoResult \notin Results
  BY DEF NoResult, Results
<1> QED
  BY <1>1, <1>2, <1>3, <1>4, <1>5

(* One entry of the rows changes. *)
LEMMA RowUpdate ==
  ASSUME row \in [Launchers -> [Targets -> RowStates]],
         NEW l \in Launchers, NEW t \in Targets, NEW v \in RowStates,
         row' = [row EXCEPT ![l][t] = v]
  PROVE  /\ row' \in [Launchers -> [Targets -> RowStates]]
         /\ \A m \in Launchers, u \in Targets :
              row'[m][u] = IF m = l /\ u = t THEN v ELSE row[m][u]
OBVIOUS

(* The rows keep their type in every action of the window. *)
LEMMA RowTypeStep ==
  ASSUME row \in [Launchers -> [Targets -> RowStates]], NEW l \in Launchers,
         ListTarget(l) \/ ChmodTarget(l) \/ PinTarget(l) \/ CloseTarget(l)
  PROVE  row' \in [Launchers -> [Targets -> RowStates]]
<1>1. CASE UNCHANGED row
  BY <1>1
<1>2. CASE \E t \in Targets, v \in RowStates : row' = [row EXCEPT ![l][t] = v]
  BY <1>2, RowUpdate
<1>3. {"listed", "writable", "held", "done"} \subseteq RowStates
  BY DEF RowStates
<1>4. ASSUME ListTarget(l)
      PROVE  UNCHANGED row \/ \E t \in Targets, v \in RowStates : row' = [row EXCEPT ![l][t] = v]
  BY <1>3, <1>4 DEF ListTarget
<1>5. ASSUME ChmodTarget(l)
      PROVE  UNCHANGED row \/ \E t \in Targets, v \in RowStates : row' = [row EXCEPT ![l][t] = v]
  BY <1>3, <1>5 DEF ChmodTarget
<1>6. ASSUME PinTarget(l)
      PROVE  UNCHANGED row \/ \E t \in Targets, v \in RowStates : row' = [row EXCEPT ![l][t] = v]
  BY <1>3, <1>6 DEF PinTarget
<1>7. ASSUME CloseTarget(l)
      PROVE  UNCHANGED row \/ \E t \in Targets, v \in RowStates : row' = [row EXCEPT ![l][t] = v]
  BY <1>3, <1>7 DEF CloseTarget
<1> QED
  BY <1>1, <1>2, <1>4, <1>5, <1>6, <1>7

(* A terminal observation whose write broke off. *)
LEMMA BrokenTerminal ==
  ASSUME TypeOK, terminal.state = Absent
  PROVE  /\ [terminal EXCEPT !.state = "incomplete"] \in Unwritten
         /\ [terminal EXCEPT !.state = "incomplete"].state = "incomplete"
BY DEF TypeOK, Unwritten, Written, Absent

(* A step keeps the flags of every launcher. *)
LEMMA FlagsStep ==
  ASSUME FlagsOK, NEW l \in Launchers, Step(l)
  PROVE  FlagsOK'
<1> USE DEF FlagsOK, Goto, diskVars, localVars
<1>1. CASE Validate(l)
  BY <1>1 DEF Validate
<1>2. CASE Admit(l)
  BY <1>2 DEF Admit
<1>3. CASE PreflightReport(l)
  BY <1>3 DEF PreflightReport
<1>4. CASE EnterWindow(l)
  BY <1>4 DEF EnterWindow
<1>5. CASE ListTarget(l)
  BY <1>5 DEF ListTarget, Trouble
<1>6. CASE ChmodTarget(l)
  BY <1>6 DEF ChmodTarget, Trouble
<1>7. CASE PinTarget(l)
  BY <1>7 DEF PinTarget, Trouble
<1>8. CASE Interrupt(l)
  BY <1>8 DEF Interrupt, Trouble
<1>9. CASE ReserveClaim(l)
  BY <1>9 DEF ReserveClaim, Trouble
<1>10. CASE WriteClaim(l)
  BY <1>10 DEF WriteClaim, Trouble
<1>11. CASE NoteClaim(l)
  BY <1>11 DEF NoteClaim
<1>12. CASE WritePreRun(l)
  BY <1>12 DEF WritePreRun, Trouble
<1>13. CASE StartGuard(l)
  BY <1>13 DEF StartGuard, Trouble
<1>14. CASE ChildWrites(l)
  BY <1>14 DEF ChildWrites
<1>15. CASE OrphanEnds(l)
  BY <1>15 DEF OrphanEnds
<1>16. CASE GuardReturns(l)
  BY <1>16 DEF GuardReturns, Trouble
<1>17. CASE CloseTarget(l)
  BY <1>17 DEF CloseTarget, Trouble
<1>18. CASE LeaveWindow(l)
  BY <1>18 DEF LeaveWindow, Trouble
<1>19. CASE CheckIdentities(l)
  BY <1>19 DEF CheckIdentities
<1>20. CASE ProbeAfterFailure(l)
  BY <1>20 DEF ProbeAfterFailure
<1>21. CASE SealFailure(l)
  BY <1>21 DEF SealFailure, WriteTerminal
<1>22. CASE SealCompletion(l)
  BY <1>22 DEF SealCompletion, WriteTerminal
<1>23. CASE Kill(l)
  BY <1>23 DEF Kill
<1> QED
  BY <1>1, <1>2, <1>3, <1>4, <1>5, <1>6, <1>7, <1>8, <1>9, <1>10, <1>11, <1>12, <1>13,
      <1>14, <1>15, <1>16, <1>17, <1>18, <1>19, <1>20, <1>21, <1>22, <1>23 DEF Step

(* A step keeps the types. *)
LEMMA TypeStep ==
  ASSUME IInv, NEW l \in Launchers, Step(l)
  PROVE  TypeOK'
<1> USE OuterClassTable, FlagsStep DEF Goto, diskVars, localVars, IInv, TypeOK, PCs,
    Ended, Absent, FileStates
<1>1. CASE Validate(l)
  BY <1>1 DEF Validate
<1>2. CASE Admit(l)
  BY <1>2 DEF Admit
<1>3. CASE PreflightReport(l)
  BY <1>3 DEF PreflightReport
<1>4. CASE EnterWindow(l)
  BY <1>4 DEF EnterWindow
<1>5. CASE ListTarget(l)
  <2>1. row' \in [Launchers -> [Targets -> RowStates]]
    BY <1>5, RowTypeStep
  <2> QED
    BY <2>1, <1>5 DEF ListTarget, Trouble
<1>6. CASE ChmodTarget(l)
  <2>1. row' \in [Launchers -> [Targets -> RowStates]]
    BY <1>6, RowTypeStep
  <2> QED
    BY <2>1, <1>6 DEF ChmodTarget, Trouble
<1>7. CASE PinTarget(l)
  <2>1. row' \in [Launchers -> [Targets -> RowStates]]
    BY <1>7, RowTypeStep
  <2> QED
    BY <2>1, <1>7 DEF PinTarget, Trouble
<1>8. CASE Interrupt(l)
  BY <1>8 DEF Interrupt, Trouble
<1>9. CASE ReserveClaim(l)
  BY <1>9 DEF ReserveClaim, Trouble
<1>10. CASE WriteClaim(l)
  BY <1>10 DEF WriteClaim, Trouble
<1>11. CASE NoteClaim(l)
  BY <1>11 DEF NoteClaim
<1>12. CASE WritePreRun(l)
  BY <1>12 DEF WritePreRun, Trouble
<1>13. CASE StartGuard(l)
  BY <1>13 DEF StartGuard, Trouble
<1>14. CASE ChildWrites(l)
  BY <1>14 DEF ChildWrites
<1>15. CASE OrphanEnds(l)
  BY <1>15 DEF OrphanEnds
<1>16. CASE GuardReturns(l)
  <2>1. result' \in [Launchers -> Results \cup {NoResult}]
    BY <1>16 DEF GuardReturns
  <2>2. trouble' \in [Launchers -> {"none", "error", "uncertain"}]
    BY <1>16 DEF GuardReturns, Trouble
  <2>3. guard' \in [Launchers -> {"none", "running", "done"}]
    BY <1>16 DEF GuardReturns
  <2> QED
    BY <2>1, <2>2, <2>3, <1>16 DEF GuardReturns
<1>17. CASE CloseTarget(l)
  <2>1. row' \in [Launchers -> [Targets -> RowStates]]
    BY <1>17, RowTypeStep
  <2> QED
    BY <2>1, <1>17 DEF CloseTarget, Trouble
<1>18. CASE LeaveWindow(l)
  BY <1>18 DEF LeaveWindow, Trouble
<1>19. CASE CheckIdentities(l)
  BY <1>19 DEF CheckIdentities
<1>20. CASE ProbeAfterFailure(l)
  BY <1>20 DEF ProbeAfterFailure
<1>21. CASE SealFailure(l)
  <2>1. FailureClass(result[l]) \in Classes
    BY OuterClassTable
  <2>2. [state |-> "complete", class |-> FailureClass(result[l]),
         recovery |-> TRUE, child |-> "none"] \in Written
    BY <2>1 DEF Written, Wires
  <2>3. terminal' \in Unwritten \cup Written
    BY <2>2, <1>21, BrokenTerminal DEF SealFailure, WriteTerminal
  <2>4. pc' \in [Launchers -> PCs]
    BY <1>21 DEF SealFailure, WriteTerminal
  <2> QED
    BY <2>3, <2>4, <1>21 DEF SealFailure
<1>22. CASE SealCompletion(l)
  <2>1. OuterClass(result[l], Parsed(result[l].wire)) \in Classes /\ Parsed(result[l].wire) \in Wires
    BY <1>22, OuterClassTable DEF SealCompletion, ResultFollowsGuard
  <2>2. \A b1, b2 \in BOOLEAN :
          [state |-> "complete", recovery |-> ~CompletionVerified(result[l], b1, b2),
           class |-> OuterClass(result[l], Parsed(result[l].wire)),
           child |-> Parsed(result[l].wire)] \in Written
    BY <2>1 DEF Written, CompletionVerified
  <2>3. terminal' \in Unwritten \cup Written
    BY <2>2, <1>22, BrokenTerminal DEF SealCompletion, WriteTerminal
  <2>4. pc' \in [Launchers -> PCs]
    BY <1>22 DEF SealCompletion, WriteTerminal
  <2> QED
    BY <2>3, <2>4, <1>22 DEF SealCompletion
<1>23. CASE Kill(l)
  BY <1>23 DEF Kill
<1> QED
  BY <1>1, <1>2, <1>3, <1>4, <1>5, <1>6, <1>7, <1>8, <1>9, <1>10, <1>11, <1>12, <1>13,
      <1>14, <1>15, <1>16, <1>17, <1>18, <1>19, <1>20, <1>21, <1>22, <1>23 DEF Step

(* A claim keeps its owner. *)
LEMMA ClaimStep ==
  ASSUME IInv, NEW l \in Launchers, Step(l)
  PROVE  ClaimIsOwned'
<1> USE LaunchersAssumption DEF IInv, TypeOK, FlagsOK, ClaimIsOwned, Absent, Goto,
    diskVars, localVars
<1>1. CASE Validate(l)
  BY <1>1 DEF Validate
<1>2. CASE Admit(l)
  BY <1>2 DEF Admit
<1>3. CASE PreflightReport(l)
  BY <1>3 DEF PreflightReport
<1>4. CASE EnterWindow(l)
  BY <1>4 DEF EnterWindow
<1>5. CASE ListTarget(l)
  BY <1>5 DEF ListTarget, Trouble
<1>6. CASE ChmodTarget(l)
  BY <1>6 DEF ChmodTarget, Trouble
<1>7. CASE PinTarget(l)
  BY <1>7 DEF PinTarget, Trouble
<1>8. CASE Interrupt(l)
  BY <1>8 DEF Interrupt, Trouble
<1>9. CASE ReserveClaim(l)
  BY <1>9 DEF ReserveClaim, Trouble
<1>10. CASE WriteClaim(l)
  BY <1>10 DEF WriteClaim, Trouble
<1>11. CASE NoteClaim(l)
  BY <1>11 DEF NoteClaim
<1>12. CASE WritePreRun(l)
  BY <1>12 DEF WritePreRun, Trouble
<1>13. CASE StartGuard(l)
  BY <1>13 DEF StartGuard, Trouble
<1>14. CASE ChildWrites(l)
  BY <1>14 DEF ChildWrites
<1>15. CASE OrphanEnds(l)
  BY <1>15 DEF OrphanEnds
<1>16. CASE GuardReturns(l)
  BY <1>16 DEF GuardReturns, Trouble
<1>17. CASE CloseTarget(l)
  BY <1>17 DEF CloseTarget, Trouble
<1>18. CASE LeaveWindow(l)
  BY <1>18 DEF LeaveWindow, Trouble
<1>19. CASE CheckIdentities(l)
  BY <1>19 DEF CheckIdentities
<1>20. CASE ProbeAfterFailure(l)
  BY <1>20 DEF ProbeAfterFailure
<1>21. CASE SealFailure(l)
  BY <1>21 DEF SealFailure, WriteTerminal
<1>22. CASE SealCompletion(l)
  BY <1>22 DEF SealCompletion, WriteTerminal
<1>23. CASE Kill(l)
  BY <1>23 DEF Kill
<1> QED
  BY <1>1, <1>2, <1>3, <1>4, <1>5, <1>6, <1>7, <1>8, <1>9, <1>10, <1>11, <1>12, <1>13,
      <1>14, <1>15, <1>16, <1>17, <1>18, <1>19, <1>20, <1>21, <1>22, <1>23 DEF Step

(* A guard is started under a claim and a pre-run observation. *)
LEMMA GuardStep ==
  ASSUME IInv, NEW l \in Launchers, Step(l)
  PROVE  GuardFollowsClaim'
<1> USE LaunchersAssumption DEF IInv, TypeOK, FlagsOK, ClaimIsOwned, GuardFollowsClaim,
    ResultFollowsGuard, Absent, Goto, diskVars, localVars
<1>1. CASE Validate(l)
  BY <1>1 DEF Validate
<1>2. CASE Admit(l)
  BY <1>2 DEF Admit
<1>3. CASE PreflightReport(l)
  BY <1>3 DEF PreflightReport
<1>4. CASE EnterWindow(l)
  BY <1>4 DEF EnterWindow
<1>5. CASE ListTarget(l)
  BY <1>5 DEF ListTarget, Trouble
<1>6. CASE ChmodTarget(l)
  BY <1>6 DEF ChmodTarget, Trouble
<1>7. CASE PinTarget(l)
  BY <1>7 DEF PinTarget, Trouble
<1>8. CASE Interrupt(l)
  BY <1>8 DEF Interrupt, Trouble
<1>9. CASE ReserveClaim(l)
  BY <1>9 DEF ReserveClaim, Trouble
<1>10. CASE WriteClaim(l)
  BY <1>10 DEF WriteClaim, Trouble
<1>11. CASE NoteClaim(l)
  BY <1>11 DEF NoteClaim
<1>12. CASE WritePreRun(l)
  BY <1>12 DEF WritePreRun, Trouble
<1>13. CASE StartGuard(l)
  BY <1>13 DEF StartGuard, Trouble
<1>14. CASE ChildWrites(l)
  BY <1>14 DEF ChildWrites
<1>15. CASE OrphanEnds(l)
  BY <1>15 DEF OrphanEnds
<1>16. CASE GuardReturns(l)
  BY <1>16 DEF GuardReturns, Trouble
<1>17. CASE CloseTarget(l)
  BY <1>17 DEF CloseTarget, Trouble
<1>18. CASE LeaveWindow(l)
  BY <1>18 DEF LeaveWindow, Trouble
<1>19. CASE CheckIdentities(l)
  BY <1>19 DEF CheckIdentities
<1>20. CASE ProbeAfterFailure(l)
  BY <1>20 DEF ProbeAfterFailure
<1>21. CASE SealFailure(l)
  BY <1>21 DEF SealFailure, WriteTerminal
<1>22. CASE SealCompletion(l)
  BY <1>22 DEF SealCompletion, WriteTerminal
<1>23. CASE Kill(l)
  BY <1>23 DEF Kill
<1> QED
  BY <1>1, <1>2, <1>3, <1>4, <1>5, <1>6, <1>7, <1>8, <1>9, <1>10, <1>11, <1>12, <1>13,
      <1>14, <1>15, <1>16, <1>17, <1>18, <1>19, <1>20, <1>21, <1>22, <1>23 DEF Step

(* A result belongs to a guard, which only exit 70 may leave running. *)
LEMMA ResultStep ==
  ASSUME IInv, NEW l \in Launchers, Step(l)
  PROVE  ResultFollowsGuard'
<1> USE OuterClassTable DEF IInv, TypeOK, PCs, Ended, ResultFollowsGuard, Before, Goto,
    diskVars, localVars
<1>1. CASE Validate(l)
  BY <1>1 DEF Validate
<1>2. CASE Admit(l)
  BY <1>2 DEF Admit
<1>3. CASE PreflightReport(l)
  BY <1>3 DEF PreflightReport
<1>4. CASE EnterWindow(l)
  BY <1>4 DEF EnterWindow
<1>5. CASE ListTarget(l)
  BY <1>5 DEF ListTarget, Trouble
<1>6. CASE ChmodTarget(l)
  BY <1>6 DEF ChmodTarget, Trouble
<1>7. CASE PinTarget(l)
  BY <1>7 DEF PinTarget, Trouble
<1>8. CASE Interrupt(l)
  BY <1>8 DEF Interrupt, Trouble
<1>9. CASE ReserveClaim(l)
  BY <1>9 DEF ReserveClaim, Trouble
<1>10. CASE WriteClaim(l)
  BY <1>10 DEF WriteClaim, Trouble
<1>11. CASE NoteClaim(l)
  BY <1>11 DEF NoteClaim
<1>12. CASE WritePreRun(l)
  BY <1>12 DEF WritePreRun, Trouble
<1>13. CASE StartGuard(l)
  BY <1>13 DEF StartGuard, Trouble
<1>14. CASE ChildWrites(l)
  BY <1>14 DEF ChildWrites
<1>15. CASE OrphanEnds(l)
  BY <1>15 DEF OrphanEnds
<1>16. CASE GuardReturns(l)
  BY <1>16 DEF GuardReturns, Trouble
<1>17. CASE CloseTarget(l)
  BY <1>17 DEF CloseTarget, Trouble
<1>18. CASE LeaveWindow(l)
  BY <1>18 DEF LeaveWindow, Trouble
<1>19. CASE CheckIdentities(l)
  BY <1>19 DEF CheckIdentities
<1>20. CASE ProbeAfterFailure(l)
  BY <1>20 DEF ProbeAfterFailure
<1>21. CASE SealFailure(l)
  BY <1>21 DEF SealFailure, WriteTerminal
<1>22. CASE SealCompletion(l)
  BY <1>22 DEF SealCompletion, WriteTerminal
<1>23. CASE Kill(l)
  BY <1>23 DEF Kill
<1> QED
  BY <1>1, <1>2, <1>3, <1>4, <1>5, <1>6, <1>7, <1>8, <1>9, <1>10, <1>11, <1>12, <1>13,
      <1>14, <1>15, <1>16, <1>17, <1>18, <1>19, <1>20, <1>21, <1>22, <1>23 DEF Step

(* The rows go through the window with their launcher. *)
LEMMA RowsStep ==
  ASSUME IInv, NEW l \in Launchers, Step(l)
  PROVE  RowsFollowWindow'
<1> USE DEF IInv, TypeOK, RowsFollowWindow, Holding, Goto, diskVars, localVars
<1>1. CASE Validate(l)
  BY <1>1 DEF Validate
<1>2. CASE Admit(l)
  BY <1>2 DEF Admit
<1>3. CASE PreflightReport(l)
  BY <1>3 DEF PreflightReport
<1>4. CASE EnterWindow(l)
  BY <1>4 DEF EnterWindow
<1>5. CASE ListTarget(l)
  BY <1>5 DEF ListTarget, Trouble
<1>6. CASE ChmodTarget(l)
  <2>1. pc'[l] \in {"open", "close"} /\ (pc'[l] = "close" => trouble'[l] = "error")
    BY <1>6 DEF ChmodTarget, Trouble
  <2>2. \A m \in Launchers \ {l}, u \in Targets :
          row'[m][u] = row[m][u] /\ pc'[m] = pc[m] /\ trouble'[m] = trouble[m]
    BY <1>6, RowUpdate DEF ChmodTarget, Trouble, RowStates
  <2> SUFFICES ASSUME NEW m \in Launchers, NEW u \in Targets
               PROVE  /\ pc'[m] \in {"validate", "admit", "window"} => row'[m][u] = "none"
                      /\ pc'[m] \in Holding => row'[m][u] = "held"
                      /\ pc'[m] = "close" /\ trouble'[m] = "none" => row'[m][u] \in {"held", "done"}
                      /\ pc'[m] \in {"identity", "postflight"} => row'[m][u] = "done"
    OBVIOUS
  <2>3. CASE m = l
    BY <2>1, <2>3
  <2>4. CASE m # l
    BY <2>2, <2>4
  <2> QED
    BY <2>3, <2>4
<1>7. CASE PinTarget(l)
  BY <1>7 DEF PinTarget, Trouble
<1>8. CASE Interrupt(l)
  BY <1>8 DEF Interrupt, Trouble
<1>9. CASE ReserveClaim(l)
  BY <1>9 DEF ReserveClaim, Trouble
<1>10. CASE WriteClaim(l)
  BY <1>10 DEF WriteClaim, Trouble
<1>11. CASE NoteClaim(l)
  BY <1>11 DEF NoteClaim
<1>12. CASE WritePreRun(l)
  BY <1>12 DEF WritePreRun, Trouble
<1>13. CASE StartGuard(l)
  BY <1>13 DEF StartGuard, Trouble
<1>14. CASE ChildWrites(l)
  BY <1>14 DEF ChildWrites
<1>15. CASE OrphanEnds(l)
  BY <1>15 DEF OrphanEnds
<1>16. CASE GuardReturns(l)
  BY <1>16 DEF GuardReturns, Trouble
<1>17. CASE CloseTarget(l)
  BY <1>17 DEF CloseTarget, Trouble
<1>18. CASE LeaveWindow(l)
  BY <1>18 DEF LeaveWindow, Trouble
<1>19. CASE CheckIdentities(l)
  BY <1>19 DEF CheckIdentities
<1>20. CASE ProbeAfterFailure(l)
  BY <1>20 DEF ProbeAfterFailure
<1>21. CASE SealFailure(l)
  BY <1>21 DEF SealFailure, WriteTerminal
<1>22. CASE SealCompletion(l)
  BY <1>22 DEF SealCompletion, WriteTerminal
<1>23. CASE Kill(l)
  BY <1>23 DEF Kill
<1> QED
  BY <1>1, <1>2, <1>3, <1>4, <1>5, <1>6, <1>7, <1>8, <1>9, <1>10, <1>11, <1>12, <1>13,
      <1>14, <1>15, <1>16, <1>17, <1>18, <1>19, <1>20, <1>21, <1>22, <1>23 DEF Step

(* The terminal observation is the claimant's last act. *)
LEMMA ClosedStep ==
  ASSUME IInv, NEW l \in Launchers, Step(l)
  PROVE  ClosedByTheClaimant'
<1> USE LaunchersAssumption DEF IInv, TypeOK, ClaimIsOwned, ClosedByTheClaimant,
    GuardFollowsClaim, Absent, Ended, Goto, diskVars, localVars
<1>1. CASE Validate(l)
  BY <1>1 DEF Validate
<1>2. CASE Admit(l)
  BY <1>2 DEF Admit
<1>3. CASE PreflightReport(l)
  BY <1>3 DEF PreflightReport
<1>4. CASE EnterWindow(l)
  BY <1>4 DEF EnterWindow
<1>5. CASE ListTarget(l)
  BY <1>5 DEF ListTarget, Trouble
<1>6. CASE ChmodTarget(l)
  BY <1>6 DEF ChmodTarget, Trouble
<1>7. CASE PinTarget(l)
  BY <1>7 DEF PinTarget, Trouble
<1>8. CASE Interrupt(l)
  BY <1>8 DEF Interrupt, Trouble
<1>9. CASE ReserveClaim(l)
  BY <1>9 DEF ReserveClaim, Trouble
<1>10. CASE WriteClaim(l)
  BY <1>10 DEF WriteClaim, Trouble
<1>11. CASE NoteClaim(l)
  BY <1>11 DEF NoteClaim
<1>12. CASE WritePreRun(l)
  BY <1>12 DEF WritePreRun, Trouble
<1>13. CASE StartGuard(l)
  BY <1>13 DEF StartGuard, Trouble
<1>14. CASE ChildWrites(l)
  BY <1>14 DEF ChildWrites
<1>15. CASE OrphanEnds(l)
  BY <1>15 DEF OrphanEnds
<1>16. CASE GuardReturns(l)
  BY <1>16 DEF GuardReturns, Trouble
<1>17. CASE CloseTarget(l)
  BY <1>17 DEF CloseTarget, Trouble
<1>18. CASE LeaveWindow(l)
  BY <1>18 DEF LeaveWindow, Trouble
<1>19. CASE CheckIdentities(l)
  BY <1>19 DEF CheckIdentities
<1>20. CASE ProbeAfterFailure(l)
  BY <1>20 DEF ProbeAfterFailure
<1>21. CASE SealFailure(l)
  BY <1>21 DEF SealFailure, WriteTerminal
<1>22. CASE SealCompletion(l)
  BY <1>22 DEF SealCompletion, WriteTerminal
<1>23. CASE Kill(l)
  BY <1>23 DEF Kill
<1> QED
  BY <1>1, <1>2, <1>3, <1>4, <1>5, <1>6, <1>7, <1>8, <1>9, <1>10, <1>11, <1>12, <1>13,
      <1>14, <1>15, <1>16, <1>17, <1>18, <1>19, <1>20, <1>21, <1>22, <1>23 DEF Step

(* An open target keeps somebody who will close it. *)
LEMMA WhoOpensStep ==
  ASSUME IInv, NEW l \in Launchers, Step(l)
  PROVE  WhoOpensCloses'
<1> USE DEF IInv, TypeOK, RowsFollowWindow, ResultFollowsGuard, WhoOpensCloses, Holding,
    Before, Goto, diskVars, localVars
<1>1. CASE Validate(l)
  BY <1>1 DEF Validate
<1>2. CASE Admit(l)
  BY <1>2 DEF Admit
<1>3. CASE PreflightReport(l)
  BY <1>3 DEF PreflightReport
<1>4. CASE EnterWindow(l)
  BY <1>4 DEF EnterWindow
<1>5. CASE ListTarget(l)
  <2>1. trouble[l] = "none" /\ pc[l] \notin {"killed", "close"} /\ pc'[l] \in {"list", "open", "claim", "close"}
    BY <1>5 DEF ListTarget, Trouble
  <2>2. \A m \in Launchers \ {l} : pc'[m] = pc[m] /\ trouble'[m] = trouble[m] /\ row'[m] = row[m]
    BY <1>5 DEF ListTarget, Trouble
  <2>3. SUFFICES ASSUME NEW t \in Targets, mode'[t] = "open"
                 PROVE  \E m \in Launchers :
                          \/ pc'[m] = "killed" \/ trouble'[m] = "uncertain"
                          \/ /\ pc'[m] \in Holding \cup {"open", "close"}
                             /\ row'[m][t] \in {"writable", "held"}
    BY DEF WhoOpensCloses
  <2>4. mode[t] = "open" \/ (row'[l][t] = "writable" /\ pc'[l] = "open")
    <3>1. UNCHANGED mode
      BY <1>5 DEF ListTarget
    <3> QED
      BY <2>3, <3>1
  <2>5. row[l][t] \in {"writable", "held"} /\ pc[l] \in Holding \cup {"open"}
        => row'[l][t] \in {"writable", "held"} /\ pc'[l] \in Holding \cup {"open", "close"}
    BY <1>5, RowUpdate DEF ListTarget, RowStates
  <2>6. CASE mode[t] = "open"
    <3>1. PICK m \in Launchers :
            \/ pc[m] = "killed" \/ trouble[m] = "uncertain"
            \/ pc[m] \in Holding \cup {"open", "close"} /\ row[m][t] \in {"writable", "held"}
      BY <2>6 DEF WhoOpensCloses
    <3> QED
      BY <2>1, <2>2, <2>5, <3>1
  <2>7. CASE row'[l][t] = "writable" /\ pc'[l] = "open"
    BY <2>7
  <2> QED
    BY <2>4, <2>6, <2>7
<1>6. CASE ChmodTarget(l)
  <2>1. trouble[l] = "none" /\ pc[l] \notin {"killed", "close"} /\ pc'[l] \in {"list", "open", "claim", "close"}
    BY <1>6 DEF ChmodTarget, Trouble
  <2>2. \A m \in Launchers \ {l} : pc'[m] = pc[m] /\ trouble'[m] = trouble[m] /\ row'[m] = row[m]
    BY <1>6 DEF ChmodTarget, Trouble
  <2>3. SUFFICES ASSUME NEW t \in Targets, mode'[t] = "open"
                 PROVE  \E m \in Launchers :
                          \/ pc'[m] = "killed" \/ trouble'[m] = "uncertain"
                          \/ /\ pc'[m] \in Holding \cup {"open", "close"}
                             /\ row'[m][t] \in {"writable", "held"}
    BY DEF WhoOpensCloses
  <2>4. mode[t] = "open" \/ (row'[l][t] = "writable" /\ pc'[l] = "open")
    <3>1. UNCHANGED mode \/ \E u \in Targets :
            /\ mode' = [mode EXCEPT ![u] = "open"] /\ UNCHANGED pc
            /\ row' = [row EXCEPT ![l][u] = "writable"]
      BY <1>6 DEF ChmodTarget
    <3>2. pc[l] = "open" /\ row \in [Launchers -> [Targets -> RowStates]]
          /\ mode \in [Targets -> {"closed", "open"}]
      BY <1>6 DEF ChmodTarget
    <3> QED
      BY <2>3, <3>1, <3>2, RowUpdate DEF RowStates
  <2>5. row[l][t] \in {"writable", "held"} /\ pc[l] \in Holding \cup {"open"}
        => row'[l][t] \in {"writable", "held"} /\ pc'[l] \in Holding \cup {"open", "close"}
    BY <1>6, RowUpdate DEF ChmodTarget, RowStates
  <2>6. CASE mode[t] = "open"
    <3>1. PICK m \in Launchers :
            \/ pc[m] = "killed" \/ trouble[m] = "uncertain"
            \/ pc[m] \in Holding \cup {"open", "close"} /\ row[m][t] \in {"writable", "held"}
      BY <2>6 DEF WhoOpensCloses
    <3> QED
      BY <2>1, <2>2, <2>5, <3>1
  <2>7. CASE row'[l][t] = "writable" /\ pc'[l] = "open"
    BY <2>7
  <2> QED
    BY <2>4, <2>6, <2>7
<1>7. CASE PinTarget(l)
  <2>1. trouble[l] = "none" /\ pc[l] \notin {"killed", "close"} /\ pc'[l] \in {"list", "open", "claim", "close"}
    BY <1>7 DEF PinTarget, Trouble
  <2>2. \A m \in Launchers \ {l} : pc'[m] = pc[m] /\ trouble'[m] = trouble[m] /\ row'[m] = row[m]
    BY <1>7 DEF PinTarget, Trouble
  <2>3. SUFFICES ASSUME NEW t \in Targets, mode'[t] = "open"
                 PROVE  \E m \in Launchers :
                          \/ pc'[m] = "killed" \/ trouble'[m] = "uncertain"
                          \/ /\ pc'[m] \in Holding \cup {"open", "close"}
                             /\ row'[m][t] \in {"writable", "held"}
    BY DEF WhoOpensCloses
  <2>4. mode[t] = "open" \/ (row'[l][t] = "writable" /\ pc'[l] = "open")
    <3>1. UNCHANGED mode
      BY <1>7 DEF PinTarget
    <3> QED
      BY <2>3, <3>1
  <2>5. row[l][t] \in {"writable", "held"} /\ pc[l] \in Holding \cup {"open"}
        => row'[l][t] \in {"writable", "held"} /\ pc'[l] \in Holding \cup {"open", "close"}
    BY <1>7, RowUpdate DEF PinTarget, RowStates
  <2>6. CASE mode[t] = "open"
    <3>1. PICK m \in Launchers :
            \/ pc[m] = "killed" \/ trouble[m] = "uncertain"
            \/ pc[m] \in Holding \cup {"open", "close"} /\ row[m][t] \in {"writable", "held"}
      BY <2>6 DEF WhoOpensCloses
    <3> QED
      BY <2>1, <2>2, <2>5, <3>1
  <2>7. CASE row'[l][t] = "writable" /\ pc'[l] = "open"
    BY <2>7
  <2> QED
    BY <2>4, <2>6, <2>7
<1>8. CASE Interrupt(l)
  <2>1. trouble[l] = "none" /\ pc[l] \notin {"killed", "close"} /\ pc'[l] \in {"list", "open", "claim", "close"}
    BY <1>8 DEF Interrupt, Trouble
  <2>2. \A m \in Launchers \ {l} : pc'[m] = pc[m] /\ trouble'[m] = trouble[m] /\ row'[m] = row[m]
    BY <1>8 DEF Interrupt, Trouble
  <2>3. SUFFICES ASSUME NEW t \in Targets, mode'[t] = "open"
                 PROVE  \E m \in Launchers :
                          \/ pc'[m] = "killed" \/ trouble'[m] = "uncertain"
                          \/ /\ pc'[m] \in Holding \cup {"open", "close"}
                             /\ row'[m][t] \in {"writable", "held"}
    BY DEF WhoOpensCloses
  <2>4. mode[t] = "open" \/ (row'[l][t] = "writable" /\ pc'[l] = "open")
    <3>1. UNCHANGED mode
      BY <1>8 DEF Interrupt
    <3> QED
      BY <2>3, <3>1
  <2>5. row[l][t] \in {"writable", "held"} /\ pc[l] \in Holding \cup {"open"}
        => row'[l][t] \in {"writable", "held"} /\ pc'[l] \in Holding \cup {"open", "close"}
    BY <1>8, RowUpdate DEF Interrupt, RowStates
  <2>6. CASE mode[t] = "open"
    <3>1. PICK m \in Launchers :
            \/ pc[m] = "killed" \/ trouble[m] = "uncertain"
            \/ pc[m] \in Holding \cup {"open", "close"} /\ row[m][t] \in {"writable", "held"}
      BY <2>6 DEF WhoOpensCloses
    <3> QED
      BY <2>1, <2>2, <2>5, <3>1
  <2>7. CASE row'[l][t] = "writable" /\ pc'[l] = "open"
    BY <2>7
  <2> QED
    BY <2>4, <2>6, <2>7
<1>9. CASE ReserveClaim(l)
  BY <1>9 DEF ReserveClaim, Trouble
<1>10. CASE WriteClaim(l)
  BY <1>10 DEF WriteClaim, Trouble
<1>11. CASE NoteClaim(l)
  BY <1>11 DEF NoteClaim
<1>12. CASE WritePreRun(l)
  BY <1>12 DEF WritePreRun, Trouble
<1>13. CASE StartGuard(l)
  BY <1>13 DEF StartGuard, Trouble
<1>14. CASE ChildWrites(l)
  BY <1>14 DEF ChildWrites
<1>15. CASE OrphanEnds(l)
  BY <1>15 DEF OrphanEnds
<1>16. CASE GuardReturns(l)
  BY <1>16 DEF GuardReturns, Trouble
<1>17. CASE CloseTarget(l)
  BY <1>17 DEF CloseTarget, Trouble
<1>18. CASE LeaveWindow(l)
  BY <1>18 DEF LeaveWindow, Trouble
<1>19. CASE CheckIdentities(l)
  BY <1>19 DEF CheckIdentities
<1>20. CASE ProbeAfterFailure(l)
  BY <1>20 DEF ProbeAfterFailure
<1>21. CASE SealFailure(l)
  BY <1>21 DEF SealFailure, WriteTerminal
<1>22. CASE SealCompletion(l)
  BY <1>22 DEF SealCompletion, WriteTerminal
<1>23. CASE Kill(l)
  BY <1>23 DEF Kill
<1> QED
  BY <1>1, <1>2, <1>3, <1>4, <1>5, <1>6, <1>7, <1>8, <1>9, <1>10, <1>11, <1>12, <1>13,
      <1>14, <1>15, <1>16, <1>17, <1>18, <1>19, <1>20, <1>21, <1>22, <1>23 DEF Step

(* Nobody but a rival closes the targets of a launcher at work. *)
LEMMA AloneStep ==
  ASSUME IInv, NEW l \in Launchers, Step(l)
  PROVE  AloneKeepsOpen'
<1> USE DEF IInv, TypeOK, RowsFollowWindow, AloneKeepsOpen, Holding, Ended, Goto,
    diskVars, localVars
<1>1. CASE Validate(l)
  BY <1>1 DEF Validate
<1>2. CASE Admit(l)
  BY <1>2 DEF Admit
<1>3. CASE PreflightReport(l)
  BY <1>3 DEF PreflightReport
<1>4. CASE EnterWindow(l)
  BY <1>4 DEF EnterWindow
<1>5. CASE ListTarget(l)
  <2>1. UNCHANGED mode
    BY <1>5 DEF ListTarget
  <2>2. pc'[l] \in {"list", "open", "close"}
    BY <1>5 DEF ListTarget, Trouble
  <2>3. \A m \in Launchers, u \in Targets :
          row'[m][u] \in {row[m][u], "listed"} /\ (row'[m][u] = "none" => row[m][u] = "none")
    <3>1. UNCHANGED row \/ \E u \in Targets : row' = [row EXCEPT ![l][u] = "listed"]
      BY <1>5 DEF ListTarget
    <3>2. row \in [Launchers -> [Targets -> RowStates]]
      OBVIOUS
    <3> QED
      BY <3>1, <3>2, RowUpdate DEF RowStates
  <2>4. pc'[l] = "open" => \A u \in Targets : row'[l][u] = "listed"
    BY <1>5, RowUpdate DEF ListTarget, RowStates
  <2>5. \A m \in Launchers \ {l} : pc'[m] = pc[m]
    BY <1>5 DEF ListTarget
  <2> QED
    BY <2>1, <2>2, <2>3, <2>4, <2>5
<1>6. CASE ChmodTarget(l)
  BY <1>6 DEF ChmodTarget, Trouble
<1>7. CASE PinTarget(l)
  BY <1>7 DEF PinTarget, Trouble
<1>8. CASE Interrupt(l)
  BY <1>8 DEF Interrupt, Trouble
<1>9. CASE ReserveClaim(l)
  BY <1>9 DEF ReserveClaim, Trouble
<1>10. CASE WriteClaim(l)
  BY <1>10 DEF WriteClaim, Trouble
<1>11. CASE NoteClaim(l)
  BY <1>11 DEF NoteClaim
<1>12. CASE WritePreRun(l)
  BY <1>12 DEF WritePreRun, Trouble
<1>13. CASE StartGuard(l)
  BY <1>13 DEF StartGuard, Trouble
<1>14. CASE ChildWrites(l)
  BY <1>14 DEF ChildWrites
<1>15. CASE OrphanEnds(l)
  BY <1>15 DEF OrphanEnds
<1>16. CASE GuardReturns(l)
  BY <1>16 DEF GuardReturns, Trouble
<1>17. CASE CloseTarget(l)
  BY <1>17 DEF CloseTarget, Trouble
<1>18. CASE LeaveWindow(l)
  BY <1>18 DEF LeaveWindow, Trouble
<1>19. CASE CheckIdentities(l)
  BY <1>19 DEF CheckIdentities
<1>20. CASE ProbeAfterFailure(l)
  BY <1>20 DEF ProbeAfterFailure
<1>21. CASE SealFailure(l)
  BY <1>21 DEF SealFailure, WriteTerminal
<1>22. CASE SealCompletion(l)
  BY <1>22 DEF SealCompletion, WriteTerminal
<1>23. CASE Kill(l)
  BY <1>23 DEF Kill
<1> QED
  BY <1>1, <1>2, <1>3, <1>4, <1>5, <1>6, <1>7, <1>8, <1>9, <1>10, <1>11, <1>12, <1>13,
      <1>14, <1>15, <1>16, <1>17, <1>18, <1>19, <1>20, <1>21, <1>22, <1>23 DEF Step

(* A verified completion is earned when it is written, and stays earned. *)
LEMMA EarnedStep ==
  ASSUME IInv, NEW l \in Launchers, Step(l)
  PROVE  CompletionIsEarned'
<1> USE LaunchersAssumption, OuterClassTable DEF IInv, TypeOK, ClaimIsOwned,
    GuardFollowsClaim, ResultFollowsGuard, RowsFollowWindow, ClosedByTheClaimant,
    CompletionIsEarned, Absent, Ended, Goto, diskVars, localVars
<1>1. CASE Validate(l)
  BY <1>1 DEF Validate
<1>2. CASE Admit(l)
  BY <1>2 DEF Admit
<1>3. CASE PreflightReport(l)
  BY <1>3 DEF PreflightReport
<1>4. CASE EnterWindow(l)
  BY <1>4 DEF EnterWindow
<1>5. CASE ListTarget(l)
  BY <1>5 DEF ListTarget, Trouble
<1>6. CASE ChmodTarget(l)
  BY <1>6 DEF ChmodTarget, Trouble
<1>7. CASE PinTarget(l)
  BY <1>7 DEF PinTarget, Trouble
<1>8. CASE Interrupt(l)
  BY <1>8 DEF Interrupt, Trouble
<1>9. CASE ReserveClaim(l)
  BY <1>9 DEF ReserveClaim, Trouble
<1>10. CASE WriteClaim(l)
  BY <1>10 DEF WriteClaim, Trouble
<1>11. CASE NoteClaim(l)
  BY <1>11 DEF NoteClaim
<1>12. CASE WritePreRun(l)
  BY <1>12 DEF WritePreRun, Trouble
<1>13. CASE StartGuard(l)
  BY <1>13 DEF StartGuard, Trouble
<1>14. CASE ChildWrites(l)
  BY <1>14 DEF ChildWrites
<1>15. CASE OrphanEnds(l)
  BY <1>15 DEF OrphanEnds
<1>16. CASE GuardReturns(l)
  BY <1>16 DEF GuardReturns, Trouble
<1>17. CASE CloseTarget(l)
  BY <1>17 DEF CloseTarget, Trouble
<1>18. CASE LeaveWindow(l)
  BY <1>18 DEF LeaveWindow, Trouble
<1>19. CASE CheckIdentities(l)
  BY <1>19 DEF CheckIdentities
<1>20. CASE ProbeAfterFailure(l)
  BY <1>20 DEF ProbeAfterFailure
<1>21. CASE SealFailure(l)
  <2>1. FailureClass(result[l]) \in Classes
    BY OuterClassTable
  <2>2. \/ UNCHANGED terminal
        \/ terminal'.state = "incomplete"
        \/ terminal' = [state |-> "complete", class |-> FailureClass(result[l]),
                         recovery |-> TRUE, child |-> "none"]
    BY <1>21, BrokenTerminal DEF SealFailure, WriteTerminal
  <2>3. UNCHANGED <<claimant, guard, result, trouble, row>>
    BY <1>21 DEF SealFailure
  <2>4. CASE UNCHANGED terminal
    BY <2>3, <2>4
  <2>5. CASE terminal'.state = "incomplete"
    BY <2>5
  <2>6. CASE terminal' = [state |-> "complete", class |-> FailureClass(result[l]),
                          recovery |-> TRUE, child |-> "none"]
    <3>1. terminal'.recovery
      BY <2>6, Zenon
    <3> QED
      BY <3>1
  <2> QED
    BY <2>2, <2>4, <2>5, <2>6
<1>22. CASE SealCompletion(l)
  <2>1. OuterClass(result[l], Parsed(result[l].wire)) \in Classes /\ Parsed(result[l].wire) \in Wires
    BY <1>22, OuterClassTable DEF SealCompletion
  <2>2. PICK b1 \in BOOLEAN, b2 \in BOOLEAN :
          LET done == CompletionVerified(result[l], b1, b2)
          IN  WriteTerminal(l, [state |-> "complete", recovery |-> ~done,
                                class |-> OuterClass(result[l], Parsed(result[l].wire)),
                                child |-> Parsed(result[l].wire)],
                            IF done THEN "returned" ELSE "raised")
    BY <1>22 DEF SealCompletion
  <2> DEFINE record == [state |-> "complete", recovery |-> ~CompletionVerified(result[l], b1, b2),
                        class |-> OuterClass(result[l], Parsed(result[l].wire)),
                        child |-> Parsed(result[l].wire)]
  <2>3. UNCHANGED terminal \/ terminal'.state = "incomplete" \/ terminal' = record
    BY <2>2, BrokenTerminal DEF WriteTerminal
  <2>4. CompletionVerified(result[l], b1, b2)
        => result[l] = [returncode |-> "exit_0", wire |-> "sealed"]
    BY OuterClassTable, <1>22 DEF CompletionVerified, Results, SealCompletion
  <2>5. claimant = l /\ guard[l] # "none" /\ result[l] # NoResult /\ trouble[l] = "none"
        /\ \A t \in Targets : row[l][t] = "done"
    BY <1>22 DEF SealCompletion
  <2>6. UNCHANGED <<claimant, guard, result, trouble, row>>
    BY <1>22 DEF SealCompletion
  <2>7. CASE UNCHANGED terminal
    BY <2>6, <2>7
  <2>8. CASE terminal'.state = "incomplete"
    BY <2>8
  <2>9. CASE terminal' = record
    <3>1. ~terminal'.recovery => CompletionVerified(result[l], b1, b2)
      BY <2>9, Zenon
    <3>2. CompletionVerified(result[l], b1, b2) => guard[l] = "done"
      BY <2>4, <2>5
    <3> QED
      BY <3>1, <3>2, <2>4, <2>5, <2>6, LaunchersAssumption
  <2> QED
    BY <2>3, <2>7, <2>8, <2>9
<1>23. CASE Kill(l)
  BY <1>23 DEF Kill
<1> QED
  BY <1>1, <1>2, <1>3, <1>4, <1>5, <1>6, <1>7, <1>8, <1>9, <1>10, <1>11, <1>12, <1>13,
      <1>14, <1>15, <1>16, <1>17, <1>18, <1>19, <1>20, <1>21, <1>22, <1>23 DEF Step

(* A step that changes nothing keeps the invariant. *)
LEMMA StutterKeepsIInv ==
  ASSUME IInv, UNCHANGED vars
  PROVE  IInv'
BY DEF vars, diskVars, localVars, IInv, TypeOK, FlagsOK, ClaimIsOwned, GuardFollowsClaim,
  ResultFollowsGuard, RowsFollowWindow, ClosedByTheClaimant, WhoOpensCloses, AloneKeepsOpen,
  CompletionIsEarned

LEMMA InitIInv == Init => IInv
<1> SUFFICES ASSUME Init PROVE IInv
  OBVIOUS
<1> USE DEF Init, Absent, NoResult
<1>1. FlagsOK
  BY DEF FlagsOK
<1>2. TypeOK
  BY <1>1 DEF TypeOK, FileStates, Unwritten, PCs, RowStates
<1>3. ClaimIsOwned /\ GuardFollowsClaim /\ ClosedByTheClaimant
  BY DEF ClaimIsOwned, GuardFollowsClaim, ClosedByTheClaimant
<1>4. ResultFollowsGuard /\ RowsFollowWindow
  BY DEF ResultFollowsGuard, RowsFollowWindow, Holding
<1>5. WhoOpensCloses /\ AloneKeepsOpen /\ CompletionIsEarned
  BY DEF WhoOpensCloses, AloneKeepsOpen, Holding, CompletionIsEarned
<1> QED
  BY <1>2, <1>3, <1>4, <1>5 DEF IInv

(* The inductive invariant: who owns the claim, what a guard and a result
   rest on, where the rows stand, who answers for an open target, and what
   a verified completion was earned with (_launch_validated_vertical_v2).  *)
THEOREM GateCInductive == Spec => []IInv
<1>1. ASSUME IInv, [Next]_vars PROVE IInv'
  <2>1. CASE UNCHANGED vars
    BY <1>1, <2>1, StutterKeepsIInv
  <2>2. ASSUME NEW l \in Launchers, Step(l) PROVE IInv'
    BY <1>1, <2>2, TypeStep, ClaimStep, GuardStep, ResultStep, RowsStep, ClosedStep,
       WhoOpensStep, AloneStep, EarnedStep DEF IInv
  <2> QED
    BY <1>1, <2>1, <2>2 DEF Next
<1> QED
  BY <1>1, InitIInv, PTL DEF Spec

-----------------------------------------------------------------------------
(* Theorem: a guarded process exists only under its owner's sealed claim and
   complete pre-run observation (_reserve_claim, _write_vertical_pre_run).  *)
THEOREM GateCGuardIsOnRecord == Spec => []GuardIsOnRecord
<1>1. IInv => GuardIsOnRecord
  BY DEF IInv, ClaimIsOwned, GuardFollowsClaim, GuardIsOnRecord
<1> QED
  BY <1>1, GateCInductive, PTL

(* Theorem: a terminal observation without recovery_required was earned by
   the claimant (_vertical_completion_verified).                           *)
THEOREM GateCCompletionIsEarned == Spec => []CompletionIsEarned
<1>1. IInv => CompletionIsEarned
  BY DEF IInv
<1> QED
  BY <1>1, GateCInductive, PTL

(* Theorem: the targets are closed while no launcher is inside its window,
   unless one was killed or reported uncertain ownership
   (_a0_material_permission_window).                                       *)
THEOREM GateCTargetsClosedOutsideWindows == Spec => []TargetsClosedOutsideWindows
<1>1. IInv => TargetsClosedOutsideWindows
  <2> SUFFICES ASSUME IInv, \A l \in Launchers : OutsideWindow(l),
                      NEW t \in Targets, mode[t] # "closed"
               PROVE  FALSE
    BY DEF TargetsClosedOutsideWindows
  <2>1. mode[t] = "open"
    BY DEF IInv, TypeOK
  <2>2. PICK l \in Launchers :
          \/ pc[l] = "killed" \/ trouble[l] = "uncertain"
          \/ pc[l] \in Holding \cup {"open", "close"} /\ row[l][t] \in {"writable", "held"}
    BY <2>1 DEF IInv, WhoOpensCloses
  <2> QED
    BY <2>2 DEF OutsideWindow, Holding
<1> QED
  BY <1>1, GateCInductive, PTL

(* Theorem: a supervised guard has its targets open as long as no rival has
   listed them (_a0_material_permission_window).                           *)
THEOREM GateCLoneGuardSeesTargets == Spec => []LoneGuardSeesTargets
<1>1. IInv => LoneGuardSeesTargets
  BY DEF IInv, LoneGuardSeesTargets, AloneKeepsOpen, RowsFollowWindow, Holding
<1> QED
  BY <1>1, GateCInductive, PTL

(* What a step does to claim, guard and observations, for all launchers. *)
LEMMA ObservationStep ==
  ASSUME IInv, NEW l \in Launchers, Step(l), preRun' # preRun \/ terminal' # terminal
  PROVE  l = claimant /\ pc'[l] # pc[l]
<1> USE DEF IInv, TypeOK, ClaimIsOwned, GuardFollowsClaim, Goto, diskVars, localVars
<1>1. \/ WritePreRun(l) \/ SealFailure(l) \/ SealCompletion(l)
  BY DEF Step, Validate, Admit, PreflightReport, EnterWindow, ListTarget, ChmodTarget,
     PinTarget, Interrupt, ReserveClaim, WriteClaim, NoteClaim, StartGuard, ChildWrites,
     OrphanEnds, GuardReturns, CloseTarget, LeaveWindow, CheckIdentities,
     ProbeAfterFailure, Kill
<1>2. CASE WritePreRun(l)
  BY <1>2 DEF WritePreRun, Trouble
<1>3. CASE SealFailure(l)
  BY <1>3 DEF SealFailure, WriteTerminal
<1>4. CASE SealCompletion(l)
  BY <1>4 DEF SealCompletion, WriteTerminal
<1> QED
  BY <1>1, <1>2, <1>3, <1>4

(* Theorem: pre-run and terminal observations are written by the owner of
   the claim only (_launch_validated_vertical_v2).                         *)
THEOREM GateCOnlyTheClaimantRecords == Spec => OnlyTheClaimantRecords
<1>1. ASSUME IInv, [Next]_vars
      PROVE  [preRun' # preRun \/ terminal' # terminal =>
                \E l \in Launchers : l = claimant /\ pc'[l] # pc[l]]_vars
  <2>1. CASE UNCHANGED vars
    BY <2>1
  <2>2. ASSUME NEW k \in Launchers, Step(k),
               preRun' # preRun \/ terminal' # terminal
        PROVE  k = claimant /\ pc'[k] # pc[k]
    BY <1>1, <2>2, ObservationStep
  <2> QED
    BY <1>1, <2>1, <2>2 DEF Next
<1> QED
  BY <1>1, GateCInductive, PTL DEF Spec, OnlyTheClaimantRecords

(* Of all the launchers that ever try an authorization at most one
   has, or had, a guarded process.                                         *)
OneProcess == \A l, m \in Launchers : guard[l] # "none" /\ guard[m] # "none" => l = m

(* Theorem: one authorization has one guarded process in its life
   (_reserve_claim).                                                       *)
THEOREM GateCOneProcess == Spec => []OneProcess
<1>1. IInv => OneProcess
  BY DEF IInv, GuardFollowsClaim, ClaimIsOwned, OneProcess
<1> QED
  BY <1>1, GateCInductive, PTL

(* What is left to happen once a terminal observation was begun. *)
Closed ==
  terminal.state # Absent =>
    /\ UNCHANGED <<claim, claimant, preRun, terminal>>
    /\ \A l \in Launchers : guard[l] = "none" => guard'[l] = "none"

LEMMA ClosedKeeps ==
  ASSUME IInv, NEW k \in Launchers, Step(k), terminal.state # Absent
  PROVE  /\ UNCHANGED <<claim, claimant, preRun, terminal>>
         /\ \A l \in Launchers : guard[l] = "none" => guard'[l] = "none"
<1> USE DEF IInv, TypeOK, Goto, diskVars, localVars
<1>1. claimant # "none" /\ pc[claimant] \in Ended /\ claim # Absent
  BY DEF ClosedByTheClaimant, ClaimIsOwned
<1>2. ~WriteClaim(k) /\ ~WritePreRun(k) /\ ~StartGuard(k)
  BY <1>1 DEF WriteClaim, WritePreRun, StartGuard, ClaimIsOwned, GuardFollowsClaim, Ended
<1>3. CASE ReserveClaim(k)
  BY <1>1, <1>3 DEF ReserveClaim
<1>4. CASE SealFailure(k) \/ SealCompletion(k)
  BY <1>4 DEF SealFailure, SealCompletion, WriteTerminal
<1>5. CASE OrphanEnds(k) \/ GuardReturns(k)
  BY <1>5 DEF OrphanEnds, GuardReturns, ResultFollowsGuard
<1>6. CASE UNCHANGED <<claim, claimant, preRun, terminal, guard>>
  BY <1>6
<1>7. Validate(k) \/ Admit(k) \/ PreflightReport(k) \/ EnterWindow(k) \/ ListTarget(k)
      \/ ChmodTarget(k) \/ PinTarget(k) \/ Interrupt(k) \/ NoteClaim(k) \/ ChildWrites(k)
      \/ CloseTarget(k) \/ LeaveWindow(k) \/ CheckIdentities(k) \/ ProbeAfterFailure(k)
      \/ Kill(k) => UNCHANGED <<claim, claimant, preRun, terminal, guard>>
  BY DEF Validate, Admit, PreflightReport, EnterWindow, ListTarget, ChmodTarget, PinTarget,
     Interrupt, NoteClaim, ChildWrites, CloseTarget, LeaveWindow, CheckIdentities,
     ProbeAfterFailure, Kill
<1> QED
  BY <1>2, <1>3, <1>4, <1>5, <1>6, <1>7 DEF Step

(* Theorem: an authorization that has a terminal observation, even one that
   broke off, is spent: no launcher claims it, writes a pre-run observation,
   starts a process or replaces the observation any more.                  *)
THEOREM GateCClosedForGood == Spec => [][Closed]_vars
<1>1. IInv /\ [Next]_vars => [Closed]_vars
  BY ClosedKeeps DEF Next, Closed
<1> QED
  BY <1>1, GateCInductive, PTL DEF Spec

-----------------------------------------------------------------------------
(* The shared attempt.                                                     *)

(* Only three kinds of steps move the attempt: a claim is taken, a guard is
   started, a terminal observation is written.                             *)
LEMMA QuietStep ==
  ASSUME IInv, NEW l \in Launchers, Step(l),
         ~ReserveClaim(l), ~StartGuard(l), ~SealFailure(l), ~SealCompletion(l)
  PROVE  UNCHANGED <<claimant, terminal>> /\ (Started' <=> Started)
<1> USE DEF IInv, TypeOK, diskVars, localVars
<1>1. UNCHANGED <<claimant, terminal>>
  BY DEF Step, Validate, Admit, PreflightReport, EnterWindow, ListTarget, ChmodTarget,
     PinTarget, Interrupt, WriteClaim, NoteClaim, WritePreRun, ChildWrites, OrphanEnds,
     GuardReturns, CloseTarget, LeaveWindow, CheckIdentities, ProbeAfterFailure, Kill
<1>2. UNCHANGED guard \/ (guard[l] # "none" /\ guard' = [guard EXCEPT ![l] = "done"])
  BY DEF Step, Validate, Admit, PreflightReport, EnterWindow, ListTarget, ChmodTarget,
     PinTarget, Interrupt, WriteClaim, NoteClaim, WritePreRun, ChildWrites, OrphanEnds,
     GuardReturns, CloseTarget, LeaveWindow, CheckIdentities, ProbeAfterFailure, Kill,
     ResultFollowsGuard
<1>3. Started' <=> Started
  BY <1>2 DEF Started
<1> QED
  BY <1>1, <1>3

(* Nobody but the claimant has a guard. *)
LEMMA GuardsBelongToTheClaimant ==
  ASSUME IInv, NEW l \in Launchers, claimant = l
  PROVE  Started <=> guard[l] # "none"
BY DEF IInv, ClaimIsOwned, GuardFollowsClaim, Started

LEMMA AttemptStep ==
  ASSUME IInv, NEW l \in Launchers, Step(l)
  PROVE  OneShot!Next \/ UNCHANGED <<claimant, Started, Closure>>
<1> USE DEF OneShot!Next, OneShot!Claim, OneShot!Start, OneShot!Close
<1>1. CASE ~ReserveClaim(l) /\ ~StartGuard(l) /\ ~SealFailure(l) /\ ~SealCompletion(l)
  <2>1. UNCHANGED <<claimant, terminal>> /\ (Started' <=> Started)
    BY <1>1, QuietStep
  <2>2. UNCHANGED Closure
    BY <2>1 DEF Closure
  <2>3. Started' = Started
    BY <2>1 DEF Started
  <2> QED
    BY <2>1, <2>2, <2>3
<1>2. CASE ReserveClaim(l)
  <2>1. UNCHANGED Closure /\ UNCHANGED Started
    BY <1>2 DEF ReserveClaim, Closure, Started, Trouble
  <2>2. UNCHANGED claimant \/ (claimant = "none" /\ claimant' = l)
    BY <1>2 DEF ReserveClaim, IInv, ClaimIsOwned
  <2> QED
    BY <2>1, <2>2
<1>3. CASE StartGuard(l)
  <2>1. claimant = l /\ claimant # "none" /\ guard[l] = "none" /\ UNCHANGED <<claimant, terminal>>
    BY <1>3, LaunchersAssumption
       DEF StartGuard, diskVars, IInv, ClaimIsOwned, GuardFollowsClaim, ResultFollowsGuard, Before
  <2>2. ~Started
    BY <2>1, GuardsBelongToTheClaimant
  <2>3. Closure = "open" /\ UNCHANGED Closure
    BY <1>3, <2>1 DEF StartGuard, IInv, ClosedByTheClaimant, Closure, Ended
  <2>4. CASE UNCHANGED guard
    BY <2>1, <2>3, <2>4 DEF Started
  <2>5. CASE guard' = [guard EXCEPT ![l] = "running"]
    <3>1. Started'
      BY <2>5 DEF Started, IInv, TypeOK
    <3>2. ~Started /\ Started' = TRUE
      BY <2>2, <3>1 DEF Started
    <3> QED
      BY <2>1, <2>3, <3>2
  <2> QED
    BY <1>3, <2>4, <2>5 DEF StartGuard
<1>4. CASE SealFailure(l)
  <2>1. UNCHANGED <<claimant, guard>> /\ UNCHANGED Started
    BY <1>4 DEF SealFailure, Started
  <2>2. \/ UNCHANGED terminal
        \/ /\ terminal.state = Absent
           /\ claimant = l
           /\ \/ terminal'.state = "incomplete"
              \/ terminal' = [state |-> "complete", class |-> FailureClass(result[l]),
                              recovery |-> TRUE, child |-> "none"]
    BY <1>4, BrokenTerminal DEF SealFailure, WriteTerminal, IInv, ClaimIsOwned
  <2>3. CASE UNCHANGED terminal
    BY <2>1, <2>3 DEF Closure
  <2>4. CASE terminal.state = Absent /\ claimant = l /\ ~UNCHANGED terminal
    <3>1. terminal'.state # Absent /\ (terminal'.state = "complete" => terminal'.recovery)
      <4>1. CASE terminal'.state = "incomplete"
        BY <4>1 DEF Absent
      <4>2. CASE terminal' = [state |-> "complete", class |-> FailureClass(result[l]),
                              recovery |-> TRUE, child |-> "none"]
        <5>1. terminal'.recovery
          BY <4>2, Zenon
        <5> QED
          BY <4>2, <5>1 DEF Absent
      <4> QED
        BY <2>2, <2>4, <4>1, <4>2
    <3>2. Closure = "open" /\ Closure' = "recovery"
      BY <2>4, <3>1 DEF Closure
    <3> QED
      BY <2>1, <2>4, <3>2, LaunchersAssumption
  <2> QED
    BY <2>2, <2>3, <2>4
<1>5. CASE SealCompletion(l)
  <2>1. UNCHANGED <<claimant, guard>> /\ UNCHANGED Started
    BY <1>5 DEF SealCompletion, Started
  <2>2. claimant = l /\ claimant # "none" /\ Started
    BY <1>5, LaunchersAssumption
       DEF SealCompletion, IInv, ClaimIsOwned, GuardFollowsClaim, ResultFollowsGuard, Started
  <2>3. UNCHANGED terminal \/ (terminal.state = Absent /\ terminal'.state # Absent)
    <3>1. PICK b1 \in BOOLEAN, b2 \in BOOLEAN :
            \/ UNCHANGED terminal
            \/ /\ terminal.state = Absent
               /\ \/ terminal' = [terminal EXCEPT !.state = "incomplete"]
                  \/ terminal' = [state |-> "complete",
                                  recovery |-> ~CompletionVerified(result[l], b1, b2),
                                  class |-> OuterClass(result[l], Parsed(result[l].wire)),
                                  child |-> Parsed(result[l].wire)]
      BY <1>5 DEF SealCompletion, WriteTerminal
    <3>2. CASE terminal.state = Absent /\ terminal' = [terminal EXCEPT !.state = "incomplete"]
      <4>1. TypeOK
        BY DEF IInv
      <4>2. terminal'.state = "incomplete"
        BY <3>2, <4>1, BrokenTerminal
      <4> QED
        BY <3>2, <4>2 DEF Absent
    <3>3. CASE /\ terminal.state = Absent
               /\ terminal' = [state |-> "complete",
                               recovery |-> ~CompletionVerified(result[l], b1, b2),
                               class |-> OuterClass(result[l], Parsed(result[l].wire)),
                               child |-> Parsed(result[l].wire)]
      BY <3>3 DEF Absent
    <3> QED
      BY <3>1, <3>2, <3>3
  <2>4. Started = TRUE
    BY <2>2 DEF Started
  <2>5. UNCHANGED Closure \/ (Closure = "open" /\ Closure' \in {"verified", "recovery"})
    BY <2>3 DEF Closure
  <2> QED
    BY <2>1, <2>2, <2>4, <2>5
<1> QED
  BY <1>1, <1>2, <1>3, <1>4, <1>5

(* Theorem: all the launchers of one authorization together implement one
   OneShotAttempt (_launch_validated_vertical_v2).                         *)
THEOREM GateCImplementsOneShot == Spec => ImplementsOneShot
<1>1. Init => OneShot!Init
  <2> SUFFICES ASSUME Init PROVE OneShot!Init
    OBVIOUS
  <2>1. Started = FALSE
    BY DEF Init, Started
  <2>2. Closure = "open" /\ claimant = "none"
    BY DEF Init, Closure, Absent
  <2> QED
    BY <2>1, <2>2 DEF OneShot!Init
<1>2. ASSUME IInv, [Next]_vars PROVE [OneShot!Next]_(OneShot!vars)
  <2>1. CASE UNCHANGED vars
    <3>1. UNCHANGED claimant /\ UNCHANGED Started /\ UNCHANGED Closure
      BY <2>1 DEF vars, diskVars, Started, Closure
    <3> QED
      BY <3>1 DEF OneShot!vars
  <2>2. CASE Next
    BY <1>2, <2>2, AttemptStep DEF Next, OneShot!vars
  <2> QED
    BY <1>2, <2>1, <2>2
<1> QED
  BY <1>1, <1>2, GateCInductive, PTL DEF Spec, ImplementsOneShot, OneShot!Spec

-----------------------------------------------------------------------------
(* The refinement of SupervisedGuard, launcher by launcher.                *)

(* The instance speaks of one launcher's guard and of its report. *)
LEMMA SupervisionIsAbout ==
  ASSUME NEW l \in Launchers
  PROVE  /\ Supervision(l)!vars = <<guard[l], Report(l)>>
         /\ Supervision(l)!vars' = <<guard'[l], Report(l)'>>
         /\ Supervision(l)!Init <=> guard[l] = "none" /\ Report(l) = "none"
         /\ Supervision(l)!Start <=> /\ guard[l] = "none" /\ Report(l) = "none"
                                     /\ guard'[l] = "running" /\ UNCHANGED Report(l)
         /\ Supervision(l)!Exit <=> /\ guard[l] = "running" /\ guard'[l] = "done"
                                    /\ UNCHANGED Report(l)
         /\ \A how : Supervision(l)!Report(how) <=>
              /\ Report(l) = "none" /\ Report(l)' = how
              /\ \/ guard'[l] = guard[l]
                 \/ guard[l] = "running" /\ guard'[l] = "done"
              /\ how = "clean" => guard'[l] = "done"
         /\ Supervision(l)!Next <=>
              \/ Supervision(l)!Start \/ Supervision(l)!Exit
              \/ \E how \in {"clean", "unclean", "lost"} : Supervision(l)!Report(how)
BY DEF Supervision!vars, Supervision!Init, Supervision!Start, Supervision!Exit,
   Supervision!Report, Supervision!Next

Supervised(l) == Supervision(l)!Next \/ UNCHANGED Supervision(l)!vars

(* Where a launcher without a result has lost the one it waited for. *)
Lost == {"close", "failing", "failterminal"} \cup Ended

(* A launcher that gets no result and touches no process at most loses the
   result, and it never comes back from that.                              *)
LEMMA SilentStep ==
  ASSUME NEW l \in Launchers, guard'[l] = guard[l], result'[l] = result[l],
         result[l] = NoResult /\ pc[l] \in Lost => pc'[l] \in Lost
  PROVE  Supervised(l)
<1>1. CASE Report(l)' = Report(l)
  BY <1>1, SupervisionIsAbout DEF Supervised
<1>2. CASE Report(l)' # Report(l)
  <2>1. Report(l) = "none" /\ Report(l)' = "lost"
    BY <1>2 DEF Report, Lost
  <2> QED
    BY <2>1, SupervisionIsAbout DEF Supervised
<1> QED
  BY <1>1, <1>2

(* The actions that neither start, end nor report a guard. *)
LEMMA SilentActions ==
  ASSUME IInv, NEW k \in Launchers, NEW l \in Launchers, Step(k),
         ~StartGuard(k), ~OrphanEnds(k), ~GuardReturns(k)
  PROVE  /\ UNCHANGED <<guard, result>>
         /\ result[l] = NoResult /\ pc[l] \in Lost => pc'[l] \in Lost
<1> USE DEF IInv, TypeOK, Goto, Trouble, diskVars, localVars, Lost, Ended
<1>1. CASE Validate(k) \/ Admit(k) \/ PreflightReport(k) \/ EnterWindow(k)
  BY <1>1 DEF Validate, Admit, PreflightReport, EnterWindow
<1>2. CASE ListTarget(k) \/ ChmodTarget(k) \/ PinTarget(k)
  BY <1>2 DEF ListTarget, ChmodTarget, PinTarget
<1>3. CASE Interrupt(k)
  BY <1>3 DEF Interrupt
<1>4. CASE ReserveClaim(k) \/ WriteClaim(k) \/ NoteClaim(k) \/ WritePreRun(k)
  BY <1>4 DEF ReserveClaim, WriteClaim, NoteClaim, WritePreRun
<1>5. CASE ChildWrites(k) \/ CloseTarget(k)
  BY <1>5 DEF ChildWrites, CloseTarget
<1>6. CASE LeaveWindow(k)
  BY <1>6 DEF LeaveWindow, ResultFollowsGuard
<1>7. CASE CheckIdentities(k)
  BY <1>7 DEF CheckIdentities
<1>8. CASE ProbeAfterFailure(k)
  BY <1>8 DEF ProbeAfterFailure
<1>9. CASE SealFailure(k)
  BY <1>9 DEF SealFailure, WriteTerminal
<1>10. CASE SealCompletion(k)
  BY <1>10 DEF SealCompletion, WriteTerminal
<1>11. CASE Kill(k)
  BY <1>11 DEF Kill
<1> QED
  BY <1>1, <1>2, <1>3, <1>4, <1>5, <1>6, <1>7, <1>8, <1>9, <1>10, <1>11 DEF Step

(* StartGuard starts the guard, or loses it before there is one. *)
LEMMA StartSupervised ==
  ASSUME IInv, NEW k \in Launchers, StartGuard(k)
  PROVE  Supervised(k)
<1>1. guard[k] = "none" /\ result[k] = NoResult /\ pc[k] = "written"
  BY DEF IInv, ResultFollowsGuard, StartGuard, Before
<1>2. UNCHANGED result
  BY DEF StartGuard
<1>3. CASE guard' = [guard EXCEPT ![k] = "running"] /\ Goto(k, "supervise")
  <2>1. guard'[k] = "running" /\ pc'[k] = "supervise"
    BY <1>3 DEF IInv, TypeOK, Goto
  <2>2. Report(k) = "none" /\ Report(k)' = "none"
    BY <1>1, <1>2, <2>1 DEF Report, Ended
  <2> QED
    BY <1>1, <2>1, <2>2, SupervisionIsAbout DEF Supervised
<1>4. CASE UNCHANGED guard /\ Goto(k, "close")
  BY <1>1, <1>2, <1>4, SilentStep DEF Lost, Ended
<1> QED
  BY <1>3, <1>4 DEF StartGuard

(* A child that outlives its launcher's interest is an exit after the report. *)
LEMMA OrphanSupervised ==
  ASSUME IInv, NEW k \in Launchers, OrphanEnds(k)
  PROVE  Supervised(k)
<1>1. guard[k] = "running" /\ guard'[k] = "done" /\ UNCHANGED <<pc, result>>
  BY DEF IInv, TypeOK, OrphanEnds, localVars
<1>2. UNCHANGED Report(k)
  BY <1>1 DEF Report
<1> QED
  BY <1>1, <1>2, SupervisionIsAbout DEF Supervised

(* The executor's return is the report, and only 70 leaves a process. *)
LEMMA ReturnSupervised ==
  ASSUME IInv, NEW k \in Launchers, GuardReturns(k)
  PROVE  Supervised(k)
<1>1. guard[k] # "none" /\ result[k] = NoResult /\ pc[k] = "supervise"
  BY DEF IInv, ResultFollowsGuard, GuardReturns
<1>2. guard[k] \in {"running", "done"}
  BY <1>1 DEF IInv, TypeOK
<1>3. Report(k) = "none" /\ pc'[k] = "close"
  BY <1>1 DEF IInv, TypeOK, Report, Ended, GuardReturns, Goto
<1>4. guard'[k] \in {guard[k], "done"}
  BY DEF IInv, TypeOK, GuardReturns
<1>5. CASE UNCHANGED result
  <2>1. Report(k)' = "lost"
    BY <1>1, <1>3, <1>5 DEF Report
  <2> QED
    BY <1>2, <1>3, <1>4, <2>1, SupervisionIsAbout DEF Supervised
<1>6. ASSUME NEW r \in Results, result' = [result EXCEPT ![k] = r],
             \/ guard' = [guard EXCEPT ![k] = "done"]
             \/ r.returncode = "exit_70" /\ UNCHANGED guard
      PROVE  Supervised(k)
  <2>1. result'[k] = r
    BY <1>6 DEF IInv, TypeOK
  <2>2. r # NoResult
    BY DEF Results, NoResult
  <2>3. Report(k)' = IF r.returncode = "exit_70" THEN "unclean" ELSE "clean"
    BY <2>1, <2>2 DEF Report
  <2>4. r.returncode # "exit_70" => guard'[k] = "done"
    BY <1>6 DEF IInv, TypeOK
  <2>5. Report(k)' \in {"clean", "unclean"} /\ (Report(k)' = "clean" => guard'[k] = "done")
    BY <2>3, <2>4
  <2> QED
    BY <1>2, <1>3, <1>4, <2>5, SupervisionIsAbout DEF Supervised
<1> QED
  BY <1>5, <1>6 DEF GuardReturns

(* The guard of a launcher is nobody else's. *)
LEMMA OthersAreSupervised ==
  ASSUME IInv, NEW k \in Launchers, NEW l \in Launchers, l # k,
         StartGuard(k) \/ OrphanEnds(k) \/ GuardReturns(k)
  PROVE  Supervised(l)
<1>1. guard'[l] = guard[l] /\ result'[l] = result[l] /\ pc'[l] = pc[l]
  BY DEF IInv, TypeOK, StartGuard, OrphanEnds, GuardReturns, Goto, localVars
<1> QED
  BY <1>1, SilentStep

(* Theorem: what each launcher sees of its executor is a SupervisedGuard: one
   start, one report, and no report but 70 while the process group lives,
   however many launchers run (run_material's launch and its cleanup).     *)
THEOREM GateCGuardsAreSupervised == Spec => GuardsAreSupervised
<1>1. ASSUME Init PROVE \A l \in Launchers : Supervision(l)!Init
  <2>1. \A l \in Launchers : guard[l] = "none" /\ Report(l) = "none"
    BY <1>1 DEF Init, Report, Ended
  <2> QED
    BY <2>1, SupervisionIsAbout
<1>2. ASSUME IInv, [Next]_vars
      PROVE  [\A l \in Launchers : Supervision(l)!Next \/ UNCHANGED Supervision(l)!vars]_vars
  <2>1. ASSUME NEW k \in Launchers, Step(k), NEW l \in Launchers PROVE Supervised(l)
    <3>1. CASE StartGuard(k) \/ OrphanEnds(k) \/ GuardReturns(k)
      BY <1>2, <2>1, <3>1, StartSupervised, OrphanSupervised, ReturnSupervised,
         OthersAreSupervised
    <3>2. CASE ~StartGuard(k) /\ ~OrphanEnds(k) /\ ~GuardReturns(k)
      BY <1>2, <2>1, <3>2, SilentActions, SilentStep
    <3> QED
      BY <3>1, <3>2
  <2> QED
    BY <1>2, <2>1 DEF Next, Supervised
<1> QED
  BY <1>1, <1>2, GateCInductive, PTL DEF Spec, GuardsAreSupervised
=============================================================================
