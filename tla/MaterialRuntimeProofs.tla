------------------------ MODULE MaterialRuntimeProofs ------------------------
(***************************************************************************)
(* The safety of the material processes of one run id, for every clock,    *)
(* budget and adapter: IInv is inductive, the invariants and action        *)
(* properties the runs check follow from it, and every step of every       *)
(* process is a step of AttemptLifecycle or leaves the attempt alone.      *)
(***************************************************************************)
EXTENDS MaterialRuntime, TLAPS

(* The stages in the order run_material_lifecycle invokes them. *)
LEMMA StageTable ==
  /\ ScientificStages = {"static_preflight", "model_identity", "tokenizer_construction",
        "model_construction", "activation", "activation_sealing", "reader_construction",
        "target_read", "frozen_analysis"}
  /\ NextStage["static_preflight"] = "model_identity"
  /\ NextStage["model_identity"] = "tokenizer_construction"
  /\ NextStage["tokenizer_construction"] = "model_construction"
  /\ NextStage["model_construction"] = "activation"
  /\ NextStage["activation"] = "activation_sealing"
  /\ NextStage["activation_sealing"] = "reader_construction"
  /\ NextStage["reader_construction"] = "target_read"
  /\ NextStage["target_read"] = "frozen_analysis"
  /\ NextStage["frozen_analysis"] = "terminal_seal"
BY DEF ScientificStages, NextStage

(* The rows of the transition table the run uses, and the states and
   statuses of an attempt (reduce_attempt).                                *)
LEMMA AttemptTable ==
  /\ Attempt!States = {"preflight", "activation", "analysis", "sealed"}
  /\ Attempt!Statuses = {"positive", "null", "non_interpretable", "failed"}
  /\ Attempt!ReduceAttempt("preflight", "activation_started") = "activation"
  /\ Attempt!ReduceAttempt("activation", "target_reserved") = "analysis"
  /\ Attempt!ReduceAttempt("analysis", "analysis_started") = "analysis"
  /\ \A s \in {"preflight", "activation", "analysis"} :
       Attempt!ReduceAttempt(s, "terminal_selected") = "sealed"
BY DEF Attempt!States, Attempt!Statuses, Attempt!ReduceAttempt, Attempt!AttemptTransitions

(* What the processes so far have made of the attempt, as the next one finds it. *)
LEMMA AttemptNowType ==
  ASSUME IInv
  PROVE  /\ AttemptNow \in Attempt!States /\ OutcomeNow \in Attempt!Statuses \cup {"none"}
         /\ AttemptNow = "sealed" <=> OutcomeNow # "none"
<1>1. CASE IsRetry /\ terminal = "none"
  BY <1>1 DEF IInv, TypeOK, RetryOfStage, AttemptNow, OutcomeNow, IsRetry
<1>2. CASE ~(IsRetry /\ terminal = "none")
  BY <1>2 DEF IInv, TypeOK, TerminalOfStage, AttemptOfStage, AttemptNow, OutcomeNow
<1> QED
  BY <1>1, <1>2

(* A process that finds a workspace is a retry, and one that finds none is not. *)
LEMMA RerunIsRetry ==
  ASSUME IInv, Rerun
  PROVE  IsRetry' <=> bound # "nothing"
<1>1. CASE bound = "nothing"
  BY <1>1 DEF Rerun, IsRetry, IInv, RetryOfStage
<1>2. CASE bound # "nothing"
  <2>1. earlier'.attempt \in {"preflight", "activation", "analysis", "sealed"}
    BY <1>2, AttemptNowType, AttemptTable DEF Rerun
  <2> QED
    BY <1>2, <2>1 DEF IsRetry, NoProcess
<1> QED
  BY <1>1, <1>2

(* A process that has left its preflight is the first one, and what it read is
   all that was ever read.                                                 *)
LEMMA FirstProcess ==
  ASSUME IInv, stage \in ScientificStages \cup {"terminal_seal"}, stage # "static_preflight"
  PROVE  ~IsRetry /\ opens = reading.reads
BY StageTable DEF IInv, RetryOfStage, ReadOfStage, EndStages, CleanupStages

(* Every step keeps the flags of the cleanup. *)
LEMMA FlagsStep ==
  ASSUME IInv, [Next]_vars
  PROVE  FlagsOK'
<1> USE DEF IInv, TypeOK, FlagsOK, At, fileVars, endVars
<1>1. CASE Enter
  BY <1>1 DEF Enter, CheckPasses, CheckRaises
<1>2. CASE InnerCheck
  BY <1>2 DEF InnerCheck, CheckPasses, CheckRaises
<1>3. CASE CallbackReturns
  BY <1>3 DEF CallbackReturns
<1>4. CASE AnalysisReturns
  BY <1>4 DEF AnalysisReturns
<1>5. CASE StageFails
  BY <1>5 DEF StageFails, CallbackRaises
<1>6. CASE Leave
  BY <1>6 DEF Leave, CheckPasses, CheckRaises, StageEvent
<1>7. CASE BeforeOpen
  BY <1>7 DEF BeforeOpen, CheckPasses, CheckRaises
<1>8. CASE OpenTarget
  BY <1>8 DEF OpenTarget
<1>9. CASE PersistReceipt
  BY <1>9 DEF PersistReceipt
<1>10. CASE AfterOpen
  BY <1>10 DEF AfterOpen, CheckPasses, CheckRaises
<1>11. CASE Probe
  BY <1>11 DEF Probe, CallbackRaises
<1>12. CASE BeginSeal
  BY <1>12 DEF BeginSeal
<1>13. CASE PersistTerminal
  BY <1>13 DEF PersistTerminal, CallbackRaises, Sealable
<1>14. CASE SelectResult
  BY <1>14 DEF SelectResult
<1>15. CASE BeginFailureSeal
  BY <1>15 DEF BeginFailureSeal
<1>16. CASE FailureSealer
  BY <1>16 DEF FailureSealer
<1>17. CASE SelectFailure
  BY <1>17 DEF SelectFailure, FailureOutcome
<1>18. CASE RaiseUnsealed
  BY <1>18 DEF RaiseUnsealed, Release
<1>19. CASE Package
  BY <1>19 DEF Package, Elapse
<1>20. CASE VerifyPackage
  BY <1>20 DEF VerifyPackage, Elapse
<1>21. CASE ProtectedTreePostflight
  BY <1>21 DEF ProtectedTreePostflight, Elapse
<1>22. CASE ReleaseModel
  BY <1>22 DEF ReleaseModel, Elapse, Release
<1>23. CASE Report
  BY <1>23 DEF Report, CanComplete
<1>24. CASE Kill
  BY <1>24 DEF Kill
<1>25. CASE UNCHANGED vars
  BY <1>25 DEF vars
<1>26. CASE Rerun
  BY <1>26 DEF Rerun
<1> QED
  BY <1>1, <1>2, <1>3, <1>4, <1>5, <1>6, <1>7, <1>8, <1>9, <1>10, <1>11, <1>12, <1>13,
      <1>14, <1>15, <1>16, <1>17, <1>18, <1>19, <1>20, <1>21, <1>22, <1>23, <1>24, <1>25,
      <1>26
      DEF Next, Step

(* Every step keeps the types. *)
LEMMA TypeStep ==
  ASSUME IInv, [Next]_vars
  PROVE  TypeOK'
<1> USE StageTable, AttemptTable, ClockAssumption, FlagsStep DEF IInv, TypeOK, At, Goto,
    Raise, Observed, Regressed, attemptVars, fileVars, readVars, endVars, CleanupStages,
    ReadStatuses, ResultStatuses
<1>1. CASE Enter
  BY <1>1 DEF Enter, CheckPasses, CheckRaises
<1>2. CASE InnerCheck
  BY <1>2 DEF InnerCheck, CheckPasses, CheckRaises
<1>3. CASE CallbackReturns
  BY <1>3 DEF CallbackReturns, AttemptOfStage, PhaseOfStage, ReadOfStage, TerminalOfStage,
      NoFile, BrokenFile, File, EarlyStages, ReadingStages, LateStages, EndStages,
      FailingPhases, OpenPhases
<1>4. CASE AnalysisReturns
  BY <1>4 DEF AnalysisReturns
<1>5. CASE StageFails
  BY <1>5 DEF StageFails, CallbackRaises
<1>6. CASE Leave
  BY <1>6 DEF Leave, CheckPasses, CheckRaises, StageEvent, AttemptOfStage, PhaseOfStage,
      ReadOfStage, TerminalOfStage, NoFile, BrokenFile, File, EarlyStages, ReadingStages,
      LateStages, EndStages, FailingPhases, OpenPhases
<1>7. CASE BeforeOpen
  BY <1>7 DEF BeforeOpen, CheckPasses, CheckRaises
<1>8. CASE OpenTarget
  BY <1>8, FirstProcess DEF OpenTarget, AttemptOfStage, PhaseOfStage, ReadOfStage, TerminalOfStage,
      NoFile, BrokenFile, File, EarlyStages, ReadingStages, LateStages, EndStages,
      FailingPhases, OpenPhases
<1>9. CASE PersistReceipt
  BY <1>9 DEF PersistReceipt, AttemptOfStage, PhaseOfStage, ReadOfStage, TerminalOfStage,
      NoFile, BrokenFile, File, EarlyStages, ReadingStages, LateStages, EndStages,
      FailingPhases, OpenPhases
<1>10. CASE AfterOpen
  BY <1>10 DEF AfterOpen, CheckPasses, CheckRaises
<1>11. CASE Probe
  BY <1>11, FirstProcess DEF Probe, CallbackRaises, AttemptOfStage, PhaseOfStage, ReadOfStage,
      TerminalOfStage, NoFile, BrokenFile, File, EarlyStages, ReadingStages, LateStages,
      EndStages, FailingPhases, OpenPhases
<1>12. CASE BeginSeal
  BY <1>12 DEF BeginSeal
<1>13. CASE PersistTerminal
  BY <1>13 DEF PersistTerminal, CallbackRaises, Sealable, AttemptOfStage, PhaseOfStage,
      ReadOfStage, TerminalOfStage, NoFile, BrokenFile, File, EarlyStages, ReadingStages,
      LateStages, EndStages, FailingPhases, OpenPhases
<1>14. CASE SelectResult
  BY <1>14 DEF SelectResult, AttemptOfStage, PhaseOfStage, ReadOfStage, TerminalOfStage,
      NoFile, BrokenFile, File, EarlyStages, ReadingStages, LateStages, EndStages,
      FailingPhases, OpenPhases
<1>15. CASE BeginFailureSeal
  BY <1>15 DEF BeginFailureSeal
<1>16. CASE FailureSealer
  BY <1>16 DEF FailureSealer, AttemptOfStage, PhaseOfStage, ReadOfStage, TerminalOfStage,
      NoFile, BrokenFile, File, EarlyStages, ReadingStages, LateStages, EndStages,
      FailingPhases, OpenPhases
<1>17. CASE SelectFailure
  BY <1>17 DEF SelectFailure, FailureOutcome, AttemptOfStage, PhaseOfStage, ReadOfStage,
      TerminalOfStage, NoFile, BrokenFile, File, EarlyStages, ReadingStages, LateStages,
      EndStages, FailingPhases, OpenPhases
<1>18. CASE RaiseUnsealed
  BY <1>18 DEF RaiseUnsealed, Release
<1>19. CASE Package
  BY <1>19 DEF Package, Elapse
<1>20. CASE VerifyPackage
  BY <1>20 DEF VerifyPackage, Elapse
<1>21. CASE ProtectedTreePostflight
  BY <1>21 DEF ProtectedTreePostflight, Elapse
<1>22. CASE ReleaseModel
  BY <1>22 DEF ReleaseModel, Elapse, Release
<1>23. CASE Report
  BY <1>23 DEF Report, CanComplete
<1>24. CASE Kill
  BY <1>24 DEF Kill
<1>25. CASE UNCHANGED vars
  BY <1>25 DEF vars
<1>26. CASE Rerun
  BY <1>26, AttemptNowType DEF Rerun
<1> QED
  BY <1>1, <1>2, <1>3, <1>4, <1>5, <1>6, <1>7, <1>8, <1>9, <1>10, <1>11, <1>12, <1>13,
      <1>14, <1>15, <1>16, <1>17, <1>18, <1>19, <1>20, <1>21, <1>22, <1>23, <1>24, <1>25,
      <1>26
      DEF Next, Step

(* Every step enters a phase its stage has, and no callback runs or target is
   about to be opened once a sample has reached the budget.               *)
LEMMA PhaseStep ==
  ASSUME IInv, [Next]_vars
  PROVE  PhaseOfStage'
<1> USE StageTable, ClockAssumption, BudgetAssumption DEF IInv, PhaseOfStage, At, Goto,
    Raise, Observed, Regressed, attemptVars, fileVars, readVars, endVars, EarlyStages,
    ReadingStages, LateStages, EndStages, CleanupStages, FailingPhases, OpenPhases
<1>1. CASE Enter
  BY <1>1 DEF Enter, CheckPasses, CheckRaises
<1>2. CASE InnerCheck
  BY <1>2 DEF InnerCheck, CheckPasses, CheckRaises
<1>3. CASE CallbackReturns
  BY <1>3 DEF CallbackReturns
<1>4. CASE AnalysisReturns
  BY <1>4 DEF AnalysisReturns
<1>5. CASE StageFails
  BY <1>5 DEF StageFails, CallbackRaises
<1>6. CASE Leave
  BY <1>6 DEF Leave, CheckPasses, CheckRaises, StageEvent
<1>7. CASE BeforeOpen
  BY <1>7 DEF BeforeOpen, CheckPasses, CheckRaises
<1>8. CASE OpenTarget
  BY <1>8 DEF OpenTarget
<1>9. CASE PersistReceipt
  BY <1>9 DEF PersistReceipt
<1>10. CASE AfterOpen
  BY <1>10 DEF AfterOpen, CheckPasses, CheckRaises
<1>11. CASE Probe
  BY <1>11 DEF Probe, CallbackRaises
<1>12. CASE BeginSeal
  BY <1>12 DEF BeginSeal
<1>13. CASE PersistTerminal
  BY <1>13 DEF PersistTerminal, CallbackRaises, Sealable
<1>14. CASE SelectResult
  BY <1>14 DEF SelectResult
<1>15. CASE BeginFailureSeal
  BY <1>15 DEF BeginFailureSeal
<1>16. CASE FailureSealer
  BY <1>16 DEF FailureSealer
<1>17. CASE SelectFailure
  BY <1>17 DEF SelectFailure, FailureOutcome
<1>18. CASE RaiseUnsealed
  BY <1>18 DEF RaiseUnsealed, Release
<1>19. CASE Package
  BY <1>19 DEF Package, Elapse
<1>20. CASE VerifyPackage
  BY <1>20 DEF VerifyPackage, Elapse
<1>21. CASE ProtectedTreePostflight
  BY <1>21 DEF ProtectedTreePostflight, Elapse
<1>22. CASE ReleaseModel
  BY <1>22 DEF ReleaseModel, Elapse, Release
<1>23. CASE Report
  BY <1>23 DEF Report, CanComplete
<1>24. CASE Kill
  BY <1>24 DEF Kill
<1>25. CASE UNCHANGED vars
  BY <1>25 DEF vars
<1>26. CASE Rerun
  BY <1>26 DEF Rerun
<1> QED
  BY <1>1, <1>2, <1>3, <1>4, <1>5, <1>6, <1>7, <1>8, <1>9, <1>10, <1>11, <1>12, <1>13,
      <1>14, <1>15, <1>16, <1>17, <1>18, <1>19, <1>20, <1>21, <1>22, <1>23, <1>24, <1>25,
      <1>26
      DEF Next, Step

(* The attempt advances exactly where the stages say it does. *)
LEMMA AttemptStep ==
  ASSUME IInv, [Next]_vars
  PROVE  AttemptOfStage'
<1> USE StageTable, AttemptTable DEF IInv, PhaseOfStage, AttemptOfStage, At, Goto, Raise,
    Observed, Regressed, attemptVars, fileVars, readVars, endVars, EarlyStages,
    ReadingStages, LateStages, EndStages, CleanupStages, FailingPhases, OpenPhases
<1>1. CASE Enter
  BY <1>1 DEF Enter, CheckPasses, CheckRaises
<1>2. CASE InnerCheck
  BY <1>2 DEF InnerCheck, CheckPasses, CheckRaises
<1>3. CASE CallbackReturns
  BY <1>3 DEF CallbackReturns
<1>4. CASE AnalysisReturns
  BY <1>4 DEF AnalysisReturns
<1>5. CASE StageFails
  BY <1>5 DEF StageFails, CallbackRaises
<1>6. CASE Leave
  BY <1>6 DEF Leave, CheckPasses, CheckRaises, StageEvent
<1>7. CASE BeforeOpen
  BY <1>7 DEF BeforeOpen, CheckPasses, CheckRaises
<1>8. CASE OpenTarget
  BY <1>8 DEF OpenTarget
<1>9. CASE PersistReceipt
  BY <1>9 DEF PersistReceipt
<1>10. CASE AfterOpen
  BY <1>10 DEF AfterOpen, CheckPasses, CheckRaises
<1>11. CASE Probe
  BY <1>11 DEF Probe, CallbackRaises
<1>12. CASE BeginSeal
  BY <1>12 DEF BeginSeal
<1>13. CASE PersistTerminal
  BY <1>13 DEF PersistTerminal, CallbackRaises, Sealable
<1>14. CASE SelectResult
  BY <1>14 DEF SelectResult
<1>15. CASE BeginFailureSeal
  BY <1>15 DEF BeginFailureSeal
<1>16. CASE FailureSealer
  BY <1>16 DEF FailureSealer
<1>17. CASE SelectFailure
  BY <1>17 DEF SelectFailure, FailureOutcome, TypeOK
<1>18. CASE RaiseUnsealed
  BY <1>18 DEF RaiseUnsealed, Release
<1>19. CASE Package
  BY <1>19 DEF Package, Elapse
<1>20. CASE VerifyPackage
  BY <1>20 DEF VerifyPackage, Elapse
<1>21. CASE ProtectedTreePostflight
  BY <1>21 DEF ProtectedTreePostflight, Elapse
<1>22. CASE ReleaseModel
  BY <1>22 DEF ReleaseModel, Elapse, Release
<1>23. CASE Report
  BY <1>23 DEF Report, CanComplete
<1>24. CASE Kill
  BY <1>24 DEF Kill
<1>25. CASE UNCHANGED vars
  BY <1>25 DEF vars
<1>26. CASE Rerun
  BY <1>26 DEF Rerun
<1> QED
  BY <1>1, <1>2, <1>3, <1>4, <1>5, <1>6, <1>7, <1>8, <1>9, <1>10, <1>11, <1>12, <1>13,
      <1>14, <1>15, <1>16, <1>17, <1>18, <1>19, <1>20, <1>21, <1>22, <1>23, <1>24, <1>25,
      <1>26
      DEF Next, Step

(* The failure record and the fate of the release are decided once, and the
   child completes only at the end.                                        *)
LEMMA EndStep ==
  ASSUME IInv, [Next]_vars
  PROVE  EndOfStage'
<1> USE StageTable DEF IInv, PhaseOfStage, TerminalOfStage, EndOfStage, CanComplete, At, Goto,
    Raise, Observed, Regressed, attemptVars, fileVars, readVars, endVars, EndStages,
    CleanupStages, NoFile, BrokenFile, File, FailureOutcome, IsRetry
<1>1. CASE Enter
  BY <1>1 DEF Enter, CheckPasses, CheckRaises
<1>2. CASE InnerCheck
  BY <1>2 DEF InnerCheck, CheckPasses, CheckRaises
<1>3. CASE CallbackReturns
  BY <1>3 DEF CallbackReturns
<1>4. CASE AnalysisReturns
  BY <1>4 DEF AnalysisReturns
<1>5. CASE StageFails
  BY <1>5 DEF StageFails, CallbackRaises
<1>6. CASE Leave
  BY <1>6 DEF Leave, CheckPasses, CheckRaises, StageEvent
<1>7. CASE BeforeOpen
  BY <1>7 DEF BeforeOpen, CheckPasses, CheckRaises
<1>8. CASE OpenTarget
  BY <1>8 DEF OpenTarget
<1>9. CASE PersistReceipt
  BY <1>9 DEF PersistReceipt
<1>10. CASE AfterOpen
  BY <1>10 DEF AfterOpen, CheckPasses, CheckRaises
<1>11. CASE Probe
  BY <1>11 DEF Probe, CallbackRaises
<1>12. CASE BeginSeal
  BY <1>12 DEF BeginSeal
<1>13. CASE PersistTerminal
  BY <1>13 DEF PersistTerminal, CallbackRaises, Sealable
<1>14. CASE SelectResult
  BY <1>14 DEF SelectResult
<1>15. CASE BeginFailureSeal
  BY <1>15 DEF BeginFailureSeal
<1>16. CASE FailureSealer
  BY <1>16 DEF FailureSealer
<1>17. CASE SelectFailure
  BY <1>17 DEF SelectFailure, FailureOutcome, TypeOK
<1>18. CASE RaiseUnsealed
  BY <1>18 DEF RaiseUnsealed, Release
<1>19. CASE Package
  BY <1>19 DEF Package, Elapse
<1>20. CASE VerifyPackage
  BY <1>20 DEF VerifyPackage, Elapse
<1>21. CASE ProtectedTreePostflight
  <2>1. postFailure' = postFailure \/ postFailure' = TRUE
    BY <1>21 DEF ProtectedTreePostflight
  <2>2. postFailure => postFailure'
    BY <2>1, Zenon
  <2> QED
    BY <1>21, <2>2 DEF ProtectedTreePostflight, Elapse
<1>22. CASE ReleaseModel
  BY <1>22 DEF ReleaseModel, Elapse, Release
<1>23. CASE Report
  BY <1>23 DEF Report, CanComplete
<1>24. CASE Kill
  BY <1>24 DEF Kill
<1>25. CASE UNCHANGED vars
  BY <1>25 DEF vars
<1>26. CASE Rerun
  BY <1>26, RerunIsRetry DEF Rerun, RetryOfStage
<1> QED
  BY <1>1, <1>2, <1>3, <1>4, <1>5, <1>6, <1>7, <1>8, <1>9, <1>10, <1>11, <1>12, <1>13,
      <1>14, <1>15, <1>16, <1>17, <1>18, <1>19, <1>20, <1>21, <1>22, <1>23, <1>24, <1>25,
      <1>26
      DEF Next, Step

(* The reader's count, its receipt and the evidence stay together. *)
LEMMA ReadStep ==
  ASSUME IInv, [Next]_vars
  PROVE  ReadOfStage'
<1> USE StageTable DEF IInv, TypeOK, PhaseOfStage, AttemptOfStage, ReadOfStage, At, Goto,
    Raise, Observed, Regressed, attemptVars, fileVars, readVars, endVars, EarlyStages,
    ReadingStages, LateStages, EndStages, CleanupStages, FailingPhases, OpenPhases,
    NoFile, BrokenFile, File, ReadStatuses, IsRetry
<1>1. CASE Enter
  BY <1>1 DEF Enter, CheckPasses, CheckRaises
<1>2. CASE InnerCheck
  BY <1>2 DEF InnerCheck, CheckPasses, CheckRaises
<1>3. CASE CallbackReturns
  BY <1>3 DEF CallbackReturns
<1>4. CASE AnalysisReturns
  BY <1>4 DEF AnalysisReturns
<1>5. CASE StageFails
  BY <1>5 DEF StageFails, CallbackRaises
<1>6. CASE Leave
  BY <1>6 DEF Leave, CheckPasses, CheckRaises, StageEvent
<1>7. CASE BeforeOpen
  BY <1>7 DEF BeforeOpen, CheckPasses, CheckRaises
<1>8. CASE OpenTarget
  BY <1>8, FirstProcess DEF OpenTarget
<1>9. CASE PersistReceipt
  BY <1>9, FirstProcess DEF PersistReceipt
<1>10. CASE AfterOpen
  BY <1>10 DEF AfterOpen, CheckPasses, CheckRaises
<1>11. CASE Probe
  BY <1>11, FirstProcess DEF Probe, CallbackRaises
<1>12. CASE BeginSeal
  BY <1>12 DEF BeginSeal
<1>13. CASE PersistTerminal
  BY <1>13 DEF PersistTerminal, CallbackRaises, Sealable
<1>14. CASE SelectResult
  BY <1>14 DEF SelectResult
<1>15. CASE BeginFailureSeal
  BY <1>15 DEF BeginFailureSeal
<1>16. CASE FailureSealer
  BY <1>16 DEF FailureSealer
<1>17. CASE SelectFailure
  BY <1>17 DEF SelectFailure, FailureOutcome
<1>18. CASE RaiseUnsealed
  BY <1>18 DEF RaiseUnsealed, Release
<1>19. CASE Package
  BY <1>19 DEF Package, Elapse
<1>20. CASE VerifyPackage
  BY <1>20 DEF VerifyPackage, Elapse
<1>21. CASE ProtectedTreePostflight
  BY <1>21 DEF ProtectedTreePostflight, Elapse
<1>22. CASE ReleaseModel
  BY <1>22 DEF ReleaseModel, Elapse, Release
<1>23. CASE Report
  BY <1>23 DEF Report, CanComplete
<1>24. CASE Kill
  BY <1>24 DEF Kill
<1>25. CASE UNCHANGED vars
  BY <1>25 DEF vars
<1>26. CASE Rerun
  BY <1>26, RerunIsRetry DEF Rerun, RetryOfStage
<1> QED
  BY <1>1, <1>2, <1>3, <1>4, <1>5, <1>6, <1>7, <1>8, <1>9, <1>10, <1>11, <1>12, <1>13,
      <1>14, <1>15, <1>16, <1>17, <1>18, <1>19, <1>20, <1>21, <1>22, <1>23, <1>24, <1>25,
      <1>26
      DEF Next, Step

(* A retry dies in its preflight, and seals no second terminal. *)
LEMMA RetryStep ==
  ASSUME IInv, [Next]_vars
  PROVE  RetryOfStage'
<1> USE StageTable, AttemptTable, AttemptNowType, RerunIsRetry DEF IInv, PhaseOfStage,
    TerminalOfStage, EndOfStage, RetryOfStage, IsRetry, At, Goto, Raise, attemptVars, fileVars,
    readVars, endVars, EndStages, CleanupStages, NoFile, BrokenFile, File
<1>1. CASE Enter
  BY <1>1 DEF Enter, CheckPasses, CheckRaises
<1>2. CASE InnerCheck
  BY <1>2 DEF InnerCheck, CheckPasses, CheckRaises
<1>3. CASE CallbackReturns
  BY <1>3 DEF CallbackReturns
<1>4. CASE AnalysisReturns
  BY <1>4 DEF AnalysisReturns
<1>5. CASE StageFails
  BY <1>5 DEF StageFails, CallbackRaises
<1>6. CASE Leave
  BY <1>6, FirstProcess DEF Leave, CheckPasses, CheckRaises, StageEvent
<1>7. CASE BeforeOpen
  BY <1>7 DEF BeforeOpen, CheckPasses, CheckRaises
<1>8. CASE OpenTarget
  BY <1>8 DEF OpenTarget
<1>9. CASE PersistReceipt
  BY <1>9 DEF PersistReceipt
<1>10. CASE AfterOpen
  BY <1>10 DEF AfterOpen, CheckPasses, CheckRaises
<1>11. CASE Probe
  BY <1>11 DEF Probe, CallbackRaises
<1>12. CASE BeginSeal
  BY <1>12 DEF BeginSeal
<1>13. CASE PersistTerminal
  BY <1>13 DEF PersistTerminal, CallbackRaises, Sealable
<1>14. CASE SelectResult
  BY <1>14 DEF SelectResult
<1>15. CASE BeginFailureSeal
  BY <1>15 DEF BeginFailureSeal
<1>16. CASE FailureSealer
  BY <1>16 DEF FailureSealer
<1>17. CASE SelectFailure
  BY <1>17 DEF SelectFailure, FailureOutcome
<1>18. CASE RaiseUnsealed
  BY <1>18 DEF RaiseUnsealed, Release
<1>19. CASE Package
  BY <1>19 DEF Package, Elapse
<1>20. CASE VerifyPackage
  BY <1>20 DEF VerifyPackage, Elapse
<1>21. CASE ProtectedTreePostflight
  BY <1>21 DEF ProtectedTreePostflight, Elapse
<1>22. CASE ReleaseModel
  BY <1>22 DEF ReleaseModel, Elapse, Release
<1>23. CASE Report
  BY <1>23 DEF Report, CanComplete
<1>24. CASE Kill
  BY <1>24 DEF Kill
<1>25. CASE UNCHANGED vars
  BY <1>25 DEF vars
<1>26. CASE Rerun
  <2>1. CASE bound = "nothing"
    BY <1>26, <2>1 DEF Rerun
  <2>2. CASE bound # "nothing"
    <3>1. earlier'.attempt = AttemptNow /\ earlier'.outcome = OutcomeNow
      BY <1>26, <2>2 DEF Rerun
    <3>2. adapter = "historical" /\ AttemptNow = "sealed" => terminalFile.state # "absent"
      BY DEF AttemptNow, AttemptOfStage, ResultRestsOnOneRead, TypeOK
    <3> QED
      BY <1>26, <2>2, <3>1, <3>2 DEF Rerun, TypeOK
  <2> QED
    BY <2>1, <2>2
<1> QED
  BY <1>1, <1>2, <1>3, <1>4, <1>5, <1>6, <1>7, <1>8, <1>9, <1>10, <1>11, <1>12, <1>13,
      <1>14, <1>15, <1>16, <1>17, <1>18, <1>19, <1>20, <1>21, <1>22, <1>23, <1>24, <1>25,
      <1>26
      DEF Next, Step

(* A terminal is selected on entering the cleanup, and the model is released
   before it ends.                                                        *)
LEMMA TerminalStep ==
  ASSUME IInv, [Next]_vars
  PROVE  TerminalOfStage'
<1> USE StageTable, AttemptTable DEF IInv, PhaseOfStage, AttemptOfStage, TerminalOfStage,
    At, Goto, Raise, Observed, Regressed, attemptVars, fileVars, readVars, endVars,
    EarlyStages, ReadingStages, LateStages, EndStages, CleanupStages, FailingPhases,
    OpenPhases, ResultStatuses
<1>1. CASE Enter
  BY <1>1 DEF Enter, CheckPasses, CheckRaises
<1>2. CASE InnerCheck
  BY <1>2 DEF InnerCheck, CheckPasses, CheckRaises
<1>3. CASE CallbackReturns
  BY <1>3 DEF CallbackReturns
<1>4. CASE AnalysisReturns
  BY <1>4 DEF AnalysisReturns
<1>5. CASE StageFails
  BY <1>5 DEF StageFails, CallbackRaises
<1>6. CASE Leave
  BY <1>6 DEF Leave, CheckPasses, CheckRaises, StageEvent
<1>7. CASE BeforeOpen
  BY <1>7 DEF BeforeOpen, CheckPasses, CheckRaises
<1>8. CASE OpenTarget
  BY <1>8 DEF OpenTarget
<1>9. CASE PersistReceipt
  BY <1>9 DEF PersistReceipt
<1>10. CASE AfterOpen
  BY <1>10 DEF AfterOpen, CheckPasses, CheckRaises
<1>11. CASE Probe
  BY <1>11 DEF Probe, CallbackRaises
<1>12. CASE BeginSeal
  BY <1>12 DEF BeginSeal
<1>13. CASE PersistTerminal
  BY <1>13 DEF PersistTerminal, CallbackRaises, Sealable, TypeOK, File
<1>14. CASE SelectResult
  BY <1>14 DEF SelectResult
<1>15. CASE BeginFailureSeal
  BY <1>15 DEF BeginFailureSeal
<1>16. CASE FailureSealer
  BY <1>16 DEF FailureSealer
<1>17. CASE SelectFailure
  BY <1>17 DEF SelectFailure, FailureOutcome
<1>18. CASE RaiseUnsealed
  BY <1>18 DEF RaiseUnsealed, Release
<1>19. CASE Package
  BY <1>19 DEF Package, Elapse
<1>20. CASE VerifyPackage
  BY <1>20 DEF VerifyPackage, Elapse
<1>21. CASE ProtectedTreePostflight
  BY <1>21 DEF ProtectedTreePostflight, Elapse
<1>22. CASE ReleaseModel
  BY <1>22 DEF ReleaseModel, Elapse, Release
<1>23. CASE Report
  BY <1>23 DEF Report, CanComplete
<1>24. CASE Kill
  BY <1>24 DEF Kill
<1>25. CASE UNCHANGED vars
  BY <1>25 DEF vars
<1>26. CASE Rerun
  BY <1>26 DEF Rerun
<1> QED
  BY <1>1, <1>2, <1>3, <1>4, <1>5, <1>6, <1>7, <1>8, <1>9, <1>10, <1>11, <1>12, <1>13,
      <1>14, <1>15, <1>16, <1>17, <1>18, <1>19, <1>20, <1>21, <1>22, <1>23, <1>24, <1>25,
      <1>26
      DEF Next, Step

(* What a completed lifecycle rests on is settled when it is selected. *)
LEMMA ResultStep ==
  ASSUME IInv, [Next]_vars
  PROVE  ResultRestsOnOneRead'
<1> USE StageTable DEF IInv, TypeOK, PhaseOfStage, AttemptOfStage, ReadOfStage,
    TerminalOfStage, ResultRestsOnOneRead, At, Goto, Raise, Observed, Regressed,
    attemptVars, fileVars, readVars, endVars, EarlyStages, ReadingStages, LateStages,
    EndStages, CleanupStages, FailingPhases, OpenPhases, File, NoFile, BrokenFile,
    ResultStatuses
<1>1. CASE Enter
  BY <1>1 DEF Enter, CheckPasses, CheckRaises
<1>2. CASE InnerCheck
  BY <1>2 DEF InnerCheck, CheckPasses, CheckRaises
<1>3. CASE CallbackReturns
  BY <1>3 DEF CallbackReturns
<1>4. CASE AnalysisReturns
  BY <1>4 DEF AnalysisReturns
<1>5. CASE StageFails
  BY <1>5 DEF StageFails, CallbackRaises
<1>6. CASE Leave
  BY <1>6 DEF Leave, CheckPasses, CheckRaises, StageEvent
<1>7. CASE BeforeOpen
  BY <1>7 DEF BeforeOpen, CheckPasses, CheckRaises
<1>8. CASE OpenTarget
  BY <1>8 DEF OpenTarget
<1>9. CASE PersistReceipt
  BY <1>9 DEF PersistReceipt
<1>10. CASE AfterOpen
  BY <1>10 DEF AfterOpen, CheckPasses, CheckRaises
<1>11. CASE Probe
  BY <1>11 DEF Probe, CallbackRaises
<1>12. CASE BeginSeal
  BY <1>12 DEF BeginSeal
<1>13. CASE PersistTerminal
  BY <1>13 DEF PersistTerminal, CallbackRaises, Sealable
<1>14. CASE SelectResult
  BY <1>14 DEF SelectResult
<1>15. CASE BeginFailureSeal
  BY <1>15 DEF BeginFailureSeal
<1>16. CASE FailureSealer
  BY <1>16 DEF FailureSealer
<1>17. CASE SelectFailure
  BY <1>17 DEF SelectFailure, FailureOutcome
<1>18. CASE RaiseUnsealed
  BY <1>18 DEF RaiseUnsealed, Release
<1>19. CASE Package
  BY <1>19 DEF Package, Elapse
<1>20. CASE VerifyPackage
  BY <1>20 DEF VerifyPackage, Elapse
<1>21. CASE ProtectedTreePostflight
  BY <1>21 DEF ProtectedTreePostflight, Elapse
<1>22. CASE ReleaseModel
  BY <1>22 DEF ReleaseModel, Elapse, Release
<1>23. CASE Report
  BY <1>23 DEF Report, CanComplete
<1>24. CASE Kill
  BY <1>24 DEF Kill
<1>25. CASE UNCHANGED vars
  BY <1>25 DEF vars
<1>26. CASE Rerun
  BY <1>26 DEF Rerun
<1> QED
  BY <1>1, <1>2, <1>3, <1>4, <1>5, <1>6, <1>7, <1>8, <1>9, <1>10, <1>11, <1>12, <1>13,
      <1>14, <1>15, <1>16, <1>17, <1>18, <1>19, <1>20, <1>21, <1>22, <1>23, <1>24, <1>25,
      <1>26
      DEF Next, Step

(* The ways out of the lifecycle pass the release of the model. *)
LEMMA ModelStep ==
  ASSUME IInv, [Next]_vars
  PROVE  NoModelLeftBehind'
<1> USE StageTable DEF IInv, PhaseOfStage, TerminalOfStage, NoModelLeftBehind, At, Goto,
    Raise, Observed, Regressed, attemptVars, fileVars, readVars, endVars
<1>1. CASE Enter
  BY <1>1 DEF Enter, CheckPasses, CheckRaises
<1>2. CASE InnerCheck
  BY <1>2 DEF InnerCheck, CheckPasses, CheckRaises
<1>3. CASE CallbackReturns
  BY <1>3 DEF CallbackReturns
<1>4. CASE AnalysisReturns
  BY <1>4 DEF AnalysisReturns
<1>5. CASE StageFails
  BY <1>5 DEF StageFails, CallbackRaises
<1>6. CASE Leave
  BY <1>6 DEF Leave, CheckPasses, CheckRaises, StageEvent
<1>7. CASE BeforeOpen
  BY <1>7 DEF BeforeOpen, CheckPasses, CheckRaises
<1>8. CASE OpenTarget
  BY <1>8 DEF OpenTarget
<1>9. CASE PersistReceipt
  BY <1>9 DEF PersistReceipt
<1>10. CASE AfterOpen
  BY <1>10 DEF AfterOpen, CheckPasses, CheckRaises
<1>11. CASE Probe
  BY <1>11 DEF Probe, CallbackRaises
<1>12. CASE BeginSeal
  BY <1>12 DEF BeginSeal
<1>13. CASE PersistTerminal
  BY <1>13 DEF PersistTerminal, CallbackRaises, Sealable
<1>14. CASE SelectResult
  BY <1>14 DEF SelectResult
<1>15. CASE BeginFailureSeal
  BY <1>15 DEF BeginFailureSeal
<1>16. CASE FailureSealer
  BY <1>16 DEF FailureSealer
<1>17. CASE SelectFailure
  BY <1>17 DEF SelectFailure, FailureOutcome
<1>18. CASE RaiseUnsealed
  BY <1>18 DEF RaiseUnsealed, Release
<1>19. CASE Package
  BY <1>19 DEF Package, Elapse
<1>20. CASE VerifyPackage
  BY <1>20 DEF VerifyPackage, Elapse
<1>21. CASE ProtectedTreePostflight
  BY <1>21 DEF ProtectedTreePostflight, Elapse
<1>22. CASE ReleaseModel
  BY <1>22 DEF ReleaseModel, Elapse, Release
<1>23. CASE Report
  BY <1>23 DEF Report, CanComplete
<1>24. CASE Kill
  BY <1>24 DEF Kill
<1>25. CASE UNCHANGED vars
  BY <1>25 DEF vars
<1>26. CASE Rerun
  BY <1>26 DEF Rerun
<1> QED
  BY <1>1, <1>2, <1>3, <1>4, <1>5, <1>6, <1>7, <1>8, <1>9, <1>10, <1>11, <1>12, <1>13,
      <1>14, <1>15, <1>16, <1>17, <1>18, <1>19, <1>20, <1>21, <1>22, <1>23, <1>24, <1>25,
      <1>26
      DEF Next, Step

(* The inductive invariant holds in every state of every run. *)
THEOREM Inductive == Spec => []IInv
<1>1. Init => IInv
  <2> SUFFICES ASSUME Init PROVE IInv
    OBVIOUS
  <2> USE StageTable DEF Init, CleanupStages, EarlyStages, ReadingStages, LateStages,
          EndStages, FailingPhases, OpenPhases, NoFile
  <2>1. TypeOK
    <3>1. FlagsOK
      BY DEF FlagsOK
    <3> QED
      BY <3>1, AttemptTable, ClockAssumption DEF TypeOK, ReadStatuses, ResultStatuses
  <2>2. PhaseOfStage
    BY DEF PhaseOfStage
  <2>3. AttemptOfStage
    BY DEF AttemptOfStage
  <2>4. ReadOfStage
    BY DEF ReadOfStage
  <2>5. TerminalOfStage
    BY DEF TerminalOfStage
  <2>6. ResultRestsOnOneRead /\ NoModelLeftBehind
    BY DEF ResultRestsOnOneRead, NoModelLeftBehind
  <2>7. EndOfStage
    BY DEF EndOfStage
  <2>8. RetryOfStage
    BY DEF RetryOfStage, IsRetry
  <2> QED
    BY <2>1, <2>2, <2>3, <2>4, <2>5, <2>6, <2>7, <2>8 DEF IInv
<1>2. IInv /\ [Next]_vars => IInv'
  BY TypeStep, PhaseStep, AttemptStep, ReadStep, TerminalStep, EndStep, RetryStep,
     ResultStep, ModelStep DEF IInv
<1> QED
  BY <1>1, <1>2, PTL DEF Spec

(* Every variable keeps its type in every run. *)
THEOREM MaterialTypeOK == Spec => []TypeOK
BY Inductive, PTL DEF IInv

(* A run that opened the target has taken the receipt's name first, so a run
   killed later leaves a file that bars a second read.                     *)
THEOREM MaterialReservedBeforeOpened == Spec => []ReservedBeforeOpened
<1>1. IInv => ReservedBeforeOpened
  BY DEF IInv, ReadOfStage, ReservedBeforeOpened, NoFile, BrokenFile, File
<1> QED
  BY <1>1, Inductive, PTL

(* The terminal reports the read, unless the receipt could not be read. *)
THEOREM MaterialReadIsNeverHidden == Spec => []ReadIsNeverHidden
<1>1. IInv => ReadIsNeverHidden
  BY DEF IInv, PhaseOfStage, ReadOfStage, TerminalOfStage, EndStages, CleanupStages,
         OpenPhases, ReadIsNeverHidden
<1> QED
  BY <1>1, Inductive, PTL

(* A completed lifecycle returns the outcome its sealer wrote, after one
   passing read the receipt on disk records.                               *)
THEOREM MaterialResultRestsOnOneRead == Spec => []ResultRestsOnOneRead
BY Inductive, PTL DEF IInv

(* The model is handed to its release on every path out of the lifecycle. *)
THEOREM MaterialNoModelLeftBehind == Spec => []NoModelLeftBehind
BY Inductive, PTL DEF IInv

(* Theorem: a completed vertical child rests on a verified package, a released
   model and one durable record: the sealed result with no failure record
   beside it, or the failure record of a failed attempt (the last lines of
   vertical_child_main, after seal_vertical_terminal or the failure sealer). *)
THEOREM MaterialCompletedIsDurable == Spec => []CompletedIsDurable
<1>1. IInv => CompletedIsDurable
  <2> SUFFICES ASSUME IInv, adapter = "vertical", exit = "completed"
               PROVE  /\ package /\ verified /\ ~postFailure
                      /\ model \in {"none", "released"}
                      /\ \/ terminalFile = File(terminal, 1, "analysis") /\ ~failureFile
                         \/ terminal = "failed" /\ failureFile
    BY DEF CompletedIsDurable
  <2>1. stage = "returned" /\ package /\ verified /\ ~postFailure
    BY DEF IInv, EndOfStage, CanComplete
  <2>2. model \in {"none", "released"}
    BY <2>1 DEF IInv, TypeOK, NoModelLeftBehind, EndOfStage
  <2>3. phase = "enter" /\ status \in {"completed", "sealed_failure"}
    BY <2>1 DEF IInv, TypeOK, PhaseOfStage, TerminalOfStage, EndStages
  <2>4. CASE status = "completed"
    <3>1. ~failureFile
      BY <2>3, <2>4 DEF IInv, EndOfStage, RetryOfStage
    <3>2. terminalFile = File(terminal, 1, "analysis")
      BY <2>4 DEF IInv, ResultRestsOnOneRead
    <3> QED
      BY <2>1, <2>2, <3>1, <3>2
  <2>5. CASE status = "sealed_failure"
    <3>1. failureFile /\ terminal = "failed"
      BY <2>5 DEF IInv, EndOfStage, FailureOutcome
    <3> QED
      BY <2>1, <2>2, <3>1
  <2> QED
    BY <2>1, <2>2, <2>3, <2>4, <2>5
<1> QED
  BY <1>1, Inductive, PTL

(* The terminal the lifecycle returns is the one on disk, but for two
   cases, in which the record on disk is a failure: the historical adapter
   relabels an exhausted budget after its sealer wrote "failed", and the
   vertical one keeps its failures in a record of their own.               *)
ReturnedOrFailed ==
  terminal # "none" =>
    \/ terminalFile.state = "complete" /\ terminalFile.status = terminal
    \/ /\ adapter = "historical" /\ cause = "deadline"
       /\ terminal = "non_interpretable" /\ terminalFile.status = "failed"
    \/ adapter = "vertical" /\ terminal = "failed" /\ failureFile

(* Theorem: what the lifecycle returns is what its sealer wrote, or a failed
   terminal (run_material_lifecycle).                                      *)
THEOREM MaterialReturnedOrFailed == Spec => []ReturnedOrFailed
<1>1. IInv => ReturnedOrFailed
  <2> SUFFICES ASSUME IInv, terminal # "none"
               PROVE  \/ terminalFile.state = "complete" /\ terminalFile.status = terminal
                      \/ /\ adapter = "historical" /\ cause = "deadline"
                         /\ terminal = "non_interpretable" /\ terminalFile.status = "failed"
                      \/ adapter = "vertical" /\ terminal = "failed" /\ failureFile
    BY DEF ReturnedOrFailed
  <2>1. status \in {"completed", "sealed_failure"} /\ adapter \in {"historical", "vertical"}
    BY DEF IInv, TypeOK, TerminalOfStage
  <2>2. CASE status = "completed"
    BY <2>2 DEF IInv, ResultRestsOnOneRead, File
  <2>3. CASE status = "sealed_failure"
    <3>1. terminal = FailureOutcome
      BY <2>3 DEF IInv, EndOfStage
    <3>2. CASE adapter = "historical"
      BY <2>3, <3>1, <3>2 DEF IInv, EndOfStage, FailureOutcome
    <3>3. CASE adapter = "vertical"
      BY <2>3, <3>1, <3>3 DEF IInv, EndOfStage, FailureOutcome
    <3> QED
      BY <2>1, <3>2, <3>3
  <2> QED
    BY <2>1, <2>2, <2>3
<1> QED
  BY <1>1, Inductive, PTL

(* The reads a lifecycle reports are its opens of the target, unless
   the evidence probe could not read the receipt (record_target_read_evidence):
   then, and only then, an open may be reported as none.                   *)
ReadsAreTheOpens ==
  terminal # "none" =>
    reads = reading.reads \/ (reading.reads = 1 /\ evidence = "unreadable")

(* Theorem: the terminal counts the opens, or says that one open left a
   receipt that cannot be read (_target_read_evidence).                          *)
THEOREM MaterialReadsAreTheOpens == Spec => []ReadsAreTheOpens
<1>1. IInv => ReadsAreTheOpens
  BY DEF IInv, TypeOK, PhaseOfStage, ReadOfStage, TerminalOfStage, EndStages, CleanupStages,
         OpenPhases, ReadsAreTheOpens
<1> QED
  BY <1>1, Inductive, PTL

(* A terminal file that exists in full, or was broken off, and a receipt that
   exists in full are never written again, by the process that made them or by
   a later one (os.O_EXCL in _persist_exclusive and the reader's one use, the
   workspace the preflight refuses).                                          *)
THEOREM MaterialArtifactsWriteOnce == Spec => ArtifactsWriteOnce
<1> DEFINE Once == /\ terminalFile.state # "absent" => UNCHANGED terminalFile
                   /\ receipt.state = "complete" => UNCHANGED receipt
<1>1. IInv /\ [Next]_vars => [Once]_vars
  <2> SUFFICES ASSUME IInv, [Next]_vars PROVE Once \/ UNCHANGED vars
    OBVIOUS
  <2> USE DEF IInv, PhaseOfStage, ReadOfStage, fileVars, NoFile, BrokenFile, File
  <2>1. CASE CallbackReturns
    BY <2>1 DEF CallbackReturns, ReadingStages
  <2>2. CASE PersistReceipt
    BY <2>2 DEF PersistReceipt, At
  <2>3. CASE PersistTerminal
    BY <2>3 DEF PersistTerminal, Sealable
  <2>4. CASE FailureSealer
    BY <2>4 DEF FailureSealer
  <2>5. CASE UNCHANGED fileVars
    BY <2>5
  <2>6. Next /\ ~UNCHANGED fileVars =>
          CallbackReturns \/ PersistReceipt \/ PersistTerminal \/ FailureSealer
    BY DEF Next, Step, Enter, InnerCheck, AnalysisReturns, StageFails, Leave, BeforeOpen,
           OpenTarget, AfterOpen, Probe, BeginSeal, SelectResult, BeginFailureSeal,
           SelectFailure, RaiseUnsealed, Package, VerifyPackage, ProtectedTreePostflight,
           ReleaseModel, Report, Kill, Rerun
  <2> QED
    BY <2>1, <2>2, <2>3, <2>4, <2>5, <2>6
<1> QED
  BY <1>1, Inductive, PTL DEF Spec, ArtifactsWriteOnce

(* After the budget no model is constructed, no target opened and no analysis
   finished: each of these follows a check that passed.                    *)
THEOREM MaterialNoScienceAfterBudget == Spec => NoScienceAfterBudget
<1> DEFINE Calm == exit = "running" /\ last >= Budget =>
                     UNCHANGED <<opens, result>> /\ (model' = "held" => model = "held")
<1>1. IInv /\ [Next]_vars => [Calm]_vars
  <2> SUFFICES ASSUME IInv, [Next]_vars PROVE Calm \/ UNCHANGED vars
    OBVIOUS
  <2>0. /\ phase \in {"run", "open"} => ~(last >= Budget)
    <3>1. last \in Nat /\ Budget \in Nat
      BY ClockAssumption, BudgetAssumption DEF IInv, TypeOK
    <3> QED
      BY <3>1 DEF IInv, PhaseOfStage
  <2>1. CASE CallbackReturns \/ AnalysisReturns \/ OpenTarget
    BY <2>0, <2>1 DEF CallbackReturns, AnalysisReturns, OpenTarget, At
  <2>2. CASE RaiseUnsealed \/ ReleaseModel
    BY <2>2 DEF RaiseUnsealed, ReleaseModel, Release, readVars, attemptVars
  <2>3. CASE UNCHANGED <<opens, result, model>>
    BY <2>3
  <2>4. Next /\ exit = "running" /\ ~UNCHANGED <<opens, result, model>> =>
          \/ CallbackReturns \/ AnalysisReturns \/ OpenTarget
          \/ RaiseUnsealed \/ ReleaseModel
    BY DEF Next, Step, Enter, InnerCheck, StageFails, Leave, BeforeOpen,
           PersistReceipt, AfterOpen, Probe, BeginSeal, PersistTerminal, SelectResult,
           BeginFailureSeal, FailureSealer, SelectFailure, Package, VerifyPackage,
           ProtectedTreePostflight, Report, Kill, Rerun, attemptVars
  <2>5. CASE UNCHANGED vars
    BY <2>5
  <2> QED
    BY <2>1, <2>2, <2>3, <2>4, <2>5
<1> QED
  BY <1>1, Inductive, PTL DEF Spec, NoScienceAfterBudget

(* A step that leaves attempt and history alone leaves the abstract attempt alone. *)
LEMMA SameAttempt ==
  ASSUME UNCHANGED <<attemptVars, earlier>>
  PROVE  UNCHANGED (Attempt!vars)
BY DEF attemptVars, Attempt!vars, AttemptNow, OutcomeNow, IsRetry

(* Only the first process advances the attempt and reads; what it does to its
   own attempt it does to the abstract one.                                *)
LEMMA FirstAttempt ==
  ASSUME IInv, ~IsRetry, UNCHANGED earlier
  PROVE  /\ AttemptNow = attemptState /\ OutcomeNow = terminal
         /\ AttemptNow' = attemptState' /\ OutcomeNow' = terminal'
BY DEF AttemptNow, OutcomeNow, IsRetry

(* The steps that move the attempt are steps of AttemptLifecycle. *)
LEMMA StepRefines ==
  ASSUME IInv, [Next]_vars
  PROVE  [Attempt!Next]_(Attempt!vars)
<1> USE DEF IInv, PhaseOfStage, AttemptOfStage, EarlyStages, LateStages, FailingPhases,
        EndStages, CleanupStages
<1>1. CASE Leave
  <2>1. CASE UNCHANGED attemptState
    BY <1>1, <2>1, SameAttempt DEF Leave, attemptVars
  <2>2. CASE ~UNCHANGED attemptState
    <3>1. /\ stage = "model_construction" \/ stage = "target_read"
          /\ attemptState' = Attempt!ReduceAttempt(attemptState, StageEvent)
      BY <1>1, <2>2 DEF Leave, StageEvent
    <3>2. stage = "target_read" => UNCHANGED attemptState
      BY <1>1, <3>1, AttemptTable DEF Leave, StageEvent
    <3>3. ~IsRetry
      BY <3>1, FirstProcess, StageTable
    <3>4. stage = "model_construction" => Attempt!Advance("activation_started")
      BY <1>1, <3>1, <3>3, FirstAttempt DEF Leave, StageEvent, Attempt!Advance,
         Attempt!Legal, Attempt!ReduceAttempt, Attempt!AttemptTransitions
    <3> QED
      BY <2>2, <3>1, <3>2, <3>4 DEF Attempt!Next, Attempt!Events
  <2> QED
    BY <2>1, <2>2
<1>2. CASE OpenTarget
  <2>1. attemptState = "activation" /\ opens = 0 /\ ~IsRetry
    BY <1>2, FirstProcess, StageTable DEF OpenTarget, At, ReadOfStage
  <2>2. CASE UNCHANGED opens
    BY <1>2, <2>2, SameAttempt DEF OpenTarget, attemptVars
  <2>3. CASE opens' = opens + 1
    BY <1>2, <2>1, <2>3, FirstAttempt DEF OpenTarget, Attempt!Next, Attempt!OpenTarget
  <2> QED
    BY <1>2, <2>2, <2>3 DEF OpenTarget
<1>3. CASE Probe
  <2>1. CASE UNCHANGED attemptState
    BY <1>3, <2>1, SameAttempt DEF Probe, attemptVars
  <2>2. CASE attemptState' = Attempt!ReduceAttempt(attemptState, "target_reserved")
    <3>1. attemptState = "activation" /\ ~IsRetry
      BY <1>3, FirstProcess, StageTable DEF Probe, At
    <3>2. Attempt!Advance("target_reserved")
      BY <1>3, <2>2, <3>1, FirstAttempt DEF Probe, Attempt!Advance, Attempt!Legal,
         Attempt!ReduceAttempt, Attempt!AttemptTransitions
    <3> QED
      BY <3>2 DEF Attempt!Next, Attempt!Events
  <2> QED
    BY <1>3, <2>1, <2>2 DEF Probe
<1>4. CASE SelectResult
  <2>1. CASE UNCHANGED attemptVars
    BY <1>4, <2>1, SameAttempt DEF SelectResult
  <2>2. CASE /\ terminal' = result
             /\ attemptState' = Attempt!ReduceAttempt(attemptState, "terminal_selected")
    <3>1. attemptState = "analysis" /\ opens = 1 /\ result \in Attempt!Statuses
      BY <1>4, AttemptTable DEF SelectResult, At, ReadOfStage, TerminalOfStage,
                                ResultStatuses
    <3>2. ~IsRetry
      BY <1>4, FirstProcess DEF SelectResult, At
    <3>3. Attempt!SelectTerminal(result)
      BY <1>4, <2>2, <3>1, <3>2, FirstAttempt DEF SelectResult, Attempt!SelectTerminal,
         Attempt!Legal, Attempt!ReduceAttempt, Attempt!AttemptTransitions, Attempt!States
    <3> QED
      BY <3>1, <3>3 DEF Attempt!Next
  <2> QED
    BY <1>4, <2>1, <2>2 DEF SelectResult, attemptVars
<1>5. CASE SelectFailure
  <2>1. CASE UNCHANGED attemptVars
    BY <1>5, <2>1, SameAttempt DEF SelectFailure
  <2>2. CASE /\ terminal' = FailureOutcome
             /\ attemptState' = Attempt!ReduceAttempt(attemptState, "terminal_selected")
    <3>1. attemptState \in Attempt!States \ {"sealed"} /\ terminal = "none"
      BY <1>5 DEF SelectFailure, TypeOK, TerminalOfStage
    <3>2. FailureOutcome \in Attempt!Statuses \ {"positive", "null"}
      BY AttemptTable DEF FailureOutcome
    <3>3. AttemptNow \in Attempt!States \ {"sealed"}
      <4>1. CASE IsRetry
        <5>1. adapter = "historical" /\ phase = "failure_sealed"
          BY <1>5, <4>1 DEF SelectFailure, RetryOfStage, TypeOK
        <5>2. earlier.attempt # "sealed"
          BY <4>1, <5>1 DEF RetryOfStage
        <5> QED
          BY <3>1, <4>1, <5>2, AttemptNowType DEF AttemptNow
      <4>2. CASE ~IsRetry
        BY <3>1, <4>2 DEF AttemptNow
      <4> QED
        BY <4>1, <4>2
    <3>4. AttemptNow' = "sealed" /\ OutcomeNow' = FailureOutcome
      BY <1>5, <2>2, <3>1, <3>2, AttemptTable DEF AttemptNow, OutcomeNow
    <3>5. Attempt!SelectTerminal(FailureOutcome)
      BY <1>5, <3>2, <3>3, <3>4 DEF SelectFailure, Attempt!SelectTerminal, Attempt!Legal,
         Attempt!ReduceAttempt, Attempt!AttemptTransitions
    <3> QED
      BY <3>2, <3>5 DEF Attempt!Next
  <2> QED
    BY <1>5, <2>1, <2>2 DEF SelectFailure, attemptVars
<1>6. CASE Rerun
  <2>1. CASE bound = "nothing"
    <3>1. ~IsRetry /\ attemptState = "preflight" /\ terminal = "none"
      BY <2>1 DEF RetryOfStage, TerminalOfStage
    <3> QED
      BY <1>6, <2>1, <3>1, FirstAttempt DEF Rerun, Attempt!vars
  <2>2. CASE bound # "nothing"
    <3>1. AttemptNow' = AttemptNow /\ OutcomeNow' = OutcomeNow
      BY <1>6, <2>2, RerunIsRetry DEF Rerun, AttemptNow, OutcomeNow
    <3> QED
      BY <1>6, <3>1 DEF Rerun, Attempt!vars
  <2> QED
    BY <2>1, <2>2
<1>7. CASE UNCHANGED <<attemptVars, earlier>>
  BY <1>7, SameAttempt
<1>8. [Next]_vars /\ ~UNCHANGED <<attemptVars, earlier>> =>
        Leave \/ OpenTarget \/ Probe \/ SelectResult \/ SelectFailure \/ Rerun
  BY DEF Next, Step, vars, Enter, InnerCheck, CallbackReturns, AnalysisReturns, StageFails,
         BeforeOpen, PersistReceipt, AfterOpen, BeginSeal, PersistTerminal,
         BeginFailureSeal, FailureSealer, RaiseUnsealed, Package, VerifyPackage,
         ProtectedTreePostflight, ReleaseModel, Report, Kill
<1> QED
  BY <1>1, <1>2, <1>3, <1>4, <1>5, <1>6, <1>7, <1>8

(* The order in which a run goes through its stages, and a stage through its
   phases; a failure is the last thing a stage does.                       *)
StageOrder ==
  [static_preflight |-> 1, model_identity |-> 2, tokenizer_construction |-> 3,
   model_construction |-> 4, activation |-> 5, activation_sealing |-> 6,
   reader_construction |-> 7, target_read |-> 8, frozen_analysis |-> 9, terminal_seal |-> 10,
   terminal_package |-> 11, independent_package_verification |-> 12,
   protected_tree_postflight |-> 13, model_release |-> 14, returned |-> 15]
PhaseOrder ==
  [enter |-> 0, run |-> 1, open |-> 2, receipt |-> 3, opened |-> 4, probe |-> 5, leave |-> 6,
   persist |-> 7, persisted |-> 8, failing |-> 9, failure_seal |-> 10, failure_sealed |-> 11,
   unsealed |-> 12]

Forward ==
  \/ exit # "running"
  \/ exit' # "running"
  \/ StageOrder[stage'] > StageOrder[stage]
  \/ stage' = stage /\ PhaseOrder[phase'] > PhaseOrder[phase]
  \/ stage' = stage /\ phase' = phase /\ last < last' /\ last' < Budget

LEMMA OrderTables ==
  /\ StageOrder.static_preflight = 1 /\ StageOrder.model_identity = 2
  /\ StageOrder.tokenizer_construction = 3 /\ StageOrder.model_construction = 4
  /\ StageOrder.activation = 5 /\ StageOrder.activation_sealing = 6
  /\ StageOrder.reader_construction = 7 /\ StageOrder.target_read = 8
  /\ StageOrder.frozen_analysis = 9 /\ StageOrder.terminal_seal = 10
  /\ StageOrder.terminal_package = 11 /\ StageOrder.independent_package_verification = 12
  /\ StageOrder.protected_tree_postflight = 13 /\ StageOrder.model_release = 14
  /\ StageOrder.returned = 15
  /\ PhaseOrder.enter = 0 /\ PhaseOrder.run = 1 /\ PhaseOrder.open = 2
  /\ PhaseOrder.receipt = 3 /\ PhaseOrder.opened = 4 /\ PhaseOrder.probe = 5
  /\ PhaseOrder.leave = 6 /\ PhaseOrder.persist = 7 /\ PhaseOrder.persisted = 8
  /\ PhaseOrder.failing = 9 /\ PhaseOrder.failure_seal = 10
  /\ PhaseOrder.failure_sealed = 11 /\ PhaseOrder.unsealed = 12
BY DEF StageOrder, PhaseOrder

(* Every step that changes anything goes forward. *)
LEMMA ForwardStep ==
  ASSUME IInv, Next
  PROVE  Forward \/ UNCHANGED vars
<1> USE OrderTables DEF Forward, At, Goto, Raise
<1>1. last \in Nat /\ \A t \in Clock : t \in Nat
  BY ClockAssumption DEF IInv, TypeOK
<1>2. CASE Enter
  BY <1>2 DEF Enter, CheckRaises
<1>3. CASE InnerCheck
  <2>1. PICK t \in Clock : (CheckPasses(t) /\ Goto(stage, "run")) \/ CheckRaises(t, "failing")
    BY <1>3 DEF InnerCheck
  <2>2. CASE CheckPasses(t) /\ Goto(stage, "run")
    <3>1. t < Budget /\ t >= last /\ last' = t /\ stage' = stage /\ phase' = phase
      BY <1>3, <2>2 DEF CheckPasses, Observed, InnerCheck
    <3>2. CASE t = last
      BY <1>3, <2>2, <3>1, <3>2 DEF InnerCheck, vars
    <3>3. CASE t # last
      BY <1>1, <3>1, <3>3
    <3> QED
      BY <3>2, <3>3
  <2>3. CASE CheckRaises(t, "failing")
    BY <1>3, <2>3 DEF CheckRaises, InnerCheck
  <2> QED
    BY <2>1, <2>2, <2>3
<1>4. CASE CallbackReturns \/ AnalysisReturns \/ StageFails
  BY <1>4 DEF CallbackReturns, AnalysisReturns, StageFails, CallbackRaises
<1>5. CASE Leave
  <2>1. stage \in ScientificStages /\ phase = "leave"
    BY <1>5 DEF Leave
  <2>2. stage' = NextStage[stage] \/ (stage' = stage /\ phase' = "failing")
    BY <1>5 DEF Leave, CheckRaises
  <2>3. StageOrder[NextStage[stage]] > StageOrder[stage]
    BY <2>1, StageTable
  <2> QED
    BY <2>1, <2>2, <2>3
<1>6. CASE BeforeOpen \/ OpenTarget \/ PersistReceipt \/ AfterOpen
  BY <1>6 DEF BeforeOpen, OpenTarget, PersistReceipt, AfterOpen, CheckRaises
<1>7. CASE Probe
  BY <1>7 DEF Probe, CallbackRaises
<1>8. CASE BeginSeal \/ PersistTerminal \/ SelectResult
  BY <1>8 DEF BeginSeal, PersistTerminal, SelectResult, CallbackRaises
<1>9. CASE BeginFailureSeal \/ FailureSealer
  BY <1>9 DEF BeginFailureSeal, FailureSealer
<1>10. CASE SelectFailure
  <2>1. phase = "failure_sealed" /\ stage \in ScientificStages \cup {"terminal_seal"}
    BY <1>10 DEF SelectFailure, IInv, TypeOK, PhaseOfStage, EndStages
  <2>2. stage' = "terminal_package" \/ (stage' = stage /\ phase' = "unsealed")
    BY <1>10 DEF SelectFailure
  <2>3. StageOrder[stage] \in 1 .. 10
    BY <2>1, StageTable
  <2> QED
    BY <2>1, <2>2, <2>3
<1>11. CASE RaiseUnsealed \/ Report \/ Kill \/ Rerun
  BY <1>11 DEF RaiseUnsealed, Report, Kill, Rerun
<1>12. CASE Package \/ VerifyPackage \/ ProtectedTreePostflight \/ ReleaseModel
  <2>1. CASE Package
    BY <2>1 DEF Package
  <2>2. CASE VerifyPackage
    BY <2>2 DEF VerifyPackage
  <2>3. CASE ProtectedTreePostflight
    BY <2>3 DEF ProtectedTreePostflight
  <2>4. CASE ReleaseModel
    BY <2>4 DEF ReleaseModel
  <2> QED
    BY <1>12, <2>1, <2>2, <2>3, <2>4
<1> QED
  BY <1>2, <1>3, <1>4, <1>5, <1>6, <1>7, <1>8, <1>9, <1>10, <1>11, <1>12 DEF Next, Step

(* Theorem: no stage, read, seal or cleanup of one process of
   run_material_lifecycle is done again: a step ends the process, enters a later stage, a later phase of its
   stage, or moves the clock inside the budget.  Stages and phases are few
   and the budget is finite, so a process makes finitely many steps; that it has
   a next one until it ends is what Terminates adds under fairness.        *)
THEOREM MaterialMovesForward == Spec => [][Forward]_vars
<1>1. IInv /\ [Next]_vars => [Forward]_vars
  BY ForwardStep
<1> QED
  BY <1>1, Inductive, PTL DEF Spec

(* The processes that run run_material_lifecycle for one run id, each after the
   end of the one before, are one attempt of AttemptLifecycle: it follows the
   transition table, its target is opened at most once and the first terminal
   selected stays.                                                         *)
THEOREM MaterialImplementsAttempt == Spec => ImplementsAttempt
<1>1. Init => Attempt!Init
  BY DEF Init, Attempt!Init, AttemptNow, OutcomeNow, IsRetry
<1>2. IInv /\ [Next]_vars => [Attempt!Next]_(Attempt!vars)
  BY StepRefines
<1> QED
  BY <1>1, <1>2, Inductive, PTL DEF Spec, ImplementsAttempt, Attempt!Spec
=============================================================================
