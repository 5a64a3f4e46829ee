--------------------------- MODULE MaterialRuntime ---------------------------
(***************************************************************************)
(* run_material_lifecycle (a0x_material_runtime.py) in the child process,  *)
(* together with the callbacks its two production adapters give it, the    *)
(* one-shot target reader and the terminal sealer; and, once a process has *)
(* come to its end, any number of later ones for the same pair and run id. *)
(*                                                                         *)
(* Every deadline.check / deadline.observe is a sample of the clock, any   *)
(* member of Clock: later than the last one, past the budget, or earlier   *)
(* than the last one (the code checks for that too).  Any callback may     *)
(* raise, any file operation may fail, and the process may be killed       *)
(* between any two steps.  Files survive; everything else dies with it.    *)
(***************************************************************************)
EXTENDS Naturals

CONSTANTS
  Clock,     \* values a clock sample may take, the start being 0
  Budget     \* INTERNAL_BUDGET_SECONDS

ASSUME ClockAssumption   == Clock \subseteq Nat /\ 0 \in Clock
ASSUME BudgetAssumption  == Budget \in Nat \ {0}

VARIABLES
  adapter,      \* which adapter built the callbacks; it never changes
  stage,        \* the lifecycle's "stage"
  phase,        \* where inside the stage control is
  last,         \* _Deadline._last_observed
  cause,        \* the exception being handled, or "none"
  attemptState, \* AttemptState
  model,        \* the model object and the fate of its release
  bound,        \* what of the adapter's inputs exists: its workspace, then all
  opens,        \* content opens of the sealed target
  reading,      \* status and content_reads inside read_jsonl_once
  receipt,      \* target-read-receipt.json
  evidence,     \* status from the evidence probe; "unreadable" if it raised
  reads,        \* target_content_reads
  result,       \* status of the frozen analysis
  terminalFile, \* terminal-result.json / analysis-terminal-result.json
  failureFile,  \* the vertical adapter's material-failure.json exists
  terminal,     \* status of terminal_outcome, or "none"
  status,       \* lifecycle_status before post-terminal failures
  package,      \* package_path is known
  verified,     \* the package verifier accepted the package
  postFailure,  \* post_terminal_failure is recorded
  exit,         \* how the child process ended
  earlier       \* history: what the attempt had come to before this process

attemptVars == <<attemptState, opens, terminal>>
fileVars    == <<receipt, terminalFile, failureFile>>
readVars    == <<reading, evidence, reads>>
endVars     == <<status, package, verified, postFailure>>
vars == <<adapter, earlier, stage, phase, last, cause, attemptVars, model, bound,
          fileVars, readVars, result, endVars, exit>>

NoProcess == [attempt |-> "none", outcome |-> "none"]
IsRetry   == earlier # NoProcess

(* Where the attempt stands, whichever of its processes brought it there: a
   later process adds nothing to it unless it selects a terminal.          *)
AttemptNow == IF IsRetry /\ terminal = "none" THEN earlier.attempt ELSE attemptState
OutcomeNow == IF IsRetry /\ terminal = "none" THEN earlier.outcome ELSE terminal

Attempt == INSTANCE AttemptLifecycle WITH attemptState <- AttemptNow, outcome <- OutcomeNow

ReadStatuses   == {"pass", "read_failed", "hash_mismatch", "parse_failed",
                   "selection_mismatch"}
ResultStatuses == {"positive", "null", "non_interpretable"}

(* The stages under the scientific budget, each with the one that follows. *)
NextStage ==
  [static_preflight       |-> "model_identity",
   model_identity         |-> "tokenizer_construction",
   tokenizer_construction |-> "model_construction",
   model_construction     |-> "activation",
   activation             |-> "activation_sealing",
   activation_sealing     |-> "reader_construction",
   reader_construction    |-> "target_read",
   target_read            |-> "frozen_analysis",
   frozen_analysis        |-> "terminal_seal"]
ScientificStages == DOMAIN NextStage
CleanupStages    == {"terminal_package", "independent_package_verification",
                     "protected_tree_postflight", "model_release"}

(* The stages whose callback itself calls check_deadline. *)
CheckedStages ==
  IF adapter = "historical" THEN {"activation", "frozen_analysis"}
  ELSE {"static_preflight", "model_construction", "activation"}

NoFile     == [state |-> "absent",     status |-> "none", reads |-> 0,
               from |-> "none"]
BrokenFile == [NoFile EXCEPT !.state = "incomplete"]
File(s, n, f) == [state |-> "complete", status |-> s, reads |-> n, from |-> f]

Init ==
  /\ adapter \in {"historical", "vertical"}
  /\ stage = "static_preflight" /\ phase = "enter"
  /\ last = 0
  /\ cause = "none"
  /\ attemptState = "preflight" /\ opens = 0 /\ terminal = "none"
  /\ model = "none"
  /\ bound = IF adapter = "historical" THEN "nothing" ELSE "inputs"
  /\ receipt = NoFile /\ terminalFile = NoFile /\ failureFile = FALSE
  /\ reading = [status |-> "none", reads |-> 0]
  /\ evidence = "none" /\ reads = 0
  /\ result = "none"
  /\ status = "none"
  /\ package = FALSE /\ verified = FALSE /\ postFailure = FALSE
  /\ exit = "running"
  /\ earlier = NoProcess

-----------------------------------------------------------------------------
(* Control and clock.                                                      *)

At(s, p) == exit = "running" /\ stage = s /\ phase = p
Goto(s, p) == stage' = s /\ phase' = p /\ UNCHANGED <<cause, exit>>

(* An exception leaves for phase p ("failing" reaches first_failure). *)
Raise(e, p) ==
  /\ phase' = p
  /\ cause' = e
  /\ UNCHANGED <<stage, exit>>

(* _Deadline.observe: a sample that is not earlier than the last one.      *)
Observed(t)  == t >= last /\ last' = t
Regressed(t) == t < last /\ UNCHANGED last

(* Variant: the budget is exceeded only after its last instant. *)
CheckPassesLate(t) == t <= Budget /\ Observed(t)

(* _Deadline.check *)
CheckPasses(t) == t < Budget /\ Observed(t)
CheckRaises(t, p) ==
  \/ Regressed(t) /\ Raise("clock", p)
  \/ t >= Budget /\ Observed(t) /\ Raise("deadline", p)

(* A callback raised: the timing of the stage takes one more sample, whose
   own failure replaces the exception.                                     *)
CallbackRaises(t) ==
  \/ Observed(t) /\ Raise("error", "failing")
  \/ Regressed(t) /\ Raise("clock", "failing")

-----------------------------------------------------------------------------
(* Scientific stages.                                                      *)

(* invoke: the check before the callback. *)
Enter ==
  /\ exit = "running" /\ stage \in ScientificStages /\ phase = "enter"
  /\ \E t \in Clock :
       \/ CheckPasses(t) /\ Goto(stage, "run")
       \/ CheckRaises(t, "failing")
  /\ UNCHANGED <<adapter, earlier, attemptVars, model, bound, fileVars, readVars, result,
                 endVars>>

(* check_deadline called from inside a callback. *)
InnerCheck ==
  /\ exit = "running" /\ stage \in CheckedStages /\ phase = "run"
  /\ \E t \in Clock :
       \/ CheckPasses(t) /\ Goto(stage, "run")
       \/ CheckRaises(t, "failing")
  /\ UNCHANGED <<adapter, earlier, attemptVars, model, bound, fileVars, readVars, result,
                 endVars>>

(* Variant: the preflight goes on in a workspace that is there already. *)
CallbackReturnsAgain ==
  /\ exit = "running" /\ phase = "run"
  /\ stage \in ScientificStages \ {"target_read", "frozen_analysis"}
  /\ stage = "reader_construction" => receipt.state = "absent"
  /\ Goto(stage, "leave")
  /\ bound' = IF stage = "static_preflight" THEN "inputs" ELSE bound
  /\ model' = IF stage = "model_construction" THEN "held" ELSE model
  /\ receipt' = IF stage = "reader_construction" THEN BrokenFile ELSE receipt
  /\ UNCHANGED <<adapter, earlier, last, attemptVars, terminalFile, failureFile, readVars,
                 result, endVars>>

(* A callback returns: the preflight binds the adapter's inputs, the model
   is stored before its post-check, the reader reserves its receipt.  The
   preflight refuses a workspace that is there, the reader a receipt that is. *)
CallbackReturns ==
  /\ exit = "running" /\ phase = "run"
  /\ stage \in ScientificStages \ {"target_read", "frozen_analysis"}
  /\ stage = "static_preflight" => bound # "workspace"
  /\ stage = "reader_construction" => receipt.state = "absent"
  /\ Goto(stage, "leave")
  /\ bound' = IF stage = "static_preflight" THEN "inputs" ELSE bound
  /\ model' = IF stage = "model_construction" THEN "held" ELSE model
  /\ receipt' = IF stage = "reader_construction" THEN BrokenFile ELSE receipt
  /\ UNCHANGED <<adapter, earlier, last, attemptVars, terminalFile, failureFile, readVars,
                 result, endVars>>

(* The frozen analysis returns one of its statuses, or something else. *)
AnalysisReturns ==
  /\ At("frozen_analysis", "run")
  /\ result' \in ResultStatuses \cup {"other"}
  /\ Goto(stage, "leave")
  /\ UNCHANGED <<adapter, earlier, last, attemptVars, model, bound, fileVars, readVars,
                 endVars>>

(* Variant: a failing stage is tried again. *)
StageFailsRetried ==
  /\ exit = "running" /\ phase = "run" /\ stage \in ScientificStages \ {"target_read"}
  /\ \E t \in Clock : Observed(t) /\ Goto(stage, "enter")
  /\ UNCHANGED <<adapter, earlier, attemptVars, model, bound, fileVars, readVars, result,
                 endVars>>

(* The historical preflight may fail before or after it made its workspace. *)
StageFails ==
  /\ exit = "running" /\ phase = "run" /\ stage \in ScientificStages \ {"target_read"}
  /\ \E t \in Clock : CallbackRaises(t)
  /\ \/ UNCHANGED bound
     \/ stage = "static_preflight" /\ bound = "nothing" /\ bound' = "workspace"
  /\ UNCHANGED <<adapter, earlier, attemptVars, model, fileVars, readVars, result, endVars>>

(* invoke: the check after the callback, then the lifecycle event. *)
StageEvent ==
  IF stage = "model_construction" THEN "activation_started"
  ELSE IF stage = "target_read" THEN "analysis_started" ELSE "none"
Leave ==
  /\ exit = "running" /\ stage \in ScientificStages /\ phase = "leave"
  /\ \E t \in Clock :
       \/ /\ CheckPasses(t)
          /\ Goto(NextStage[stage], "enter")
          /\ attemptState' = IF StageEvent = "none" THEN attemptState
                             ELSE Attempt!ReduceAttempt(attemptState, StageEvent)
       \/ CheckRaises(t, "failing") /\ UNCHANGED attemptState
  /\ UNCHANGED <<adapter, earlier, opens, terminal, model, bound, fileVars, readVars,
                 result, endVars>>

-----------------------------------------------------------------------------
(* target_read: OneShotTargetReader.read_jsonl_once and the evidence probe. *)

(* check("target-read-before-open"); only the historical adapter makes it.  *)
BeforeOpen ==
  /\ At("target_read", "run")
  /\ \/ adapter = "vertical" /\ Goto(stage, "open") /\ UNCHANGED last
     \/ /\ adapter = "historical"
        /\ \E t \in Clock :
             \/ CheckPasses(t) /\ Goto(stage, "open")
             \/ CheckRaises(t, "probe")
  /\ UNCHANGED <<adapter, earlier, attemptVars, model, bound, fileVars, readVars, result,
                 endVars>>

(* The open fails, or content_reads becomes 1 and the read, hash, parse or
   selection gives the status.                                            *)
OpenTarget ==
  /\ At("target_read", "open")
  /\ Goto(stage, "receipt")
  /\ \/ reading' = [status |-> "read_failed", reads |-> 0] /\ UNCHANGED opens
     \/ /\ opens' = opens + 1
        /\ \E s \in ReadStatuses : reading' = [status |-> s, reads |-> 1]
  /\ UNCHANGED <<adapter, earlier, last, attemptState, terminal, model, bound, fileVars,
                 evidence, reads, result, endVars>>

(* Variant: a read that did not pass leaves without the evidence probe. *)
PersistReceiptUnprobed ==
  /\ At("target_read", "receipt")
  /\ receipt' = File(reading.status, reading.reads, "activation")
  /\ IF reading.status = "pass" THEN Goto(stage, "opened") ELSE Raise("error", "failing")
  /\ UNCHANGED <<adapter, earlier, last, attemptVars, model, bound, terminalFile,
                 failureFile, readVars, result, endVars>>

(* The finally clause writes the reserved receipt; a failed write leaves it
   incomplete and raises.  Only a passing read returns rows.               *)
PersistReceipt ==
  /\ At("target_read", "receipt")
  /\ \/ /\ receipt' = File(reading.status, reading.reads, "activation")
        /\ IF reading.status = "pass" THEN Goto(stage, "opened")
                                      ELSE Raise("error", "probe")
     \/ UNCHANGED receipt /\ Raise("error", "probe")
  /\ UNCHANGED <<adapter, earlier, last, attemptVars, model, bound, terminalFile,
                 failureFile, readVars, result, endVars>>

(* check("target-read-after-open"), historical adapter only. *)
AfterOpen ==
  /\ At("target_read", "opened")
  /\ \/ adapter = "vertical" /\ Goto(stage, "probe") /\ UNCHANGED last
     \/ /\ adapter = "historical"
        /\ \E t \in Clock :
             \/ CheckPasses(t) /\ Goto(stage, "probe")
             \/ CheckRaises(t, "probe")
  /\ UNCHANGED <<adapter, earlier, attemptVars, model, bound, fileVars, readVars, result,
                 endVars>>

(* record_target_read_evidence, on the way out of every branch: evidence
   that can be read advances the attempt and the pending exception goes on;
   evidence that cannot be read is a new exception.                        *)
Probe ==
  /\ At("target_read", "probe")
  /\ \/ /\ receipt.state = "complete"
        /\ evidence' = receipt.status
        /\ reads' = receipt.reads
        /\ attemptState' = Attempt!ReduceAttempt(attemptState, "target_reserved")
        /\ \/ cause = "none" /\ Goto(stage, "leave") /\ UNCHANGED last
           \/ cause \in {"deadline", "clock"} /\ Raise(cause, "failing") /\ UNCHANGED last
           \/ cause = "error" /\ \E t \in Clock : CallbackRaises(t)
     \/ /\ evidence' = "unreadable"
        /\ Raise("error", "failing")
        /\ UNCHANGED <<last, reads, attemptState>>
  /\ UNCHANGED <<adapter, earlier, opens, terminal, model, bound, fileVars, reading, result,
                 endVars>>

-----------------------------------------------------------------------------
(* Selecting the terminal.                                                 *)

(* seal_terminal_attempt's refusals for a result of the analysis. *)
Sealable(s) ==
  /\ terminalFile.state = "absent"
  /\ attemptState = "analysis"
  /\ s \in ResultStatuses
  /\ receipt.status = "pass" /\ receipt.reads = 1

(* terminal_seal under cleanup_invoke: sample, seal, sample. *)
BeginSeal ==
  /\ At("terminal_seal", "enter")
  /\ \E t \in Clock :
       \/ Observed(t) /\ Goto(stage, "persist")
       \/ Regressed(t) /\ Raise("clock", "failing")
  /\ UNCHANGED <<adapter, earlier, attemptVars, model, bound, fileVars, readVars, result,
                 endVars>>

(* Variant: a terminal write that broke off is taken for a sealed terminal. *)
PersistTerminalUnchecked ==
  /\ At("terminal_seal", "persist")
  /\ Sealable(result)
  /\ terminalFile' \in {File(result, 1, "analysis"), BrokenFile}
  /\ Goto(stage, "persisted")
  /\ UNCHANGED <<adapter, earlier, last, attemptVars, model, bound, receipt, failureFile,
                 readVars, result, endVars>>

(* The exclusive write succeeds, is refused, or breaks off; the vertical
   sealer may still fail on the statistic's digest after the write.        *)
PersistTerminal ==
  /\ At("terminal_seal", "persist")
  /\ \/ /\ Sealable(result)
        /\ terminalFile' = File(result, 1, "analysis")
        /\ Goto(stage, "persisted") /\ UNCHANGED last
     \/ /\ \/ UNCHANGED terminalFile
           \/ Sealable(result) /\ terminalFile' = BrokenFile
           \/ /\ adapter = "vertical" /\ Sealable(result)
              /\ terminalFile' = File(result, 1, "analysis")
        /\ \E t \in Clock : CallbackRaises(t)
  /\ UNCHANGED <<adapter, earlier, attemptVars, model, bound, receipt, failureFile,
                 readVars, result, endVars>>

SelectResult ==
  /\ At("terminal_seal", "persisted")
  /\ \E t \in Clock :
       \/ /\ Observed(t)
          /\ terminal' = result
          /\ attemptState' = Attempt!ReduceAttempt(attemptState, "terminal_selected")
          /\ status' = "completed"
          /\ Goto("terminal_package", "enter")
       \/ /\ Regressed(t) /\ Raise("clock", "failing")
          /\ UNCHANGED <<terminal, attemptState, status>>
  /\ UNCHANGED <<adapter, earlier, opens, model, bound, fileVars, readVars, result, package,
                 verified, postFailure>>

(* first_failure: sample, call the adapter's failure sealer, sample. *)
BeginFailureSeal ==
  /\ exit = "running" /\ phase = "failing"
  /\ \E t \in Clock :
       \/ Observed(t) /\ phase' = "failure_seal"
       \/ Regressed(t) /\ phase' = "unsealed"
  /\ UNCHANGED <<adapter, earlier, stage, cause, exit, attemptVars, model, bound, fileVars,
                 readVars, result, endVars>>

(* Variant: the failure sealer replaces whatever terminal it finds. *)
FailureSealerOverwrites ==
  /\ exit = "running" /\ phase = "failure_seal"
  /\ terminalFile' = File("failed",
       IF attemptState = "analysis" THEN receipt.reads ELSE 0, attemptState)
  /\ phase' = "failure_sealed"
  /\ UNCHANGED <<adapter, earlier, stage, last, cause, exit, attemptVars, model, bound,
                 receipt, failureFile, readVars, result, endVars>>

(* The historical sealer writes the attempt's terminal artifact into the
   workspace, refusing an existing one; the vertical one writes a separate
   failure record.                                                         *)
FailureSealer ==
  /\ exit = "running" /\ phase = "failure_seal"
  /\ \/ /\ adapter = "historical" /\ terminalFile.state = "absent"
        /\ bound # "nothing"
        /\ terminalFile' = File("failed",
             IF attemptState = "analysis" THEN receipt.reads ELSE 0, attemptState)
        /\ phase' = "failure_sealed" /\ UNCHANGED failureFile
     \/ /\ adapter = "vertical"
        /\ failureFile' = TRUE
        /\ phase' = "failure_sealed" /\ UNCHANGED terminalFile
     \/ /\ phase' = "unsealed" /\ UNCHANGED failureFile
        /\ \/ UNCHANGED terminalFile
           \/ /\ adapter = "historical" /\ terminalFile.state = "absent"
              /\ bound # "nothing"
              /\ terminalFile' = BrokenFile
  /\ UNCHANGED <<adapter, earlier, stage, last, cause, exit, attemptVars, model, bound,
                 receipt, readVars, result, endVars>>

(* Variant: a failure after the analysis keeps the status it had computed. *)
FailureOutcomeOfResult ==
  IF cause = "deadline" /\ adapter = "historical" THEN "non_interpretable"
  ELSE IF result = "none" THEN "failed" ELSE result

(* An exhausted budget is relabelled, except in the vertical terminal. *)
FailureOutcome ==
  IF cause = "deadline" /\ adapter = "historical" THEN "non_interpretable" ELSE "failed"
SelectFailure ==
  /\ exit = "running" /\ phase = "failure_sealed"
  /\ \E t \in Clock :
       \/ /\ Observed(t)
          /\ terminal' = FailureOutcome
          /\ attemptState' = Attempt!ReduceAttempt(attemptState, "terminal_selected")
          /\ status' = "sealed_failure"
          /\ Goto("terminal_package", "enter")
       \/ /\ Regressed(t)
          /\ phase' = "unsealed"
          /\ UNCHANGED <<stage, cause, exit, terminal, attemptState, status>>
  /\ UNCHANGED <<adapter, earlier, opens, model, bound, fileVars, readVars, result, package,
                 verified, postFailure>>

(* release: attempted once; the reference is dropped whatever happens. *)
Release ==
  \/ model = "held" /\ model' \in {"released", "release_failed"}
  \/ model # "held" /\ UNCHANGED model

(* Variant: the unsealed failure is raised at once. *)
RaiseUnsealedAtOnce ==
  /\ exit = "running" /\ phase = "unsealed"
  /\ exit' = "executor_failed"
  /\ UNCHANGED <<adapter, earlier, stage, phase, last, cause, attemptVars, model, bound,
                 fileVars, readVars, result, endVars>>

(* The failure could not be sealed: release the model and raise. *)
RaiseUnsealed ==
  /\ exit = "running" /\ phase = "unsealed"
  /\ Release
  /\ exit' = "executor_failed"
  /\ UNCHANGED <<adapter, earlier, stage, phase, last, cause, attemptVars, bound, fileVars,
                 readVars, result, endVars>>

-----------------------------------------------------------------------------
(* cleanup_terminal.  Every step samples the clock without the budget; a
   failing sample or callback only records a post-terminal failure.        *)

Elapse == \E t \in Clock : Observed(t)

(* The historical builder compares the terminal with the persisted one. *)
Packageable ==
  adapter = "historical" => /\ bound = "inputs"
                            /\ terminalFile.state = "complete"
                            /\ terminalFile.status = terminal

Package ==
  /\ At("terminal_package", "enter")
  /\ Elapse
  /\ \/ /\ Packageable
        /\ package' = TRUE
        /\ Goto("independent_package_verification", "enter")
        /\ UNCHANGED postFailure
     \/ /\ postFailure' = TRUE
        /\ Goto("model_release", "enter")
        /\ UNCHANGED package
  /\ UNCHANGED <<adapter, earlier, attemptVars, model, bound, fileVars, readVars, result,
                 status, verified>>

(* The closing sample may fail after the verifier has accepted. *)
VerifyPackage ==
  /\ At("independent_package_verification", "enter")
  /\ Elapse
  /\ \/ verified' = TRUE /\ UNCHANGED postFailure
     \/ postFailure' = TRUE /\ verified' \in BOOLEAN
  /\ Goto("protected_tree_postflight", "enter")
  /\ UNCHANGED <<adapter, earlier, attemptVars, model, bound, fileVars, readVars, result,
                 status, package>>

ProtectedTreePostflight ==
  /\ At("protected_tree_postflight", "enter")
  /\ Elapse
  /\ postFailure' \in {postFailure, TRUE}
  /\ Goto("model_release", "enter")
  /\ UNCHANGED <<adapter, earlier, attemptVars, model, bound, fileVars, readVars, result,
                 status, package, verified>>

ReleaseModel ==
  /\ At("model_release", "enter")
  /\ Elapse
  /\ Release
  /\ \/ model' = "release_failed" /\ postFailure' = TRUE
     \/ model' # "release_failed" /\ UNCHANGED postFailure
  /\ Goto("returned", "enter")
  /\ UNCHANGED <<adapter, earlier, attemptVars, bound, fileVars, readVars, result, status,
                 package, verified>>

(* Variant: a selected terminal is enough to complete. *)
CanCompleteUnverified == package

(* What the child reports: the vertical child completes only on a verified
   package and a clean end, after it has written the lifecycle result; the
   historical executor passes on the terminal status alone.                *)
CanComplete == verified /\ package /\ ~postFailure
Report ==
  /\ At("returned", "enter")
  /\ \/ adapter = "historical" /\ exit' = "completed"
     \/ adapter = "vertical" /\ CanComplete /\ exit' = "completed"
     \/ adapter = "vertical" /\ exit' = "executor_failed"
  /\ UNCHANGED <<adapter, earlier, stage, phase, last, cause, attemptVars, model, bound,
                 fileVars, readVars, result, endVars>>

(* The outer guard, the operator or the machine ends the process, maybe
   between the mkdir of the workspace and the return of the preflight.     *)
Kill ==
  /\ exit = "running"
  /\ exit' = "killed"
  /\ \/ UNCHANGED bound
     \/ At("static_preflight", "run") /\ bound = "nothing" /\ bound' = "workspace"
  /\ UNCHANGED <<adapter, earlier, stage, phase, last, cause, attemptVars, model, fileVars,
                 readVars, result, endVars>>

(* The pair is run once more under the same run id.  Only the files and the
   workspace outlive a process.  The historical lifecycle starts and meets
   them; the vertical adapter refuses an occupied namespace before it does.  *)
Rerun ==
  /\ exit # "running"
  /\ earlier' = IF bound = "nothing" THEN earlier
                ELSE [attempt |-> AttemptNow, outcome |-> OutcomeNow]
  /\ bound' = IF adapter = "historical" /\ bound # "nothing" THEN "workspace" ELSE bound
  /\ exit' = IF adapter = "vertical" THEN "executor_failed" ELSE "running"
  /\ stage' = "static_preflight" /\ phase' = "enter" /\ last' = 0 /\ cause' = "none"
  /\ attemptState' = "preflight" /\ terminal' = "none" /\ model' = "none"
  /\ reading' = [status |-> "none", reads |-> 0] /\ evidence' = "none" /\ reads' = 0
  /\ result' = "none" /\ status' = "none"
  /\ package' = FALSE /\ verified' = FALSE /\ postFailure' = FALSE
  /\ UNCHANGED <<adapter, opens, fileVars>>

Step ==
  \/ Enter \/ InnerCheck \/ CallbackReturns \/ AnalysisReturns \/ StageFails \/ Leave
  \/ BeforeOpen \/ OpenTarget \/ PersistReceipt \/ AfterOpen \/ Probe
  \/ BeginSeal \/ PersistTerminal \/ SelectResult
  \/ BeginFailureSeal \/ FailureSealer \/ SelectFailure \/ RaiseUnsealed
  \/ Package \/ VerifyPackage \/ ProtectedTreePostflight \/ ReleaseModel \/ Report

Next == Step \/ Kill \/ Rerun

Spec     == Init /\ [][Next]_vars
FairSpec == Spec /\ WF_vars(Step)

-----------------------------------------------------------------------------
(* Properties.                                                             *)

FlagsOK ==
  /\ failureFile \in BOOLEAN /\ package \in BOOLEAN
  /\ verified \in BOOLEAN /\ postFailure \in BOOLEAN

TypeOK ==
  /\ adapter \in {"historical", "vertical"}
  /\ stage \in ScientificStages \cup CleanupStages \cup {"terminal_seal", "returned"}
  /\ phase \in {"enter", "run", "leave", "open", "receipt", "opened", "probe",
                "persist", "persisted", "failing", "failure_seal", "failure_sealed",
                "unsealed"}
  /\ last \in Clock
  /\ cause \in {"none", "error", "clock", "deadline"}
  /\ attemptState \in Attempt!States
  /\ model \in {"none", "held", "released", "release_failed"}
  /\ opens \in {0, 1}
  /\ reading \in [status : ReadStatuses \cup {"none"}, reads : {0, 1}]
  /\ {receipt, terminalFile} \subseteq
       [state : {"absent", "incomplete", "complete"},
        status : ReadStatuses \cup Attempt!Statuses \cup {"none"},
        reads : {0, 1}, from : Attempt!States \cup {"none"}]
  /\ evidence \in ReadStatuses \cup {"none", "unreadable"}
  /\ reads \in {0, 1}
  /\ result \in ResultStatuses \cup {"none", "other"}
  /\ terminal \in Attempt!Statuses \cup {"none"}
  /\ status \in {"none", "completed", "sealed_failure"}
  /\ bound \in {"nothing", "workspace", "inputs"}
  /\ FlagsOK
  /\ exit \in {"running", "completed", "executor_failed", "killed"}
  /\ earlier \in [attempt : Attempt!States, outcome : Attempt!Statuses \cup {"none"}]
                 \cup {NoProcess}

(* The receipt name is taken before the target can be opened, so that a run
   killed at any point after the open leaves a file that bars a second read. *)
ReservedBeforeOpened == opens = 1 => receipt.state # "absent"

(* A lifecycle that ends with a terminal reports the read of the target it
   made, whichever exception ended it; the one way to lose it is a probe
   that could not read the receipt.                                        *)
ReadIsNeverHidden ==
  terminal # "none" /\ reading.reads = 1 => reads = 1 \/ evidence = "unreadable"

(* A positive, null or measured non-interpretable outcome of a completed
   lifecycle is the one sealed on disk, after one passing read of the
   target that the receipt on disk records.                               *)
ResultRestsOnOneRead ==
  status = "completed" =>
    /\ terminalFile = File(terminal, 1, "analysis")
    /\ terminal = result
    /\ receipt = File("pass", 1, "activation")
    /\ opens = 1

(* A model that was constructed is handed to its release before the
   lifecycle returns or raises, on every path the process survives.       *)
NoModelLeftBehind == exit \in {"completed", "executor_failed"} => model # "held"

(* What the vertical child calls completed rests on one durable record and a
   verified package: the sealed analysis result with no failure record beside
   it, or the failure record of a failed attempt.                         *)
CompletedIsDurable ==
  adapter = "vertical" /\ exit = "completed" =>
    /\ package /\ verified /\ ~postFailure
    /\ model \in {"none", "released"}
    /\ \/ terminalFile = File(terminal, 1, "analysis") /\ ~failureFile
       \/ terminal = "failed" /\ failureFile

(* Receipt and terminal are written once, in the process that made them and
   in every later one: a complete or broken terminal and a complete receipt
   are never touched again, so the first sealed outcome stays.             *)
ArtifactsWriteOnce ==
  [][/\ terminalFile.state # "absent" => UNCHANGED terminalFile
     /\ receipt.state = "complete" => UNCHANGED receipt]_vars

(* No model is constructed, no target opened and no analysis completed once
   a clock sample has reached the budget; sealing and cleanup go on.      *)
NoScienceAfterBudget ==
  [][exit = "running" /\ last >= Budget =>
       UNCHANGED <<opens, result>> /\ (model' = "held" => model = "held")]_vars

(* The processes of a run id, one after the other, implement one attempt: its
   transition table, its one read and its final first outcome.  A process
   that finds the work of a killed one may fail it, never resume or redo it. *)
ImplementsAttempt == Attempt!Spec

(* Whatever fails, and in whatever order, every child comes to an end: no
   stage is retried and no failure handler waits for another.             *)
Terminates == []<>(exit # "running")

-----------------------------------------------------------------------------
(* The inductive invariant: where control is decides what the attempt, the  *)
(* receipt and the terminal may be.                                        *)

EarlyStages   == {"static_preflight", "model_identity", "tokenizer_construction",
                  "model_construction"}
ReadingStages == {"activation", "activation_sealing", "reader_construction"}
LateStages    == {"frozen_analysis", "terminal_seal"}
EndStages     == CleanupStages \cup {"returned"}
FailingPhases == {"failing", "failure_seal", "failure_sealed", "unsealed"}
OpenPhases    == {"receipt", "opened", "probe"}

(* Which phases a stage goes through. *)
PhaseOfStage ==
  /\ phase \in {"open"} \cup OpenPhases => stage = "target_read"
  /\ phase \in {"persist", "persisted"} => stage = "terminal_seal"
  /\ phase \in {"run", "leave"} => stage \in ScientificStages
  /\ phase \in {"run", "open"} => last < Budget
  /\ stage \in EndStages => phase = "enter"

(* Which attempt state a stage is in. *)
AttemptOfStage ==
  /\ stage \in EarlyStages => attemptState = "preflight"
  /\ stage \in ReadingStages => attemptState = "activation"
  /\ stage = "target_read" =>
       IF phase = "leave" THEN attemptState = "analysis"
       ELSE IF phase \in FailingPhases THEN attemptState \in {"activation", "analysis"}
       ELSE attemptState = "activation"
  /\ stage \in LateStages => attemptState = "analysis"
  /\ stage \in EndStages <=> attemptState = "sealed"

(* What the reader has done and left on disk. *)
ReadOfStage ==
  /\ ~IsRetry => opens = reading.reads
  /\ reading.status = "pass" => reading.reads = 1
  /\ reads = 1 => reading.reads = 1
  /\ \/ stage \in EarlyStages \cup ReadingStages
     \/ stage = "target_read" /\ phase \in {"enter", "run", "open"}
     => reading = [status |-> "none", reads |-> 0]
  /\ ~IsRetry =>
       /\ receipt \in {NoFile, BrokenFile, File(reading.status, reading.reads, "activation")}
       /\ receipt.state = "complete" => reading.status # "none"
  /\ opens = 1 => receipt.state # "absent"
  /\ stage = "reader_construction" /\ phase = "leave" => receipt # NoFile
  /\ stage \in {"target_read"} \cup LateStages => receipt # NoFile
  /\ reading.reads = 1 /\ phase \notin OpenPhases => reads = 1 \/ evidence = "unreadable"
  /\ phase = "receipt" => receipt = BrokenFile /\ reading.status # "none"
  /\ \/ phase = "opened"
     \/ phase = "probe" /\ cause = "none"
     \/ stage = "target_read" /\ phase = "leave"
     \/ stage \in LateStages
     => opens = 1 /\ receipt = File("pass", 1, "activation")

(* What is sealed, and what is selected. *)
TerminalOfStage ==
  /\ terminal # "none" <=> stage \in EndStages
  /\ status # "none" <=> stage \in EndStages
  /\ phase = "persisted" =>
       result \in ResultStatuses /\ terminalFile = File(result, 1, "analysis")
  /\ stage = "returned" => model # "held"

(* What a failure leaves behind, and what a completed child rests on. *)
EndOfStage ==
  /\ failureFile =>
       phase \in {"failure_sealed", "unsealed"} \/ status = "sealed_failure" \/ IsRetry
  /\ adapter = "vertical" /\ phase = "failure_sealed" => failureFile
  /\ adapter = "vertical" /\ status = "sealed_failure" => failureFile
  /\ adapter = "historical" /\ (phase = "failure_sealed" \/ status = "sealed_failure") =>
       terminalFile.state = "complete" /\ terminalFile.status = "failed"
  /\ status = "sealed_failure" => terminal = FailureOutcome
  /\ model = "release_failed" => postFailure \/ exit = "executor_failed"
  /\ exit = "completed" => stage = "returned" /\ (adapter = "vertical" => CanComplete)

(* What a process leaves to the next one, and how far that one gets: it dies
   in the preflight and may still seal a failure where no terminal is.     *)
RetryOfStage ==
  /\ bound = "nothing" =>
       /\ ~IsRetry /\ adapter = "historical"
       /\ stage = "static_preflight" /\ phase # "leave"
       /\ opens = 0 /\ receipt = NoFile /\ terminalFile = NoFile /\ ~failureFile
  /\ IsRetry =>
       /\ stage \in {"static_preflight"} \cup EndStages /\ phase # "leave"
       /\ reading = [status |-> "none", reads |-> 0]
       /\ model = "none" /\ result = "none" /\ status # "completed"
       /\ IF adapter = "historical" THEN bound = "workspace"
          ELSE exit = "executor_failed" /\ phase = "enter" /\ terminal = "none"
       /\ earlier.attempt = "sealed" <=> earlier.outcome # "none"
       /\ adapter = "historical" /\ earlier.attempt = "sealed" =>
            terminalFile.state # "absent" /\ phase # "failure_sealed" /\ terminal = "none"

IInv ==
  /\ TypeOK /\ PhaseOfStage /\ AttemptOfStage /\ ReadOfStage /\ TerminalOfStage
  /\ EndOfStage /\ RetryOfStage /\ ResultRestsOnOneRead /\ NoModelLeftBehind

(* What the sources say and the code does not keep.                       *)

(* The evidence probe must not "turn a single permitted read into a false
   zero-read receipt": a terminal that reports no read means no open.     *)
NoFalseZeroRead == terminal # "none" => reads = reading.reads

(* The historical lifecycle returns the terminal that its sealer made durable
   in terminal-result.json (the vertical one keeps a failure in a record of
   its own, material-failure.json).                                        *)
ReturnedTerminalIsSealed ==
  adapter = "historical" /\ terminal # "none" => terminalFile.status = terminal
=============================================================================
