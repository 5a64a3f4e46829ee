# Latent-TRIZ in TLA+

Latent-TRIZ is an open laboratory: it asks whether language models carry
representations of TRIZ contradictions, under pre-registered protocols whose
targets are sealed and may be read once. Most of its code is statistics and
document validation. What is hard to get right is the *protocol around the
one read*: a single authorized attempt, run by a supervised process, that
must end with one durable terminal result whatever fails, and must never read
the sealed targets twice or outside its permission window. Around it, every
document that authorizes or records an attempt is *published exclusively*: staged
beside its destination, renamed onto it once, and taken back only by its owner.
The runners of the campaigns and experiments keep the *files of a run id*, over
retries, failing calls and kills, such that one terminal is published; and the
annotation workbench keeps an append-only file in which an acknowledged record
is a record of its own, unless an earlier append broke off. This directory models these four protocols and proves the
statements they rest on.

Source paths below are relative to the repository; `latent_triz` stands for
`src/latent_triz`.

## 1. Inventory

### Components with control worth modelling

| Component | State it keeps | Operations | Hard behaviour | Correct when |
|---|---|---|---|---|
| Material lifecycle (`a0x_material_runtime.py`, `a0x_execution.py`) | stage, attempt state, clock, model, one-shot reader, receipt and terminal files | ten scientific stages, failure sealing, packaging, verification, postflight, release | any callback raises, the clock runs out or backwards, a write breaks, the process dies, a later process finds its files | one read at most, recorded; one sealed terminal; the model released |
| Adapters (`a0x_production_adapter.py`, `a0x_vertical_production_adapter.py`) | workspace files, bound artifacts | the callbacks of the lifecycle, evidence probe, terminal and failure sealer, packager | their own deadline checks fire between a reservation and its use | what they return is what they wrote |
| Gate C launcher (`a0x_ccp_executor.py`, `_launch_validated_vertical_v2`) | modes of the two targets, claim, pre-run, terminal and probe records, its own flags | validate, admit, open the permission window, claim, start the guard, close, probe, seal | several launchers, signals at any step, half-open windows, kills | one owner, one guard, one closing record, targets closed again |
| Guard supervision (`a0x_ccp_executor.py`, `_SubprocessExecutor`) | handlers, reader threads, process group, flags | install, start, watch, terminate, join, restore, conclude | signals during installation and restoration, helpers and escaped descendants, failing cleanup | it always reports; no report but 70 leaves something behind |
| Child scripts (`scripts/a0x_vertical_material_child.py`, `scripts/a0x_material_child.py`) | stdout, exit code | admit, run the lifecycle, report | a report that says more than the lifecycle achieved | exit 0 only for a durable, verified package |
| Fixed-dossier launcher (`_launch_validated_dossier`, same file) | claim, pre-run and terminal observations | as Gate C, without a permission window | as Gate C | as Gate C |
| Exclusive publications (`a0x_vertical_slice.py`, `a0x_vertical_terminal_package.py`, `a0x_hosted_capture.py`, `a0x_hosted_verifier.py`, `a0x_report.py`, `a0_activations.py`, `a0x_a0_activations.py`) | staged directory, destination name | stage, assert, rename exclusively, re-assert, roll back | a rival takes the destination or the stage between check and rename; a failure after the rename | nobody's files but its own are removed; success means a whole package |
| Gate B builder and runtime bundle (`a0x_gate_b_builder.py`, `a0x_runtime_bundle.py`) | a set of exclusively created documents | write one after another | a refused document leaves its predecessors | never overwritten, never half accepted |
| Qualification (`a0x_runner.py`) | qualification claim | reserve, rehash, run, validate the receipt | a claim consumed before the last check | one run per authorization |
| Campaign runners (`a0r1_*`, `a0r2_*`, `a0r2c3_*`) | activation directory, package, result, failure record, report and manifest of a run id | stages activate, analyze, verify and all; failure record; publication | retries after any failure or kill; a result written in place and validated afterwards; two links that should be one step | one terminal is published for good; nothing is computed or read twice; a failure owns up to what it read |
| Experiment runners (`exp001_*`, `exp002_*`, `scripts/run_exp002_stage.py`) | package directory, external score asset, access record | score, read once, analyse, package or failure package; resumed downloads | two calls for one run id; failure between the asset and the package; partial downloads | a manifest binds files of one call; no read is denied; an undisturbed run is published |
| Annotation workbench and blinding (`annotation_workbench.py`, `blinding.py`) | append-only file, in-memory set of pairs, the page; bundle and key | append under a lock, reload, restart; write bundle, write key | request threads, short and failing appends, lost answers, a second session on the file | the page skips nothing; what was acknowledged is a record of its own, but for a torn append; the file loads, but for a torn append, a failed fsync, a file created and never written, or two sessions of one rater |

### Components that are not state machines

Contracts, freezes, schemas, public closures and their checkers
(`a0x_contract.py`, `a0x_freeze.py`, `a0x_public_closure*.py`,
`a0x_material_contract.py`, `validator.py`): pure validation; in the models they
are an input that passes or refuses. Activations, baselines, labs, statistics
and power analyses (`lab0*.py`, `a0_*.py`, `*_analysis.py`,
`representation_extractor.py`): numerical code over in-memory data. Dataset,
claims and documentation tools (`dataset_*.py`, `merge_policy.py`, `docs.py`,
`cli.py`, `scripts/repository_check.py`): a report from fixed files.

### How they interact

```
 launcher ---- permission window, claim, pre-run ----> checkout (modes, JSON files)
    |  run(argv)                                            ^
    v                                                       | target, receipt, terminal
 executor -- Popen, signals, pipes --> guard (ccp) --> child script -- lifecycle(callbacks)
    |  ProcessResult                                        |
    v                                                       v
 launcher: parse stdout, verify package, postflight --> terminal observation
```

The processes share nothing but the file system, the process table and two
pipes. Whatever must survive a crash is a file created with O_EXCL; whatever
decides is read back from such a file.

The campaign and experiment runners meet only in files as well: an invocation
finds what earlier ones left under the run id. The workbench is a server thread
per request over one store, and a page in the rater's browser.

## 2. Modules and how they correspond to the code

| Module | Models | Its state and actions in the code |
|---|---|---|
| `AttemptLifecycle` | what an attempt promises (abstract) | `_ATTEMPT_TRANSITIONS` and `reduce_attempt`; one open of the target; one final outcome |
| `MaterialRuntime` | `run_material_lifecycle` with the callbacks of either adapter (`adapter`), in one process of a run id after the other | `stage` and `phase` are the program counter; each action is the code between two points at which a callback may raise, the clock is sampled, a file operation may fail or the process may die; `Rerun` is the next process, `earlier` (history) what the attempt had come to before it |
| `OneShotAttempt` | what one authorization promises (abstract) | claim, start, close |
| `SupervisedGuard` | what an executor promises its launcher (abstract) | start, exit, report |
| `GateCLaunch` | any number of `_launch_validated_vertical_v2` on one checkout | `diskVars` are the files and modes, `localVars` the locals of each call, `pc` the statement it has reached |
| `GuardExecutor` | one `_SubprocessExecutor.run` with its guard | `flagVars` are the locals of `run`, `procVars` the guard's processes and readers, `sigVars` who owns the handlers |
| `WriteOncePublication` | what the publishers of one destination promise (abstract) | whose directory the destination is, whether it is whole, what each call has answered |
| `ExclusivePublication` | any number of calls of one publisher (`program`): `generate_vertical_slice` ("slice"), `generate_vertical_runtime_package` ("envelope"), `capture_hosted_gate_a` ("hosted"), `build_vertical_terminal_package` ("terminal") | `dirVars` are the names of the parent directory and the files of each directory, `placeVars` the path above it, `txVars` the fields of `_PublicationTransaction` (or `_OutputTransaction`) and the locals of the rollback, `code` the error in flight or the answer, `pc` the next statement |
| `TerminalLedger` | what the files of a run id promise (abstract) | the terminals on file, the one published |
| `CampaignRun` | `main` of `a0r1_runner`, `a0r2_runner` and `a0r2c3_runner` (`program`), invoked again and again for one run id, with the report generators and verifiers they call | `inputs`, `records` and `published` are the files of the run id, `callVars` and `controls` the invocation's stage, exception and statement; `touched`, `loads`, `reads` are history |
| `ExperimentPackage` | the comparative and the R3 runner of EXP-001, `exp002_runner` and `exp002_auto_material` (`program`): any number of overlapping calls for one run id | `author` says which call made each file, `pc`, `mode`, `step` where each call is in its plan of files, `access` its access record; `reads`, `stated`, `disturbed` are history |
| `AnnotationWorkbench` | `AnnotationStore`, `create_server`, the request handler and the page of `annotation_workbench.py` | `session` is what a server holds, `page` what its browser shows, `job` and `pc` the request threads, `file` the JSONL file |
| `MCGateCLaunch`, `MCExclusivePublication`, `MCAnnotationWorkbench` | the symmetry of the identities | |
| `AttemptLifecycleProofs`, `MaterialRuntimeProofs`, `GateCLaunchProofs`, `GuardExecutorProofs`, `ExclusivePublicationProofs`, `CampaignRunProofs`, `ExperimentPackageProofs`, `AnnotationWorkbenchProofs` | theorems | |

The composition is by promise. `GateCLaunch` calls its executor through
`SupervisedGuard`: `GuardsAreSupervised` says that what each launcher sees of its
guard is a behaviour of `SupervisedGuard`, and `KeepsPromise` in `GuardExecutor`
says that the executor delivers that very specification. Both are proved for every
value of the constants, but for the liveness half of `KeepsPromise`. `MaterialRuntime` is
what runs inside the guard; `GateCLaunch` knows of it only that it writes into
the output namespaces and what its exit code and stdout may say by then
(`Results`, `ChildWrites`).

Points of translation worth knowing:

- *Writes.* An exclusive create, its bytes and its sync are steps apart
  (`ReserveClaim`, `WriteClaim`) or one step with the outcomes complete,
  incomplete and refused; a broken write keeps its name occupied, as in the code.
- *Exceptions* are an explicit transfer of control. In `MaterialRuntime` the
  exception being handled is `cause`; when a handler raises itself (the evidence
  probe, a timing sample) the new exception replaces the old one, as Python does.
- *Later processes.* `Rerun` starts the same pair and run id again, once the
  process before has ended, any number of times. Files and the workspace are
  there, everything else starts afresh. The vertical adapter refuses an occupied
  namespace before its lifecycle starts (`a0x_vertical_production_adapter.py:330-333`);
  the historical lifecycle starts, and its preflight refuses the workspace
  (`a0x_production_adapter.py:393-395`); a kill may fall between the `mkdir` of that
  workspace and the return of the preflight. `AttemptNow` and `OutcomeNow` are the
  attempt over all processes: a later one changes it only by selecting a terminal.
  Two processes of one run id at a time are not modelled: the claim of the launcher
  allows one guard (`GateCOneProcess`).
- *Clock.* Every `deadline.check` and `deadline.observe` takes one sample; the
  model lets a sample be later, past the budget or earlier than the last.
- *Exit codes.* `Results` lists the codes the guard may return together with
  what a child can have said by then. Codes 2 and 5 take the same path as 4 and
  6 and are left out. A stdout longer than the capture limit counts as nothing
  said, as `result.stdout_bytes == len(result.stdout_prefix)` does.
- *Child terminals.* `Parsed` accepts the completed terminal of a sealed
  analysis and the `executor_failed` terminal. A completed child whose package
  holds a sealed failure reports the frontier `validated_graph`, which
  `_parse_vertical_child_terminal` refuses, so that branch of
  `_vertical_completion_verified` (the status `failed`) is never taken.
- *Validation* of hashes, schemas, Git state and identities is a free choice
  between going on and raising.
- *Production context.* `GateCLaunch` models `qualification_context =
  "production"`; the synthetic context skips the window and the postflight.

For the publications:

- *Directories are inodes.* `entry` says which directory has a name, so a
  replaced stage, a destination taken by a rival and a directory moved away are
  different states. A stage is named by its publisher (its 128-bit random name);
  `Held(p)` are the names under which a publisher's own directory can be found.
- *Four programs, one order of steps.* Where they differ the action says so:
  the slice asks Git for a clean checkout twice (`Clean`, in `Preflight` and
  `Vacant`), which sees a rival's members as untracked files; the hosted capture
  does not; an envelope lies under an ignored directory, confirms its name before
  its path (`CheckChain`, `Confirm`), looks at each member before it unlinks it
  and is never withdrawn once its rename has succeeded; a terminal package is not
  withdrawn after its rename either, and removes its stage only when it finds it
  intact.
- *Rollback.* `FindOwned` looks for the directory under both names, `Unlink`
  takes its files one by one, `LookAgain` is the last look at the name and
  `RemoveOwned` is a `rmdir` of whatever has the name by then: it succeeds
  exactly when that is empty.
- *The envelope's codes.* Its handler reports as failed what its assertions call
  lost (`a0x_vertical_slice.py:1541-1551`), unless its rollback finds a loss of its
  own; so `VerifyStage` and `Recheck` fail with "failed" there.
- *Failing calls.* `CallFails` and `CleanupCallFails` raise at every statement
  with the codes its handlers can turn an `OSError` into (`CallCodes`); calls
  that can fail after they have acted do so in their own action
  (`MakeStage`, `WriteMember`, `PublishExclusive`, `RemoveOwned`).
- *Others.* `Place`, `MoveAway`, `Alter` and `MoveAncestor` are processes of the
  same user that ignore the protocol. They are part of the model because the
  code looks for them and the tests put them there
  (`tests/test_a0x_vertical_slice.py:580-650`), although
  `docs/A0X_VERTICAL_SLICE.md:182-208` requires the operator to exclude them.
- *Merged steps.* A look at a file and its unlink are one step, and so are the
  two looks of `FindOwned`. The window between a look at a file and its unlink is
  therefore not explored; the documentation concedes it (no call of the system
  removes a name only if it still has the expected identity, lines 192-196). The
  same window before the `rmdir` is explored. An envelope's `package`
  subdirectory is not a level of its own.

For the campaigns (`CampaignRun`):

- *An invocation is one pass through* `Begin`, the actions of its stage and
  `Exit`. The stage decides the route in the action that leaves a statement
  (`Admit`, `Install`, `Copy`); the differences of the three programs are there too.
- *Handlers.* `Raise` goes to the handler of a0r1 and a0r2, and to that of C3 only
  for what follows the creation of its package; an exception inside the handler
  ends the invocation with status 1.
- *Retries.* The operator starts one invocation at a time, with any stage. Two at
  once are not modelled; the documents ask for one authorized attempt.
- *Refusals.* `Refuse` is a check that refuses at the contract, the installation,
  the envelope, the read or the store. Where validation can refuse later, in a
  copy, at the verification and in the publication, its effect is that of
  `CallFails`, which is enabled there and counts as a fault; a refusal free of
  charge would leave nothing of `EveryTerminalIsPublished` to ask.
- *What a failure states.* `StageAccess` gives the accesses of the stage. For the
  verification of a0r1 the code takes them from the activation receipt
  (`a0r1_runner.py:310-326`), whose counter lies below `corpus` and not where
  lines 265-274 look, so that the fallback, a possible access, is what is recorded.
- *Files.* A copy and a result written in place are whole, `broken` (stopped half
  way) or, for a result, `invalid` (written, then refused by its validation). The
  staging directory of activations and the temporary names with random parts
  leave nothing behind that anyone looks at and are not in the state; the fixed
  temporary name of a0r1 is (`temp`).

For the experiments (`ExperimentPackage`):

- *A plan is the order of the files*, one for each program and mode; `WriteNew`
  makes the next one by a link that refuses a taken name (`_write_new`), so every
  file is whole. A call may fail before its link or after it.
- *Before and between.* An exception of the provenance or of the records, which
  the comparative runner takes before its `try`
  (`exp001_comparative_material_runner.py:164-166`), leaves no file and is not an
  outcome of `Begin`: `UndisturbedPublishes` presupposes inputs that can be read. Refusals of arguments that the callers' contract excludes are
  left out: a bad path of R3's external asset, noticed when the package exists
  (`exp001_r3_material_runner.py:161-162`), and an analysis of EXP-002 that is not a
  mapping (`exp002_runner.py:219`, `exp002_auto_material.py:269`).
- *Overlap.* Two calls for one run id can both be past the package check. For
  EXP-001 that counts as a disturbance; EXP-002's external asset, written first,
  lets one of them pass and stops the others before the package.

For the workbench (`AnnotationWorkbench`):

- *Records are pieces.* A record is its head and its rest with the newline; a
  short write leaves the head, and the next append, of another session after a
  failure for instance, continues that line. A write that is short by its newline
  alone is not told apart from one that leaves a head.
- *Identities are used once.* A request is one POST and a session one server
  start. The order of the cases on the page is a free choice.
- *What may go wrong* is noted in `upset`: a torn append, a file created and never
  written, a line whose fsync failed, two sessions of one rater. The statements
  name those they exclude, and no other: `PageSkipsNothing` none,
  `AcknowledgedIsKept` a torn append, `FileLoads` all four.

Operators whose comment starts with "Variant:" are deliberate mistakes beside the
definition they would replace; no specification uses them. They show that a
property can fail (section 3).

## 3. Runs

| Run | Instance | What it shows |
|---|---|---|
| `attempt` | `MaterialRuntime`, both adapters, samples 0..2, budget 2, any number of processes | the inductive invariant, no read denied, a result rests on one recorded read, model released, what exit 0 means (`CompletedIsDurable`), files written once over all processes, no science after the budget, all processes of a run id refine one `AttemptLifecycle`, each process ends |
| `gate_c` | two launchers, two targets | the inductive invariant, the guard is on record, a completion is earned, targets closed outside windows, a lone guard sees its targets, only the claimant records, refinement of `OneShotAttempt`, executor used as promised |
| `guard_executor` | two signals, leader, helper and escaped descendant | the inductive invariant, signals are not lost, exit code is the guard's own, only 70 leaves something, refinement of `SupervisedGuard` with its liveness |
| `publish` | all four programs, two publishers, two members, two foreign directories | the inductive invariant (a refusal leaves nothing is a part of it), a lost name has a cause, an undisturbed race of hosted captures or terminal packages has a winner, foreign directories and replaced members stay, refinement of `WriteOncePublication` |
| `campaign` | all three programs, three invocations, two faults | the inductive invariant (with: a manifest binds what is on file, C3 reads once), status 0 means a verified publication, nothing is computed twice, a failure record covers its invocation, refinement of `TerminalLedger` |
| `experiment` | all four programs, three calls | the inductive invariant (with: a publication is one call's work), no read is hidden, an undisturbed run id is published, refinement of `TerminalLedger` |
| `workbench` | two sessions, two raters, two cases, three requests | the page skips nothing; what was acknowledged is a record of its own unless an append was torn; the file loads again unless an append was torn, an fsync failed, the file was created and never written, or one rater had two sessions |
| `publish_loss_report` | one slice publisher, one foreign directory | a disagreement of code and text (section 6) |
| `false_zero_read`, `returned_terminal` | `MaterialRuntime` as above; the second speaks of the historical adapter | two disagreements (section 6) |
| `campaign_incompatible` | two invocations, no fault | a disagreement (section 6) |
| `experiment_unverified` | two calls | a disagreement (section 6) |

Every property of a passing run has a mutant in `PROJECT.json`: a plausible bug
of one action or operator under which TLC finds the property violated.

### Bounds, and why they are enough

- `Clock = {0, 1, 2}`, `Budget = 2`: the code compares a sample with the last one
  and with the budget and nothing else. Three values give earlier, equal and
  later samples below the budget, and one at the budget.
- `Launchers`: two. Launchers interact only through the claim and the modes;
  the theorems of section 5 hold for any number.
- `Targets`: two, the real number (`_A0_TARGET_PATHS`); so half-open windows
  occur. The theorems hold for any non-empty set.
- `Signals`: two of the three; handlers are installed and given back one at a
  time, so two are enough for "some own, some not yet". `Signals` may arrive any
  number of times.
- Processes of the guard: its leader, one helper in the group, one descendant
  with a session of its own; each may come and go again and again.
- `LoneGuardSeesTargets` excludes rivals that have listed the targets on purpose:
  with a rival inside its window the code closes the targets under a running
  guard (`CloseTarget` of the rival); `docs/A0X_VERTICAL_SLICE.md:108-109` makes
  "no concurrent mutator" a precondition.
- `TargetsClosedOutsideWindows` excludes killed launchers and cleanups that
  reported uncertain ownership; nothing in the code could close the targets then.

- `Publishers`: two, `Members`: two of the five or six files: enough for a stage
  that is partly written, partly unlinked, or complete. `Foreign`: two
  directories, so that the stage and the destination can be taken at once. The
  theorems hold for any number of each.
- `MaxMutations = 2`, `MaxFaults = 1`: one foreign change against a check and one
  against its rollback, and a call that fails beside them. Both exist only to
  limit the search; the theorems hold for every bound.
- `MaxInvocations = 3`, `MaxFaults = 2`: what an invocation sees of the earlier ones
  is a few files, each in two to four states; three invocations are enough for a
  failure, a success and a retry over both, in any order. Two faults break a call
  and its handling, or two invocations. The theorems hold for every bound.
- `Runners`: three calls of a run id: two that overlap and a later retry. The
  theorems hold for any number. Nothing else is bounded there.
- Two sessions (one rater twice, or two raters), two cases, three requests: the
  shortest way to a duplicate of a case *and* an answer for the other one, and to
  a record appended behind a torn one. The theorems hold for any sets.
  `Symmetry` is sound: the run checks invariants only and no definition orders
  or names an identity.
- `Reachable`: nobody takes a stage's random name before its maker has looked at
  it once. `MoveAncestor` waits until every publisher holds its path open: a
  path renamed earlier is just another path.

Deadlock checking is off where the modelled programs end (the launchers, the
publishers, invocations and requests return; when all have, nothing is left to
do). It is on for `MaterialRuntime`: a run id can always be started again.

### Fairness, and why the code justifies it

- `MaterialRuntime`: `WF_vars(Step)`. The lifecycle is straight-line code in one
  thread; a callback that returns or raises is the code's own assumption, and
  the enclosing executor bounds it by its deadline. `Kill` is not fair.
- `GuardExecutor`: `WF_vars(Supervise)`, the supervising thread alone. Each of
  its waits has a timeout (0.1 s in the loop, the cleanup margin elsewhere), so
  it always has a next step. Nothing is assumed of the guard, its readers or the
  signals: a guard that never ends, and a descendant that holds the pipes for
  ever, are among the behaviours in which the call must still return.
- The other modules state safety only and have no fairness. `SomebodyPublishes`
  and `UndisturbedPublishes` are statements about the states in which every call
  has returned, not about their returning.

## 4. How to read the models

Each module starts with what it models, then constants, variables, one action per
statement group of the code in program order, `Next`, `Spec`, the properties and,
where there is a proof, the inductive invariant as a conjunction of named parts.
A `.cfg` is named after its module or its question. `tlc -config GateCLaunch.cfg
MCGateCLaunch` and `tlc -config GuardExecutor.cfg GuardExecutor` check the parent's side,
the `Material*.cfg` files the child's, the `Publish*.cfg` files (with
`MCExclusivePublication`) the publications, `Campaign*.cfg`, `Experiment*.cfg` and
`AnnotationWorkbench.cfg` (with `MCAnnotationWorkbench`) the rest; `tlapm` on a `...Proofs` module checks its
theorems.

## 5. What is proved

All theorems are about the specifications TLC checks, for every value of the
constants under the named assumptions (`ClockAssumption`, `BudgetAssumption`,
`LaunchersAssumption`, `TargetsAssumption`, `PublishersAssumption`,
`MembersAssumption`, `BoundsAssumption`, `RunnersAssumption`, `NamesAssumption`,
`SignalsAssumption`), which say that numbers are numbers, some sets are not empty,
and markers such as "none" are no identities.

**`AttemptLifecycleProofs`** - types, a terminal exists exactly in the sealed
state and an effect rests on one read, and nothing changes once sealed.

**`MaterialRuntimeProofs`** - `Inductive`: `Spec => []IInv`. The safety properties
are not inductive by themselves: that a completed result rests on one recorded
read needs to know, at each stage, which attempt state the reducer is in
(`AttemptOfStage`), what the reader has left on disk (`ReadOfStage`), which phases
a stage has (`PhaseOfStage`) and when a terminal is selected
(`TerminalOfStage`). The proof has one lemma per conjunct and one step per
action. From `IInv` follow `MaterialTypeOK`, `MaterialReservedBeforeOpened`,
`MaterialReadIsNeverHidden`, `MaterialResultRestsOnOneRead`,
`MaterialNoModelLeftBehind`, the action properties `MaterialArtifactsWriteOnce`
and `MaterialNoScienceAfterBudget`, and the refinement
`MaterialImplementsAttempt` (each step is a step of `AttemptLifecycle` or leaves
its variables alone: `StepRefines`). What exit 0 means, `MaterialCompletedIsDurable`,
needs to know what a failure record, a sealed file and a returned terminal say
about how the run got there (`EndOfStage`). What a later process can come to is a
part of its own (`RetryOfStage`): it never gets past the preflight, and an attempt
that had a terminal is not given another. The refinement then speaks of all
processes of a run id; `FirstAttempt`, `SameAttempt` and `RetryStep` say which steps
move the attempt in the first process and in a later one. The same part gives the two statements
that hold where the text of section 6 asks too much: `MaterialReturnedOrFailed` (the
returned terminal is the sealed one, but for a failure) and
`MaterialReadsAreTheOpens` (the reads are the opens, unless the receipt is
unreadable). `MaterialMovesForward` is the safety half of `Terminates`: every step ends
the run, goes to a later stage or to a later phase of its stage, or spends
budget, and of these there are finitely many.

**`GateCLaunchProofs`** - `GateCInductive`: `Spec => []IInv` for any number of
launchers. The strengthening says who owns a claim and when that launcher knows
it (`ClaimIsOwned`), that a guard follows a known claim and a complete pre-run
observation (`GuardFollowsClaim`), what a result says about the guard
(`ResultFollowsGuard`), how far each target is at each statement
(`RowsFollowWindow`), that a terminal is its claimant's last act
(`ClosedByTheClaimant`), that every open target has somebody who will close it or
was abandoned (`WhoOpensCloses`), and that a launcher alone in its window finds
open what it opened (`AloneKeepsOpen`). From it follow the four safety
properties, the action property `GateCOnlyTheClaimantRecords` and the refinement
`GateCImplementsOneShot`; also `GateCOneProcess` (one guarded process for all
launchers) and `GateCClosedForGood` (after a terminal observation, broken or not,
nothing is claimed, observed or started again). `GateCGuardsAreSupervised` refines in
the other direction: for each launcher, what it sees of its executor is a
behaviour of `SupervisedGuard`, an instance with the launcher as its parameter.

**`GuardExecutorProofs`** - `GuardExecutorInductive`: `Spec => []IInv` for any set of
signals. That only 70 leaves something cannot be proved from the outcome alone: it
needs to know that a delivered signal is on record somewhere (`Noted`), at which
statements a guard has been started (`StartOfPc`), when its readers have been joined
(`ReadersOfPc`), that behind the sweep a group that still lives has been noted as
trouble (`GroupOfPc`), and which flags lead to which outcome (`OutcomeOfFlags`). From
it follow `GuardExecutorSignalIsNeverLost`, `GuardExecutorExitCodeIsTheGuards` and
`GuardExecutorOnlySeventyLeavesSomething`, and `GuardExecutorKeepsPromise`: every step
of the executor, its guard and the signals is a step of `SupervisedGuard` or none.
`GuardExecutorAdvances` is what can be proved of its ending: the supervising thread
only goes forward, and neither the guard nor a signal sends it back.

**`ExclusivePublicationProofs`** - `PublicationInductive`: `Spec => []IInv` for any
publishers, members and foreign directories, all four programs, and any number
of foreign changes and failing calls. `RefusalLeavesNothing` is a conjunct of
`IInv`; the others carry it: a stage directory is under its own name or at the
destination and nowhere else (`OwnInodes`), how far the transaction and the error
are at each statement (`StateFollowsPc`), where the directory can be at each
statement (`HeldFollowsPc`: before the stage is made it is nowhere, in a rollback
only under the name the rollback found), what an undisturbed publisher may rely
on (`Undisturbed`: its stage stands, and is whole once verified) and that without
failing calls only whole stages are rolled back, to the end (`Unfailing`). The
proof goes through three facts about any step: which names it can change
(`EntryStep`), which publisher it belongs to (`FrameStep`) and that a foreign
step counts (`MutationEffect`). From `IInv` follow `PublicationRefusalLeavesNothing`,
`PublicationLossHasACause`, the action properties `PublicationReplacementsStay` and
(for envelopes) `PublicationReplacedMembersStay`, and `PublicationImplementsWriteOnce`,
the refinement under the mapping `Holder`, `PackageWhole`, `Answers`.
`PublicationSomebodyPublishes` needs one more invariant, `Race`: as long as nobody
interferes, a hosted capture or terminal package that has given up gave up to an
occupied destination, and only a publisher that commits occupies it.
`PublicationLossIsReportedOrLate` is the exact form of finding 3: a slice publisher that
refuses while another's directory has its stage's name says so, unless it never
opened that stage, had renamed it to the destination already, or a call of its
rollback failed.

**`CampaignRunProofs`** - `CampaignInductive`: `Spec => []IInv` for all three
programs, any number of invocations and faults. `PublicationIsBound` and
`OneRecoveryRead` are conjuncts of `IInv`; the rest says where an invocation can be
given its stage and its exception (`ControlOK`), that a report whose manifest is
still missing describes the only terminal on file (`PairOK`), that what an
invocation touched lies within what its handler would state (`AccessOK`), and
that C3 owns its package before it reads (`ClaimOK`). From it follow
`CampaignSuccessIsPublished`, the action properties `CampaignNothingIsRecomputed` and
`CampaignRecordCovers`, and the refinement `CampaignImplementsLedger`.
`CampaignFailuresArePublished` is the exact form of finding 4: without faults, a run id
whose only terminal is a failure record is published exactly if the record says
`failed`. Its invariant, `Faultless`, follows report, copy and record through an
invocation that no call fails.

**`ExperimentPackageProofs`** - `ExperimentInductive`: `Spec => []IInv` for all four
programs and any number of calls. That a publication is one call's work
(`PublishedByOne`) needs: a call that writes has made every file of its plan so
far (`StepsDone`), a call that has not begun to write has made none and knows what
it read (`LocalOK`), and no terminal file comes before its directory (`PackageFirst`).
From it follow `ExperimentNoReadIsHidden` and `ExperimentImplementsLedger`.
`ExperimentUndisturbedPublishes` rests on two parts of `IInv` that speak of undisturbed
calls only: EXP-001 has one active call, which finds every name of its plan free
(`SoleRunner`), and of the calls of EXP-002 the one that made the score asset makes
everything else (`AssetDecides`). `ExperimentResultsVerify` says what does hold of
finding 5: of comparative publications exactly the results verify; it adds that who
published a result has read once (`ResultsRead`).

**`AnnotationWorkbenchProofs`** - `WorkbenchInductive`: `Spec => []IInv` for any
sessions, raters, cases and requests. `PageSkipsNothing` holds because the store
saves a pair once (`LockHeld`, `SavedOnce`) and the page hears only of the case it
shows or one it has passed (`PageOK`). `AcknowledgedIsKept` needs that there is
nothing behind the last newline but the head being written (`NothingTorn`,
`Wrote`). `FileLoads` needs, as long as nothing went wrong, that the file holds
whole records (`RecordsOnly`), that the one session of a rater knows all of them
(`Known`), hence one for each pair (`OnePerPair`), and that an empty file is about to
be written (`NeverEmpty`).

Only model-checked: `Terminates`, and of `KeepsPromise` that every started guard is
reported. Both are liveness under fairness, which is out of the prover's reach, as
is the `ENABLED` they rest on; their safety halves are `MaterialMovesForward` and
`GuardExecutorAdvances`. Every other property of a passing run is a theorem. The
runs that find a disagreement (section 6) refute their property; beside each of
the five stands a theorem that says what is true instead.

## 6. Where code and text disagree

1. **A read that is reported as none** (`false_zero_read`). The receipt of a
   content open cannot be written; the evidence probe then fails on the empty
   receipt and the attempt is sealed with `target_content_reads` 0. The comment
   at `a0x_material_runtime.py:324-327` excludes exactly this. The proved
   `MaterialReadIsNeverHidden` states what does hold: the read is denied only
   if the probe itself could not read the receipt.
   A deadline between the reservation of the receipt and the open takes the same
   way: the error of the probe replaces it, so the classification of
   `a0x_material_runtime.py:262-264` is not fixed.
2. **A terminal that differs from its file** (`returned_terminal`). The property
   is about the historical adapter alone; the vertical one keeps its failures in a
   file of their own. After a deadline the historical adapter's file says `failed`, the returned terminal
   `non_interpretable`, and the package builder refuses the difference: such an
   attempt can never be packaged.
3. **A lost stage that is called a failure** (`publish_loss_report`). When another
   directory has taken the stage's name before the publisher opens it,
   `_create_stage` raises `..._PUBLICATION_FAILED` (`a0x_vertical_slice.py:956-958`),
   where `docs/A0X_VERTICAL_SLICE.md:197-200` asks for
   `..._PUBLICATION_OWNERSHIP_LOST`. The replacement itself is preserved, as the
   proved `PublicationReplacementsStay` says for every directory that holds
   something.
4. **An incompatible outcome that is never published** (`campaign_incompatible`).
   An exceeded resource envelope is recorded with status `incompatible`
   (`a0r2_runner.py:298-300`), but `_find_result_path` accepts only `failed`
   (`a0r2_report.py:157-158`) and the best-effort publication swallows the refusal.
   `docs/A0R2_SEALED_EXECUTION_APPROVAL.md:37-38` asks for the publication of every
   first terminal outcome, `incompatible` among them.
5. **A failed publication that cannot be verified** (`experiment_unverified`).
   A failed comparative run publishes a package whose receipt is not `completed`
   and may state no read; `verify_comparative_publication` refuses both
   (`exp001_comparative_report.py:139,147`).
   `docs/EXP001_COMPARATIVE_REFERENCE_STUDY.md:112-117` wants every terminal state
   published and the verification of a fresh clone to pass.

Seen while reading, and not stated as a run: `run_a0x_guarded_pair` in
`a0x_runner.py` (line 1007) calls `_run_ccp_preflight` without its required `runtime`
and so always raises; the
failure branch of `_vertical_completion_verified` cannot be reached although
`docs/A0X_VERTICAL_SLICE.md:350-351` speaks of sealed failures; when the record of
a failed postflight probe cannot be written, the claimed attempt has no terminal
(`a0x_ccp_executor.py:921`); a historical run started again after a kill refuses its
workspace, and its failure sealer then writes a terminal `failed` with 0 reads
into it if there was none, even if the killed process had opened the target
(`a0x_production_adapter.py:598-609`); an envelope that loses the race at the rename itself
reports `..._V2_PUBLICATION_FAILED`, because the rename raises the v1 code for an
occupied destination and `_publish_v2_envelope` knows only its own
(`a0x_vertical_slice.py:1544`); two slice publishers can refuse each other, each
seeing the other's stage as an untracked file (line 265); an envelope whose
members could not all be written reports a lost name and leaves its stage (line
1673); a stage whose first look fails is left behind by all four programs; the
workbench refuses an abstention without a rationale
(`annotation_workbench.py:220-221`) although `docs/ANNOTATION_WORKBENCH.md:38-40` says
that it records only a label and zero confidence; after a reload, or a lost 201,
its page stops at a case already annotated, answered 400, until the server is
started again (line 308); and although `docs/ANNOTATION_WORKBENCH.md:34-35` says that a
restart resumes at the remaining cases, the file cannot be opened again after a
torn append, after a failed fsync that the rater answers by saving once more, and
after a kill that leaves it empty.

## 7. Plan

Order of work, most important first:

1. *done* `AttemptLifecycle`, `MaterialRuntime` and their proofs, for both adapters.
2. *done* `OneShotAttempt`, `GateCLaunch` and its proofs; `SupervisedGuard`,
   `GuardExecutor` and its proofs.
3. *done* `WriteOncePublication`, `ExclusivePublication` and its proofs, for the
   vertical slice, the envelope, the hosted capture and the terminal package.
4. *done* `TerminalLedger`, `CampaignRun` and its proofs: A0R1, A0R2 and C3.
5. *done* `ExperimentPackage` and its proofs: EXP-001 and EXP-002.
6. *done* `AnnotationWorkbench` and its proofs.
7. `FixedDossierLaunch` for `_launch_validated_dossier`, implementing
   `OneShotAttempt` too.
8. `RecoveryPair` for `a0r1_recovery.py`; the publication of two directories in
   `a0_activations.py`, where two renames should be one.
9. `ResumedDownload` for `exp001_additional_acquisition.py`: size and range
   arithmetic against a reference definition.

Theorems still to prove: that a campaign which has published is left alone by every
later invocation (at present a consequence of the ledger for the files only), and
those of the modules above, with their invariants.

## 8. What is not modelled, and why

The repository's implementation is some 72 700 lines, of which the models stand
for a few thousand: those that order effects on shared files, processes and
requests. The rest has no control to model:

- Statistics, activations, baselines, labs, prompts, power analyses
  (`lab0*.py`, `a0_shortcuts.py`, `*_analysis.py`, `representation_extractor.py`):
  sequential numerical code over in-memory data. It enters as a choice of status.
- Schema, hash, freeze and closure validation and the document builders
  (`a0x_freeze.py`, `a0x_contract.py`, `a0x_public_closure*.py`, `validator.py`, the
  builders of Gate B and the runtime bundle, the checks inside
  `a0x_vertical_terminal_package.py`): a choice between passing and refusing.
  A model of each comparison would restate it line by line and could only
  show that it compares what it compares.
- The qualification path of `a0x_runner.py`: argv and receipt checks around one
  claim file. The claim is spent when the executable's hash, read again after it
  (line 903), refuses: the conservative outcome.
- The guard program `ccp` and the scheduler behind it: outside the repository;
  modelled from the exit codes and streams its callers expect.
- Reuse of process numbers after a guard was reaped, and hostile replacement of
  protected files: the docstring of `_a0_material_permission_window` and the
  documentation exclude the second; the first is listed among the hazards.
- Short sequences of two effects in one function, run once, each with a window
  that only a kill can hit: two renames of one result (`a0_activations.py:400`),
  the evaluator bundle and its key (`blinding.py:134`), runtime documents written
  one after another (`a0x_runtime_bundle.py:1818`), the recovery pair
  (`a0r1_recovery.py:218`), the empty stage of a hosted capture whose first open
  fails (`a0x_hosted_capture.py:207`; modelled, and left out of
  `RefusalLeavesNothing`). So is an envelope that fails after its rename and stays
  published (`a0x_vertical_slice.py:1671`).
- The wall-time and memory envelope of A0R2 is checked after the work
  (`a0r2_runner.py:291`): nothing stronger could be violated earlier.
- Everything in section 7 that is not done.
