----------------------------- MODULE GateCLaunch -----------------------------
(***************************************************************************)
(* Launchers of one vertical Gate C authorization                          *)
(* (_launch_validated_vertical_v2 in a0x_ccp_executor.py) on one checkout: *)
(* the validations, the permission window over the two A0 targets, the     *)
(* exclusive claim, the guarded process, and the sealing of the terminal   *)
(* observation.  Several launchers may run at once or after one another;   *)
(* any of them may be interrupted by a signal or killed between two steps. *)
(***************************************************************************)
CONSTANTS
  Launchers,   \* the processes that try this authorization
  Targets      \* _A0_TARGET_PATHS

ASSUME LaunchersAssumption == "none" \notin Launchers
ASSUME TargetsAssumption   == Targets # {}

VARIABLES
  \* The checkout, shared by the launchers.
  mode,          \* permission bits of each target
  claim,         \* attempt-claim.json
  preRun,        \* observations/pre-run-observation.json
  terminal,      \* observations/terminal-observation.json
  probeFailure,  \* observations/postflight-probe-failure.json
  occupied,      \* the output namespaces hold something
  guard,         \* the guarded process of each launcher
  claimant,      \* history: who created the claim, or "none"
  \* One launcher's process.
  pc,
  row,           \* progress of each target inside the permission window
  trouble,       \* pending_error or cleanup_failed of the window
  claimCreated,
  guardInvoked,
  result         \* ProcessResult: returncode and the terminal on stdout

diskVars  == <<mode, claim, preRun, terminal, probeFailure, occupied, claimant>>
localVars == <<row, trouble, claimCreated, guardInvoked, result>>
vars      == <<diskVars, guard, pc, localVars>>

Absent == "absent"
NoResult == [returncode |-> "none", wire |-> "none"]

(* Return codes of the guard and what the child may have said by then: a
   child that exits 4 says that its executor failed, one stopped from
   outside may have finished before, a cut off stdout says nothing.       *)
Results ==
  [returncode : {"exit_0"}, wire : {"sealed", "failed", "none"}]
  \cup [returncode : {"exit_4"}, wire : {"executor_failed", "none"}]
  \cup [returncode : {"exit_6"}, wire : {"none"}]
  \cup [returncode : {"exit_70", "exit_124", "exit_130"}, wire : {"sealed", "none"}]

Init ==
  /\ mode = [t \in Targets |-> "closed"]
  /\ claim = Absent /\ preRun = Absent /\ probeFailure = Absent
  /\ terminal = [state |-> Absent, class |-> "none", recovery |-> TRUE, child |-> "none"]
  /\ occupied = FALSE
  /\ claimant = "none"
  /\ guard = [l \in Launchers |-> "none"]
  /\ pc = [l \in Launchers |-> "validate"]
  /\ row = [l \in Launchers |-> [t \in Targets |-> "none"]]
  /\ trouble = [l \in Launchers |-> "none"]
  /\ claimCreated = [l \in Launchers |-> FALSE]
  /\ guardInvoked = [l \in Launchers |-> FALSE]
  /\ result = [l \in Launchers |-> NoResult]

Goto(l, p) == pc' = [pc EXCEPT ![l] = p]
Trouble(l, e) == trouble' = [trouble EXCEPT ![l] = e]
Ended == {"returned", "raised", "preflighted", "killed"}

-----------------------------------------------------------------------------
(* Before the permission window.                                           *)

(* Package, Gate B outputs, authorization, public closure, executable
   identities and guard preflight; any of them may refuse.                 *)
Validate(l) ==
  /\ pc[l] = "validate"
  /\ Goto(l, "admit") \/ Goto(l, "raised")
  /\ UNCHANGED <<diskVars, guard, localVars>>

(* Output namespaces, the graph and the identities once more, then the
   metadata of every protected path: each must be a mode-000 file.         *)
Admit(l) ==
  /\ pc[l] = "admit"
  /\ \/ ~occupied /\ (\A t \in Targets : mode[t] = "closed") /\ Goto(l, "window")
     \/ Goto(l, "raised")
  /\ UNCHANGED <<diskVars, guard, localVars>>

(* preflight_only: a private report, and nothing else. *)
PreflightReport(l) ==
  /\ pc[l] = "window"
  /\ Goto(l, "preflighted")
  /\ UNCHANGED <<diskVars, guard, localVars>>

-----------------------------------------------------------------------------
(* The permission window.                                                  *)

(* Metadata admission again, then the signal handlers. *)
EnterWindow(l) ==
  /\ pc[l] = "window"
  /\ \/ (\A t \in Targets : mode[t] = "closed") /\ Goto(l, "list")
     \/ Goto(l, "raised")
  /\ UNCHANGED <<diskVars, guard, localVars>>

(* Each target's directory is opened and the target stat'ed: mode 000 only. *)
ListTarget(l) ==
  /\ pc[l] = "list"
  /\ \E t \in Targets :
       /\ row[l][t] = "none"
       /\ \/ /\ mode[t] = "closed"
             /\ row' = [row EXCEPT ![l][t] = "listed"]
             /\ Goto(l, IF \A u \in Targets \ {t} : row[l][u] = "listed" THEN "open"
                                                                         ELSE "list")
             /\ UNCHANGED trouble
          \/ Trouble(l, "error") /\ Goto(l, "close") /\ UNCHANGED row
  /\ UNCHANGED <<diskVars, guard, claimCreated, guardInvoked, result>>

(* Its identity is compared again and its mode becomes 0600. *)
ChmodTarget(l) ==
  /\ pc[l] = "open" /\ \A t \in Targets : row[l][t] # "writable"
  /\ \E t \in Targets :
       /\ row[l][t] = "listed"
       /\ \/ /\ mode' = [mode EXCEPT ![t] = "open"]
             /\ row' = [row EXCEPT ![l][t] = "writable"]
             /\ UNCHANGED <<pc, trouble>>
          \/ Trouble(l, "error") /\ Goto(l, "close") /\ UNCHANGED <<mode, row>>
  /\ UNCHANGED <<claim, preRun, terminal, probeFailure, occupied, claimant, guard,
                 claimCreated, guardInvoked, result>>

(* Variant: the first pinned target ends the loop. *)
PinTargetOnce(l) ==
  /\ pc[l] = "open"
  /\ \E t \in Targets :
       /\ row[l][t] = "writable"
       /\ row' = [row EXCEPT ![l][t] = "held"]
  /\ Goto(l, "claim")
  /\ UNCHANGED <<diskVars, guard, trouble, claimCreated, guardInvoked, result>>

(* The inode is pinned by an event-only descriptor, which needs the mode. *)
PinTarget(l) ==
  /\ pc[l] = "open"
  /\ \E t \in Targets :
       /\ row[l][t] = "writable"
       /\ \/ /\ mode[t] = "open"
             /\ row' = [row EXCEPT ![l][t] = "held"]
             /\ Goto(l, IF \A u \in Targets \ {t} : row[l][u] = "held" THEN "claim"
                                                                       ELSE "open")
             /\ UNCHANGED trouble
          \/ Trouble(l, "error") /\ Goto(l, "close") /\ UNCHANGED row
  /\ UNCHANGED <<diskVars, guard, claimCreated, guardInvoked, result>>

(* SIGTERM, SIGHUP or SIGINT inside the window raises once.  While the guard
   runs its executor only records them, and the cleanup ignores them.      *)
Interrupt(l) ==
  /\ pc[l] \in {"list", "open", "claim", "reserve", "reserved", "prerun", "written"}
  /\ Trouble(l, "error") /\ Goto(l, "close")
  /\ UNCHANGED <<diskVars, guard, row, claimCreated, guardInvoked, result>>

-----------------------------------------------------------------------------
(* Claim, pre-run observation and guard, all inside the window.            *)

(* Variant: an existing claim is taken over. *)
ReserveClaimOver(l) ==
  /\ pc[l] = "claim"
  /\ claim' = "incomplete" /\ claimant' = l
  /\ Goto(l, "reserve")
  /\ UNCHANGED <<mode, preRun, terminal, probeFailure, occupied, guard, row, trouble,
                 claimCreated, guardInvoked, result>>

(* _reserve_claim: the name is taken with O_EXCL ... *)
ReserveClaim(l) ==
  /\ pc[l] = "claim"
  /\ \/ /\ claim = Absent
        /\ claim' = "incomplete" /\ claimant' = l
        /\ Goto(l, "reserve") /\ UNCHANGED trouble
     \/ Trouble(l, "error") /\ Goto(l, "close") /\ UNCHANGED <<claim, claimant>>
  /\ UNCHANGED <<mode, preRun, terminal, probeFailure, occupied, guard, row,
                 claimCreated, guardInvoked, result>>

(* ... and its bytes are written and synced. *)
WriteClaim(l) ==
  /\ pc[l] = "reserve"
  /\ \/ claim' = "sealed" /\ Goto(l, "reserved") /\ UNCHANGED trouble
     \/ Trouble(l, "error") /\ Goto(l, "close") /\ UNCHANGED claim
  /\ UNCHANGED <<mode, preRun, terminal, probeFailure, occupied, claimant, guard, row,
                 claimCreated, guardInvoked, result>>

(* claim_created = True; a signal may come first. *)
NoteClaim(l) ==
  /\ pc[l] = "reserved"
  /\ claimCreated' = [claimCreated EXCEPT ![l] = TRUE]
  /\ Goto(l, "prerun")
  /\ UNCHANGED <<diskVars, guard, row, trouble, guardInvoked, result>>

(* Variant: a pre-run observation that could not be written is passed over. *)
WritePreRunAnyway(l) ==
  /\ pc[l] = "prerun"
  /\ preRun' \in {"complete", "incomplete"}
  /\ Goto(l, "written")
  /\ UNCHANGED <<mode, claim, terminal, probeFailure, occupied, claimant, guard, row,
                 trouble, claimCreated, guardInvoked, result>>

WritePreRun(l) ==
  /\ pc[l] = "prerun"
  /\ \/ preRun = Absent /\ preRun' = "complete" /\ Goto(l, "written") /\ UNCHANGED trouble
     \/ /\ \/ preRun = Absent /\ preRun' = "incomplete"
           \/ UNCHANGED preRun
        /\ Trouble(l, "error") /\ Goto(l, "close")
  /\ UNCHANGED <<mode, claim, terminal, probeFailure, occupied, claimant, guard, row,
                 claimCreated, guardInvoked, result>>

(* guard_invoked = True, then the executor starts the process, or is
   cancelled or fails before it could.                                     *)
StartGuard(l) ==
  /\ pc[l] = "written"
  /\ guardInvoked' = [guardInvoked EXCEPT ![l] = TRUE]
  /\ \/ guard' = [guard EXCEPT ![l] = "running"] /\ Goto(l, "supervise") /\ UNCHANGED trouble
     \/ Trouble(l, "error") /\ Goto(l, "close") /\ UNCHANGED guard
  /\ UNCHANGED <<diskVars, row, claimCreated, result>>

(* The guarded child writes into the output namespaces. *)
ChildWrites(l) ==
  /\ guard[l] = "running"
  /\ occupied' = TRUE
  /\ UNCHANGED <<mode, claim, preRun, terminal, probeFailure, claimant, guard, pc, localVars>>

(* A child nobody supervises any more ends by itself. *)
OrphanEnds(l) ==
  /\ guard[l] = "running" /\ pc[l] # "supervise"
  /\ guard' = [guard EXCEPT ![l] = "done"]
  /\ UNCHANGED <<diskVars, pc, localVars>>

(* Variant: a guard stopped at its deadline need not be gone. *)
GuardReturnsEarly(l) ==
  /\ pc[l] = "supervise"
  /\ \E r \in Results : result' = [result EXCEPT ![l] = r]
  /\ Goto(l, "close")
  /\ UNCHANGED <<diskVars, guard, row, trouble, claimCreated, guardInvoked>>

(* The executor returns a result or raises; 70 alone does not mean that the
   process group is gone.  Its handlers given back, a signal raises again,
   before or after the result is bound.                                    *)
GuardReturns(l) ==
  /\ pc[l] = "supervise"
  /\ \/ /\ \E r \in Results :
             /\ r.wire \in {"sealed", "failed"} => occupied
             /\ result' = [result EXCEPT ![l] = r]
             /\ \/ guard' = [guard EXCEPT ![l] = "done"]
                \/ r.returncode = "exit_70" /\ UNCHANGED guard
        /\ UNCHANGED trouble \/ Trouble(l, "error")
     \/ /\ Trouble(l, "error") /\ UNCHANGED result
        /\ UNCHANGED guard \/ guard' = [guard EXCEPT ![l] = "done"]
  /\ Goto(l, "close")
  /\ UNCHANGED <<diskVars, row, claimCreated, guardInvoked>>

-----------------------------------------------------------------------------
(* The window's cleanup, on every way out of it.                           *)

(* Variant: only the targets whose inode was pinned are closed again. *)
CloseTargetHeld(l) ==
  /\ pc[l] = "close"
  /\ \E t \in Targets :
       /\ row[l][t] \in {"listed", "writable", "held"}
       /\ row' = [row EXCEPT ![l][t] = "done"]
       /\ mode' = IF row[l][t] = "held" THEN [mode EXCEPT ![t] = "closed"] ELSE mode
  /\ UNCHANGED <<claim, preRun, terminal, probeFailure, occupied, claimant, guard, pc,
                 trouble, claimCreated, guardInvoked, result>>

(* A listed target gets mode 000 back through its descriptor or its name;
   an identity that no longer matches leaves the ownership uncertain.      *)
CloseTarget(l) ==
  /\ pc[l] = "close"
  /\ \E t \in Targets :
       /\ row[l][t] \in {"listed", "writable", "held"}
       /\ row' = [row EXCEPT ![l][t] = "done"]
       /\ \/ mode' = [mode EXCEPT ![t] = "closed"] /\ UNCHANGED trouble
          \/ /\ Trouble(l, "uncertain")
             /\ mode' \in {mode, [mode EXCEPT ![t] = "closed"]}
  /\ UNCHANGED <<claim, preRun, terminal, probeFailure, occupied, claimant, guard, pc,
                 claimCreated, guardInvoked, result>>

(* Descriptors and handlers are given back; a pending error goes on. *)
LeaveWindow(l) ==
  /\ pc[l] = "close"
  /\ \A t \in Targets : row[l][t] \in {"none", "done"}
  /\ \/ Goto(l, IF trouble[l] = "none" THEN "identity" ELSE "failing") /\ UNCHANGED trouble
     \/ Trouble(l, "uncertain") /\ Goto(l, "failing")
  /\ UNCHANGED <<diskVars, guard, row, claimCreated, guardInvoked, result>>

-----------------------------------------------------------------------------
(* After the window.                                                       *)

(* The executables and the terminal schema are compared once more. *)
CheckIdentities(l) ==
  /\ pc[l] = "identity"
  /\ Goto(l, "postflight") \/ Goto(l, "failing")
  /\ UNCHANGED <<diskVars, guard, localVars>>

(* After an exception: the guard is probed if it was invoked, and a probe
   that fails leaves a record; without that record nothing else is written. *)
ProbeAfterFailure(l) ==
  /\ pc[l] = "failing"
  /\ \/ Goto(l, "failterminal") /\ UNCHANGED probeFailure
     \/ /\ guardInvoked[l]
        /\ \/ probeFailure = Absent /\ probeFailure' = "complete" /\ Goto(l, "failterminal")
           \/ probeFailure = Absent /\ probeFailure' = "incomplete" /\ Goto(l, "raised")
           \/ UNCHANGED probeFailure /\ Goto(l, "raised")
  /\ UNCHANGED <<mode, claim, preRun, terminal, occupied, claimant, guard, localVars>>

(* _write_vertical_terminal: exclusive, and a broken write raises. *)
WriteTerminal(l, record, next) ==
  \/ /\ terminal.state = Absent
     /\ terminal' = record
     /\ Goto(l, next)
  \/ /\ \/ UNCHANGED terminal
        \/ terminal.state = Absent /\ terminal' = [terminal EXCEPT !.state = "incomplete"]
     /\ Goto(l, "raised")

(* _classify_vertical_outer_exit: exit 4 is the child's own only if bound. *)
OuterClass(r, bound) ==
  LET outer == [exit_0  |-> "completed",           exit_4   |-> "queue_full",
                exit_6  |-> "resource_rejected",   exit_70  |-> "cleanup_or_internal",
                exit_124 |-> "timeout",            exit_130 |-> "cancelled"]
  IN  IF r.returncode = "exit_4" /\ bound = "executor_failed" THEN "child_exit_4"
                                                              ELSE outer[r.returncode]

(* Variant: without a result there is no class. *)
FailureClassRaw(r) == IF r = NoResult THEN "none" ELSE OuterClass(r, "none")

FailureClass(r) ==
  IF r = NoResult \/ OuterClass(r, "none") = "completed" THEN "cleanup_or_internal"
                                                         ELSE OuterClass(r, "none")

(* Variant: the failure is recorded whoever owns the claim. *)
SealFailureUnclaimed(l) ==
  /\ pc[l] = "failterminal"
  /\ WriteTerminal(l, [state |-> "complete", class |-> FailureClass(result[l]),
                       recovery |-> TRUE, child |-> "none"], "raised")
  /\ UNCHANGED <<mode, claim, preRun, probeFailure, occupied, claimant, guard, localVars>>

(* A recovery terminal, if this launcher knows the claim for its own. *)
SealFailure(l) ==
  /\ pc[l] = "failterminal"
  /\ \/ /\ claimCreated[l]
        /\ WriteTerminal(l, [state |-> "complete", class |-> FailureClass(result[l]),
                             recovery |-> TRUE, child |-> "none"], "raised")
     \/ ~claimCreated[l] /\ Goto(l, "raised") /\ UNCHANGED terminal
  /\ UNCHANGED <<mode, claim, preRun, probeFailure, occupied, claimant, guard, localVars>>

(* The child terminal the parent accepts; a completed child whose package
   seals a failure stops at a frontier the parser refuses.                 *)
Parsed(wire) == IF wire \in {"sealed", "executor_failed"} THEN wire ELSE "none"

(* Variant: exit code 0 and a clean postflight are taken for completion. *)
CompletionAssumed(r, packageVerified, postflightVerified) ==
  r.returncode = "exit_0" /\ postflightVerified

CompletionVerified(r, packageVerified, postflightVerified) ==
  /\ OuterClass(r, Parsed(r.wire)) = "completed" /\ Parsed(r.wire) = "sealed"
  /\ packageVerified /\ postflightVerified

(* The guard's postflight, the checkout state and the package, then the
   terminal observation; the launcher returns only on verified completion. *)
SealCompletion(l) ==
  /\ pc[l] = "postflight"
  /\ \E packageVerified, postflightVerified \in BOOLEAN :
       /\ packageVerified => postflightVerified /\ Parsed(result[l].wire) = "sealed"
       /\ LET done == CompletionVerified(result[l], packageVerified, postflightVerified)
          IN  WriteTerminal(l, [state |-> "complete", recovery |-> ~done,
                                class |-> OuterClass(result[l], Parsed(result[l].wire)),
                                child |-> Parsed(result[l].wire)],
                            IF done THEN "returned" ELSE "raised")
  /\ UNCHANGED <<mode, claim, preRun, probeFailure, occupied, claimant, guard, localVars>>

(* SIGKILL, a crash or a signal outside the window: the process is gone and
   what it left on disk stays.                                             *)
Kill(l) ==
  /\ pc[l] \notin Ended
  /\ Goto(l, "killed")
  /\ UNCHANGED <<diskVars, guard, localVars>>

Step(l) ==
  \/ Validate(l) \/ Admit(l) \/ PreflightReport(l) \/ EnterWindow(l) \/ ListTarget(l)
  \/ ChmodTarget(l) \/ PinTarget(l) \/ Interrupt(l) \/ ReserveClaim(l) \/ WriteClaim(l)
  \/ NoteClaim(l) \/ WritePreRun(l) \/ StartGuard(l) \/ ChildWrites(l) \/ OrphanEnds(l)
  \/ GuardReturns(l) \/ CloseTarget(l) \/ LeaveWindow(l) \/ CheckIdentities(l)
  \/ ProbeAfterFailure(l) \/ SealFailure(l) \/ SealCompletion(l) \/ Kill(l)

Next == \E l \in Launchers : Step(l)

Spec == Init /\ [][Next]_vars

-----------------------------------------------------------------------------
(* Properties.                                                             *)

FileStates == {Absent, "incomplete", "complete"}
Classes    == {"completed", "queue_full", "child_exit_4", "resource_rejected",
               "cleanup_or_internal", "timeout", "cancelled"}
PCs == Ended \cup
  {"validate", "admit", "window", "list", "open", "claim", "reserve", "reserved", "prerun",
   "written", "supervise", "close", "identity", "postflight", "failing", "failterminal"}
Wires == {"none", "sealed", "executor_failed"}
RowStates == {"none", "listed", "writable", "held", "done"}

Unwritten ==
  [state : {Absent, "incomplete"}, class : {"none"}, recovery : {TRUE}, child : {"none"}]
Written == [state : {"complete"}, class : Classes, recovery : BOOLEAN, child : Wires]

FlagsOK ==
  /\ claimCreated \in [Launchers -> BOOLEAN]
  /\ guardInvoked \in [Launchers -> BOOLEAN]
  /\ occupied \in BOOLEAN

TypeOK ==
  /\ mode \in [Targets -> {"closed", "open"}]
  /\ claim \in {Absent, "incomplete", "sealed"}
  /\ preRun \in FileStates /\ probeFailure \in FileStates
  /\ terminal \in Unwritten \cup Written
  /\ claimant \in Launchers \cup {"none"}
  /\ guard \in [Launchers -> {"none", "running", "done"}]
  /\ pc \in [Launchers -> PCs]
  /\ row \in [Launchers -> [Targets -> RowStates]]
  /\ trouble \in [Launchers -> {"none", "error", "uncertain"}]
  /\ FlagsOK
  /\ result \in [Launchers -> Results \cup {NoResult}]

(* A guarded process exists only for the owner of a sealed claim with a
   complete pre-run observation, so what happened after the claim can be
   told from the disk whatever is killed.                                  *)
GuardIsOnRecord ==
  \A l \in Launchers : guard[l] # "none" =>
    claimant = l /\ claim = "sealed" /\ preRun = "complete"

(* A terminal observation without recovery_required was earned: by the
   claimant, from a sealed child terminal, after its process was gone and
   both targets were closed with nothing uncertain.                        *)
CompletionIsEarned ==
  terminal.state = "complete" /\ ~terminal.recovery =>
    /\ claimant # "none" /\ guard[claimant] = "done"
    /\ result[claimant] = [returncode |-> "exit_0", wire |-> "sealed"]
    /\ trouble[claimant] = "none"
    /\ \A t \in Targets : row[claimant][t] = "done"

(* Both targets are closed whenever no launcher is inside its permission
   window, none was killed and no cleanup reported uncertain ownership;
   other launchers may come and go meanwhile.                              *)
OutsideWindow(l) ==
  /\ pc[l] \in {"validate", "admit", "window", "identity", "postflight", "failing",
                "failterminal", "returned", "raised", "preflighted"}
  /\ trouble[l] # "uncertain"
TargetsClosedOutsideWindows ==
  (\A l \in Launchers : OutsideWindow(l)) => \A t \in Targets : mode[t] = "closed"

(* A guarded process has both targets open for as long as it is supervised,
   provided no other launcher has come as far as listing them.             *)
LoneGuardSeesTargets ==
  \A l \in Launchers :
    /\ pc[l] = "supervise"
    /\ \A m \in Launchers \ {l}, t \in Targets : row[m][t] = "none"
    => \A t \in Targets : mode[t] = "open"

(* The observations of the attempt are written by the owner of its claim
   and by nobody else: a refused rival cannot close it.                    *)
OnlyTheClaimantRecords ==
  [][preRun' # preRun \/ terminal' # terminal =>
       \E l \in Launchers : l = claimant /\ pc'[l] # pc[l]]_vars

(* All launchers together make one attempt: one owner, at most one guarded
   process, at most one closing record.                                    *)
Started == \E l \in Launchers : guard[l] # "none"
Closure == IF terminal.state = Absent THEN "open"
           ELSE IF terminal.state = "complete" /\ ~terminal.recovery THEN "verified"
           ELSE "recovery"
OneShot == INSTANCE OneShotAttempt WITH owner <- claimant, started <- Started, closure <- Closure
ImplementsOneShot == OneShot!Spec

(* What a launcher sees of its executor is what the executor promises. *)
Report(l) ==
  IF result[l] # NoResult THEN IF result[l].returncode = "exit_70" THEN "unclean" ELSE "clean"
  ELSE IF pc[l] \in {"close", "failing", "failterminal"} \cup Ended THEN "lost" ELSE "none"
Supervision(l) == INSTANCE SupervisedGuard WITH guard <- guard[l], outcome <- Report(l)
GuardsAreSupervised ==
  /\ \A l \in Launchers : Supervision(l)!Init
  /\ [][\A l \in Launchers : Supervision(l)!Next \/ UNCHANGED Supervision(l)!vars]_vars

-----------------------------------------------------------------------------
(* The inductive invariant behind the safety properties.                   *)

Before  == {"validate", "admit", "window", "list", "open", "claim", "reserve", "reserved",
            "prerun", "written"}
Holding == {"claim", "reserve", "reserved", "prerun", "written", "supervise"}

ClaimIsOwned ==
  /\ claimant = "none" <=> claim = Absent
  /\ \A l \in Launchers :
       /\ claimCreated[l] => claimant = l /\ claim = "sealed"
       /\ pc[l] = "reserve" => claimant = l /\ claim = "incomplete"
       /\ pc[l] = "reserved" => claimant = l /\ claim = "sealed"

GuardFollowsClaim ==
  \A l \in Launchers :
    /\ pc[l] \in {"prerun", "written", "supervise", "identity", "postflight"} => claimCreated[l]
    /\ pc[l] \in {"written", "supervise"} => preRun = "complete"
    /\ guard[l] # "none" => claimCreated[l] /\ preRun = "complete"

ResultFollowsGuard ==
  \A l \in Launchers :
    /\ pc[l] \in Before => guard[l] = "none"
    /\ pc[l] \in Before \cup {"supervise"} => result[l] = NoResult /\ trouble[l] = "none"
    /\ pc[l] = "supervise" => guard[l] # "none"
    /\ result[l] # NoResult =>
         guard[l] # "none" /\ (result[l].returncode # "exit_70" => guard[l] = "done")
    /\ pc[l] = "close" /\ trouble[l] = "none" => result[l] # NoResult
    /\ pc[l] \in {"identity", "postflight"} => result[l] # NoResult /\ trouble[l] = "none"

RowsFollowWindow ==
  \A l \in Launchers, t \in Targets :
    /\ pc[l] \in {"validate", "admit", "window"} => row[l][t] = "none"
    /\ pc[l] \in Holding => row[l][t] = "held"
    /\ pc[l] = "close" /\ trouble[l] = "none" => row[l][t] \in {"held", "done"}
    /\ pc[l] \in {"identity", "postflight"} => row[l][t] = "done"

ClosedByTheClaimant ==
  terminal.state # Absent => claimant # "none" /\ pc[claimant] \in Ended

(* An open target has somebody who will close it, or was abandoned. *)
WhoOpensCloses ==
  \A t \in Targets : mode[t] = "open" =>
    \E l \in Launchers :
      \/ pc[l] = "killed" \/ trouble[l] = "uncertain"
      \/ pc[l] \in Holding \cup {"open", "close"} /\ row[l][t] \in {"writable", "held"}

AloneKeepsOpen ==
  \A l \in Launchers, t \in Targets :
    /\ pc[l] \in Holding \cup {"open"} /\ row[l][t] \in {"writable", "held"}
    /\ \A m \in Launchers \ {l}, u \in Targets : row[m][u] = "none"
    => mode[t] = "open"

IInv ==
  /\ TypeOK
  /\ ClaimIsOwned
  /\ GuardFollowsClaim
  /\ ResultFollowsGuard
  /\ RowsFollowWindow
  /\ ClosedByTheClaimant
  /\ WhoOpensCloses
  /\ AloneKeepsOpen
  /\ CompletionIsEarned
=============================================================================
