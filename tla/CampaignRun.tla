---------------------------- MODULE CampaignRun ----------------------------
(***************************************************************************)
(* The command-line runners of the A0-R1 and A0-R2 campaigns over the      *)
(* files of one run id: "a0r1" a0r1_runner.py, "a0r2" a0r2_runner.py (to   *)
(* which the C1 and C2 runners delegate), "c3" a0r2c3_runner.py, with the  *)
(* report generators and verifiers they call.  An invocation is one call   *)
(* of main with one --stage; it may fail at any check, and a system call   *)
(* may fail, or the process be killed, MaxFaults times.  The operator      *)
(* invokes the runner again, with any stage, one invocation at a time.     *)
(***************************************************************************)
EXTENDS Naturals, FiniteSets

CONSTANTS
  MaxInvocations,   \* bound: calls of main for this run id
  MaxFaults         \* bound: failing system calls and kills

ASSUME BoundsAssumption == MaxInvocations \in Nat /\ MaxFaults \in Nat

VARIABLES
  program,       \* "a0r1", "a0r2" or "c3"; it never changes
  stage,         \* --stage of the current invocation
  pc,            \* its next statement; "idle" between invocations
  failureStage,  \* what its handler would report
  error,         \* the exception being handled, or "none"
  code,          \* how the last invocation ended; "none" while one runs
  dense,         \* the activation directory: "absent" or "installed"
  package,       \* the package directory: "absent" or "made"
  copies,        \* receipt and index in the package
  temp,          \* a0r1: the fixed temporary name of the result: "absent" or "left"
  result,        \* statistical-result.json
  failure,       \* run-failure.json: the status it states, or "absent"
  claims,        \* the accesses run-failure.json owns up to
  report,        \* report.md: the terminal it describes, or "absent"
  manifest,      \* publication-manifest.json: the terminal it binds
  touched,       \* history: what this invocation accessed
  loads, reads,  \* history: model runs and target reads of the run id
  invocations, faults

callVars  == <<program, stage, failureStage>>
controls  == <<pc, error, code>>
inputs    == <<dense, package, copies>>
records   == <<temp, result, failure, claims>>
published == <<report, manifest>>
history   == <<touched, loads, reads>>
vars == <<callVars, controls, inputs, records, published, history, invocations, faults>>

Programs == {"a0r1", "a0r2", "c3"}
Stages   == IF program = "c3" THEN {"all", "verify"}
                              ELSE {"activate", "analyze", "verify", "all"}
Kinds    == {"result", "failure"}
Accesses == SUBSET {"model", "targets"}

(* The terminals on file, as _find_result_path sees them. *)
Terminals == {k \in Kinds : IF k = "result" THEN result # "absent" ELSE failure # "absent"}

Init ==
  /\ program \in Programs
  /\ stage = "all" /\ pc = "idle" /\ failureStage = "compatibility"
  /\ error = "none" /\ code = "none"
  /\ dense = IF program = "c3" THEN "installed" ELSE "absent"   \* C3 analyses what C2 installed
  /\ package = "absent" /\ copies = "absent"
  /\ temp = "absent" /\ result = "absent" /\ failure = "absent" /\ claims = {}
  /\ report = "absent" /\ manifest = "absent"
  /\ touched = {} /\ loads = 0 /\ reads = 0
  /\ invocations = 0 /\ faults = 0

(* Control.  The handler of a0r1 and a0r2 records; C3 has one only around
   what follows the creation of its package.  An exception inside a handler
   ends the invocation with status 1.                                      *)
Exit(c) == pc' = "idle" /\ code' = c /\ UNCHANGED error

Handled == error = "none" /\ ~(program = "c3" /\ (stage = "verify" \/ pc \in {"contract", "package"}))

Raise(e) ==
  IF Handled THEN pc' = "record" /\ error' = e /\ UNCHANGED code
             ELSE Exit("failed")

GoTo(p) == pc' = p /\ UNCHANGED <<error, code>>

Begin ==
  /\ pc = "idle" /\ invocations < MaxInvocations
  /\ invocations' = invocations + 1
  /\ stage' \in Stages
  /\ pc' = "contract" /\ failureStage' = "compatibility"
  /\ error' = "none" /\ code' = "none" /\ touched' = {}
  /\ UNCHANGED <<program, inputs, records, published, loads, reads, faults>>

(* The contract, authorization and shortcut checks pass. *)
Admit ==
  /\ pc = "contract"
  /\ GoTo(IF program = "c3" THEN IF stage = "verify" THEN "check" ELSE "package"
          ELSE IF stage \in {"activate", "all"} THEN "activate"
          ELSE IF stage = "analyze" THEN "analyze" ELSE "verify")
  /\ UNCHANGED <<callVars, inputs, records, published, history, invocations, faults>>

(* A check of the statement about to run refuses: identities, contents,
   scores, ceilings.                                                       *)
Refuse ==
  /\ pc \in {"contract", "install", "envelope", "read", "store"}
  /\ Raise(IF pc = "envelope" THEN "incompatible" ELSE "failed")
  /\ UNCHANGED <<callVars, inputs, records, published, history, invocations, faults>>

(* Variant: the stage is noted only once the activation has returned. *)
ActivateUnnoted ==
  /\ pc = "activate"
  /\ IF dense = "installed" THEN Raise("failed") /\ UNCHANGED <<touched, loads>>
     ELSE GoTo("install") /\ touched' = touched \cup {"model"} /\ loads' = loads + 1
  /\ UNCHANGED <<callVars, inputs, records, published, reads, invocations, faults>>

(* _run_activate: an installed activation directory is never recomputed. *)
Activate ==
  /\ pc = "activate"
  /\ failureStage' = "execution"
  /\ IF dense = "installed" THEN Raise("failed") /\ UNCHANGED <<touched, loads>>
              ELSE /\ GoTo("install")
                   /\ touched' = touched \cup {"model"} /\ loads' = loads + 1
  /\ UNCHANGED <<program, stage, inputs, records, published, reads, invocations, faults>>

(* The staged directory is renamed into place. *)
Install ==
  /\ pc = "install"
  /\ dense' = "installed"
  /\ GoTo(IF program = "a0r2" THEN "copy" ELSE IF stage = "all" THEN "analyze" ELSE "end")
  /\ UNCHANGED <<callVars, package, copies, records, published, history, invocations, faults>>

Envelope ==
  /\ pc = "envelope"
  /\ GoTo(IF stage = "all" THEN "analyze" ELSE "end")
  /\ UNCHANGED <<callVars, inputs, records, published, history, invocations, faults>>

(* Variant: the package directory may exist already. *)
MakePackageAgain ==
  /\ pc = "package"
  /\ GoTo("analyze") /\ package' = "made"
  /\ UNCHANGED <<callVars, dense, copies, records, published, history, invocations, faults>>

(* C3 makes its package once; a second analysis finds it. *)
MakePackage ==
  /\ pc = "package"
  /\ IF package = "made" THEN Raise("failed") /\ UNCHANGED package
                ELSE GoTo("analyze") /\ package' = "made"
  /\ UNCHANGED <<callVars, dense, copies, records, published, history, invocations, faults>>

(* _sync_activation_package: receipt, then index; a file already there must
   be the same.  The copy itself is not atomic.                            *)
Copy ==
  /\ pc = "copy"
  /\ package' = "made"
  /\ IF copies = "broken" THEN Raise("failed") /\ UNCHANGED copies
     ELSE IF copies = "whole"
     THEN /\ GoTo(IF failureStage = "execution" THEN "envelope"
                  ELSE IF failureStage = "data" THEN "read"
                  ELSE IF report = "absent" /\ manifest = "absent" THEN "generate" ELSE "check")
          /\ UNCHANGED copies
     ELSE /\ copies' = IF copies = "absent" THEN "first" ELSE "whole"
          /\ UNCHANGED controls
  /\ UNCHANGED <<callVars, dense, records, published, history, invocations, faults>>

(* Variant: a result on file does not stop an analysis. *)
AnalyzeAgain ==
  /\ pc = "analyze"
  /\ failureStage' = "data"
  /\ IF dense = "installed" THEN GoTo(IF program = "a0r1" THEN "read" ELSE "copy") ELSE Raise("failed")
  /\ UNCHANGED <<program, stage, inputs, records, published, history, invocations, faults>>

(* _run_analyze, _run_analysis: no analysis without activations, none over
   a result.                                                               *)
Analyze ==
  /\ pc = "analyze"
  /\ failureStage' = "data"
  /\ IF dense = "installed" /\ result = "absent" THEN GoTo(IF program = "a0r1" THEN "read" ELSE "copy")
                                   ELSE Raise("failed")
  /\ UNCHANGED <<program, stage, inputs, records, published, history, invocations, faults>>

ReadTargets ==
  /\ pc = "read"
  /\ touched' = touched \cup {"targets"} /\ reads' = reads + 1
  /\ GoTo("store")
  /\ UNCHANGED <<callVars, inputs, records, published, loads, invocations, faults>>

(* a0r1 summarises a shortcut gate that did not pass without any read. *)
SkipTargets ==
  /\ pc = "read" /\ program = "a0r1" /\ stage = "analyze"
  /\ GoTo("store")
  /\ UNCHANGED <<callVars, inputs, records, published, history, invocations, faults>>

(* a0r1 writes a temporary file of a fixed name and renames it; a0r2 and C3
   write in place and validate what they wrote only afterwards.             *)
Store ==
  /\ pc = "store"
  /\ package' = "made"
  /\ IF program = "a0r1"
     THEN /\ UNCHANGED result
          /\ IF temp = "left" THEN Raise("failed") /\ UNCHANGED temp
                     ELSE GoTo("rename") /\ temp' = "left"
     ELSE /\ UNCHANGED temp
          /\ \/ result' = "valid"   /\ GoTo(IF program = "c3" THEN "generate"
                                            ELSE IF stage = "all" THEN "verify" ELSE "end")
             \/ result' = "invalid" /\ Raise("failed")
  /\ UNCHANGED <<callVars, dense, copies, failure, claims, published, history, invocations, faults>>

Rename ==
  /\ pc = "rename"
  /\ temp' = "absent" /\ result' = "valid"
  /\ GoTo("end")
  /\ UNCHANGED <<callVars, inputs, failure, claims, published, history, invocations, faults>>

(* _run_verify *)
Verify ==
  /\ pc = "verify"
  /\ failureStage' = "publication"
  /\ IF dense = "absent" \/ (program = "a0r1" /\ result # "valid") THEN Raise("failed")
     ELSE GoTo(IF program = "a0r1" THEN "end" ELSE "copy")
  /\ UNCHANGED <<program, stage, inputs, records, published, history, invocations, faults>>

(* Variant: the first terminal found is published. *)
PublishableFirst(k) ==
  /\ k \in Terminals /\ report = "absent" /\ manifest = "absent"
  /\ IF k = "result" THEN result = "valid" /\ copies = "whole" /\ dense = "installed"
                     ELSE failure = "failed"
  /\ program = "c3" => copies \in {"absent", "whole"}

(* What generate_a0r2_report and generate_a0r2c3_report accept: one terminal
   on file, a valid result with its inputs or a failure of status "failed",
   and no publication yet.                                                  *)
Publishable(k) ==
  /\ Terminals = {k}
  /\ report = "absent" /\ manifest = "absent"
  /\ IF k = "result" THEN result = "valid" /\ copies = "whole" /\ dense = "installed"
                     ELSE failure = "failed"
  /\ program = "c3" => copies \in {"absent", "whole"}

(* _write_pair_atomic: the report is linked, then the manifest. *)
Generate ==
  /\ pc = "generate"
  /\ \/ \E k \in Kinds : Publishable(k) /\ report' = k /\ GoTo("link")
     \/ (\A k \in Kinds : ~Publishable(k)) /\ Raise("failed") /\ UNCHANGED report
  /\ UNCHANGED <<callVars, inputs, records, manifest, history, invocations, faults>>

LinkManifest ==
  /\ pc = "link"
  /\ manifest' = report
  /\ IF program = "c3" /\ error # "none" THEN Exit("failed") ELSE GoTo("check")
  /\ UNCHANGED <<callVars, inputs, records, report, history, invocations, faults>>

(* verify_a0r2_publication looks at the terminal the manifest names; its C3
   counterpart also wants it to be the only one.                            *)
Verified ==
  /\ manifest # "absent" /\ report = manifest
  /\ manifest = "result" => result = "valid" /\ copies = "whole" /\ dense = "installed"
  /\ manifest = "failure" => failure # "absent"
  /\ program = "c3" => Terminals = {manifest} /\ copies \in {"absent", "whole"}

(* Variant: a report is taken for a publication. *)
CheckReport ==
  /\ pc = "check"
  /\ IF report # "absent" /\ error = "none" THEN GoTo("end") ELSE Raise("failed")
  /\ UNCHANGED <<callVars, inputs, records, published, history, invocations, faults>>

Check ==
  /\ pc = "check"
  /\ IF Verified /\ error = "none" THEN GoTo("end") ELSE Raise("failed")
  /\ UNCHANGED <<callVars, inputs, records, published, history, invocations, faults>>

End ==
  /\ pc = "end"
  /\ Exit("ok")
  /\ UNCHANGED <<callVars, inputs, records, published, history, invocations, faults>>

(* The accesses a failure record states, from the stage that failed. *)
StageAccess ==
  IF program = "c3" THEN {"targets"}
  ELSE CASE failureStage = "compatibility" -> {}
         [] failureStage = "execution"     -> {"model"}
         [] OTHER                          -> {"model", "targets"}

(* _record_failure: silent when a result is on file (C3 does not look), and
   never over a record.  a0r2 and C3 go on to publish what was recorded.    *)
RecordFailure ==
  /\ pc = "record"
  /\ IF program # "c3" /\ result # "absent" THEN UNCHANGED <<package, failure, claims>>
     ELSE IF failure # "absent" THEN package' = "made" /\ UNCHANGED <<failure, claims>>
     ELSE /\ package' = "made"
          /\ failure' = error /\ claims' = StageAccess
  /\ IF \/ program = "a0r1"
        \/ failure' = "absent"
        \/ failure # "absent" /\ (program = "c3" \/ result = "absent")
     THEN Exit("failed")
     ELSE GoTo(IF program = "c3" \/ (report = "absent" /\ manifest = "absent")
               THEN "generate" ELSE "check")
  /\ UNCHANGED <<callVars, dense, copies, temp, result, published, history, invocations, faults>>

(* What a statement leaves when it stops half way: a copy or a result
   written in place is broken; a report whose manifest was not linked
   stays only if nobody is left to unlink it.                               *)
Half ==
  /\ copies' \in {copies} \cup IF pc = "copy" /\ copies \in {"absent", "first"} THEN {"broken"} ELSE {}
  /\ result' \in {result} \cup IF pc = "store" /\ program # "a0r1" THEN {"broken"} ELSE {}
  /\ temp' \in {temp} \cup IF pc = "store" /\ program = "a0r1" THEN {"left"} ELSE {}

CallFails ==
  /\ pc \notin {"idle", "end"} /\ faults < MaxFaults
  /\ faults' = faults + 1
  /\ Half
  /\ report' = IF pc = "link" THEN "absent" ELSE report
  /\ IF pc = "record" THEN Exit("failed") ELSE Raise("failed")
  /\ UNCHANGED <<callVars, dense, package, failure, claims, manifest, history, invocations>>

Kill ==
  /\ pc # "idle" /\ faults < MaxFaults
  /\ faults' = faults + 1
  /\ Half
  /\ Exit("killed")
  /\ UNCHANGED <<callVars, dense, package, failure, claims, published, history, invocations>>

Next ==
  \/ Begin \/ Admit \/ Refuse \/ Activate \/ Install \/ Envelope \/ MakePackage
  \/ Copy \/ Analyze \/ ReadTargets \/ SkipTargets \/ Store \/ Rename \/ Verify
  \/ Generate \/ LinkManifest \/ Check \/ End \/ RecordFailure \/ CallFails \/ Kill

Spec == Init /\ [][Next]_vars

(* The type of every variable. *)
TypeOK ==
  /\ program \in Programs /\ stage \in {"activate", "analyze", "verify", "all"}
  /\ pc \in {"idle", "contract", "activate", "install", "copy", "envelope", "package", "analyze",
            "read", "store", "rename", "verify", "generate", "link", "check", "end", "record"}
  /\ failureStage \in {"compatibility", "execution", "data", "publication"}
  /\ error \in {"none", "failed", "incompatible"}
  /\ code \in {"none", "ok", "failed", "killed"}
  /\ dense \in {"absent", "installed"} /\ package \in {"absent", "made"}
  /\ temp \in {"absent", "left"}
  /\ copies \in {"absent", "first", "broken", "whole"}
  /\ result \in {"absent", "broken", "invalid", "valid"}
  /\ failure \in {"absent", "failed", "incompatible"} /\ claims \in Accesses
  /\ report \in Kinds \cup {"absent"} /\ manifest \in Kinds \cup {"absent"}
  /\ touched \in Accesses /\ loads \in Nat /\ reads \in Nat
  /\ invocations \in Nat /\ faults \in Nat

(* A manifest binds a report and a terminal that are both still on file, and
   a result with everything it was computed from: neither a retry, a kill
   between the two links nor a later failure takes any of it away.          *)
PublicationIsBound ==
  /\ manifest # "absent" => report = manifest
  /\ "result" \in {report, manifest} => result = "valid" /\ copies = "whole" /\ dense = "installed"
  /\ "failure" \in {report, manifest} => failure = "failed"

(* A runner that ends with status 0 after its verify stage has a verified
   publication, and it is the statistical result unless a failure of an
   earlier invocation is on file.                                          *)
SuccessIsPublished ==
  code = "ok" /\ stage \in {"verify", "all"} /\ program # "a0r1" =>
    Verified /\ (failure = "absent" => manifest = "result")

(* C3 reads the sealed targets at most once in the life of its run id, over
   every retry and kill: the package directory is its claim.               *)
OneRecoveryRead == program = "c3" => reads <= 1

(* Where an invocation can be: what its stage and its handler imply. *)
Analyzing == pc \in {"read", "store", "rename"} \/ (pc = "copy" /\ failureStage = "data")

ControlOK ==
  /\ error # "none" => pc \in {"idle", "record", "generate", "link", "check"}
  /\ pc = "record" => error # "none"
  /\ pc \in {"contract", "activate", "package"} => failureStage = "compatibility"
  /\ pc \in {"install", "envelope"} => failureStage = "execution"
  /\ pc \in {"activate", "install", "envelope"} \/ (pc = "copy" /\ failureStage = "execution") =>
       program # "c3" /\ stage \in {"activate", "all"}
  /\ Analyzing => failureStage = "data" /\ result = "absent" /\ stage \in {"analyze", "all"}
  /\ pc = "analyze" => stage \in {"analyze", "all"}
  /\ pc = "package" => program = "c3" /\ stage = "all"
  /\ program = "c3" => stage \in {"all", "verify"}
  /\ pc = "verify" => program # "c3"
  /\ pc = "rename" => program = "a0r1"
  /\ pc = "end" => error = "none"
  /\ code # "none" => pc = "idle"

(* The publication in the making, and the one an invocation ends with. *)
PairOK ==
  /\ pc = "link" => report \in Kinds /\ manifest = "absent" /\ Terminals = {report}
                    /\ (program = "c3" => copies \in {"absent", "whole"})
  /\ pc = "end" /\ stage \in {"verify", "all"} /\ program # "a0r1" => Verified

(* What an invocation has accessed lies within what its handler would state. *)
AccessOK == pc # "idle" => touched \subseteq StageAccess

(* C3 claims its package before it reads. *)
ClaimOK ==
  program = "c3" =>
    /\ package = "absent" => reads = 0
    /\ pc \in {"analyze", "copy", "read"} => reads = 0
    /\ pc \in {"analyze", "copy", "read", "store"} => package = "made"

IInv == TypeOK /\ PublicationIsBound /\ OneRecoveryRead /\ ControlOK /\ PairOK /\ AccessOK /\ ClaimOK

(* What no invocation computes a second time: no model run once activations
   are installed, no target read once a result is on file, however broken.  *)
NothingIsRecomputed ==
  [][(dense = "installed" => loads' = loads) /\ (result # "absent" => reads' = reads)]_vars

(* A failure record owns up to every access its invocation made, although
   the handler knows only the name of the stage it was in.                  *)
RecordCoversItsInvocation == [][failure' # failure => touched \subseteq claims']_vars

(* The files of the run id are a ledger of terminals: none is withdrawn, and
   what is published was the only one when it was published.                *)
Ledger == INSTANCE TerminalLedger WITH recorded <- Terminals, published <- manifest
ImplementsLedger == Ledger!Spec

(* docs/A0R2_SEALED_EXECUTION_APPROVAL.md: publication of the first terminal
   outcome, "incompatible" included.  Without faults or kills, a run id whose
   only terminal is a failure record has a publication when main returns.    *)
EveryTerminalIsPublished ==
  pc = "idle" /\ faults = 0 /\ program # "a0r1" /\ Terminals = {"failure"} => manifest # "absent"
=============================================================================
