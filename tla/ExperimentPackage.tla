------------------------- MODULE ExperimentPackage -------------------------
(***************************************************************************)
(* The material runners of EXP-001 and EXP-002 over the files of one run   *)
(* id: "comparative" exp001_comparative_material_runner.py, "r3"           *)
(* exp001_r3_material_runner.py, "exp002" exp002_runner.py and "auto"      *)
(* exp002_auto_material.py.  A runner is one call; a retry is a later one, *)
(* and two may overlap, for the admission receipt each was given is older  *)
(* than its check of the package.  Every file appears whole, by a link     *)
(* that refuses a taken name; a call may fail and a runner may be killed   *)
(* at any step.                                                            *)
(***************************************************************************)
EXTENDS Naturals, Sequences

CONSTANT Runners   \* the calls made for the run id

ASSUME RunnersAssumption == "none" \notin Runners

VARIABLES
  program,     \* which of the four runners; it never changes
  pc,          \* a runner's next statement, or how it ended
  mode,        \* the terminal it is writing: "result" or "failure"
  step,        \* its position in the plan of that mode
  access,      \* what its access record says of the sealed targets
  reads,       \* history: the times it called its target reader
  stated,      \* what its sealed-key-access.json says
  author,      \* who made a file; "none": it does not exist
  disturbed    \* history: "yes" after a failing call, a kill or an overlap

locals == <<pc, mode, step, access, reads, stated>>
vars == <<program, locals, author, disturbed>>

Programs == {"comparative", "r3", "exp002", "auto"}
Modes    == {"result", "failure"}
Files    == {"package", "external", "index", "statistic", "sealed", "recovery",
             "receipt", "report", "manifest", "observation"}
Ended    == {"returned", "raised", "refused", "killed"}

(* EXP-001 runs under one except clause that publishes the failure; EXP-002
   catches the failures of scoring and analysis and goes on.                *)
Handles == program \in {"comparative", "r3"}

(* The files each runner makes, in order; "package" is the mkdir. *)
ComparativePlan(m) ==
  IF m = "result"
  THEN <<"external", "package", "index", "statistic", "sealed", "recovery", "receipt", "report", "manifest">>
  ELSE <<"package", "external", "statistic", "sealed", "recovery", "receipt", "report", "manifest">>

R3Plan(m) ==
  IF m = "result"
  THEN <<"package", "index", "external", "statistic", "sealed", "recovery", "receipt", "report", "manifest">>
  ELSE <<"package", "statistic", "external", "sealed", "recovery", "receipt", "report", "manifest">>

Exp002Plan ==
  <<"external", "package", "receipt", "statistic", "index", "sealed", "recovery", "report", "manifest">>

Plan(p, m) == IF p = "comparative" THEN ComparativePlan(m)
              ELSE IF p = "r3" THEN R3Plan(m) ELSE Exp002Plan

File(r) == Plan(program, mode[r])[step[r]]

Init ==
  /\ program \in Programs
  /\ pc = [r \in Runners |-> "idle"]
  /\ mode = [r \in Runners |-> "result"] /\ step = [r \in Runners |-> 1]
  /\ access = [r \in Runners |-> "none"] /\ reads = [r \in Runners |-> 0]
  /\ stated = [r \in Runners |-> "none"]
  /\ author = [f \in Files |-> "none"]
  /\ disturbed = "no"

Active(r) == pc[r] \notin Ended \cup {"idle"}
Go(r, p) == pc' = [pc EXCEPT ![r] = p]

(* Variant: nothing notes a failure of EXP-002. *)
RaiseUnnoted(r) ==
  /\ Go(r, IF ~Handles \/ mode[r] = "failure" THEN "raised" ELSE "handle")
  /\ UNCHANGED mode

(* What an exception does: the handler of EXP-001, its failure path failing;
   the failure EXP-002 notes while it scores and analyses.                  *)
Raise(r) ==
  IF Handles
  THEN /\ Go(r, IF mode[r] = "failure" THEN "raised" ELSE "handle")
       /\ UNCHANGED mode
  ELSE IF pc[r] \in {"score", "read", "reading"}
  THEN Go(r, "weigh") /\ mode' = [mode EXCEPT ![r] = "failure"]
  ELSE Go(r, "raised") /\ UNCHANGED mode

(* Authorization and admission hold; the package must not exist, nor, for
   EXP-002, the score asset.                                               *)
Begin(r) ==
  /\ pc[r] = "idle"
  /\ Go(r, IF author["package"] # "none" \/ (~Handles /\ author["external"] # "none")
           THEN "refused" ELSE "score")
  /\ disturbed' = IF Handles /\ (\E q \in Runners : Active(q)) THEN "yes" ELSE disturbed
  /\ UNCHANGED <<program, mode, step, access, reads, stated, author>>

Score(r) ==
  /\ pc[r] = "score"
  /\ Go(r, "read")
  /\ UNCHANGED <<program, mode, step, access, reads, stated, author, disturbed>>

(* Variant: the access is noted when the reader has returned. *)
OpenTargetUnnoted(r) ==
  /\ pc[r] = "read"
  /\ reads' = [reads EXCEPT ![r] = reads[r] + 1]
  /\ Go(r, "reading")
  /\ UNCHANGED <<program, mode, step, access, stated, author, disturbed>>

(* The one-shot reader notes the access before it calls the target reader. *)
OpenTarget(r) ==
  /\ pc[r] = "read"
  /\ access' = [access EXCEPT ![r] = IF program = "exp002" THEN "accessed" ELSE "possibly"]
  /\ reads' = [reads EXCEPT ![r] = reads[r] + 1]
  /\ Go(r, "reading")
  /\ UNCHANGED <<program, mode, step, stated, author, disturbed>>

Analyze(r) ==
  /\ pc[r] = "reading"
  /\ access' = [access EXCEPT ![r] = "accessed"]
  /\ Go(r, "weigh")
  /\ UNCHANGED <<program, mode, step, reads, stated, author, disturbed>>

(* The adapter, the target reader or the analysis raises. *)
RunFails(r) ==
  /\ pc[r] \in {"score", "read", "reading"}
  /\ Raise(r)
  /\ UNCHANGED <<program, step, access, reads, stated, author, disturbed>>

(* Wall time, memory and output are compared with their ceilings.  Over one,
   EXP-001 raises and EXP-002 makes the terminal a failure; a resource probe
   of EXP-002 that raises is not caught.                                    *)
Weigh(r) ==
  /\ pc[r] = "weigh"
  /\ \/ Go(r, "write") /\ UNCHANGED <<mode, disturbed>>
     \/ Handles /\ Raise(r) /\ UNCHANGED disturbed
     \/ ~Handles /\ Go(r, "write") /\ mode' = [mode EXCEPT ![r] = "failure"] /\ UNCHANGED disturbed
     \/ ~Handles /\ Raise(r) /\ disturbed' = "yes"
  /\ UNCHANGED <<program, step, access, reads, stated, author>>

(* Variant: a package that exists does not stop the handler. *)
HandleAnyway(r) ==
  /\ pc[r] = "handle"
  /\ Go(r, "write") /\ mode' = [mode EXCEPT ![r] = "failure"] /\ step' = [step EXCEPT ![r] = 1]
  /\ UNCHANGED <<program, access, reads, stated, author, disturbed>>

(* The except clause of EXP-001 publishes a failure unless there is a package. *)
Handle(r) ==
  /\ pc[r] = "handle"
  /\ IF author["package"] # "none"
     THEN Go(r, "raised") /\ UNCHANGED <<mode, step>>
     ELSE /\ Go(r, "write") /\ mode' = [mode EXCEPT ![r] = "failure"]
          /\ step' = [step EXCEPT ![r] = 1]
  /\ UNCHANGED <<program, access, reads, stated, author, disturbed>>

(* A file appears; sealed-key-access.json states the access its author knows
   of, and a comparative result always one read.                            *)
Put(r, f) ==
  /\ author' = [author EXCEPT ![f] = r]
  /\ stated' = IF f # "sealed" THEN stated
               ELSE [stated EXCEPT ![r] = IF program = "comparative" /\ mode[r] = "result"
                                          THEN "accessed" ELSE access[r]]

Advance(r) ==
  IF step[r] = Len(Plan(program, mode[r])) THEN Go(r, "returned") /\ UNCHANGED step
  ELSE step' = [step EXCEPT ![r] = step[r] + 1] /\ UNCHANGED pc

(* Variant: _write_new moves its temporary file over the name. *)
WriteNewOver(r) ==
  /\ pc[r] = "write"
  /\ Put(r, File(r)) /\ Advance(r) /\ UNCHANGED mode
  /\ UNCHANGED <<program, access, reads, disturbed>>

(* mkdir and _write_new: a taken name is refused, except that the failure
   path of EXP-001 accepts a package directory.  R3 publishes nothing for a
   failure that came before the provenance was bound.                       *)
WriteNew(r) ==
  /\ pc[r] = "write"
  /\ \/ author[File(r)] = "none" /\ Put(r, File(r)) /\ Advance(r) /\ UNCHANGED mode
     \/ /\ author[File(r)] # "none" /\ File(r) = "package" /\ Handles /\ mode[r] = "failure"
        /\ Advance(r) /\ UNCHANGED <<mode, author, stated>>
     \/ /\ author[File(r)] # "none" /\ ~(File(r) = "package" /\ Handles /\ mode[r] = "failure")
        /\ Raise(r) /\ UNCHANGED <<step, author, stated>>
     \/ /\ program = "r3" /\ File(r) = "report"
        /\ author["report"] # "none" \/ (mode[r] = "failure" /\ access[r] = "none")
        /\ Go(r, "observe") /\ UNCHANGED <<mode, step, author, stated>>
  /\ UNCHANGED <<program, access, reads, disturbed>>

(* A call fails before the link, or after it, when the temporary file is
   taken away.  R3 links report and manifest as a pair: a failure of the
   second link withdraws the first.                                        *)
WriteFails(r) ==
  /\ pc[r] = "write" /\ disturbed' = "yes"
  /\ IF program = "r3" /\ File(r) \in {"report", "manifest"}
     THEN /\ Go(r, "observe") /\ UNCHANGED <<mode, stated>>
          /\ \/ author' = [f \in Files |-> IF f = "report" /\ author[f] = r THEN "none" ELSE author[f]]
             \/ File(r) = "manifest" /\ author[File(r)] = "none" /\ Put(r, File(r))
     ELSE /\ Raise(r)
          /\ \/ UNCHANGED <<author, stated>>
             \/ author[File(r)] = "none" /\ Put(r, File(r))
  /\ UNCHANGED <<program, step, access, reads>>

(* R3 records that its report could not be published; a result is raised, a
   failure returned.                                                       *)
Observe(r) ==
  /\ pc[r] = "observe"
  /\ \/ /\ author["observation"] = "none"
        /\ Put(r, "observation") /\ UNCHANGED <<mode, disturbed>>
        /\ Go(r, IF mode[r] = "result" THEN "handle" ELSE "returned")
     \/ Raise(r) /\ disturbed' = "yes" /\ UNCHANGED <<author, stated>>
  /\ UNCHANGED <<program, step, access, reads>>

Kill(r) ==
  /\ Active(r)
  /\ Go(r, "killed") /\ disturbed' = "yes"
  /\ UNCHANGED <<program, mode, step, access, reads, stated, author>>

Runner(r) ==
  \/ Begin(r) \/ Score(r) \/ OpenTarget(r) \/ Analyze(r) \/ RunFails(r) \/ Weigh(r)
  \/ Handle(r) \/ WriteNew(r) \/ WriteFails(r) \/ Observe(r) \/ Kill(r)

Next == \E r \in Runners : Runner(r)

Spec == Init /\ [][Next]_vars
(* The type of every variable. *)
TypeOK ==
  /\ program \in Programs
  /\ pc \in [Runners -> Ended \cup {"idle", "score", "read", "reading", "weigh", "handle", "write", "observe"}]
  /\ mode \in [Runners -> Modes] /\ step \in [Runners -> 1 .. 9]
  /\ access \in [Runners -> {"none", "possibly", "accessed"}] /\ reads \in [Runners -> 0 .. 1]
  /\ stated \in [Runners -> {"none", "possibly", "accessed"}]
  /\ author \in [Files -> Runners \cup {"none"}]
  /\ disturbed \in {"no", "yes"}

(* A manifest is the work of one runner: every file of its package and the
   score asset are that runner's own, however many calls overlapped, failed
   or were killed; only the directory may be another's.                     *)
PublishedByOne ==
  \A r \in Runners : author["manifest"] = r =>
    /\ author["package"] # "none"
    /\ \A i \in 1 .. Len(Plan(program, mode[r])) :
         Plan(program, mode[r])[i] # "package" => author[Plan(program, mode[r])[i]] = r

(* What a sealed-key-access.json states is never less than what its author
   did: "none" only if its target reader was not called, and anything else
   only if it was.                                                          *)
NoReadIsHidden ==
  \A r \in Runners : author["sealed"] = r => (stated[r] = "none" <=> reads[r] = 0)

(* A runner that writes has made the files of its plan up to its step. *)
StepsDone ==
  \A r \in Runners : pc[r] = "write" =>
    /\ step[r] \in 1 .. Len(Plan(program, mode[r]))
    /\ \A i \in 1 .. step[r] - 1 :
         /\ author[Plan(program, mode[r])[i]] # "none"
         /\ Plan(program, mode[r])[i] # "package" => author[Plan(program, mode[r])[i]] = r

(* Before it writes a runner has made nothing, and it knows what it read. *)
Early(r) == pc[r] \in {"idle", "score", "read", "reading", "weigh"}

LocalOK ==
  \A r \in Runners :
    /\ Early(r) => step[r] = 1 /\ \A f \in Files : author[f] # r
    /\ pc[r] \in {"idle", "score", "read"} => reads[r] = 0
    /\ pc[r] = "reading" => reads[r] = 1
    /\ access[r] = "none" <=> reads[r] = 0
    /\ pc[r] \in {"idle", "score", "read", "reading"} => mode[r] = "result"
    /\ Handles /\ mode[r] = "result" /\ pc[r] \in {"weigh", "write"} => reads[r] = 1
    /\ Handles /\ pc[r] = "weigh" => mode[r] = "result"
    /\ pc[r] = "handle" => Handles /\ mode[r] = "result"
    /\ pc[r] = "write" => author["manifest"] # r
    /\ pc[r] = "observe" => program = "r3" /\ author["package"] # "none"

(* No terminal without the directory it is in. *)
PackageFirst ==
  author["package"] = "none" =>
    author["statistic"] = "none" /\ author["sealed"] = "none" /\ author["manifest"] = "none"

(* Undisturbed, a runner of EXP-001 is alone and meets no taken name, and who
   has ended left a publication or the observation that there is none.      *)
Fresh     == \A f \in Files : author[f] = "none"
Ahead(r)  == {Plan(program, mode[r])[i] : i \in step[r] .. Len(Plan(program, mode[r]))}
Settled   == /\ author["package"] # "none"
             /\ author["manifest"] # "none" \/ author["observation"] # "none"

SoleRunner ==
  Handles /\ disturbed = "no" =>
    /\ \A r, q \in Runners : Active(r) /\ Active(q) => r = q
    /\ \A r \in Runners :
         /\ Active(r) /\ Early(r) => Fresh
         /\ pc[r] = "handle" => Fresh \/ Settled
         /\ pc[r] \in {"write", "observe"} => author["observation"] = "none"
         /\ pc[r] = "write" => \A f \in Ahead(r) : author[f] = "none"
         /\ pc[r] \in Ended => Settled \/ \E q \in Runners : Active(q)

(* Undisturbed, the score asset decides which runner of EXP-002 goes on: who
   has it made every file, meets no taken name and publishes.               *)
AssetDecides ==
  ~Handles /\ disturbed = "no" =>
    /\ \A f \in Files : author[f] # "none" => author["external"] = author[f]
    /\ author["external"] # "none" =>
         \/ author["manifest"] # "none"
         \/ pc[author["external"]] = "write" /\ step[author["external"]] > 1
    /\ \A r \in Runners :
         /\ pc[r] = "write" /\ step[r] > 1 => \A f \in Ahead(r) : author[f] = "none"
         /\ pc[r] \in Ended => author["external"] # "none"

IInv == TypeOK /\ PublishedByOne /\ StepsDone /\ LocalOK /\ PackageFirst
        /\ SoleRunner /\ AssetDecides

(* Without a failing call, a kill or, for EXP-001, an overlap, the calls of a
   run id leave a publication, or R3's observation that there is none.       *)
UndisturbedPublishes ==
  disturbed = "no" /\ (\A r \in Runners : ~Active(r)) /\ (\E r \in Runners : pc[r] # "idle") =>
    author["manifest"] # "none" \/ author["observation"] # "none"

(* The package is a ledger of one terminal: statistical-result.json keeps
   what it states, and only that is published.                             *)
Ledger == INSTANCE TerminalLedger WITH
  Kinds <- Modes,
  recorded <- {mode[r] : r \in {q \in Runners : author["statistic"] = q}},
  published <- IF author["manifest"] = "none" THEN "absent" ELSE mode[author["manifest"]]
ImplementsLedger == Ledger!Spec

(* verify_comparative_publication: completed, with one read in the receipt,
   and every file of the package.                                          *)
Verifies ==
  \E r \in Runners :
    /\ author["manifest"] = r /\ mode[r] = "result" /\ reads[r] = 1
    /\ \A f \in Files \ {"package", "observation"} : author[f] = r

(* docs/EXP001_COMPARATIVE_REFERENCE_STUDY.md: every terminal state, failed
   included, is published, and its verification must pass.                  *)
EveryPublicationVerifies ==
  program = "comparative" /\ disturbed = "no" /\ author["manifest"] # "none" => Verifies
=============================================================================
