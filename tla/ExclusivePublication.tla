------------------------ MODULE ExclusivePublication ------------------------
(***************************************************************************)
(* Publishers of one package directory on one file system.  Each builds a  *)
(* private stage beside the destination, checks it, renames it exclusively *)
(* onto the destination, checks again, and rolls back when anything is     *)
(* wrong.  There are four such programs: "slice" generate_vertical_slice   *)
(* and "envelope" generate_vertical_runtime_package, both in               *)
(* a0x_vertical_slice.py, "hosted" capture_hosted_gate_a in                *)
(* a0x_hosted_capture.py, and "terminal" build_vertical_terminal_package   *)
(* in a0x_vertical_terminal_package.py.  Other processes rename            *)
(* directories and change files MaxMutations times, and MaxFaults system   *)
(* calls fail.                                                             *)
(***************************************************************************)
EXTENDS Naturals, FiniteSets

CONSTANTS
  Publishers,
  Members,        \* the files of a complete package
  Foreign,        \* directories of other processes
  MaxMutations,   \* bound: what processes outside the protocol do
  MaxFaults       \* bound: system calls that fail

ASSUME PublishersAssumption ==
  Publishers \cap ({"none", "other", "destination"} \cup Foreign) = {} /\ "none" \notin Foreign
ASSUME MembersAssumption == Members # {} /\ "stray" \notin Members
ASSUME BoundsAssumption == MaxMutations \in Nat /\ MaxFaults \in Nat

VARIABLES
  program,    \* which program the publishers run; it never changes
  entry,      \* the names of the parent directory: which directory each is, or "none"
  files,      \* what each directory holds under each file name
  parent,     \* the parent directory exists
  moved,      \* an ancestor on the held path was renamed
  pc,         \* the next statement of each publisher
  state,      \* _PublicationTransaction.state; "none" before there is one
  snapshot,   \* an envelope's stage has been captured
  owned,      \* the name the rollback found its directory under
  todo,       \* file names still to write, or to unlink
  code,       \* the error in flight or returned; "committed"
  unswept,    \* history: a failed call kept the publisher from removing its directory
  mutations, faults

dirVars   == <<entry, files>>
placeVars == <<program, parent, moved>>
txVars    == <<state, snapshot, owned, todo>>
vars      == <<dirVars, placeVars, pc, txVars, code, unswept, mutations, faults>>

Destination == "destination"
Names       == Publishers \cup {Destination}      \* a stage is named by its publisher
Inodes      == Publishers \cup Foreign            \* a publisher's stage is its own inode
Stray       == "stray"                            \* any file that is not a member
Files       == Members \cup {Stray}

Slice    == program = "slice"
Envelope == program = "envelope"
Hosted   == program = "hosted"
Terminal == program = "terminal"

Listing(i) == {f \in Files : files[i][f] # "absent"}
Whole(i)   == /\ \A f \in Members : files[i][f] = "own"
              /\ files[i][Stray] = "absent"
Occupied(n) == entry[n] # "none"

(* git status sees no untracked file but the publisher's own members.  An
   envelope is built under a directory Git ignores.                        *)
Clean(p) ==
  \/ Envelope
  \/ /\ ~moved
     /\ \A n \in Names : Occupied(n) => Listing(entry[n]) \subseteq (IF n = p THEN Members ELSE {})

Init ==
  /\ program \in {"slice", "envelope", "hosted", "terminal"}
  /\ entry = [n \in Names |-> "none"]
  /\ files = [i \in Inodes |-> [f \in Files |-> "absent"]]
  /\ parent \in (IF Hosted THEN {TRUE} ELSE BOOLEAN) /\ moved = FALSE
  /\ pc = [p \in Publishers |-> "preflight"]
  /\ state = [p \in Publishers |-> "none"]
  /\ snapshot = [p \in Publishers |-> FALSE]
  /\ owned = [p \in Publishers |-> "none"]
  /\ todo = [p \in Publishers |-> {}]
  /\ code = [p \in Publishers |-> "none"]
  /\ unswept = [p \in Publishers |-> FALSE]
  /\ mutations = 0 /\ faults = 0

-----------------------------------------------------------------------------
(* Transfer of control.                                                    *)

Go(p, next) == pc' = [pc EXCEPT ![p] = next]

(* An exception: the handler rolls back if there is a transaction. *)
Fail(p, c) ==
  /\ code' = [code EXCEPT ![p] = c]
  /\ Go(p, IF state[p] = "none" THEN "done" ELSE "cleanup")

Finish(p, c) == code' = [code EXCEPT ![p] = c] /\ Go(p, "done")

Fault == faults < MaxFaults /\ faults' = faults + 1

(* What an ancestor that is not the recorded one is reported as. *)
ChainCode == IF Hosted THEN "invalid" ELSE "failed"

-----------------------------------------------------------------------------
(* Before the stage.                                                       *)

Preflight(p) ==
  /\ pc[p] = "preflight"
  /\ IF Hosted \/ Terminal
     THEN IF Occupied(Destination) THEN Fail(p, "exists") ELSE Go(p, "open") /\ UNCHANGED code
     ELSE IF ~Clean(p) THEN Fail(p, "invalid") ELSE Go(p, "open") /\ UNCHANGED code
  /\ UNCHANGED <<dirVars, placeVars, txVars, unswept, mutations, faults>>

OpenParent(p) ==
  /\ pc[p] = "open"
  /\ Go(p, IF ~parent THEN "mkparent" ELSE IF Terminal THEN "make" ELSE "admit")
  /\ UNCHANGED <<dirVars, placeVars, txVars, code, unswept, mutations, faults>>

(* Somebody else may have created the missing directory meanwhile: the mkdir
   then fails, which only a terminal package tolerates.                     *)
MakeParent(p) ==
  /\ pc[p] = "mkparent"
  /\ IF parent /\ ~Terminal
     THEN Fail(p, "failed") /\ UNCHANGED parent
     ELSE parent' = TRUE /\ Go(p, IF Terminal THEN "make" ELSE "admit") /\ UNCHANGED code
  /\ UNCHANGED <<dirVars, program, moved, txVars, unswept, mutations, faults>>

Admit(p) ==
  /\ pc[p] = "admit"
  /\ CASE moved                 -> Fail(p, ChainCode)
       [] ~moved /\ Occupied(Destination) -> Fail(p, "exists")
       [] OTHER                 -> Go(p, "make") /\ UNCHANGED code
  /\ UNCHANGED <<dirVars, placeVars, txVars, unswept, mutations, faults>>

(* mkdir of a random name and the first look at what it made: a stat, or for
   a hosted capture and a terminal package the open.  If that look fails the
   directory stays.                                                          *)
MakeStage(p) ==
  /\ pc[p] = "make"
  /\ entry' = [entry EXCEPT ![p] = p]
  /\ \/ /\ IF Hosted \/ Terminal
           THEN /\ state' = [state EXCEPT ![p] = "staged"]
                /\ todo' = [todo EXCEPT ![p] = Members]
                /\ Go(p, "write")
           ELSE Go(p, "bind") /\ UNCHANGED <<state, todo>>
        /\ UNCHANGED <<code, unswept, faults>>
     \/ /\ Fault
        /\ Fail(p, "failed")
        /\ unswept' = [unswept EXCEPT ![p] = TRUE]
        /\ UNCHANGED <<state, todo>>
  /\ UNCHANGED <<files, placeVars, snapshot, owned, mutations>>

(* The open of the stage and the comparison with what the stat saw. *)
BindStage(p) ==
  /\ pc[p] = "bind"
  /\ IF entry[p] = p
     THEN /\ state' = [state EXCEPT ![p] = "staged"]
          /\ todo' = [todo EXCEPT ![p] = Members]
          /\ Go(p, "write") /\ UNCHANGED code
     ELSE Fail(p, "failed") /\ UNCHANGED <<state, todo>>
  /\ UNCHANGED <<dirVars, placeVars, snapshot, owned, unswept, mutations, faults>>

(* Variant: the error of the open is raised without removing the stage. *)
BindCallFailsRaw(p) ==
  /\ pc[p] = "bind" /\ Fault /\ Fail(p, "failed")
  /\ UNCHANGED <<dirVars, placeVars, txVars, unswept, mutations>>

(* The open or the chmod fails: the stage is removed if it is still there and
   empty, and every error of that is dropped.                               *)
BindCallFails(p) ==
  /\ pc[p] = "bind" /\ Fault /\ Fail(p, "failed")
  /\ IF entry[p] = p /\ Listing(p) = {}
     THEN /\ entry' = [entry EXCEPT ![p] = "none"]
          /\ UNCHANGED unswept
     ELSE /\ unswept' = [unswept EXCEPT ![p] = entry[p] = p]
          /\ UNCHANGED entry
  /\ UNCHANGED <<files, placeVars, txVars, mutations>>

-----------------------------------------------------------------------------
(* The stage.                                                              *)

(* An exclusive create, the bytes and their sync.  A terminal package tries to
   remove the file it could not finish.                                       *)
WriteMember(p, f) ==
  /\ pc[p] = "write" /\ f \in todo[p]
  /\ IF files[p][f] # "absent"
     THEN Fail(p, "failed") /\ UNCHANGED <<files, todo, faults>>
     ELSE \/ /\ files' = [files EXCEPT ![p][f] = "own"]
             /\ todo' = [todo EXCEPT ![p] = @ \ {f}]
             /\ UNCHANGED <<pc, code, faults>>
          \/ /\ Fault
             /\ \E left \in {"partial"} \cup (IF Terminal THEN {"absent"} ELSE {}) :
                  files' = [files EXCEPT ![p][f] = left]
             /\ Fail(p, "failed") /\ UNCHANGED todo
  /\ UNCHANGED <<entry, placeVars, state, snapshot, owned, unswept, mutations>>

(* Variant: the captured stage is not kept for the rollback. *)
VerifyStageForgets(p) ==
  /\ pc[p] = "write" /\ todo[p] = {}
  /\ IF Whole(p) THEN Go(p, "recheck") /\ UNCHANGED code ELSE Fail(p, "failed")
  /\ UNCHANGED <<dirVars, placeVars, txVars, unswept, mutations, faults>>

(* _assert_stage; for an envelope _capture_v2_stage and _assert_v2_stage.  A
   capture that refuses leaves no snapshot.  What these two report as lost the
   envelope's handler reports as failed, unless its rollback finds a loss.    *)
VerifyStage(p) ==
  /\ pc[p] = "write" /\ todo[p] = {}
  /\ snapshot' = [snapshot EXCEPT ![p] = Envelope /\ \A f \in Members : files[p][f] = "own"]
  /\ IF Whole(p)
     THEN Go(p, "recheck") /\ UNCHANGED code
     ELSE Fail(p, "failed")
  /\ UNCHANGED <<dirVars, placeVars, state, owned, todo, unswept, mutations, faults>>

(* Just before the rename: the ancestors, the stage's name and, for an
   envelope, its contents.                                                  *)
Recheck(p) ==
  /\ pc[p] = "recheck"
  /\ CASE moved ->
              Fail(p, ChainCode) \/ (Terminal /\ Fail(p, "lost"))
       [] ~moved /\ (entry[p] # p \/ (Envelope /\ ~Whole(p))) ->
              Fail(p, IF Terminal THEN "lost" ELSE "failed")
       [] OTHER ->
              Go(p, IF Terminal THEN "publish" ELSE "vacant") /\ UNCHANGED code
  /\ UNCHANGED <<dirVars, placeVars, txVars, unswept, mutations, faults>>

(* Variant: the stage of a rival counts as an occupied destination. *)
VacantOfRivals(p) ==
  /\ pc[p] = "vacant"
  /\ IF Occupied(Destination) \/ \E q \in Publishers \ {p} : Occupied(q)
     THEN Fail(p, "exists")
     ELSE Go(p, "publish") /\ UNCHANGED code
  /\ UNCHANGED <<dirVars, placeVars, txVars, unswept, mutations, faults>>

Vacant(p) ==
  /\ pc[p] = "vacant"
  /\ CASE Occupied(Destination)              -> Fail(p, "exists")
       [] ~Occupied(Destination) /\ ~Hosted /\ ~Clean(p) -> Fail(p, "invalid")
       [] OTHER                              -> Go(p, "publish") /\ UNCHANGED code
  /\ UNCHANGED <<dirVars, placeVars, txVars, unswept, mutations, faults>>

(* Variant: RENAME_SWAP in the place of RENAME_EXCL. *)
PublishSwapping(p) ==
  /\ pc[p] = "publish"
  /\ IF ~Occupied(p)
     THEN Fail(p, "failed") /\ UNCHANGED <<entry, state>>
     ELSE /\ entry' = [entry EXCEPT ![Destination] = entry[p], ![p] = entry[Destination]]
          /\ state' = [state EXCEPT ![p] = "published"]
          /\ Go(p, IF Envelope \/ Terminal THEN "confirm" ELSE "chain")
          /\ UNCHANGED code
  /\ UNCHANGED <<files, placeVars, snapshot, owned, todo, unswept, mutations, faults>>

(* renameatx_np with RENAME_EXCL moves whatever has the stage's name.  The
   envelope's handler does not know the primitive's "exists".  The call may
   also fail after it has renamed; the state is then still "staged".        *)
PublishExclusive(p) ==
  /\ pc[p] = "publish"
  /\ IF Occupied(Destination) \/ ~Occupied(p)
     THEN /\ Fail(p, IF Occupied(p) /\ ~Envelope THEN "exists" ELSE "failed")
          /\ UNCHANGED <<entry, state, faults>>
     ELSE /\ entry' = [entry EXCEPT ![Destination] = entry[p], ![p] = "none"]
          /\ \/ /\ state' = [state EXCEPT ![p] = "published"]
                /\ Go(p, IF Envelope \/ Terminal THEN "confirm" ELSE "chain")
                /\ UNCHANGED <<code, faults>>
             \/ Fault /\ Fail(p, "failed") /\ UNCHANGED state
  /\ UNCHANGED <<files, placeVars, snapshot, owned, todo, unswept, mutations>>

-----------------------------------------------------------------------------
(* After the rename.                                                       *)

(* What the checks after the rename go on to. *)
Following(at) ==
  CASE at = "chain"      -> IF Envelope THEN "sync" ELSE IF Terminal THEN "reverify" ELSE "confirm"
    [] at = "confirm"    -> IF Envelope \/ Terminal THEN "chain" ELSE "reverify"
    [] at = "reverify"   -> IF Terminal THEN "confirmagain" ELSE "chainagain"
    [] at = "chainagain" -> "sync"
    [] OTHER             -> "chainagain"

(* _assert_published_chain; an error of its stat counts as a lost ancestor.  A
   terminal package tells the two apart and keeps its state.                   *)
CheckChain(p) ==
  /\ pc[p] \in {"chain", "chainagain"}
  /\ \/ /\ ~moved
        /\ Go(p, Following(pc[p]))
        /\ UNCHANGED <<state, code, faults>>
     \/ /\ IF moved THEN UNCHANGED faults ELSE Fault
        /\ IF Terminal
           THEN /\ Fail(p, "failed") \/ (moved /\ Fail(p, "lost"))
                /\ UNCHANGED state
           ELSE /\ state' = [state EXCEPT ![p] = "ownership_lost"]
                /\ Fail(p, "lost")
  /\ UNCHANGED <<dirVars, placeVars, snapshot, owned, todo, unswept, mutations>>

(* _assert_published; a terminal package looks only at the destination. *)
Confirm(p) ==
  /\ pc[p] \in {"confirm", "confirmagain"}
  /\ CASE Occupied(p) /\ ~Terminal ->
            Fail(p, "failed") /\ UNCHANGED state
       [] (Terminal \/ ~Occupied(p)) /\ entry[Destination] # p ->
            /\ Fail(p, IF Hosted /\ ~Occupied(Destination) THEN "failed" ELSE "lost")
            /\ state' = [state EXCEPT ![p] = IF (Slice \/ Envelope) /\ Occupied(Destination)
                                             THEN "ownership_lost" ELSE @]
       [] OTHER ->
            Go(p, Following(pc[p])) /\ UNCHANGED <<state, code>>
  /\ UNCHANGED <<dirVars, placeVars, snapshot, owned, todo, unswept, mutations, faults>>

(* The package is verified again, by path for a terminal package. *)
Reverify(p) ==
  /\ pc[p] = "reverify"
  /\ IF Whole(p) /\ (Terminal => ~moved /\ entry[Destination] = p)
     THEN Go(p, Following(pc[p])) /\ UNCHANGED code
     ELSE Fail(p, "failed")
  /\ UNCHANGED <<dirVars, placeVars, txVars, unswept, mutations, faults>>

Commit(p) ==
  /\ pc[p] = "sync"
  /\ state' = [state EXCEPT ![p] = IF Envelope \/ Terminal THEN @ ELSE "committed"]
  /\ Finish(p, "committed")
  /\ UNCHANGED <<dirVars, placeVars, snapshot, owned, todo, unswept, mutations, faults>>

(* A call fails before it has had any effect. *)
CallCodes(at) ==
  CASE at = "preflight" -> (IF Terminal THEN {} ELSE {"invalid"})
                             \cup (IF Hosted \/ Terminal THEN {"failed"} ELSE {})
    [] at = "open"      -> {ChainCode}
    [] at \in {"admit", "recheck"} ->
         {ChainCode, "failed"} \cup (IF Terminal /\ at = "recheck" THEN {"lost"} ELSE {})
    [] at \in {"mkparent", "make", "write", "reverify"} -> {"failed"}
    [] at \in {"confirm", "confirmagain"} -> {IF Terminal THEN "lost" ELSE "failed"}
    [] at = "vacant"    -> {"failed"} \cup (IF Hosted THEN {} ELSE {"invalid"})
    [] at = "publish"   -> {"failed"} \cup (IF Envelope \/ Terminal THEN {} ELSE {"unsupported"})
    [] at = "sync"      -> IF Hosted \/ Terminal THEN {} ELSE {"failed"}
    [] OTHER            -> {}

CallFails(p) ==
  /\ Fault
  /\ \E c \in CallCodes(pc[p]) : Fail(p, c)
  /\ UNCHANGED <<dirVars, placeVars, txVars, unswept, mutations>>

-----------------------------------------------------------------------------
(* The rollback: _cleanup_after_failure and _cleanup_transaction,
   _cleanup_v2_stage or _cleanup_owned_stage.  An envelope and a terminal
   package are never withdrawn once published.                              *)

Held(p) == {n \in {p, Destination} : entry[n] = p}

OwnedName(p) == CHOOSE n \in Held(p) : TRUE

(* The stage still holds what its publisher recorded: the whole captured stage
   of an envelope, the members written so far of a terminal package.          *)
Intact(p) ==
  /\ entry[p] = p
  /\ IF Envelope
     THEN snapshot[p] /\ Whole(p)
     ELSE \A f \in Files : files[p][f] = IF f \in Members \ todo[p] THEN "own" ELSE "absent"

FindOwned(p) ==
  /\ pc[p] = "cleanup"
  /\ IF Envelope \/ Terminal
     THEN CASE state[p] # "staged" -> Finish(p, code[p]) /\ UNCHANGED <<owned, todo>>
            [] state[p] = "staged" /\ ~Intact(p) ->
                 Finish(p, "lost") /\ UNCHANGED <<owned, todo>>
            [] OTHER ->
                 /\ owned' = [owned EXCEPT ![p] = p]
                 /\ todo' = [todo EXCEPT ![p] = Listing(p)]
                 /\ Go(p, "sweep") /\ UNCHANGED code
     ELSE IF \/ state[p] = "ownership_lost"
             \/ Held(p) = {}
             \/ Slice /\ Stray \in Listing(p)
          THEN Finish(p, "lost") /\ UNCHANGED <<owned, todo>>
          ELSE /\ owned' = [owned EXCEPT ![p] = OwnedName(p)]
               /\ todo' = [todo EXCEPT ![p] = Listing(p)]
               /\ Go(p, "sweep") /\ UNCHANGED code
  /\ UNCHANGED <<dirVars, placeVars, state, snapshot, unswept, mutations, faults>>

(* Variant: an envelope's files are unlinked by name alone. *)
UnlinkByName(p, f) ==
  /\ pc[p] = "sweep" /\ f \in todo[p]
  /\ files' = [files EXCEPT ![p][f] = "absent"]
  /\ todo' = [todo EXCEPT ![p] = @ \ {f}]
  /\ UNCHANGED <<entry, placeVars, pc, state, snapshot, owned, code, unswept, mutations, faults>>

(* One file of the listing.  Only an envelope looks at the file first; a look
   and its unlink are one step.                                              *)
Unlink(p, f) ==
  /\ pc[p] = "sweep" /\ f \in todo[p]
  /\ IF files[p][f] = "absent" \/ (Envelope /\ files[p][f] # "own")
     THEN /\ Finish(p, IF Terminal THEN "failed" ELSE "lost")
          /\ unswept' = IF Terminal THEN [unswept EXCEPT ![p] = TRUE] ELSE unswept
          /\ UNCHANGED <<files, todo>>
     ELSE /\ files' = [files EXCEPT ![p][f] = "absent"]
          /\ todo' = [todo EXCEPT ![p] = @ \ {f}]
          /\ UNCHANGED <<pc, code, unswept>>
  /\ UNCHANGED <<entry, placeVars, state, snapshot, owned, mutations, faults>>

(* The last look at the name before the directory is removed. *)
LookAgain(p) ==
  /\ pc[p] = "sweep" /\ todo[p] = {}
  /\ IF entry[owned[p]] = p THEN Go(p, "rmdir") /\ UNCHANGED code ELSE Finish(p, "lost")
  /\ UNCHANGED <<dirVars, placeVars, txVars, unswept, mutations, faults>>

(* Variant: the directory is removed with what it holds. *)
RemoveTree(p) ==
  /\ pc[p] = "rmdir"
  /\ entry' = [entry EXCEPT ![owned[p]] = "none"]
  /\ Finish(p, code[p])
  /\ UNCHANGED <<files, placeVars, txVars, unswept, mutations, faults>>

(* rmdir by name, of whatever has it now: it fails unless that is there and
   empty.                                                                   *)
RemoveOwned(p) ==
  /\ pc[p] = "rmdir"
  /\ \/ /\ Occupied(owned[p]) /\ Listing(entry[owned[p]]) = {}
        /\ entry' = [entry EXCEPT ![owned[p]] = "none"]
        /\ \/ Finish(p, code[p]) /\ UNCHANGED faults
           \/ (Slice \/ Envelope) /\ Fault /\ Finish(p, "lost")     \* the sync of the parent
        /\ UNCHANGED unswept
     \/ /\ Occupied(owned[p]) /\ Listing(entry[owned[p]]) # {}
        /\ Finish(p, IF Hosted \/ Terminal THEN "failed" ELSE "lost")
        /\ unswept' = [unswept EXCEPT ![p] = TRUE]
        /\ UNCHANGED <<entry, faults>>
     \/ /\ ~Occupied(owned[p])
        /\ Finish(p, IF Terminal THEN "failed" ELSE "lost")
        /\ UNCHANGED <<entry, faults, unswept>>
  /\ UNCHANGED <<files, placeVars, txVars, mutations>>

(* A call of the rollback fails.  The slice drops the error of a stat and
   reports the original one; the others report what happened.               *)
CleanupCallFails(p) ==
  /\ pc[p] \in {"cleanup", "sweep", "rmdir"} /\ Fault
  /\ pc[p] = "cleanup" => state[p] \in IF Envelope \/ Terminal THEN {"staged"} ELSE {"staged", "published"}
  /\ \E c \in CASE Hosted -> {"failed"}
                [] Terminal -> {"failed", "lost"}
                [] Slice /\ pc[p] = "cleanup" -> {code[p], "lost"}
                [] OTHER -> {"lost"} :
        Finish(p, c)
  /\ unswept' = [unswept EXCEPT ![p] = TRUE]
  /\ UNCHANGED <<dirVars, placeVars, txVars, mutations>>

-----------------------------------------------------------------------------
(* Processes outside the protocol.                                         *)

Mutation == mutations < MaxMutations /\ mutations' = mutations + 1

(* The random name of a stage is known once its maker has looked at it. *)
Reachable(n) ==
  /\ parent
  /\ n # Destination => pc[n] \notin {"preflight", "open", "mkparent", "admit", "make", "done"}

(* A directory of another, empty or not, takes a name; what had it is moved away. *)
Place(n) ==
  /\ Mutation /\ Reachable(n)
  /\ \E i \in Foreign, content \in {"absent", "foreign"} :
        /\ \A m \in Names : entry[m] # i
        /\ entry' = [entry EXCEPT ![n] = i]
        /\ files' = [files EXCEPT ![i][Stray] = content]
  /\ UNCHANGED <<placeVars, pc, txVars, code, unswept, faults>>

MoveAway(n) ==
  /\ Mutation /\ Occupied(n)
  /\ entry' = [entry EXCEPT ![n] = "none"]
  /\ UNCHANGED <<files, placeVars, pc, txVars, code, unswept, faults>>

(* A file of a stage or package is replaced, added or deleted. *)
Alter(p, f) ==
  /\ Mutation /\ Held(p) # {}
  /\ \E now \in {"absent", "foreign"} \ {files[p][f]} :
        /\ now = "absent" => f # Stray
        /\ files' = [files EXCEPT ![p][f] = now]
  /\ UNCHANGED <<entry, placeVars, pc, txVars, code, unswept, faults>>

(* An ancestor is renamed while every publisher holds the path open. *)
MoveAncestor ==
  /\ Mutation /\ ~moved
  /\ \A p \in Publishers : pc[p] \notin {"preflight", "open", "mkparent"}
  /\ moved' = TRUE
  /\ UNCHANGED <<dirVars, program, parent, pc, txVars, code, unswept, faults>>

-----------------------------------------------------------------------------
Publisher(p) ==
  \/ Preflight(p) \/ OpenParent(p) \/ MakeParent(p) \/ Admit(p)
  \/ MakeStage(p) \/ BindStage(p) \/ BindCallFails(p)
  \/ \E f \in Members : WriteMember(p, f)
  \/ VerifyStage(p) \/ Recheck(p) \/ Vacant(p) \/ PublishExclusive(p)
  \/ CheckChain(p) \/ Confirm(p) \/ Reverify(p) \/ Commit(p) \/ CallFails(p)
  \/ FindOwned(p) \/ (\E f \in Files : Unlink(p, f))
  \/ LookAgain(p) \/ RemoveOwned(p) \/ CleanupCallFails(p)

Mutator ==
  \/ \E n \in Names : Place(n) \/ MoveAway(n)
  \/ \E p \in Publishers, f \in Files : Alter(p, f)
  \/ MoveAncestor

Next == Mutator \/ \E p \in Publishers : Publisher(p)

Spec == Init /\ [][Next]_vars

-----------------------------------------------------------------------------
Codes    == {"none", "exists", "invalid", "failed", "lost", "unsupported", "committed"}
States   == {"none", "staged", "published", "ownership_lost", "committed"}
Contents == {"absent", "partial", "own", "foreign"}

Early    == {"preflight", "open", "mkparent", "admit", "make"}
Staging  == {"write", "recheck", "vacant", "publish"}
After    == {"chain", "confirm", "reverify", "confirmagain", "chainagain", "sync"}
Rollback == {"cleanup", "sweep", "rmdir"}
PCs      == Early \cup {"bind"} \cup Staging \cup After \cup Rollback \cup {"done"}

TypeOK ==
  /\ program \in {"slice", "envelope", "hosted", "terminal"}
  /\ entry \in [Names -> Inodes \cup {"none"}]
  /\ files \in [Inodes -> [Files -> Contents]]
  /\ parent \in BOOLEAN /\ moved \in BOOLEAN
  /\ pc \in [Publishers -> PCs]
  /\ state \in [Publishers -> States]
  /\ snapshot \in [Publishers -> BOOLEAN]
  /\ owned \in [Publishers -> Names \cup {"none"}]
  /\ todo \in [Publishers -> SUBSET Files]
  /\ code \in [Publishers -> Codes]
  /\ unswept \in [Publishers -> BOOLEAN]
  /\ mutations \in 0 .. MaxMutations /\ faults \in 0 .. MaxFaults

Returned(p) == pc[p] = "done"
Refused(p)  == Returned(p) /\ code[p] # "committed"

NothingLeft(p) ==
  Refused(p) /\ code[p] # "lost" /\ ~unswept[p] /\ ~(program \in {"envelope", "terminal"} /\ state[p] = "published")
    => Held(p) = {}

(* A publisher that refuses for any reason but a lost name has left no
   directory behind, at its stage's name or at the destination, unless a
   failing call kept it from removing one; the handlers of
   a0x_vertical_slice.py:288-292 and a0x_hosted_capture.py:222-225 rely on
   it.  An envelope or a terminal package that fails after its rename stays
   published.                                                               *)
RefusalLeavesNothing == \A p \in Publishers : NothingLeft(p)

(* Publishers that only race with each other never report a lost name: that
   report stands for a foreign change or a failing call
   (docs/A0X_VERTICAL_SLICE.md:197-200).                                    *)
LossHasACause ==
  \A p \in Publishers : code[p] = "lost" => mutations + faults > 0

-----------------------------------------------------------------------------
(* The inductive invariant.                                                *)

(* A stage directory is under its own name or at the destination. *)
OwnInodes ==
  \A p \in Publishers :
     /\ \A q \in Publishers : entry[q] = p => q = p
     /\ entry[p] = p => entry[Destination] # p

(* How far the transaction and the error in flight are at each statement. *)
StateOf(p) ==
  /\ pc[p] \in Early \cup {"bind"} => state[p] = "none"
  /\ pc[p] \in Staging => state[p] = "staged"
  /\ pc[p] \in After => state[p] = "published"
  /\ pc[p] \in Rollback => /\ state[p] \notin {"none", "committed"}
                            /\ code[p] \notin {"none", "committed"}
  /\ pc[p] \in {"sweep", "rmdir"} => owned[p] \in {p, Destination} /\ state[p] # "ownership_lost"
  /\ pc[p] \notin Rollback \cup {"done"} => code[p] = "none"
  /\ state[p] = "ownership_lost" => code[p] = "lost"
  /\ pc[p] \in {"recheck", "vacant", "publish"} => todo[p] = {} /\ (Envelope => snapshot[p])

StateFollowsPc == \A p \in Publishers : StateOf(p)

(* Where the directory of a publisher can be at each statement. *)
PlaceOf(p) ==
  /\ pc[p] \in Early => entry[p] = "none" /\ Held(p) = {} /\ Listing(p) = {}
  /\ pc[p] \in Staging \cup {"bind"} => entry[Destination] # p
  /\ pc[p] \in {"sweep", "rmdir"} => Held(p) \subseteq {owned[p]}

HeldFollowsPc == \A p \in Publishers : PlaceOf(p)

(* While no other process interferes: a stage stands and is complete once
   verified, so is what was published, and a rollback finds what it removes. *)
StandsFor(p) ==
  /\ files[p][Stray] = "absent"
  /\ pc[p] \in Staging \cup {"bind"} => entry[p] = p
  /\ pc[p] = "bind" => Listing(p) = {}
  /\ pc[p] = "write" => \A f \in Members : files[p][f] = IF f \in todo[p] THEN "absent" ELSE "own"
  /\ pc[p] \in {"recheck", "vacant", "publish"} => Whole(p)
  /\ pc[p] \in After \/ code[p] = "committed" => entry[Destination] = p /\ Whole(p)
  /\ pc[p] \in After => entry[p] = "none"
  /\ pc[p] \in {"sweep", "rmdir"} => entry[owned[p]] = p

Undisturbed ==
  mutations = 0 =>
     /\ ~moved
     /\ \A n \in Names : entry[n] \notin Foreign
     /\ \A p \in Publishers : StandsFor(p)

(* While nothing fails either: only whole stages are rolled back, to the end. *)
RollsBackWhole(p) ==
  /\ pc[p] = "cleanup" =>
       /\ state[p] = "staged" /\ entry[p] = p /\ Whole(p)
       /\ Envelope => snapshot[p]
       /\ Terminal => todo[p] = {}
  /\ pc[p] = "sweep" =>
       /\ \A f \in todo[p] : files[p][f] = "own"
       /\ Listing(p) \subseteq todo[p]
  /\ pc[p] = "rmdir" => Listing(p) = {}
  /\ code[p] # "lost"

Unfailing ==
  mutations = 0 /\ faults = 0 => \A p \in Publishers : RollsBackWhole(p)

IInv ==
  /\ TypeOK /\ OwnInodes /\ StateFollowsPc /\ HeldFollowsPc
  /\ RefusalLeavesNothing /\ Undisturbed /\ Unfailing

-----------------------------------------------------------------------------
(* Racing hosted captures, and racing terminal packages, do not all give up:
   with nothing failing and nobody interfering, when all have returned one of
   them has published.  The checkout checks of a slice and the mkdir of an
   envelope's parent can refuse both.                                         *)
SomebodyPublishes ==
  (Hosted \/ Terminal) /\ (\A p \in Publishers : Returned(p)) /\ mutations + faults = 0
     => \E p \in Publishers : code[p] = "committed"

(* A directory of another process that holds something keeps a name, whatever
   a publisher rolls back (the replacements the tests of
   tests/test_a0x_vertical_slice.py:580-650 put in place).                  *)
ReplacementsStay ==
  [][ \A i \in Foreign :
        (\E n \in Names : entry[n] = i) /\ Listing(i) # {} /\ mutations' = mutations
           => \E n \in Names : entry'[n] = i ]_vars

(* The rollback of an envelope leaves every file another process has put in
   the place of a member (tests/test_a0x_vertical_slice_v2.py:241-285).      *)
ReplacedMembersStay ==
  [][ \A p \in Publishers, f \in Files :
        Envelope /\ files[p][f] = "foreign" /\ mutations' = mutations => files'[p][f] = "foreign" ]_vars

(* docs/A0X_VERTICAL_SLICE.md:197-200: a publisher that refuses while another's
   directory has its stage's name reports a lost name.                        *)
LossIsReported ==
  \A p \in Publishers :
     Slice /\ Refused(p) /\ code[p] # "lost" => entry[p] \notin Foreign

(* What a publication shows to the outside. *)
Holder ==
  CASE entry[Destination] \in Publishers -> entry[Destination]
    [] entry[Destination] \in Foreign    -> "other"
    [] OTHER                             -> "none"
PackageWhole == entry[Destination] \in Publishers /\ Whole(entry[Destination])
Answers ==
  [p \in Publishers |-> CASE ~Returned(p) -> "working"
                          [] Refused(p)  -> "refused"
                          [] OTHER       -> "committed"]

Promise == INSTANCE WriteOncePublication WITH
  holder <- Holder, whole <- PackageWhole, answer <- Answers, disturbed <- mutations > 0

(* The publishers of one destination together keep the promise of
   WriteOncePublication: it goes from empty to one whole package in one step,
   stays with its publisher, and success is answered only for it
   (a0x_vertical_slice.py:272-287, a0x_hosted_capture.py:212-221).            *)
ImplementsWriteOnce == Promise!Spec
=============================================================================
