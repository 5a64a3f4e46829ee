---------------------- MODULE ExclusivePublicationProofs ----------------------
(***************************************************************************)
(* The safety of the exclusive publication for every set of publishers,    *)
(* members and foreign directories, every profile and every bound on what  *)
(* the others do and on the calls that fail: IInv is inductive, the        *)
(* properties the runs check follow from it, and the publishers together   *)
(* implement WriteOncePublication.                                         *)
(***************************************************************************)
EXTENDS ExclusivePublication, TLAPS

(* Which sets the constants' members belong to. *)
LEMMA Constants ==
  /\ Publishers \subseteq Names /\ Publishers \subseteq Inodes /\ Foreign \subseteq Inodes
  /\ Destination \in Names /\ Destination \notin Publishers
  /\ Publishers \cap Foreign = {} /\ "none" \notin Inodes /\ "other" \notin Publishers
  /\ Members \subseteq Files /\ Stray \in Files /\ Stray \notin Members /\ Members # {}
  /\ \A f \in Files : f = Stray \/ f \in Members
  /\ \A n \in Names : n = Destination \/ n \in Publishers
  /\ \A i \in Inodes : i \in Publishers \/ i \in Foreign
BY PublishersAssumption, MembersAssumption DEF Names, Inodes, Files, Destination, Stray

(* What a failing call is reported as is an error. *)
LEMMA ErrorCodes ==
  /\ ChainCode \in {"invalid", "failed"}
  /\ \A at : CallCodes(at) \subseteq {"invalid", "failed", "lost", "unsupported"}
  /\ \A at \in {"cleanup", "sweep", "rmdir", "bind", "chain", "chainagain", "done"} :
        CallCodes(at) = {}
BY DEF ChainCode, CallCodes

(* One file of one directory changes. *)
LEMMA FileUpdate ==
  ASSUME files \in [Inodes -> [Files -> Contents]],
         NEW i \in Inodes, NEW f \in Files, NEW v \in Contents,
         files' = [files EXCEPT ![i][f] = v]
  PROVE  /\ files' \in [Inodes -> [Files -> Contents]]
         /\ \A j \in Inodes, g \in Files :
              files'[j][g] = IF j = i /\ g = f THEN v ELSE files[j][g]
OBVIOUS

(* Where a publisher's own directory can be found. *)
LEMMA HeldPlace ==
  ASSUME NEW p \in Publishers
  PROVE  /\ \A n : n \in Held(p) <=> n \in {p, Destination} /\ entry[n] = p
         /\ Held(p) # {} => OwnedName(p) \in Held(p)
BY DEF Held, OwnedName

(* The same after a step. *)
LEMMA HeldNext ==
  ASSUME NEW p \in Publishers
  PROVE  \A n : n \in Held(p)' <=> n \in {p, Destination} /\ entry'[n] = p
BY DEF Held

(* What the files of one directory say of it. *)
LEMMA ListingOf ==
  /\ \A i : Listing(i) \subseteq Files
  /\ \A i : \A f \in Files : f \in Listing(i) <=> files[i][f] # "absent"
  /\ \A i : Listing(i) = {} => ~Whole(i)
BY Constants DEF Listing, Whole

(* It says the same while they do not change. *)
LEMMA SameFiles ==
  ASSUME NEW i, files'[i] = files[i]
  PROVE  Listing(i)' = Listing(i) /\ Whole(i)' = Whole(i)
BY DEF Listing, Whole

(* The words the actions write. *)
LEMMA Words ==
  /\ {"none", "exists", "invalid", "failed", "lost", "unsupported", "committed"} \subseteq Codes
  /\ ChainCode \in Codes /\ \A at : CallCodes(at) \subseteq Codes
  /\ {"preflight", "open", "mkparent", "admit", "make", "bind", "write", "recheck", "vacant",
      "publish", "chain", "confirm", "reverify", "confirmagain", "chainagain", "sync", "cleanup",
      "sweep", "rmdir", "done"} \subseteq PCs
  /\ \A at : Following(at) \in PCs
  /\ {"staged", "published", "ownership_lost", "committed"} \subseteq States
  /\ {"absent", "partial", "own", "foreign"} \subseteq Contents
BY ErrorCodes DEF Following, Codes, PCs, Early, Staging, After, Rollback, States, Contents

(* Every transfer of control leads to a statement and an error code. *)
LEMMA Control ==
  ASSUME TypeOK, NEW p \in Publishers
  PROVE  /\ \A c \in Codes : Fail(p, c) \/ Finish(p, c) =>
              pc' \in [Publishers -> PCs] /\ code' \in [Publishers -> Codes]
         /\ \A next \in PCs : Go(p, next) => pc' \in [Publishers -> PCs]
BY DEF TypeOK, Fail, Finish, Go, PCs, Rollback

(* A failing call stays within its bound. *)
LEMMA FaultStep ==
  ASSUME faults \in 0 .. MaxFaults, Fault
  PROVE  faults' \in 0 .. MaxFaults
BY BoundsAssumption DEF Fault

(* One name of the parent directory changes. *)
LEMMA EntryUpdate ==
  ASSUME entry \in [Names -> Inodes \cup {"none"}],
         NEW n \in Names, NEW i \in Inodes \cup {"none"},
         entry' = [entry EXCEPT ![n] = i]
  PROVE  entry' \in [Names -> Inodes \cup {"none"}]
OBVIOUS

(* What a transfer of control does to its own publisher. *)
LEMMA Moves ==
  ASSUME TypeOK, NEW p \in Publishers
  PROVE  /\ Following(pc[p]) \in {"confirm", "chain", "reverify", "confirmagain", "chainagain", "sync"}
         /\ \A c : Fail(p, c) => /\ code'[p] = c
                                /\ pc'[p] = IF state[p] = "none" THEN "done" ELSE "cleanup"
         /\ \A c : Finish(p, c) => code'[p] = c /\ pc'[p] = "done"
         /\ \A next : Go(p, next) => pc'[p] = next
BY DEF TypeOK, Fail, Finish, Go, Following

(* A step of a publisher keeps the types. *)
LEMMA TypeStep ==
  ASSUME TypeOK, StateFollowsPc, NEW p \in Publishers, Publisher(p)
  PROVE  TypeOK'
<1> USE Control, Words, FaultStep DEF TypeOK, dirVars, placeVars, txVars
<1>1. CASE Preflight(p)
  BY <1>1 DEF Preflight
<1>2. CASE OpenParent(p)
  BY <1>2 DEF OpenParent
<1>3. CASE MakeParent(p)
  BY <1>3 DEF MakeParent
<1>4. CASE Admit(p)
  BY <1>4 DEF Admit
<1>5. CASE MakeStage(p)
  <2>1. entry' \in [Names -> Inodes \cup {"none"}]
    BY <1>5, Constants, EntryUpdate DEF MakeStage
  <2>2. todo' \in [Publishers -> SUBSET Files]
    BY <1>5, Constants DEF MakeStage
  <2>3. state' \in [Publishers -> States] /\ unswept' \in [Publishers -> BOOLEAN]
    BY <1>5 DEF MakeStage
  <2>4. pc' \in [Publishers -> PCs] /\ code' \in [Publishers -> Codes]
    BY <1>5 DEF MakeStage
  <2> QED
    BY <1>5, <2>1, <2>2, <2>3, <2>4 DEF MakeStage
<1>6. CASE BindStage(p)
  <2>1. todo' \in [Publishers -> SUBSET Files]
    BY <1>6, Constants DEF BindStage
  <2>2. state' \in [Publishers -> States]
    BY <1>6 DEF BindStage
  <2>3. pc' \in [Publishers -> PCs] /\ code' \in [Publishers -> Codes]
    BY <1>6 DEF BindStage
  <2> QED
    BY <1>6, <2>1, <2>2, <2>3 DEF BindStage
<1>7. CASE BindCallFails(p)
  BY <1>7, Constants, EntryUpdate DEF BindCallFails
<1>8. CASE \E f \in Members : WriteMember(p, f)
  <2>1. PICK f \in Members : WriteMember(p, f)
    BY <1>8
  <2>2. UNCHANGED files \/ files' = [files EXCEPT ![p][f] = "own"]
                          \/ files' = [files EXCEPT ![p][f] = "partial"]
                          \/ files' = [files EXCEPT ![p][f] = "absent"]
    BY <2>1 DEF WriteMember
  <2>3. files' \in [Inodes -> [Files -> Contents]]
    BY <2>2, Constants, FileUpdate
  <2> QED
    BY <2>1, <2>3 DEF WriteMember
<1>9. CASE VerifyStage(p)
  BY <1>9 DEF VerifyStage
<1>10. CASE Recheck(p)
  BY <1>10 DEF Recheck
<1>11. CASE Vacant(p)
  BY <1>11 DEF Vacant
<1>12. CASE PublishExclusive(p)
  <2>1. entry' \in [Names -> Inodes \cup {"none"}]
    <3>1. entry[p] \in Inodes \cup {"none"}
      BY Constants
    <3> QED
      BY <1>12, <3>1 DEF PublishExclusive
  <2>2. state' \in [Publishers -> States]
    BY <1>12 DEF PublishExclusive
  <2>3. pc' \in [Publishers -> PCs] /\ code' \in [Publishers -> Codes]
    BY <1>12 DEF PublishExclusive
  <2> QED
    BY <1>12, <2>1, <2>2, <2>3 DEF PublishExclusive
<1>13. CASE CheckChain(p)
  BY <1>13 DEF CheckChain
<1>14. CASE Confirm(p)
  BY <1>14 DEF Confirm
<1>15. CASE Reverify(p)
  BY <1>15 DEF Reverify
<1>16. CASE Commit(p)
  BY <1>16 DEF Commit
<1>17. CASE CallFails(p)
  BY <1>17 DEF CallFails
<1>18. CASE FindOwned(p)
  <2>1. Held(p) # {} => OwnedName(p) \in Names
    BY Constants, HeldPlace
  <2>2. owned' \in [Publishers -> Names \cup {"none"}]
    <3>1. \/ owned' = owned
          \/ owned' = [owned EXCEPT ![p] = p]
          \/ Held(p) # {} /\ owned' = [owned EXCEPT ![p] = OwnedName(p)]
      BY <1>18 DEF FindOwned
    <3>2. p \in Names
      BY Constants
    <3> QED
      BY <2>1, <3>1, <3>2
  <2>3. todo' = todo \/ todo' = [todo EXCEPT ![p] = Listing(p)]
    BY <1>18 DEF FindOwned
  <2>5. todo' \in [Publishers -> SUBSET Files]
    BY <2>3, ListingOf
  <2>4. pc' \in [Publishers -> PCs] /\ code' \in [Publishers -> Codes]
    BY <1>18 DEF FindOwned
  <2> QED
    BY <1>18, <2>2, <2>4, <2>5 DEF FindOwned
<1>19. CASE \E f \in Files : Unlink(p, f)
  <2>1. PICK f \in Files : Unlink(p, f)
    BY <1>19
  <2>2. UNCHANGED files \/ files' = [files EXCEPT ![p][f] = "absent"]
    BY <2>1 DEF Unlink
  <2>3. files' \in [Inodes -> [Files -> Contents]]
    BY <2>2, Constants, FileUpdate
  <2>4. unswept' = unswept \/ unswept' = [unswept EXCEPT ![p] = TRUE]
    BY <2>1 DEF Unlink
  <2>5. unswept' \in [Publishers -> BOOLEAN]
    BY <2>4
  <2>6. pc' \in [Publishers -> PCs] /\ code' \in [Publishers -> Codes]
    BY <2>1 DEF Unlink
  <2>7. todo' \in [Publishers -> SUBSET Files]
    BY <2>1 DEF Unlink
  <2> QED
    BY <2>1, <2>3, <2>5, <2>6, <2>7 DEF Unlink
<1>20. CASE LookAgain(p)
  BY <1>20 DEF LookAgain
<1>21. CASE RemoveOwned(p)
  BY <1>21, Constants, EntryUpdate DEF RemoveOwned
<1>22. CASE CleanupCallFails(p)
  BY <1>22 DEF CleanupCallFails
<1> QED
  BY <1>1, <1>2, <1>3, <1>4, <1>5, <1>6, <1>7, <1>8, <1>9, <1>10, <1>11, <1>12, <1>13,
      <1>14, <1>15, <1>16, <1>17, <1>18, <1>19, <1>20, <1>21, <1>22 DEF Publisher

(* A publisher leaves everything of the others alone, and every directory
   but its own.                                                            *)
LEMMA FrameStep ==
  ASSUME TypeOK, NEW p \in Publishers, Publisher(p)
  PROVE  /\ \A q \in Publishers \ {p} :
             /\ pc'[q] = pc[q] /\ state'[q] = state[q] /\ snapshot'[q] = snapshot[q]
             /\ owned'[q] = owned[q] /\ todo'[q] = todo[q] /\ code'[q] = code[q]
             /\ unswept'[q] = unswept[q]
         /\ \A i \in Inodes \ {p} : files'[i] = files[i]
         /\ mutations' = mutations /\ moved' = moved /\ faults' \in {faults, faults + 1}
         /\ program' = program
<1> USE DEF Go, Fail, Finish, Fault, dirVars, placeVars, txVars, TypeOK
<1>1. CASE Preflight(p)
  BY <1>1 DEF Preflight
<1>2. CASE OpenParent(p)
  BY <1>2 DEF OpenParent
<1>3. CASE MakeParent(p)
  BY <1>3 DEF MakeParent
<1>4. CASE Admit(p)
  BY <1>4 DEF Admit
<1>5. CASE MakeStage(p)
  BY <1>5 DEF MakeStage
<1>6. CASE BindStage(p)
  BY <1>6 DEF BindStage
<1>7. CASE BindCallFails(p)
  BY <1>7 DEF BindCallFails
<1>8. CASE \E f \in Members : WriteMember(p, f)
  BY <1>8 DEF WriteMember
<1>9. CASE VerifyStage(p)
  BY <1>9 DEF VerifyStage
<1>10. CASE Recheck(p)
  BY <1>10 DEF Recheck
<1>11. CASE Vacant(p)
  BY <1>11 DEF Vacant
<1>12. CASE PublishExclusive(p)
  BY <1>12 DEF PublishExclusive
<1>13. CASE CheckChain(p)
  BY <1>13 DEF CheckChain
<1>14. CASE Confirm(p)
  BY <1>14 DEF Confirm
<1>15. CASE Reverify(p)
  BY <1>15 DEF Reverify
<1>16. CASE Commit(p)
  BY <1>16 DEF Commit
<1>17. CASE CallFails(p)
  BY <1>17 DEF CallFails
<1>18. CASE FindOwned(p)
  BY <1>18 DEF FindOwned
<1>19. CASE \E f \in Files : Unlink(p, f)
  BY <1>19 DEF Unlink
<1>20. CASE LookAgain(p)
  BY <1>20 DEF LookAgain
<1>21. CASE RemoveOwned(p)
  BY <1>21 DEF RemoveOwned
<1>22. CASE CleanupCallFails(p)
  BY <1>22 DEF CleanupCallFails
<1> QED
  BY <1>1, <1>2, <1>3, <1>4, <1>5, <1>6, <1>7, <1>8, <1>9, <1>10, <1>11, <1>12, <1>13,
      <1>14, <1>15, <1>16, <1>17, <1>18, <1>19, <1>20, <1>21, <1>22 DEF Publisher

(* A publisher changes the parent directory in four ways only. *)
EntryChange(p) ==
  \/ UNCHANGED entry
  \/ pc[p] = "make" /\ entry' = [entry EXCEPT ![p] = p]
  \/ /\ pc[p] = "bind" /\ entry[p] = p /\ Listing(p) = {}
     /\ entry' = [entry EXCEPT ![p] = "none"]
  \/ /\ pc[p] = "publish" /\ entry[Destination] = "none" /\ entry[p] # "none"
     /\ entry' = [entry EXCEPT ![Destination] = entry[p], ![p] = "none"]
  \/ /\ pc[p] = "rmdir" /\ entry[owned[p]] # "none" /\ Listing(entry[owned[p]]) = {}
     /\ entry' = [entry EXCEPT ![owned[p]] = "none"]

(* Every step changes it in one of these ways. *)
LEMMA EntryStep ==
  ASSUME TypeOK, NEW p \in Publishers, Publisher(p)
  PROVE  EntryChange(p)
<1> USE DEF dirVars, EntryChange, Occupied
<1>1. CASE Preflight(p)
  BY <1>1 DEF Preflight
<1>2. CASE OpenParent(p)
  BY <1>2 DEF OpenParent
<1>3. CASE MakeParent(p)
  BY <1>3 DEF MakeParent
<1>4. CASE Admit(p)
  BY <1>4 DEF Admit
<1>5. CASE MakeStage(p)
  BY <1>5 DEF MakeStage
<1>6. CASE BindStage(p)
  BY <1>6 DEF BindStage
<1>7. CASE BindCallFails(p)
  BY <1>7 DEF BindCallFails
<1>8. CASE \E f \in Members : WriteMember(p, f)
  BY <1>8 DEF WriteMember
<1>9. CASE VerifyStage(p)
  BY <1>9 DEF VerifyStage
<1>10. CASE Recheck(p)
  BY <1>10 DEF Recheck
<1>11. CASE Vacant(p)
  BY <1>11 DEF Vacant
<1>12. CASE PublishExclusive(p)
  BY <1>12 DEF PublishExclusive
<1>13. CASE CheckChain(p)
  BY <1>13 DEF CheckChain
<1>14. CASE Confirm(p)
  BY <1>14 DEF Confirm
<1>15. CASE Reverify(p)
  BY <1>15 DEF Reverify
<1>16. CASE Commit(p)
  BY <1>16 DEF Commit
<1>17. CASE CallFails(p)
  BY <1>17 DEF CallFails
<1>18. CASE FindOwned(p)
  BY <1>18 DEF FindOwned
<1>19. CASE \E f \in Files : Unlink(p, f)
  BY <1>19 DEF Unlink
<1>20. CASE LookAgain(p)
  BY <1>20 DEF LookAgain
<1>21. CASE RemoveOwned(p)
  BY <1>21 DEF RemoveOwned
<1>22. CASE CleanupCallFails(p)
  BY <1>22 DEF CleanupCallFails
<1> QED
  BY <1>1, <1>2, <1>3, <1>4, <1>5, <1>6, <1>7, <1>8, <1>9, <1>10, <1>11, <1>12, <1>13,
      <1>14, <1>15, <1>16, <1>17, <1>18, <1>19, <1>20, <1>21, <1>22 DEF Publisher

(* Seen by name: a publisher's own name, the destination and the others. *)
LEMMA EntryByName ==
  ASSUME TypeOK, StateFollowsPc, NEW p \in Publishers, EntryChange(p)
  PROVE  /\ \A q \in Publishers \ {p} : entry'[q] = entry[q]
         /\ entry'[p] \in {entry[p], "none", p}
         /\ entry'[p] = p /\ entry[p] # p => pc[p] = "make"
         /\ entry'[p] # entry[p] => pc[p] \in {"make", "bind", "publish", "rmdir"}
         /\ \/ entry'[Destination] = entry[Destination]
            \/ /\ pc[p] = "publish" /\ entry[Destination] = "none" /\ entry[p] # "none"
               /\ entry'[Destination] = entry[p] /\ entry'[p] = "none"
            \/ /\ pc[p] = "rmdir" /\ owned[p] = Destination /\ entry'[Destination] = "none"
               /\ Listing(entry[Destination]) = {}
         /\ entry'[p] = "none" /\ entry[p] # "none" /\ pc[p] = "rmdir" => owned[p] = p
<1>1. p \in Names /\ Destination \in Names /\ p # Destination
  BY Constants
<1>2. \A q \in Publishers : q \in Names /\ q # Destination
  BY Constants
<1>3. pc[p] = "rmdir" => owned[p] \in {p, Destination}
  BY DEF StateFollowsPc, StateOf
<1>4. p # "none"
  BY Constants
<1>5. DOMAIN entry = Names
  BY DEF TypeOK
<1>6. CASE UNCHANGED entry
  BY <1>6
<1>7. CASE pc[p] = "make" /\ entry' = [entry EXCEPT ![p] = p]
  BY <1>1, <1>2, <1>5, <1>7
<1>8. CASE pc[p] = "bind" /\ entry' = [entry EXCEPT ![p] = "none"]
  BY <1>1, <1>2, <1>4, <1>5, <1>8
<1>9. CASE /\ pc[p] = "publish" /\ entry[Destination] = "none" /\ entry[p] # "none"
           /\ entry' = [entry EXCEPT ![Destination] = entry[p], ![p] = "none"]
  <2>1. \A n \in Names : entry'[n] = IF n = p THEN "none"
                                     ELSE IF n = Destination THEN entry[p] ELSE entry[n]
    BY <1>1, <1>5, <1>9
  <2> QED
    BY <1>1, <1>2, <1>4, <1>9, <2>1
<1>10. CASE /\ pc[p] = "rmdir" /\ Listing(entry[owned[p]]) = {}
            /\ entry' = [entry EXCEPT ![owned[p]] = "none"]
  <2>1. \A n \in Names : entry'[n] = IF n = owned[p] THEN "none" ELSE entry[n]
    BY <1>5, <1>10
  <2>2. CASE owned[p] = p
    BY <1>1, <1>2, <1>4, <1>10, <2>1, <2>2
  <2>3. CASE owned[p] = Destination
    BY <1>1, <1>2, <1>10, <2>1, <2>3
  <2> QED
    BY <1>3, <1>10, <2>2, <2>3
<1> QED
  BY <1>6, <1>7, <1>8, <1>9, <1>10 DEF EntryChange

(* A stage directory stays under its own name or the destination. *)
LEMMA OwnInodesStep ==
  ASSUME TypeOK, StateFollowsPc, OwnInodes, HeldFollowsPc, NEW p \in Publishers, Publisher(p)
  PROVE  OwnInodes'
<1>1. EntryChange(p)
  BY EntryStep
<1>2. /\ p \in Names /\ Destination \in Names /\ p # Destination /\ p # "none"
      /\ \A q \in Publishers : q # "none"
  BY Constants
<1>3. pc[p] = "make" => entry[Destination] # p
  BY <1>2, HeldPlace DEF HeldFollowsPc, PlaceOf, Early
<1>4. \A q \in Publishers : entry[p] = q => q = p
  BY DEF OwnInodes
<1> QED
  BY <1>1, <1>2, <1>3, <1>4, EntryByName DEF OwnInodes

(* An envelope that passes its verification has a snapshot. *)
LEMMA SnapshotTaken ==
  ASSUME TypeOK, NEW p \in Publishers, VerifyStage(p), Envelope, Whole(p)
  PROVE  snapshot'[p]
<1>1. \A f \in Members : files[p][f] = "own"
  BY DEF Whole
<1>2. /\ DOMAIN snapshot = Publishers
      /\ snapshot' = [snapshot EXCEPT ![p] = Envelope /\ \A f \in Members : files[p][f] = "own"]
  BY DEF VerifyStage, TypeOK
<1>3. snapshot'[p] = (Envelope /\ \A f \in Members : files[p][f] = "own")
  BY <1>2
<1> QED
  BY <1>1, <1>3

(* The transaction keeps following the program counter. *)
LEMMA StateStep ==
  ASSUME TypeOK, StateFollowsPc, NEW p \in Publishers, Publisher(p)
  PROVE  StateOf(p)'
<1> USE Moves, ErrorCodes DEF dirVars, placeVars, txVars, TypeOK, StateFollowsPc, StateOf,
    Early, Staging, After, Rollback, Slice, Envelope, Hosted, Terminal
<1>1. CASE Preflight(p)
  BY <1>1 DEF Preflight
<1>2. CASE OpenParent(p)
  BY <1>2 DEF OpenParent
<1>3. CASE MakeParent(p)
  BY <1>3 DEF MakeParent
<1>4. CASE Admit(p)
  BY <1>4 DEF Admit
<1>5. CASE MakeStage(p)
  BY <1>5 DEF MakeStage
<1>6. CASE BindStage(p)
  BY <1>6 DEF BindStage
<1>7. CASE BindCallFails(p)
  BY <1>7 DEF BindCallFails
<1>8. CASE \E f \in Members : WriteMember(p, f)
  BY <1>8 DEF WriteMember
<1>9. CASE VerifyStage(p)
  <2>1. Envelope /\ Whole(p) => snapshot'[p]
    BY <1>9, SnapshotTaken
  <2>2. /\ pc[p] = "write" /\ UNCHANGED <<program, state, todo>> /\ todo[p] = {}
        /\ \/ Whole(p) /\ Go(p, "recheck") /\ UNCHANGED code
           \/ Fail(p, "failed")
    BY <1>9 DEF VerifyStage
  <2> QED
    BY <2>1, <2>2
<1>10. CASE Recheck(p)
  BY <1>10 DEF Recheck
<1>11. CASE Vacant(p)
  BY <1>11 DEF Vacant
<1>12. CASE PublishExclusive(p)
  BY <1>12 DEF PublishExclusive
<1>13. CASE CheckChain(p)
  BY <1>13 DEF CheckChain
<1>14. CASE Confirm(p)
  BY <1>14 DEF Confirm
<1>15. CASE Reverify(p)
  BY <1>15 DEF Reverify
<1>16. CASE Commit(p)
  BY <1>16 DEF Commit
<1>17. CASE CallFails(p)
  BY <1>17 DEF CallFails, PCs
<1>18. CASE FindOwned(p)
  BY <1>18, HeldPlace DEF FindOwned
<1>19. CASE \E f \in Files : Unlink(p, f)
  BY <1>19 DEF Unlink
<1>20. CASE LookAgain(p)
  BY <1>20 DEF LookAgain
<1>21. CASE RemoveOwned(p)
  BY <1>21 DEF RemoveOwned
<1>22. CASE CleanupCallFails(p)
  BY <1>22 DEF CleanupCallFails
<1> QED
  BY <1>1, <1>2, <1>3, <1>4, <1>5, <1>6, <1>7, <1>8, <1>9, <1>10, <1>11, <1>12, <1>13,
      <1>14, <1>15, <1>16, <1>17, <1>18, <1>19, <1>20, <1>21, <1>22 DEF Publisher

(* The directory keeps following the program counter. *)
LEMMA PlaceStep ==
  ASSUME TypeOK, OwnInodes, StateFollowsPc, HeldFollowsPc, NEW p \in Publishers, Publisher(p)
  PROVE  PlaceOf(p)'
<1> USE Moves, HeldPlace, HeldNext, SameFiles DEF dirVars, placeVars, txVars, TypeOK,
    StateFollowsPc, StateOf, HeldFollowsPc, PlaceOf, Early, Staging, Rollback,
    Slice, Envelope, Hosted, Terminal
<1>1. CASE Preflight(p)
  BY <1>1 DEF Preflight
<1>2. CASE OpenParent(p)
  BY <1>2 DEF OpenParent
<1>3. CASE MakeParent(p)
  BY <1>3 DEF MakeParent
<1>4. CASE Admit(p)
  BY <1>4 DEF Admit
<1>5. CASE MakeStage(p)
  BY <1>5, Constants DEF MakeStage
<1>6. CASE BindStage(p)
  BY <1>6 DEF BindStage
<1>7. CASE BindCallFails(p)
  BY <1>7 DEF BindCallFails
<1>8. CASE \E f \in Members : WriteMember(p, f)
  BY <1>8 DEF WriteMember
<1>9. CASE VerifyStage(p)
  BY <1>9 DEF VerifyStage
<1>10. CASE Recheck(p)
  BY <1>10 DEF Recheck
<1>11. CASE Vacant(p)
  BY <1>11 DEF Vacant
<1>12. CASE PublishExclusive(p)
  BY <1>12 DEF PublishExclusive
<1>13. CASE CheckChain(p)
  BY <1>13 DEF CheckChain
<1>14. CASE Confirm(p)
  BY <1>14 DEF Confirm
<1>15. CASE Reverify(p)
  BY <1>15 DEF Reverify
<1>16. CASE Commit(p)
  BY <1>16 DEF Commit
<1>17. CASE CallFails(p)
  BY <1>17 DEF CallFails
<1>18. CASE FindOwned(p)
  <2>1. pc'[p] \notin Early \cup Staging \cup {"bind", "rmdir"} /\ UNCHANGED entry
    BY <1>18 DEF FindOwned
  <2>2. ASSUME pc'[p] = "sweep" PROVE owned'[p] \in Held(p)
    <3>1. Intact(p) => p \in Held(p)
      BY DEF Intact
    <3> QED
      BY <1>18, <2>2, <3>1 DEF FindOwned
  <2>3. \A n, m : n \in Held(p) /\ m \in Held(p) => n = m
    BY DEF OwnInodes
  <2>4. Held(p)' = Held(p)
    BY <2>1 DEF Held
  <2> QED
    BY <2>1, <2>2, <2>3, <2>4
<1>19. CASE \E f \in Files : Unlink(p, f)
  BY <1>19 DEF Unlink
<1>20. CASE LookAgain(p)
  BY <1>20 DEF LookAgain
<1>21. CASE RemoveOwned(p)
  BY <1>21 DEF RemoveOwned
<1>22. CASE CleanupCallFails(p)
  BY <1>22 DEF CleanupCallFails
<1> QED
  BY <1>1, <1>2, <1>3, <1>4, <1>5, <1>6, <1>7, <1>8, <1>9, <1>10, <1>11, <1>12, <1>13,
      <1>14, <1>15, <1>16, <1>17, <1>18, <1>19, <1>20, <1>21, <1>22 DEF Publisher

(* A refusal leaves nothing. *)
LEMMA NothingLeftStep ==
   ASSUME TypeOK, OwnInodes, StateFollowsPc, HeldFollowsPc, RefusalLeavesNothing,
          NEW p \in Publishers, Publisher(p)
  PROVE  NothingLeft(p)'
<1> USE Moves, ErrorCodes, HeldPlace, HeldNext DEF dirVars, placeVars, txVars, TypeOK,
    StateFollowsPc, StateOf, HeldFollowsPc, PlaceOf, RefusalLeavesNothing, NothingLeft,
    Refused, Returned, Early, Staging, After, Rollback, Slice, Envelope, Hosted, Terminal
<1>1. CASE Preflight(p)
  BY <1>1 DEF Preflight
<1>2. CASE OpenParent(p)
  BY <1>2 DEF OpenParent
<1>3. CASE MakeParent(p)
  BY <1>3 DEF MakeParent
<1>4. CASE Admit(p)
  BY <1>4 DEF Admit
<1>5. CASE MakeStage(p)
  BY <1>5 DEF MakeStage
<1>6. CASE BindStage(p)
  BY <1>6 DEF BindStage
<1>7. CASE BindCallFails(p)
  <2>1. /\ entry[Destination] # p /\ p \in Names /\ Destination \in Names
        /\ p # Destination /\ p # "none"
    BY <1>7, Constants DEF BindCallFails
  <2>2. CASE entry' = [entry EXCEPT ![p] = "none"]
    <3>1. entry'[p] # p /\ entry'[Destination] # p
      BY <2>1, <2>2
    <3> QED
      BY <3>1
  <2>3. CASE UNCHANGED entry /\ unswept' = [unswept EXCEPT ![p] = entry[p] = p]
    <3>1. ASSUME entry[p] = p PROVE unswept'[p]
      <4>1. (entry[p] = p) = TRUE
        BY <3>1
      <4>2. unswept' = [unswept EXCEPT ![p] = TRUE]
        BY <2>3, <4>1, Zenon
      <4> QED
        BY <4>2
    <3> QED
      BY <2>1, <2>3, <3>1
  <2> QED
    BY <1>7, <2>2, <2>3 DEF BindCallFails
<1>8. CASE \E f \in Members : WriteMember(p, f)
  BY <1>8 DEF WriteMember
<1>9. CASE VerifyStage(p)
  BY <1>9 DEF VerifyStage
<1>10. CASE Recheck(p)
  BY <1>10 DEF Recheck
<1>11. CASE Vacant(p)
  BY <1>11 DEF Vacant
<1>12. CASE PublishExclusive(p)
  BY <1>12 DEF PublishExclusive
<1>13. CASE CheckChain(p)
  BY <1>13 DEF CheckChain
<1>14. CASE Confirm(p)
  BY <1>14 DEF Confirm
<1>15. CASE Reverify(p)
  <2>1. state[p] = "published"
    BY <1>15 DEF Reverify
  <2>2. (\E next : next # "done" /\ Go(p, next)) \/ Fail(p, "failed")
    BY <1>15 DEF Reverify
  <2>3. pc'[p] # "done"
    BY <2>1, <2>2
  <2> QED
    BY <2>3
<1>16. CASE Commit(p)
  BY <1>16 DEF Commit
<1>17. CASE CallFails(p)
  BY <1>17 DEF CallFails, PCs
<1>18. CASE FindOwned(p)
  <2>1. \/ code'[p] = "lost" \/ pc'[p] = "sweep"
        \/ program \in {"envelope", "terminal"} /\ state[p] # "staged"
    BY <1>18 DEF FindOwned, Envelope, Terminal
   <2>2. pc'[p] # "sweep" /\ program \in {"envelope", "terminal"} /\ state[p] # "staged" /\ code'[p] # "lost"
           => state[p] = "published" /\ UNCHANGED state
    BY <1>18 DEF FindOwned, States, Envelope, Terminal
  <2> QED
    BY <1>18, <2>1, <2>2 DEF FindOwned
<1>19. CASE \E f \in Files : Unlink(p, f)
  BY <1>19 DEF Unlink
<1>20. CASE LookAgain(p)
  BY <1>20 DEF LookAgain
<1>21. CASE RemoveOwned(p)
  <2>1. CASE entry' = [entry EXCEPT ![owned[p]] = "none"]
    <3>1. EntryChange(p)
      BY <1>21, EntryStep
    <3>2. Held(p)' = {}
      BY <1>21, <2>1, <3>1, Constants, EntryByName DEF RemoveOwned
    <3> QED
      BY <3>2
  <2>2. CASE unswept' = [unswept EXCEPT ![p] = TRUE]
    BY <1>21, <2>2 DEF RemoveOwned
  <2>3. CASE code'[p] = "lost"
    BY <2>3
  <2>4. CASE ~Occupied(owned[p]) /\ UNCHANGED entry
    <3>1. pc[p] = "rmdir" /\ p # "none"
      BY <1>21, Constants DEF RemoveOwned
    <3>2. Held(p) \subseteq {owned[p]} /\ owned[p] \notin Held(p)
      BY <2>4, <3>1 DEF Occupied
    <3>3. Held(p)' = {}
      BY <2>4, <3>2 DEF Held
    <3> QED
      BY <3>3
  <2> QED
    BY <1>21, <2>1, <2>2, <2>3, <2>4 DEF RemoveOwned
<1>22. CASE CleanupCallFails(p)
  BY <1>22 DEF CleanupCallFails
<1> QED
  BY <1>1, <1>2, <1>3, <1>4, <1>5, <1>6, <1>7, <1>8, <1>9, <1>10, <1>11, <1>12, <1>13,
      <1>14, <1>15, <1>16, <1>17, <1>18, <1>19, <1>20, <1>21, <1>22 DEF Publisher

(* An undisturbed publisher keeps what it stands for. *)
LEMMA StandsStep ==
   ASSUME TypeOK, OwnInodes, StateFollowsPc, HeldFollowsPc, Undisturbed, mutations = 0,
          NEW p \in Publishers, Publisher(p)
  PROVE  StandsFor(p)'
<1> USE Moves, ErrorCodes, HeldPlace, HeldNext, SameFiles, ListingOf DEF dirVars, placeVars,
    txVars, TypeOK, StateFollowsPc, StateOf, HeldFollowsPc, PlaceOf, Undisturbed, StandsFor,
    Early, Staging, After, Rollback, Slice, Envelope, Hosted, Terminal
<1>1. CASE Preflight(p)
  BY <1>1 DEF Preflight
<1>2. CASE OpenParent(p)
  BY <1>2 DEF OpenParent
<1>3. CASE MakeParent(p)
  BY <1>3 DEF MakeParent
<1>4. CASE Admit(p)
  BY <1>4 DEF Admit
<1>5. CASE MakeStage(p)
  <2>1. /\ p \in Inodes /\ p \in Names /\ Members \subseteq Files /\ entry'[p] = p
    BY <1>5, Constants DEF MakeStage
  <2>2. /\ pc[p] = "make" /\ UNCHANGED files /\ code'[p] # "committed"
        /\ pc'[p] \in {"write", "bind", "done"}
        /\ pc'[p] = "write" => todo'[p] = Members
    BY <1>5 DEF MakeStage
  <2>3. Listing(p) = {} /\ Listing(p)' = {} /\ \A f \in Members : files[p][f] = "absent"
    BY <2>1, <2>2
  <2> QED
    BY <2>1, <2>2, <2>3
<1>6. CASE BindStage(p)
  <2>1. Listing(p) = {} /\ Members \subseteq Files
    BY <1>6, Constants DEF BindStage
  <2>2. \A f \in Members : files[p][f] = "absent"
    BY <2>1
  <2> QED
    BY <1>6, <2>2 DEF BindStage
<1>7. CASE BindCallFails(p)
  BY <1>7 DEF BindCallFails
<1>8. CASE \E f \in Members : WriteMember(p, f)
  <2>1. PICK f \in Members : WriteMember(p, f)
    BY <1>8
  <2>2. pc[p] = "write" /\ f \in todo[p] /\ files[p][f] = "absent" /\ UNCHANGED entry
    BY <2>1 DEF WriteMember
  <2>3. f \in Files /\ Stray \in Files /\ f # Stray /\ p \in Inodes /\ Members \subseteq Files
    BY Constants
  <2>4. CASE /\ files' = [files EXCEPT ![p][f] = "own"]
             /\ todo' = [todo EXCEPT ![p] = todo[p] \ {f}] /\ UNCHANGED <<pc, code>>
    <3>1. \A g \in Files : files'[p][g] = IF g = f THEN "own" ELSE files[p][g]
      BY <2>3, <2>4, FileUpdate, Words
    <3>2. todo'[p] = todo[p] \ {f}
      BY <2>4
    <3>3. pc'[p] = "write" /\ code'[p] = "none"
      BY <2>2, <2>4
    <3> QED
      BY <2>2, <2>3, <3>1, <3>2, <3>3
  <2>5. CASE /\ \E left \in {"partial", "absent"} : files' = [files EXCEPT ![p][f] = left]
             /\ Fail(p, "failed")
    <3>1. files'[p][Stray] = "absent"
      BY <2>3, <2>5, FileUpdate, Words
    <3>2. pc'[p] = "cleanup" /\ code'[p] = "failed"
      BY <2>2, <2>5
    <3> QED
      BY <3>1, <3>2
  <2>6. \/ /\ files' = [files EXCEPT ![p][f] = "own"] /\ todo' = [todo EXCEPT ![p] = todo[p] \ {f}]
           /\ UNCHANGED <<pc, code>>
        \/ /\ \E left \in {"partial", "absent"} : files' = [files EXCEPT ![p][f] = left]
           /\ Fail(p, "failed")
    BY <2>1, <2>2 DEF WriteMember
  <2> QED
    BY <2>4, <2>5, <2>6
<1>9. CASE VerifyStage(p)
  BY <1>9 DEF VerifyStage
<1>10. CASE Recheck(p)
  BY <1>10 DEF Recheck
<1>11. CASE Vacant(p)
  BY <1>11 DEF Vacant
<1>12. CASE PublishExclusive(p)
  <2>1. /\ pc[p] = "publish" /\ entry[p] = p /\ Whole(p) /\ UNCHANGED files
        /\ code[p] = "none"
    BY <1>12 DEF PublishExclusive
  <2>2. Whole(p)' /\ files'[p][Stray] = "absent"
    BY <2>1
  <2>3. CASE Fail(p, IF Occupied(p) /\ ~Envelope THEN "exists" ELSE "failed") \/ Fail(p, "failed")
    <3>1. pc'[p] = "cleanup" /\ code'[p] # "committed"
      BY <2>1, <2>3
    <3> QED
      BY <2>2, <3>1
  <2>4. CASE /\ entry' = [entry EXCEPT ![Destination] = entry[p], ![p] = "none"]
             /\ Go(p, IF Envelope \/ Terminal THEN "confirm" ELSE "chain") /\ UNCHANGED code
    <3>1. entry'[Destination] = p /\ entry'[p] = "none"
      BY <2>1, <2>4, Constants
    <3>2. pc'[p] \in {"confirm", "chain"}
      BY <2>4
    <3> QED
      BY <2>1, <2>2, <2>4, <3>1, <3>2
  <2> QED
    BY <1>12, <2>3, <2>4 DEF PublishExclusive
<1>13. CASE CheckChain(p)
  BY <1>13 DEF CheckChain
<1>14. CASE Confirm(p)
  BY <1>14 DEF Confirm
<1>15. CASE Reverify(p)
  BY <1>15 DEF Reverify
<1>16. CASE Commit(p)
  BY <1>16 DEF Commit
<1>17. CASE CallFails(p)
  BY <1>17 DEF CallFails, PCs
<1>18. CASE FindOwned(p)
  <2>1. /\ UNCHANGED <<entry, files>> /\ pc'[p] \in {"sweep", "done"}
        /\ code'[p] \in {code[p], "lost"} /\ code[p] # "committed"
    BY <1>18 DEF FindOwned
  <2>2. pc'[p] = "sweep" => owned'[p] \in Held(p)
    <3>1. Intact(p) => p \in Held(p)
      BY DEF Intact
    <3> QED
      BY <1>18, <3>1 DEF FindOwned
  <2> QED
    BY <2>1, <2>2
<1>19. CASE \E f \in Files : Unlink(p, f)
  <2>1. PICK f \in Files : Unlink(p, f)
    BY <1>19
  <2>2. /\ pc[p] = "sweep" /\ UNCHANGED <<entry, owned>> /\ code[p] # "committed"
        /\ pc'[p] \in {"sweep", "done"} /\ code'[p] \in {code[p], "failed", "lost"}
    BY <2>1 DEF Unlink
  <2>3. files'[p][Stray] = "absent"
    <3>1. CASE UNCHANGED files
      BY <3>1
    <3>2. CASE files' = [files EXCEPT ![p][f] = "absent"]
      BY <3>2, Constants, Words, FileUpdate
    <3> QED
      BY <2>1, <3>1, <3>2 DEF Unlink
  <2> QED
    BY <2>2, <2>3
<1>20. CASE LookAgain(p)
  BY <1>20 DEF LookAgain
<1>21. CASE RemoveOwned(p)
  BY <1>21 DEF RemoveOwned
<1>22. CASE CleanupCallFails(p)
  BY <1>22 DEF CleanupCallFails
<1> QED
  BY <1>1, <1>2, <1>3, <1>4, <1>5, <1>6, <1>7, <1>8, <1>9, <1>10, <1>11, <1>12, <1>13,
      <1>14, <1>15, <1>16, <1>17, <1>18, <1>19, <1>20, <1>21, <1>22 DEF Publisher

(* Without failures only whole stages are rolled back. *)
LEMMA RollsBackStep ==
  ASSUME TypeOK, OwnInodes, StateFollowsPc, HeldFollowsPc, Undisturbed, Unfailing,
         mutations = 0, faults' = 0, NEW p \in Publishers, Publisher(p)
  PROVE  RollsBackWhole(p)'
<1> USE Moves, HeldPlace, SameFiles, ListingOf DEF dirVars, placeVars, txVars, TypeOK,
    StateFollowsPc, StateOf, HeldFollowsPc, PlaceOf, Undisturbed, StandsFor, Early, Staging,
    After, Rollback, Unfailing, RollsBackWhole, Fault, Slice, Envelope, Hosted, Terminal
<1>1. CASE Preflight(p)
  BY <1>1 DEF Preflight
<1>2. CASE OpenParent(p)
  BY <1>2 DEF OpenParent
<1>3. CASE MakeParent(p)
  BY <1>3 DEF MakeParent
<1>4. CASE Admit(p)
  BY <1>4 DEF Admit
<1>5. CASE MakeStage(p)
  BY <1>5 DEF MakeStage
<1>6. CASE BindStage(p)
  BY <1>6 DEF BindStage
<1>7. CASE BindCallFails(p)
  BY <1>7 DEF BindCallFails
<1>8. CASE \E f \in Members : WriteMember(p, f)
  BY <1>8 DEF WriteMember
<1>9. CASE VerifyStage(p)
  <2>1. Whole(p)
    BY <1>9 DEF VerifyStage, Whole
  <2> QED
    BY <1>9, <2>1 DEF VerifyStage
<1>10. CASE Recheck(p)
  BY <1>10 DEF Recheck
<1>11. CASE Vacant(p)
  BY <1>11 DEF Vacant
<1>12. CASE PublishExclusive(p)
  BY <1>12 DEF PublishExclusive
<1>13. CASE CheckChain(p)
  BY <1>13 DEF CheckChain
<1>14. CASE Confirm(p)
  <2>1. pc[p] \in {"confirm", "confirmagain"} /\ code[p] # "lost"
    BY <1>14 DEF Confirm
  <2>2. entry[Destination] = p /\ ~Occupied(p)
    BY <2>1 DEF Occupied
  <2>3. Go(p, Following(pc[p])) /\ UNCHANGED code
    BY <1>14, <2>2 DEF Confirm
  <2> QED
    BY <2>1, <2>3
<1>15. CASE Reverify(p)
  BY <1>15 DEF Reverify
<1>16. CASE Commit(p)
  BY <1>16 DEF Commit
<1>17. CASE CallFails(p)
  BY <1>17 DEF CallFails, PCs
<1>18. CASE FindOwned(p)
  <2>1. state[p] = "staged" /\ entry[p] = p /\ Whole(p) /\ (Envelope => snapshot[p])
    BY <1>18 DEF FindOwned
  <2>2. Held(p) # {} /\ Stray \notin Listing(p) /\ UNCHANGED files /\ Listing(p)' = Listing(p)
    BY <1>18, <2>1 DEF FindOwned
  <2>3. Listing(p) = Members /\ \A f \in Members : files[p][f] = "own"
    BY <2>1, Constants DEF Whole, Listing
  <2>4. Envelope \/ Terminal => Intact(p)
    <3>1. Terminal => todo[p] = {}
      BY <1>18 DEF FindOwned
    <3>2. \A f \in Files : files[p][f] = IF f \in Members THEN "own" ELSE "absent"
      BY <2>1, Constants DEF Whole
    <3> QED
      BY <2>1, <3>1, <3>2 DEF Intact
  <2>5. pc'[p] = "sweep" /\ code'[p] # "lost" /\ todo'[p] = Members
    BY <1>18, <2>1, <2>2, <2>3, <2>4 DEF FindOwned
  <2> QED
    BY <2>2, <2>3, <2>5
<1>19. CASE \E f \in Files : Unlink(p, f)
  <2>1. PICK f \in Files : Unlink(p, f)
    BY <1>19
  <2>2. /\ files[p][f] = "own" /\ f \in todo[p] /\ pc'[p] = "sweep" /\ code'[p] = code[p]
        /\ todo'[p] = todo[p] \ {f} /\ files' = [files EXCEPT ![p][f] = "absent"]
    BY <2>1 DEF Unlink
  <2>3. \A g \in Files : files'[p][g] = IF g = f THEN "absent" ELSE files[p][g]
    BY <2>2, Constants, Words, FileUpdate
  <2>4. Listing(p)' = Listing(p) \ {f}
    BY <2>3 DEF Listing
  <2> QED
    BY <2>1, <2>2, <2>3, <2>4 DEF Unlink
<1>20. CASE LookAgain(p)
  BY <1>20 DEF LookAgain
<1>21. CASE RemoveOwned(p)
  BY <1>21, Constants DEF RemoveOwned, Occupied
<1>22. CASE CleanupCallFails(p)
  BY <1>22 DEF CleanupCallFails
<1> QED
  BY <1>1, <1>2, <1>3, <1>4, <1>5, <1>6, <1>7, <1>8, <1>9, <1>10, <1>11, <1>12, <1>13,
      <1>14, <1>15, <1>16, <1>17, <1>18, <1>19, <1>20, <1>21, <1>22 DEF Publisher

(* What a step of a publisher leaves of the invariant of another. *)
LEMMA OthersStep ==
  ASSUME TypeOK, OwnInodes, StateFollowsPc, HeldFollowsPc, RefusalLeavesNothing,
         NEW p \in Publishers, Publisher(p), NEW q \in Publishers, q # p
  PROVE  /\ StateOf(q)' /\ PlaceOf(q)' /\ NothingLeft(q)'
         /\ Undisturbed /\ mutations = 0 => StandsFor(q)'
         /\ RollsBackWhole(q) /\ Undisturbed /\ mutations = 0 => RollsBackWhole(q)'
<1>1. /\ pc'[q] = pc[q] /\ state'[q] = state[q] /\ snapshot'[q] = snapshot[q]
      /\ owned'[q] = owned[q] /\ todo'[q] = todo[q] /\ code'[q] = code[q]
      /\ unswept'[q] = unswept[q] /\ program' = program
  BY FrameStep
<1>2. /\ files'[q] = files[q] /\ Listing(q)' = Listing(q) /\ Whole(q)' = Whole(q)
  BY FrameStep, SameFiles, Constants
<1>3. EntryChange(p) /\ entry'[q] = entry[q] /\ entry[p] # q /\ q # "none"
  BY EntryStep, EntryByName, Constants DEF OwnInodes
<1>4. entry'[Destination] = q => entry[Destination] = q
  BY <1>3, EntryByName
<1>5. Held(q)' \subseteq Held(q)
  BY <1>3, <1>4, HeldPlace, HeldNext
<1>6. StateOf(q)'
  BY <1>1 DEF StateFollowsPc, StateOf, Envelope
<1>7. PlaceOf(q)'
  BY <1>1, <1>2, <1>3, <1>4, <1>5 DEF HeldFollowsPc, PlaceOf
<1>8. NothingLeft(q)'
  BY <1>1, <1>5 DEF RefusalLeavesNothing, NothingLeft, Refused, Returned
<1>9. ASSUME Undisturbed, mutations = 0
      PROVE  entry[Destination] = q => entry'[Destination] = q
  <2>1. pc[p] = "rmdir" => entry[owned[p]] = p
    BY <1>9 DEF Undisturbed, StandsFor
  <2> QED
    BY <1>3, <2>1, EntryByName
<1>10. ASSUME Undisturbed, mutations = 0 PROVE StandsFor(q)'
  <2>1. StandsFor(q) /\ (pc[q] \in {"sweep", "rmdir"} => owned[q] \in {q, Destination})
    BY <1>10 DEF Undisturbed, StateFollowsPc, StateOf
  <2> QED
    BY <1>1, <1>2, <1>3, <1>9, <1>10, <2>1 DEF StandsFor
<1>11. ASSUME RollsBackWhole(q) PROVE RollsBackWhole(q)'
  BY <1>1, <1>2, <1>3, <1>11 DEF RollsBackWhole, Envelope, Terminal
<1> QED
  BY <1>6, <1>7, <1>8, <1>10, <1>11

(* The whole invariant survives a step of a publisher. *)
LEMMA PublisherKeepsIInv ==
  ASSUME IInv, NEW p \in Publishers, Publisher(p)
  PROVE  IInv'
<1> USE DEF IInv
<1>1. TypeOK' /\ OwnInodes'
  BY TypeStep, OwnInodesStep
<1>2. StateFollowsPc'
  BY StateStep, OthersStep DEF StateFollowsPc
<1>3. HeldFollowsPc'
  BY PlaceStep, OthersStep DEF HeldFollowsPc
<1>4. RefusalLeavesNothing'
  BY NothingLeftStep, OthersStep DEF RefusalLeavesNothing
<1>5. mutations' = mutations /\ moved' = moved /\ faults' \in {faults, faults + 1} /\ faults \in Nat
  BY FrameStep, BoundsAssumption DEF TypeOK
<1>6. Undisturbed'
  <2> SUFFICES ASSUME mutations' = 0
               PROVE  ~moved' /\ (\A n \in Names : entry'[n] \notin Foreign)
                      /\ \A q \in Publishers : StandsFor(q)'
    BY DEF Undisturbed
  <2>1. \A n \in Names : entry'[n] \notin Foreign
    <3>1. \A n \in Names : entry[n] \notin Foreign
      BY <1>5 DEF Undisturbed
    <3>2. \A n \in Names : entry'[n] \in {entry[n], p, "none", entry[p]}
      <4>1. EntryChange(p)
        BY EntryStep
      <4>2. \A n \in Names : n = p \/ n = Destination \/ n \in Publishers \ {p}
        BY Constants
      <4> QED
        BY <4>1, <4>2, EntryByName
    <3>3. p \notin Foreign /\ "none" \notin Foreign /\ p \in Names
      BY Constants
    <3> QED
      BY <3>1, <3>2, <3>3
  <2>2. \A q \in Publishers : StandsFor(q)'
    BY <1>5, StandsStep, OthersStep
  <2> QED
    BY <1>5, <2>1, <2>2 DEF Undisturbed
<1>7. Unfailing'
  <2> SUFFICES ASSUME mutations' = 0, faults' = 0, NEW q \in Publishers PROVE RollsBackWhole(q)'
    BY DEF Unfailing
  <2>1. mutations = 0 /\ faults = 0
    BY <1>5
  <2>2. RollsBackWhole(q)
    BY <2>1 DEF Unfailing
  <2> QED
    BY <2>1, <2>2, RollsBackStep, OthersStep
<1> QED
  BY <1>1, <1>2, <1>3, <1>4, <1>6, <1>7

(* What the processes outside the protocol can do to the publishers. *)
LEMMA MutationEffect ==
  ASSUME TypeOK, Mutator
  PROVE  /\ TypeOK' /\ mutations' = mutations + 1
         /\ UNCHANGED <<program, pc, txVars, code, unswept, faults>>
         /\ \A n \in Names : entry'[n] \in {entry[n], "none"} \cup Foreign
         /\ \A p \in Publishers : Whole(p)' => Whole(p)
         /\ \A p \in Publishers : pc[p] \in Early /\ Held(p) = {} =>
              /\ entry[p] = "none" => entry'[p] = "none"
              /\ files'[p] = files[p]
<1>0. /\ mutations \in Nat
      /\ (Mutation => mutations' \in 0 .. MaxMutations /\ mutations' = mutations + 1)
  BY BoundsAssumption DEF Mutation, TypeOK
<1>1. ASSUME NEW n \in Names, Place(n)
      PROVE  /\ UNCHANGED <<placeVars, pc, txVars, code, unswept, faults>> /\ Mutation
             /\ entry' \in [Names -> Inodes \cup {"none"}]
             /\ \A m \in Names : entry'[m] \in {entry[m]} \cup Foreign
             /\ files' \in [Inodes -> [Files -> Contents]]
             /\ \A p \in Publishers : files'[p] = files[p]
             /\ \A p \in Publishers : pc[p] \in Early => entry'[p] = entry[p]
  <2>1. PICK i \in Foreign, content \in {"absent", "foreign"} :
          entry' = [entry EXCEPT ![n] = i] /\ files' = [files EXCEPT ![i][Stray] = content]
    BY <1>1 DEF Place
  <2>2. i \in Inodes /\ Stray \in Files /\ content \in Contents /\ i \notin Publishers
    BY Constants, Words
  <2>3. files' \in [Inodes -> [Files -> Contents]] /\ \A p \in Publishers : files'[p] = files[p]
    BY <2>1, <2>2 DEF TypeOK
  <2>4. \A m \in Names : entry'[m] = IF m = n THEN i ELSE entry[m]
    BY <2>1 DEF TypeOK
  <2>5. \A p \in Publishers : pc[p] \in Early => n # p
    BY <1>1, Constants DEF Place, Reachable, Early
  <2>6. \A p \in Publishers : p \in Names
    BY Constants
  <2>7. entry' \in [Names -> Inodes \cup {"none"}]
    BY <2>1, <2>2, EntryUpdate DEF TypeOK
  <2> QED
    BY <1>1, <2>3, <2>4, <2>5, <2>6, <2>7 DEF Place
<1>2. ASSUME NEW n \in Names, MoveAway(n)
      PROVE  /\ UNCHANGED <<files, placeVars, pc, txVars, code, unswept, faults>> /\ Mutation
             /\ entry' \in [Names -> Inodes \cup {"none"}]
             /\ \A m \in Names : entry'[m] \in {entry[m], "none"}
  BY <1>2, EntryUpdate DEF MoveAway, TypeOK
<1>3. ASSUME NEW p \in Publishers, NEW f \in Files, Alter(p, f)
      PROVE  /\ UNCHANGED <<entry, placeVars, pc, txVars, code, unswept, faults>> /\ Mutation
             /\ Held(p) # {}
             /\ files' \in [Inodes -> [Files -> Contents]]
             /\ \A q \in Publishers : q # p => files'[q] = files[q]
             /\ Whole(p)' => Whole(p)
  <2>1. PICK now \in {"absent", "foreign"} :
          files' = [files EXCEPT ![p][f] = now] /\ (now = "absent" => f # Stray)
    BY <1>3 DEF Alter
  <2>2. p \in Inodes /\ now \in Contents /\ \A q \in Publishers : q \in Inodes
    BY Constants, Words
  <2>3. /\ files' \in [Inodes -> [Files -> Contents]]
        /\ \A q \in Publishers : q # p => files'[q] = files[q]
    BY <2>1, <2>2 DEF TypeOK
  <2>4. ~Whole(p)'
    <3>1. files'[p][f] = now
      BY <2>1, <2>2 DEF TypeOK
    <3> QED
      BY <2>1, <3>1, Constants DEF Whole
  <2> QED
    BY <1>3, <2>3, <2>4 DEF Alter
<1>4. CASE \E n \in Names : Place(n)
  BY <1>0, <1>1, <1>4, SameFiles, Constants DEF TypeOK, txVars, placeVars
<1>5. CASE \E n \in Names : MoveAway(n)
  BY <1>0, <1>2, <1>5, SameFiles, Constants DEF TypeOK, txVars, placeVars
<1>6. CASE \E p \in Publishers, f \in Files : Alter(p, f)
  BY <1>0, <1>3, <1>6, SameFiles DEF TypeOK, txVars, placeVars
<1>7. CASE MoveAncestor
  BY <1>0, <1>7, SameFiles DEF MoveAncestor, TypeOK, dirVars, txVars
<1> QED
  BY <1>4, <1>5, <1>6, <1>7 DEF Mutator

(* The whole invariant survives a step of the others. *)
LEMMA MutatorKeepsIInv ==
  ASSUME IInv, Mutator
  PROVE  IInv'
<1> USE DEF IInv
<1>1. TypeOK' /\ mutations' = mutations + 1 /\ mutations \in Nat
  BY MutationEffect, BoundsAssumption DEF TypeOK
<1>2. UNCHANGED <<program, pc, state, snapshot, owned, todo, code, unswept>>
  BY MutationEffect DEF txVars
<1>3. \A n \in Names : entry'[n] \in {entry[n], "none"} \cup Foreign
  BY MutationEffect
<1>4. \A p \in Publishers : p \in Names /\ p \notin Foreign /\ p # "none" /\ Destination \in Names
  BY Constants
<1>5. \A p \in Publishers : \A n \in Names : entry'[n] = p => entry[n] = p
  BY <1>3, <1>4
<1>6. \A p \in Publishers : Held(p)' \subseteq Held(p)
  BY <1>4, <1>5, HeldPlace, HeldNext
<1>7. OwnInodes'
  BY <1>4, <1>5 DEF OwnInodes
<1>8. StateFollowsPc'
  BY <1>2 DEF StateFollowsPc, StateOf, Envelope
<1>9. HeldFollowsPc'
  <2> SUFFICES ASSUME NEW p \in Publishers PROVE PlaceOf(p)'
    BY DEF HeldFollowsPc
  <2>1. PlaceOf(p)
    BY DEF HeldFollowsPc
  <2>2. pc[p] \in Early => entry'[p] = "none" /\ Listing(p)' = Listing(p)
    BY <2>1, MutationEffect, SameFiles DEF PlaceOf
  <2> QED
    BY <1>2, <1>4, <1>5, <1>6, <2>1, <2>2 DEF PlaceOf
<1>10. RefusalLeavesNothing'
  BY <1>2, <1>6 DEF RefusalLeavesNothing, NothingLeft, Refused, Returned
<1>11. Undisturbed' /\ Unfailing'
  BY <1>1 DEF Undisturbed, Unfailing
<1> QED
  BY <1>1, <1>7, <1>8, <1>9, <1>10, <1>11

(* A step that changes nothing keeps the invariant. *)
LEMMA StutterKeepsIInv ==
  ASSUME IInv, UNCHANGED vars
  PROVE  IInv'
BY DEF vars, dirVars, placeVars, txVars, IInv, TypeOK, OwnInodes, StateFollowsPc, StateOf,
       HeldFollowsPc, PlaceOf, RefusalLeavesNothing, NothingLeft, Refused, Returned,
       Undisturbed, StandsFor, Unfailing, RollsBackWhole, Held, Listing, Whole, Envelope, Terminal

(* It holds at the start. *)
LEMMA InitIInv == Init => IInv
<1> SUFFICES ASSUME Init PROVE IInv
  OBVIOUS
<1> USE DEF Init
<1>1. TypeOK
  <2>0. parent \in BOOLEAN /\ moved \in BOOLEAN
    <3>1. CASE Hosted
      BY <3>1
    <3>2. CASE ~Hosted
      BY <3>2
    <3> QED
      BY <3>1, <3>2
  <2>1. mutations \in 0 .. MaxMutations /\ faults \in 0 .. MaxFaults
    BY BoundsAssumption
  <2>2. entry \in [Names -> Inodes \cup {"none"}] /\ files \in [Inodes -> [Files -> Contents]]
    BY Words
  <2>3. /\ pc \in [Publishers -> PCs]
        /\ state \in [Publishers -> States]
        /\ code \in [Publishers -> Codes]
    BY Words DEF States
  <2> QED
    BY <2>0, <2>1, <2>2, <2>3 DEF TypeOK
<1>2. /\ \A n \in Names : entry[n] = "none"
      /\ \A p \in Publishers : pc[p] = "preflight" /\ state[p] = "none" /\ code[p] = "none"
  OBVIOUS
<1>3. \A p \in Publishers : p \in Names /\ p # "none" /\ p \in Inodes /\ Destination \in Names
  BY Constants
<1>4. \A i \in Inodes : Listing(i) = {} /\ files[i][Stray] = "absent"
  BY Constants DEF Listing
<1>5. \A p \in Publishers : Held(p) = {}
  BY <1>2, <1>3, HeldPlace
<1>6. OwnInodes
  BY <1>2, <1>3 DEF OwnInodes
<1>7. StateFollowsPc
  BY <1>2 DEF StateFollowsPc, StateOf, Early, Staging, After, Rollback
<1>8. HeldFollowsPc
  BY <1>2, <1>3, <1>4, <1>5 DEF HeldFollowsPc, PlaceOf, Staging
<1>9. RefusalLeavesNothing
  BY <1>5 DEF RefusalLeavesNothing, NothingLeft
<1>10. Undisturbed
  BY <1>2, <1>3, <1>4, Constants DEF Undisturbed, StandsFor, Staging, After
<1>11. Unfailing
  BY <1>2 DEF Unfailing, RollsBackWhole
<1> QED
  BY <1>1, <1>6, <1>7, <1>8, <1>9, <1>10, <1>11 DEF IInv

(* Theorem: the inductive invariant holds for every set of publishers, members
   and foreign directories, every profile and every bound
   (generate_vertical_slice, _publish_v2_envelope, capture_hosted_gate_a).    *)
THEOREM PublicationInductive == Spec => []IInv
<1>1. IInv /\ [Next]_vars => IInv'
  BY PublisherKeepsIInv, MutatorKeepsIInv, StutterKeepsIInv DEF Next
<1> QED
  BY InitIInv, <1>1, PTL DEF Spec

(* Theorem: a publisher that refuses for any reason but a lost name has left
   no directory behind (_cleanup_transaction, _create_stage).                 *)
THEOREM PublicationRefusalLeavesNothing == Spec => []RefusalLeavesNothing
<1>1. IInv => RefusalLeavesNothing
  BY DEF IInv
<1> QED
  BY <1>1, PublicationInductive, PTL

(* Theorem: publishers that only race with each other never report a lost
   name (_cleanup_after_failure, _cleanup_v2_stage).                          *)
THEOREM PublicationLossHasACause == Spec => []LossHasACause
<1>1. IInv => LossHasACause
  <2> SUFFICES ASSUME IInv, NEW p \in Publishers, code[p] = "lost" PROVE mutations + faults > 0
    BY DEF LossHasACause
  <2>1. mutations \in Nat /\ faults \in Nat
    BY BoundsAssumption DEF IInv, TypeOK
  <2>2. ~(mutations = 0 /\ faults = 0)
    BY DEF IInv, Unfailing, RollsBackWhole
  <2> QED
    BY <2>1, <2>2
<1> QED
  BY <1>1, PublicationInductive, PTL

(* Theorem: a directory of another process that holds something keeps a name
   whatever a publisher does (the rmdir by name in _cleanup_transaction).     *)
THEOREM PublicationReplacementsStay == Spec => ReplacementsStay
<1> DEFINE Named(i) == \E n \in Names : entry[n] = i
<1>1. ASSUME IInv, NEW p \in Publishers, Publisher(p), NEW i \in Foreign, NEW n \in Names,
             entry[n] = i, Listing(i) # {}
      PROVE  \E m \in Names : entry'[m] = i
  <2>1. EntryChange(p)
    BY <1>1, EntryStep DEF IInv
  <2>2. i # "none" /\ i # p /\ p \in Names /\ Destination \in Names /\ p # Destination
    BY Constants
  <2>3. pc[p] = "make" => entry[p] = "none"
    BY <1>1 DEF IInv, HeldFollowsPc, PlaceOf, Early
  <2>4. DOMAIN entry = Names
    BY <1>1 DEF IInv, TypeOK
  <2>5. CASE UNCHANGED entry
    BY <1>1, <2>5
  <2>6. CASE pc[p] = "make" /\ entry' = [entry EXCEPT ![p] = p]
    BY <1>1, <2>2, <2>3, <2>4, <2>6
  <2>7. CASE entry[p] = p /\ entry' = [entry EXCEPT ![p] = "none"]
    BY <1>1, <2>2, <2>4, <2>7
  <2>8. CASE /\ entry[Destination] = "none"
             /\ entry' = [entry EXCEPT ![Destination] = entry[p], ![p] = "none"]
    <3>1. entry'[Destination] = entry[p] /\ \A m \in Names \ {p, Destination} : entry'[m] = entry[m]
      BY <2>2, <2>4, <2>8
    <3> QED
      BY <1>1, <2>2, <2>8, <3>1
  <2>9. CASE Listing(entry[owned[p]]) = {} /\ entry' = [entry EXCEPT ![owned[p]] = "none"]
    <3>1. n # owned[p]
      BY <1>1, <2>9
    <3> QED
      BY <1>1, <2>4, <2>9, <3>1
  <2> QED
    BY <2>1, <2>5, <2>6, <2>7, <2>8, <2>9 DEF EntryChange
<1>2. ASSUME IInv, Mutator PROVE mutations' # mutations
  BY <1>2, MutationEffect, BoundsAssumption DEF IInv, TypeOK
<1>3. IInv /\ [Next]_vars =>
        [\A i \in Foreign :
           (\E n \in Names : entry[n] = i) /\ Listing(i) # {} /\ mutations' = mutations
             => \E n \in Names : entry'[n] = i]_vars
  BY <1>1, <1>2 DEF Next
<1> QED
  BY <1>3, PublicationInductive, PTL DEF Spec, ReplacementsStay

(* When a publisher answers, and what it may do to its files. *)
LEMMA AnswerShape ==
  ASSUME TypeOK, StateFollowsPc, NEW p \in Publishers, Publisher(p)
  PROVE  /\ pc[p] # "done"
         /\ pc'[p] = "done" /\ code'[p] = "committed" => pc[p] = "sync"
         /\ pc[p] = "publish" /\ ~UNCHANGED entry => pc'[p] # "done"
         /\ pc[p] = "rmdir" => pc'[p] = "done"
         /\ \/ UNCHANGED files
            \/ pc[p] = "write"
            \/ /\ pc[p] = "sweep" /\ pc'[p] = "sweep" /\ UNCHANGED entry
               /\ \E f \in Files : /\ files[p][f] # "absent"
                                    /\ files' = [files EXCEPT ![p][f] = "absent"]
<1> USE Moves, ErrorCodes DEF dirVars, placeVars, txVars, TypeOK, StateFollowsPc, StateOf,
    Early, Staging, After, Rollback, Slice, Envelope, Hosted, Terminal
<1>1. CASE Preflight(p)
  BY <1>1 DEF Preflight
<1>2. CASE OpenParent(p)
  BY <1>2 DEF OpenParent
<1>3. CASE MakeParent(p)
  BY <1>3 DEF MakeParent
<1>4. CASE Admit(p)
  BY <1>4 DEF Admit
<1>5. CASE MakeStage(p)
  BY <1>5 DEF MakeStage
<1>6. CASE BindStage(p)
  BY <1>6 DEF BindStage
<1>7. CASE BindCallFails(p)
  BY <1>7 DEF BindCallFails
<1>8. CASE \E f \in Members : WriteMember(p, f)
  BY <1>8 DEF WriteMember
<1>9. CASE VerifyStage(p)
  BY <1>9 DEF VerifyStage
<1>10. CASE Recheck(p)
  BY <1>10 DEF Recheck
<1>11. CASE Vacant(p)
  BY <1>11 DEF Vacant
<1>12. CASE PublishExclusive(p)
  BY <1>12 DEF PublishExclusive
<1>13. CASE CheckChain(p)
  BY <1>13 DEF CheckChain
<1>14. CASE Confirm(p)
  BY <1>14 DEF Confirm
<1>15. CASE Reverify(p)
  BY <1>15 DEF Reverify
<1>16. CASE Commit(p)
  BY <1>16 DEF Commit
<1>17. CASE CallFails(p)
  BY <1>17 DEF CallFails, PCs
<1>18. CASE FindOwned(p)
  BY <1>18 DEF FindOwned
<1>19. CASE \E f \in Files : Unlink(p, f)
  BY <1>19 DEF Unlink
<1>20. CASE LookAgain(p)
  BY <1>20 DEF LookAgain
<1>21. CASE RemoveOwned(p)
  BY <1>21 DEF RemoveOwned
<1>22. CASE CleanupCallFails(p)
  BY <1>22 DEF CleanupCallFails
<1> QED
  BY <1>1, <1>2, <1>3, <1>4, <1>5, <1>6, <1>7, <1>8, <1>9, <1>10, <1>11, <1>12, <1>13,
      <1>14, <1>15, <1>16, <1>17, <1>18, <1>19, <1>20, <1>21, <1>22 DEF Publisher

(* A publisher that has not returned is still working. *)
LEMMA AnswerOf ==
  ASSUME NEW p \in Publishers, pc[p] # "done"
  PROVE  Answers[p] = "working"
<1>1. ~Returned(p)
  BY DEF Returned
<1>2. Answers[p] = CASE ~Returned(p) -> "working" [] Refused(p) -> "refused" [] OTHER -> "committed"
  BY DEF Answers
<1>3. (CASE ~Returned(p) -> "working" [] Refused(p) -> "refused" [] OTHER -> "committed")
        = "working"
  BY <1>1 DEF Refused
<1> QED
  BY <1>2, <1>3

(* The answer of the acting publisher is the only one that changes. *)
LEMMA AnswersStep ==
  ASSUME IInv, NEW p \in Publishers, Publisher(p)
  PROVE  /\ Answers[p] = "working"
         /\ \/ Answers' = Answers /\ pc'[p] # "done"
            \/ /\ pc'[p] = "done" /\ code'[p] # "committed"
               /\ Answers' = [Answers EXCEPT ![p] = "refused"]
            \/ /\ pc[p] = "sync" /\ Answers' = [Answers EXCEPT ![p] = "committed"]
<1>1. pc[p] # "done" /\ (pc'[p] = "done" /\ code'[p] = "committed" => pc[p] = "sync")
  BY AnswerShape DEF IInv
<1>2. \A q \in Publishers \ {p} : pc'[q] = pc[q] /\ code'[q] = code[q]
  BY FrameStep DEF IInv
<1>3. \A q \in Publishers \ {p} : Answers'[q] = Answers[q]
  BY <1>2 DEF Answers, Returned, Refused
<1>4. Answers[p] = "working"
  BY <1>1, AnswerOf
<1>5. Answers'[p] = CASE pc'[p] # "done"          -> "working"
                      [] pc'[p] = "done" /\ code'[p] # "committed" -> "refused"
                      [] OTHER                    -> "committed"
  BY DEF Answers, Returned, Refused
<1>6. /\ Answers = [q \in Publishers |-> Answers[q]]
      /\ Answers' = [q \in Publishers |-> Answers'[q]]
      /\ DOMAIN Answers = Publishers /\ DOMAIN Answers' = Publishers
  BY DEF Answers
<1> QED
  BY <1>1, <1>3, <1>4, <1>5, <1>6

(* Whose the destination is, seen from the directory that has its name. *)
LEMMA HolderIs ==
  /\ entry[Destination] = "none" => Holder = "none" /\ ~PackageWhole
  /\ \A q \in Publishers : entry[Destination] = q =>
       Holder = q /\ Holder # "none" /\ (PackageWhole <=> Whole(q))
  /\ entry[Destination] \in Foreign => Holder = "other" /\ ~PackageWhole
BY Constants DEF Holder, PackageWhole, Inodes

(* Whose it is after a step. *)
LEMMA HolderBecomes ==
  /\ entry'[Destination] = "none" => Holder' = "none" /\ ~PackageWhole'
  /\ \A q \in Publishers : entry'[Destination] = q =>
       Holder' = q /\ (PackageWhole' <=> Whole(q)')
  /\ entry'[Destination] \in Foreign => Holder' = "other" /\ ~PackageWhole'
  /\ entry'[Destination] = entry[Destination] => Holder' = Holder
  /\ PackageWhole' \in BOOLEAN /\ PackageWhole \in BOOLEAN
<1>1. entry'[Destination] = entry[Destination] => Holder' = Holder
  BY DEF Holder
<1>2. PackageWhole' \in BOOLEAN /\ PackageWhole \in BOOLEAN
  BY DEF PackageWhole
<1> QED
  BY <1>1, <1>2, Constants DEF Holder, PackageWhole, Inodes

(* A step of a publisher is a step of the promise. *)
LEMMA PublisherKeepsPromise ==
  ASSUME IInv, NEW p \in Publishers, Publisher(p)
  PROVE  Promise!Next \/ UNCHANGED <<Holder, PackageWhole, Answers, mutations > 0>>
<1> USE DEF IInv
<1>1. (mutations > 0)' = (mutations > 0) /\ mutations \in Nat
  BY FrameStep, BoundsAssumption DEF TypeOK
<1>2. EntryChange(p)
  BY EntryStep
<1>3. CASE entry'[Destination] = entry[Destination] /\ PackageWhole' = PackageWhole
  <2>1. Holder' = Holder
    BY <1>3, HolderBecomes
  <2>2. CASE Answers' = Answers
    BY <1>1, <1>3, <2>1, <2>2
  <2>3. CASE Answers' = [Answers EXCEPT ![p] = "refused"]
    <3>1. Promise!Answer(p, "refused")
      BY <1>1, <1>3, <2>1, <2>3, AnswersStep DEF Promise!Answer
    <3> QED
      BY <3>1 DEF Promise!Next
  <2>4. CASE pc[p] = "sync" /\ Answers' = [Answers EXCEPT ![p] = "committed"]
    <3>1. mutations > 0 \/ (entry[Destination] = p /\ Whole(p))
      BY <1>1, <2>4 DEF Undisturbed, StandsFor, After
    <3>2. mutations > 0 \/ (Holder = p /\ PackageWhole)
      BY <3>1, HolderIs
    <3>3. Promise!Answer(p, "committed")
      BY <1>1, <1>3, <2>1, <2>4, <3>2, AnswersStep DEF Promise!Answer
    <3> QED
      BY <3>3 DEF Promise!Next
  <2> QED
    BY <2>2, <2>3, <2>4, AnswersStep
<1>4. CASE entry'[Destination] = entry[Destination] /\ PackageWhole' # PackageWhole
  <2>1. entry[Destination] = p /\ ~UNCHANGED files
    <3>1. entry[Destination] \in Publishers
      BY <1>4 DEF PackageWhole
    <3>2. files'[entry[Destination]] # files[entry[Destination]]
      BY <1>4, <3>1, SameFiles DEF PackageWhole
    <3> QED
      BY <3>1, <3>2, FrameStep, Constants
  <2>2. pc[p] # "write"
    BY <2>1 DEF HeldFollowsPc, PlaceOf, Staging
  <2>3. PICK f \in Files :
          /\ pc[p] = "sweep" /\ pc'[p] = "sweep"
          /\ files[p][f] # "absent" /\ files' = [files EXCEPT ![p][f] = "absent"]
    BY <2>1, <2>2, AnswerShape
  <2>4. Holder = p /\ Holder' = Holder /\ Answers' = Answers
    BY <1>4, <2>1, <2>3, AnswersStep, HolderIs, HolderBecomes
  <2>5. mutations > 0 \/ PackageWhole' = FALSE
    <3> SUFFICES ASSUME ~(mutations > 0) PROVE ~PackageWhole'
      BY HolderBecomes
    <3>1. f # Stray
      BY <1>1, <2>3 DEF Undisturbed, StandsFor
    <3>2. f \in Members /\ p \in Inodes
      BY <3>1, Constants
    <3>3. files'[p][f] = "absent"
      BY <2>3, <3>2, Words, FileUpdate DEF TypeOK
    <3>4. ~Whole(p)'
      BY <3>2, <3>3 DEF Whole
    <3> QED
      BY <1>4, <2>1, <3>4, HolderBecomes
  <2>6. Promise!Withdraw(p)
    BY <1>1, <2>4, <2>5, AnswersStep, HolderBecomes DEF Promise!Withdraw
  <2> QED
    BY <2>6 DEF Promise!Next
<1>5. CASE /\ pc[p] = "publish" /\ entry[Destination] = "none" /\ entry[p] # "none"
           /\ entry'[Destination] = entry[p]
  <2>1. Answers' = Answers /\ Answers[p] = "working"
    BY <1>5, AnswersStep, AnswerShape
  <2>2. entry[p] = p \/ (mutations > 0 /\ entry[p] \in Foreign)
    <3>1. p \in Names /\ entry[p] \in Inodes
      BY <1>5, Constants DEF TypeOK
    <3>2. entry[p] \in Publishers => entry[p] = p
      BY DEF OwnInodes
    <3>3. mutations = 0 => entry[p] = p
      BY <1>5 DEF Undisturbed, StandsFor, Staging
    <3> QED
      BY <1>1, <3>1, <3>2, <3>3, Constants
  <2>3. mutations > 0 \/ Whole(p)'
    <3>1. mutations > 0 \/ Whole(p)
      BY <1>1, <1>5 DEF Undisturbed, StandsFor
    <3>2. UNCHANGED files
      BY <1>5, AnswerShape
    <3> QED
      BY <3>1, <3>2, SameFiles
  <2>4. Holder = "none" /\ Holder' \in (IF mutations > 0 THEN {p, "other"} ELSE {p})
    BY <1>5, <2>2, HolderIs, HolderBecomes
  <2>5. PackageWhole' \in (IF mutations > 0 THEN BOOLEAN ELSE {TRUE})
    BY <1>5, <2>2, <2>3, HolderBecomes
  <2>6. Promise!Publish(p)
    BY <1>1, <2>1, <2>4, <2>5 DEF Promise!Publish
  <2> QED
    BY <2>6 DEF Promise!Next
<1>6. CASE /\ pc[p] = "rmdir" /\ owned[p] = Destination /\ entry'[Destination] = "none"
           /\ Listing(entry[Destination]) = {} /\ entry[Destination] # "none"
  <2>1. Answers[p] = "working" /\ Answers' = [Answers EXCEPT ![p] = "refused"]
    BY <1>6, AnswersStep, AnswerShape
  <2>2. Holder # "none" /\ ~PackageWhole
    <3>1. entry[Destination] \in Publishers \/ entry[Destination] \in Foreign
      BY <1>6, Constants DEF TypeOK
    <3>2. ~Whole(entry[Destination])
      BY <1>6, ListingOf
    <3> QED
      BY <3>1, <3>2, HolderIs
  <2>3. mutations > 0 \/ Holder = p
    <3>1. mutations > 0 \/ entry[Destination] = p
      BY <1>1, <1>6 DEF Undisturbed, StandsFor
    <3> QED
      BY <3>1, HolderIs
  <2>4. Holder' = "none" /\ PackageWhole' = FALSE
    BY <1>6, HolderBecomes
  <2>5. Promise!Withdraw(p)
    BY <1>1, <2>1, <2>2, <2>3, <2>4 DEF Promise!Withdraw
  <2> QED
    BY <2>5 DEF Promise!Next
<1> QED
  BY <1>2, <1>3, <1>4, <1>5, <1>6, EntryByName

(* A step of the other processes disturbs. *)
LEMMA MutatorKeepsPromise ==
  ASSUME IInv, Mutator
  PROVE  Promise!Disturb
<1> USE DEF IInv
<1>1. (mutations > 0)' = TRUE
  BY MutationEffect, BoundsAssumption DEF TypeOK
<1>2. Answers' = Answers
  BY MutationEffect DEF Answers, Returned, Refused
<1>3. entry'[Destination] \in {entry[Destination], "none"} \cup Foreign
  BY MutationEffect, Constants
<1>4. Holder' \in {Holder, "other", "none"}
  BY <1>3, HolderBecomes
<1>5. PackageWhole' \in {PackageWhole, FALSE}
  <2>1. CASE entry'[Destination] = entry[Destination] /\ entry[Destination] \in Publishers
    BY <2>1, MutationEffect, HolderIs, HolderBecomes
  <2>2. CASE entry'[Destination] \notin Publishers
    BY <2>2 DEF PackageWhole
  <2> QED
    BY <1>3, <2>1, <2>2, Constants
<1> QED
  BY <1>1, <1>2, <1>4, <1>5 DEF Promise!Disturb

(* Theorem: the publishers of one destination keep the promise of
   WriteOncePublication, whatever the others do to the namespace
   (generate_vertical_slice, _publish_v2_envelope, capture_hosted_gate_a).    *)
THEOREM PublicationImplementsWriteOnce == Spec => ImplementsWriteOnce
<1>1. Init => Promise!Init
  <2> SUFFICES ASSUME Init PROVE Promise!Init
    OBVIOUS
  <2>1. entry[Destination] = "none" /\ mutations = 0
    BY Constants DEF Init
  <2>2. Answers = [p \in Publishers |-> "working"]
    <3>1. \A p \in Publishers : Answers[p] = "working"
      BY AnswerOf DEF Init
    <3>2. Answers = [p \in Publishers |-> Answers[p]]
      BY DEF Answers
    <3> QED
      BY <3>1, <3>2
  <2>3. Holder = "none" /\ PackageWhole = FALSE
    BY <2>1, HolderIs, HolderBecomes
  <2>4. (mutations > 0) = FALSE
    BY <2>1
  <2> QED
    BY <2>2, <2>3, <2>4 DEF Promise!Init
<1>2. IInv /\ [Next]_vars => [Promise!Next]_(Promise!vars)
  <2> SUFFICES ASSUME IInv, [Next]_vars PROVE [Promise!Next]_(Promise!vars)
    OBVIOUS
  <2>1. CASE UNCHANGED vars
    <3>1. /\ UNCHANGED Holder /\ UNCHANGED PackageWhole
          /\ UNCHANGED Answers /\ UNCHANGED (mutations > 0)
      BY <2>1 DEF vars, dirVars, Holder, PackageWhole, Whole, Answers, Returned, Refused
    <3> QED
      BY <3>1 DEF Promise!vars
  <2>2. ASSUME NEW p \in Publishers, Publisher(p) PROVE [Promise!Next]_(Promise!vars)
    BY <2>2, PublisherKeepsPromise DEF Promise!vars
  <2>3. CASE Mutator
    BY <2>3, MutatorKeepsPromise DEF Promise!Next
  <2> QED
    BY <2>1, <2>2, <2>3 DEF Next
<1> QED
  BY <1>1, <1>2, PublicationInductive, PTL DEF Spec, ImplementsWriteOnce, Promise!Spec

(* Theorem: the rollback of an envelope leaves every file that another process
   has put in the place of a member (_cleanup_v2_stage).                      *)
THEOREM PublicationReplacedMembersStay ==
  Spec => ReplacedMembersStay
<1>1. ASSUME IInv, NEW p \in Publishers, Publisher(p), NEW q \in Publishers, NEW f \in Files,
             Envelope, files[q][f] = "foreign"
      PROVE  files'[q][f] = "foreign"
  <2> USE <1>1 DEF IInv
  <2>1. CASE q # p
    BY <2>1, FrameStep, Constants
  <2>2. CASE q = p /\ \E g \in Members : WriteMember(p, g)
    BY <2>2, Constants DEF WriteMember, TypeOK
  <2>3. CASE q = p /\ \E g \in Files : Unlink(p, g)
    BY <2>3, Constants DEF Unlink, TypeOK, Envelope
  <2>4. CASE q = p /\ UNCHANGED files
    BY <2>4
  <2>5. UNCHANGED files \/ (\E g \in Members : WriteMember(p, g)) \/ \E g \in Files : Unlink(p, g)
    BY DEF Publisher, dirVars, Preflight, OpenParent, MakeParent, Admit, MakeStage, BindStage,
           BindCallFails, VerifyStage, Recheck, Vacant, PublishExclusive, CheckChain, Confirm,
           Reverify, Commit, CallFails, FindOwned, LookAgain, RemoveOwned, CleanupCallFails
  <2> QED
    BY <2>1, <2>2, <2>3, <2>4, <2>5
<1>2. ASSUME IInv, Mutator PROVE mutations' # mutations
  BY <1>2, MutationEffect, BoundsAssumption DEF IInv, TypeOK
<1>3. IInv /\ [Next]_vars =>
        [\A p \in Publishers, f \in Files :
           Envelope /\ files[p][f] = "foreign" /\ mutations' = mutations => files'[p][f] = "foreign"]_vars
  BY <1>1, <1>2 DEF Next
<1> QED
  BY <1>3, PublicationInductive, PTL DEF Spec, ReplacedMembersStay

(* Where a slice publisher that refuses without naming the loss may leave
   another's directory at its stage's name: a call of its rollback failed, it
   never opened the stage, or it had moved it to the destination already.    *)
LossOf(p) ==
  Slice /\ Refused(p) /\ code[p] # "lost" /\ entry[p] \in Foreign =>
    unswept[p] \/ state[p] = "none" \/ owned[p] = Destination

LEMMA LossStep ==
  ASSUME IInv, NEW p \in Publishers, Publisher(p)
  PROVE  LossOf(p)'
<1> USE Moves DEF dirVars, placeVars, txVars, IInv, TypeOK, StateFollowsPc, StateOf,
    Early, Rollback, Slice, Envelope, Hosted, Terminal, LossOf, Refused, Returned
<1>1. CASE Preflight(p)
  BY <1>1 DEF Preflight
<1>2. CASE OpenParent(p)
  BY <1>2 DEF OpenParent
<1>3. CASE MakeParent(p)
  BY <1>3 DEF MakeParent
<1>4. CASE Admit(p)
  BY <1>4 DEF Admit
<1>5. CASE MakeStage(p)
  BY <1>5 DEF MakeStage
<1>6. CASE BindStage(p)
  BY <1>6 DEF BindStage
<1>7. CASE BindCallFails(p)
  BY <1>7 DEF BindCallFails
<1>8. CASE \E f \in Members : WriteMember(p, f)
  BY <1>8 DEF WriteMember
<1>9. CASE VerifyStage(p)
  BY <1>9 DEF VerifyStage
<1>10. CASE Recheck(p)
  BY <1>10 DEF Recheck
<1>11. CASE Vacant(p)
  BY <1>11 DEF Vacant
<1>12. CASE PublishExclusive(p)
  BY <1>12 DEF PublishExclusive
<1>13. CASE CheckChain(p)
  BY <1>13 DEF CheckChain
<1>14. CASE Confirm(p)
  BY <1>14 DEF Confirm
<1>15. CASE Reverify(p)
  BY <1>15 DEF Reverify
<1>16. CASE Commit(p)
  BY <1>16 DEF Commit
<1>17. CASE CallFails(p)
  BY <1>17, ErrorCodes DEF CallFails
<1>18. CASE FindOwned(p)
  BY <1>18 DEF FindOwned
<1>19. CASE \E f \in Files : Unlink(p, f)
  BY <1>19 DEF Unlink
<1>20. CASE LookAgain(p)
  BY <1>20 DEF LookAgain
<1>21. CASE RemoveOwned(p)
  <2>1. owned[p] \in {p, Destination} /\ UNCHANGED <<program, owned>> /\ p \in Names
    BY <1>21, Constants DEF RemoveOwned
  <2>2. CASE entry' = [entry EXCEPT ![owned[p]] = "none"]
    <3>1. owned[p] = p => entry'[p] = "none"
      BY <2>1, <2>2
    <3> QED
      BY <2>1, <3>1, Constants
  <2>3. CASE Slice => code'[p] = "lost"
    BY <2>1, <2>3
  <2>4. CASE /\ Occupied(owned[p]) /\ Listing(entry[owned[p]]) # {}
             /\ unswept' = [unswept EXCEPT ![p] = TRUE]
    BY <2>4
  <2> QED
    BY <1>21, <2>2, <2>3, <2>4 DEF RemoveOwned
<1>22. CASE CleanupCallFails(p)
  BY <1>22 DEF CleanupCallFails
<1> QED
  BY <1>1, <1>2, <1>3, <1>4, <1>5, <1>6, <1>7, <1>8, <1>9, <1>10, <1>11, <1>12, <1>13, <1>14, <1>15, <1>16, <1>17, <1>18, <1>19, <1>20, <1>21, <1>22 DEF Publisher

(* A publisher of the vertical slice names the loss of its stage whenever
   another's directory is at the stage's name, except in these three cases.  *)
LossIsReportedOrLate == \A p \in Publishers : LossOf(p)

(* Theorem: _cleanup_transaction reports a replaced stage as a lost name; what
   it does not see is a stage replaced before _create_stage opened it, or a
   directory that came to the old name after the rename.                     *)
THEOREM PublicationLossIsReportedOrLate == Spec => []LossIsReportedOrLate
<1>1. Init => LossIsReportedOrLate
  BY DEF Init, LossIsReportedOrLate, LossOf, Refused, Returned
<1>2. ASSUME IInv, LossIsReportedOrLate, NEW p \in Publishers, Publisher(p)
      PROVE  LossIsReportedOrLate'
  <2>1. \A q \in Publishers \ {p} : entry'[q] = entry[q]
    BY <1>2, EntryStep, EntryByName DEF IInv
  <2>2. \A q \in Publishers \ {p} : LossOf(q)'
    BY <1>2, <2>1, FrameStep DEF IInv, LossIsReportedOrLate, LossOf, Refused, Returned, Slice
  <2> QED
    BY <1>2, <2>2, LossStep DEF LossIsReportedOrLate
<1>3. ASSUME IInv, LossIsReportedOrLate, Mutator PROVE LossIsReportedOrLate'
  <2>1. UNCHANGED <<program, pc, txVars, code, unswept>>
    BY <1>3, MutationEffect DEF IInv
  <2>2. ASSUME NEW p \in Publishers, pc[p] = "done"
        PROVE  entry'[p] \in {entry[p], "none"}
    <3>1. p \in Names /\ p # Destination
      BY Constants
    <3>2. ASSUME NEW n \in Names, Place(n) PROVE entry'[p] = entry[p]
      <4>1. n # p
        BY <2>2, <3>1, <3>2 DEF Place, Reachable
      <4> QED
        BY <3>1, <3>2, <4>1 DEF Place
    <3>3. ASSUME NEW n \in Names, MoveAway(n) PROVE entry'[p] \in {entry[p], "none"}
      BY <1>3, <3>1, <3>3 DEF MoveAway, IInv, TypeOK
    <3>4. (\E q \in Publishers, f \in Files : Alter(q, f)) \/ MoveAncestor => entry' = entry
      BY DEF Alter, MoveAncestor, dirVars
    <3> QED
      BY <1>3, <3>2, <3>3, <3>4 DEF Mutator
  <2>3. "none" \notin Foreign
    BY Constants
  <2> QED
    BY <1>3, <2>1, <2>2, <2>3 DEF LossIsReportedOrLate, LossOf, Refused, Returned, Slice, txVars
<1>4. ASSUME LossIsReportedOrLate, UNCHANGED vars PROVE LossIsReportedOrLate'
  BY <1>4 DEF vars, dirVars, placeVars, txVars, LossIsReportedOrLate, LossOf, Refused, Returned, Slice
<1>5. IInv /\ LossIsReportedOrLate /\ [Next]_vars => LossIsReportedOrLate'
  BY <1>2, <1>3, <1>4 DEF Next
<1> QED
  BY <1>1, <1>5, PublicationInductive, PTL DEF Spec

(* Hosted captures or terminal packages that only race: who refuses has seen an
   occupied destination, and whoever occupies it commits.                      *)
RaceOf(p) ==
  /\ Hosted => pc[p] # "mkparent"
  /\ Terminal => pc[p] \notin {"admit", "vacant"}
  /\ (pc[p] = "done" => code[p] # "none")
  /\ code[p] \notin {"none", "committed"} => Occupied(Destination)
  /\ entry[Destination] = p => pc[p] \in After \/ (pc[p] = "done" /\ code[p] = "committed")

Race ==
  (Hosted \/ Terminal) /\ mutations = 0 /\ faults = 0
    => (Hosted => parent = TRUE) /\ \A p \in Publishers : RaceOf(p)

(* A racing publisher gives up only against an occupied destination. *)
LEMMA RaceStep ==
  ASSUME IInv, Race, Hosted \/ Terminal, mutations = 0, faults = 0, faults' = 0,
         NEW p \in Publishers, Publisher(p)
  PROVE  RaceOf(p)' /\ (Occupied(Destination) => Occupied(Destination)') /\ (Hosted => parent = TRUE)'
<1> USE Moves, Constants DEF dirVars, placeVars, txVars, IInv, TypeOK, StateFollowsPc,
    StateOf, HeldFollowsPc, PlaceOf, Undisturbed, StandsFor, Early, Staging, After,
    Rollback, Unfailing, RollsBackWhole, Fault, Hosted, Slice, Envelope, Terminal, Occupied, Race,
    RaceOf, Following
<1>1. CASE Preflight(p)
  BY <1>1 DEF Preflight
<1>2. CASE OpenParent(p)
  BY <1>2 DEF OpenParent
<1>3. CASE MakeParent(p)
  BY <1>3 DEF MakeParent
<1>4. CASE Admit(p)
  BY <1>4 DEF Admit
<1>5. CASE MakeStage(p)
  <2>1. /\ pc'[p] \in {"write", "bind"} /\ UNCHANGED <<code, program, parent>>
        /\ entry' = [entry EXCEPT ![p] = p] /\ pc[p] = "make"
    BY <1>5 DEF MakeStage
  <2>2. entry'[Destination] = entry[Destination]
    BY <2>1
  <2>3. code[p] = "none" /\ entry[Destination] # p
    BY <2>1
  <2> QED
    BY <2>1, <2>2, <2>3
<1>6. CASE BindStage(p)
  BY <1>6 DEF BindStage
<1>7. CASE BindCallFails(p)
  BY <1>7 DEF BindCallFails
<1>8. CASE \E f \in Members : WriteMember(p, f)
  BY <1>8 DEF WriteMember
<1>9. CASE VerifyStage(p)
  <2>1. Whole(p)
    BY <1>9 DEF VerifyStage, Whole
  <2> QED
    BY <1>9, <2>1 DEF VerifyStage
<1>10. CASE Recheck(p)
  BY <1>10 DEF Recheck
<1>11. CASE Vacant(p)
  BY <1>11 DEF Vacant
<1>12. CASE PublishExclusive(p)
  BY <1>12 DEF PublishExclusive
<1>13. CASE CheckChain(p)
  BY <1>13 DEF CheckChain
<1>14. CASE Confirm(p)
  BY <1>14 DEF Confirm
<1>15. CASE Reverify(p)
  BY <1>15 DEF Reverify
<1>16. CASE Commit(p)
  BY <1>16 DEF Commit
<1>17. CASE CallFails(p)
  BY <1>17 DEF CallFails, PCs
<1>18. CASE FindOwned(p)
  BY <1>18 DEF FindOwned
<1>19. CASE \E f \in Files : Unlink(p, f)
  BY <1>19 DEF Unlink
<1>20. CASE LookAgain(p)
  BY <1>20 DEF LookAgain
<1>21. CASE RemoveOwned(p)
  BY <1>21 DEF RemoveOwned
<1>22. CASE CleanupCallFails(p)
  BY <1>22 DEF CleanupCallFails
<1> QED
  BY <1>1, <1>2, <1>3, <1>4, <1>5, <1>6, <1>7, <1>8, <1>9, <1>10, <1>11, <1>12, <1>13,
      <1>14, <1>15, <1>16, <1>17, <1>18, <1>19, <1>20, <1>21, <1>22 DEF Publisher

(* Theorem: hosted captures that only race with each other do not all give up,
   nor do terminal packages (the exclusive renames of capture_hosted_gate_a and
   _atomic_rename_noreplace_at).                                               *)
THEOREM PublicationSomebodyPublishes ==
  ASSUME Publishers # {}
  PROVE  Spec => []SomebodyPublishes
<1>1. Init => Race
  <2> SUFFICES ASSUME Init, NEW p \in Publishers
               PROVE  (Hosted => parent = TRUE) /\ RaceOf(p)
    BY DEF Race
  <2>1. pc[p] = "preflight" /\ code[p] = "none" /\ entry[Destination] = "none" /\ p # "none"
    BY Constants DEF Init
  <2>2. Hosted => parent = TRUE
    BY DEF Init
  <2> QED
    BY <2>1, <2>2 DEF RaceOf
<1>2. ASSUME IInv, Race, Next PROVE Race'
  <2>1. CASE Mutator
    BY <1>2, <2>1, MutationEffect, BoundsAssumption DEF Race, IInv, TypeOK
  <2>2. ASSUME NEW p \in Publishers, Publisher(p) PROVE Race'
    <3> SUFFICES ASSUME (Hosted \/ Terminal)', mutations' = 0, faults' = 0, NEW q \in Publishers
                 PROVE  (Hosted => parent = TRUE)' /\ RaceOf(q)'
      BY <2>2 DEF Race
    <3> USE <1>2, <2>2
    <3>1. mutations = 0 /\ faults = 0 /\ program' = program /\ (Hosted \/ Terminal)
      BY FrameStep, BoundsAssumption DEF IInv, TypeOK, Hosted, Terminal
    <3>2. RaceOf(p)' /\ (Occupied(Destination) => Occupied(Destination)') /\ (Hosted => parent = TRUE)'
      BY <3>1, RaceStep
    <3>3. ASSUME q # p PROVE RaceOf(q)'
      <4>1. RaceOf(q)
        BY <3>1 DEF Race
      <4>2. pc'[q] = pc[q] /\ code'[q] = code[q]
        BY <3>3, FrameStep DEF IInv
      <4>3. entry'[Destination] = q => entry[Destination] = q
        <5>1. entry[p] # q /\ q # "none"
          BY <3>3, Constants DEF IInv, OwnInodes
        <5> QED
          BY <5>1, EntryStep, EntryByName DEF IInv
      <4> QED
        BY <3>1, <3>2, <4>1, <4>2, <4>3 DEF RaceOf, Hosted, Terminal
    <3> QED
      BY <3>2, <3>3
  <2> QED
    BY <1>2, <2>1, <2>2 DEF Next
<1>3. ASSUME Race, UNCHANGED vars PROVE Race'
  BY <1>3 DEF vars, dirVars, placeVars, Race, RaceOf, Occupied, Hosted, Terminal
<1>4. ASSUME IInv, Race PROVE SomebodyPublishes
  <2> SUFFICES ASSUME Hosted \/ Terminal, \A p \in Publishers : Returned(p),
                      mutations + faults = 0
               PROVE  \E p \in Publishers : code[p] = "committed"
    BY DEF SomebodyPublishes
  <2>1. mutations = 0 /\ faults = 0
    BY <1>4, BoundsAssumption DEF IInv, TypeOK
  <2>2. PICK p \in Publishers : TRUE
    OBVIOUS
  <2>3. code[p] = "committed" \/ Occupied(Destination)
    BY <1>4, <2>1 DEF Race, RaceOf, Returned
  <2>4. ASSUME Occupied(Destination) PROVE \E q \in Publishers : code[q] = "committed"
    <3>1. entry[Destination] \in Publishers
      BY <1>4, <2>1, <2>4, Constants DEF IInv, TypeOK, Undisturbed, Occupied
    <3> QED
      BY <1>4, <2>1, <3>1 DEF Race, RaceOf, Returned, After
  <2> QED
    BY <2>3, <2>4
<1> QED
  BY <1>1, <1>2, <1>3, <1>4, PublicationInductive, PTL DEF Spec

===============================================================================
