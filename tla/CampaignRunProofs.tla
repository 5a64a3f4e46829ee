-------------------------- MODULE CampaignRunProofs --------------------------
(***************************************************************************)
(* The safety of the campaign runners for any number of invocations,       *)
(* failing calls and kills: IInv is inductive, the properties the run      *)
(* checks follow from it, and the files of a run id implement the ledger   *)
(* of terminals.                                                           *)
(***************************************************************************)
EXTENDS CampaignRun, TLAPS

(* Which terminals are on file, one by one. *)
LEMMA TerminalsOnFile ==
  /\ Terminals \subseteq Kinds
  /\ "result" \in Terminals <=> result # "absent"
  /\ "failure" \in Terminals <=> failure # "absent"
BY DEF Terminals, Kinds

LEMMA TerminalsStay == UNCHANGED <<result, failure>> => Terminals' = Terminals
BY DEF Terminals

(* The accesses a history and a record can hold. *)
LEMMA AccessTypes ==
  /\ \A a \in Accesses : a \cup {"model"} \in Accesses /\ a \cup {"targets"} \in Accesses
  /\ {} \in Accesses /\ StageAccess \in Accesses
BY DEF Accesses, StageAccess

(* Every step keeps the types. *)
LEMMA TypeStep ==
  ASSUME IInv, [Next]_vars
  PROVE  TypeOK'
<1> USE DEF IInv, TypeOK, callVars, controls, inputs, records, published, history, GoTo, Raise, Exit, Handled, Programs, Kinds
<1>1. CASE Begin
  BY <1>1, AccessTypes DEF Begin, Stages
<1>2. CASE Admit
  BY <1>2 DEF Admit
<1>3. CASE Refuse
  BY <1>3 DEF Refuse
<1>4. CASE Activate
  <2>1. touched' \in Accesses
    BY <1>4, AccessTypes DEF Activate
  <2>2. loads' \in Nat /\ reads' \in Nat
    BY <1>4 DEF Activate
  <2> QED
    BY <1>4, <2>1, <2>2 DEF Activate
<1>5. CASE Install
  BY <1>5 DEF Install
<1>6. CASE Envelope
  BY <1>6 DEF Envelope
<1>7. CASE MakePackage
  BY <1>7 DEF MakePackage
<1>8. CASE Copy
  BY <1>8 DEF Copy
<1>9. CASE Analyze
  BY <1>9 DEF Analyze
<1>10. CASE ReadTargets
  <2>1. touched' \in Accesses
    BY <1>10, AccessTypes DEF ReadTargets
  <2>2. loads' \in Nat /\ reads' \in Nat
    BY <1>10 DEF ReadTargets
  <2> QED
    BY <1>10, <2>1, <2>2 DEF ReadTargets
<1>11. CASE SkipTargets
  BY <1>11 DEF SkipTargets
<1>12. CASE Store
  BY <1>12 DEF Store
<1>13. CASE Rename
  BY <1>13 DEF Rename
<1>14. CASE Verify
  BY <1>14 DEF Verify
<1>15. CASE Generate
  BY <1>15 DEF Generate
<1>16. CASE LinkManifest
  BY <1>16 DEF LinkManifest
<1>17. CASE Check
  BY <1>17 DEF Check
<1>18. CASE End
  BY <1>18 DEF End
<1>19. CASE RecordFailure
  BY <1>19, AccessTypes DEF RecordFailure, ControlOK
<1>20. CASE CallFails
  BY <1>20 DEF CallFails, Half
<1>21. CASE Kill
  BY <1>21 DEF Kill, Half
<1>22. CASE UNCHANGED vars
  BY <1>22 DEF vars
<1> QED
  BY <1>1, <1>2, <1>3, <1>4, <1>5, <1>6, <1>7, <1>8, <1>9, <1>10, <1>11, <1>12, <1>13, <1>14, <1>15, <1>16, <1>17, <1>18, <1>19, <1>20, <1>21, <1>22 DEF Next

(* Every step keeps what the program counter implies. *)
LEMMA ControlStep ==
  ASSUME IInv, [Next]_vars
  PROVE  ControlOK'
<1> USE DEF IInv, TypeOK, ControlOK, Analyzing, callVars, controls, inputs, records, published, history, GoTo, Raise, Exit, Handled, Programs, Kinds
<1>1. CASE Begin
  BY <1>1 DEF Begin, Stages
<1>2. CASE Admit
  BY <1>2 DEF Admit, Stages
<1>3. CASE Refuse
  BY <1>3 DEF Refuse
<1>4. CASE Activate
  BY <1>4 DEF Activate
<1>5. CASE Install
  BY <1>5 DEF Install
<1>6. CASE Envelope
  BY <1>6 DEF Envelope
<1>7. CASE MakePackage
  BY <1>7 DEF MakePackage
<1>8. CASE Copy
  BY <1>8 DEF Copy
<1>9. CASE Analyze
  BY <1>9 DEF Analyze
<1>10. CASE ReadTargets
  BY <1>10 DEF ReadTargets
<1>11. CASE SkipTargets
  BY <1>11 DEF SkipTargets
<1>12. CASE Store
  BY <1>12 DEF Store
<1>13. CASE Rename
  BY <1>13 DEF Rename
<1>14. CASE Verify
  BY <1>14 DEF Verify
<1>15. CASE Generate
  BY <1>15 DEF Generate
<1>16. CASE LinkManifest
  BY <1>16 DEF LinkManifest
<1>17. CASE Check
  BY <1>17 DEF Check
<1>18. CASE End
  BY <1>18 DEF End
<1>19. CASE RecordFailure
  BY <1>19 DEF RecordFailure
<1>20. CASE CallFails
  BY <1>20 DEF CallFails, Half
<1>21. CASE Kill
  BY <1>21 DEF Kill, Half
<1>22. CASE UNCHANGED vars
  BY <1>22 DEF vars
<1> QED
  BY <1>1, <1>2, <1>3, <1>4, <1>5, <1>6, <1>7, <1>8, <1>9, <1>10, <1>11, <1>12, <1>13, <1>14, <1>15, <1>16, <1>17, <1>18, <1>19, <1>20, <1>21, <1>22 DEF Next

(* No step breaks the binding of a publication. *)
LEMMA BoundStep ==
  ASSUME IInv, [Next]_vars
  PROVE  PublicationIsBound'
<1> USE DEF IInv, TypeOK, ControlOK, Analyzing, PairOK, PublicationIsBound, callVars, controls, inputs, records, published, history, Kinds
<1>1. CASE Begin
  BY <1>1 DEF Begin, GoTo, Raise, Exit, Handled
<1>2. CASE Admit
  BY <1>2 DEF Admit, GoTo, Raise, Exit, Handled
<1>3. CASE Refuse
  BY <1>3 DEF Refuse, GoTo, Raise, Exit, Handled
<1>4. CASE Activate
  BY <1>4 DEF Activate, GoTo, Raise, Exit, Handled
<1>5. CASE Install
  BY <1>5 DEF Install, GoTo, Raise, Exit, Handled
<1>6. CASE Envelope
  BY <1>6 DEF Envelope, GoTo, Raise, Exit, Handled
<1>7. CASE MakePackage
  BY <1>7 DEF MakePackage, GoTo, Raise, Exit, Handled
<1>8. CASE Copy
  BY <1>8 DEF Copy, GoTo, Raise, Exit, Handled
<1>9. CASE Analyze
  BY <1>9 DEF Analyze, GoTo, Raise, Exit, Handled
<1>10. CASE ReadTargets
  BY <1>10 DEF ReadTargets, GoTo, Raise, Exit, Handled
<1>11. CASE SkipTargets
  BY <1>11 DEF SkipTargets, GoTo, Raise, Exit, Handled
<1>12. CASE Store
  BY <1>12 DEF Store, GoTo, Raise, Exit, Handled
<1>13. CASE Rename
  BY <1>13 DEF Rename, GoTo, Raise, Exit, Handled
<1>14. CASE Verify
  BY <1>14 DEF Verify, GoTo, Raise, Exit, Handled
<1>15. CASE Generate
  BY <1>15, TerminalsOnFile DEF Generate, Publishable
<1>16. CASE LinkManifest
  BY <1>16 DEF LinkManifest, GoTo, Raise, Exit, Handled
<1>17. CASE Check
  BY <1>17 DEF Check, GoTo, Raise, Exit, Handled
<1>18. CASE End
  BY <1>18 DEF End, GoTo, Raise, Exit, Handled
<1>19. CASE RecordFailure
  BY <1>19 DEF RecordFailure, GoTo, Raise, Exit, Handled
<1>20. CASE CallFails
  BY <1>20 DEF CallFails, Half, GoTo, Raise, Exit, Handled
<1>21. CASE Kill
  BY <1>21 DEF Kill, Half, GoTo, Raise, Exit, Handled
<1>22. CASE UNCHANGED vars
  BY <1>22 DEF vars
<1> QED
  BY <1>1, <1>2, <1>3, <1>4, <1>5, <1>6, <1>7, <1>8, <1>9, <1>10, <1>11, <1>12, <1>13, <1>14, <1>15, <1>16, <1>17, <1>18, <1>19, <1>20, <1>21, <1>22 DEF Next

(* Every step keeps the pair of report and manifest in order. *)
LEMMA PairStep ==
  ASSUME IInv, [Next]_vars
  PROVE  PairOK'
<1> USE DEF IInv, TypeOK, ControlOK, Analyzing, PairOK, PublicationIsBound, Verified, Terminals, Kinds, callVars, controls, inputs, records, published, history, GoTo, Raise, Exit, Handled
<1>1. CASE Begin
  BY <1>1 DEF Begin
<1>2. CASE Admit
  BY <1>2 DEF Admit
<1>3. CASE Refuse
  BY <1>3 DEF Refuse
<1>4. CASE Activate
  BY <1>4 DEF Activate
<1>5. CASE Install
  BY <1>5 DEF Install
<1>6. CASE Envelope
  BY <1>6 DEF Envelope
<1>7. CASE MakePackage
  BY <1>7 DEF MakePackage
<1>8. CASE Copy
  BY <1>8 DEF Copy
<1>9. CASE Analyze
  BY <1>9 DEF Analyze
<1>10. CASE ReadTargets
  BY <1>10 DEF ReadTargets
<1>11. CASE SkipTargets
  BY <1>11 DEF SkipTargets
<1>12. CASE Store
  BY <1>12 DEF Store
<1>13. CASE Rename
  BY <1>13 DEF Rename
<1>14. CASE Verify
  BY <1>14 DEF Verify
<1>15. CASE Generate
  BY <1>15 DEF Generate, Publishable
<1>16. CASE LinkManifest
  BY <1>16 DEF LinkManifest
<1>17. CASE Check
  BY <1>17 DEF Check
<1>18. CASE End
  BY <1>18 DEF End
<1>19. CASE RecordFailure
  BY <1>19 DEF RecordFailure
<1>20. CASE CallFails
  BY <1>20 DEF CallFails, Half
<1>21. CASE Kill
  BY <1>21 DEF Kill, Half
<1>22. CASE UNCHANGED vars
  BY <1>22 DEF vars
<1> QED
  BY <1>1, <1>2, <1>3, <1>4, <1>5, <1>6, <1>7, <1>8, <1>9, <1>10, <1>11, <1>12, <1>13, <1>14, <1>15, <1>16, <1>17, <1>18, <1>19, <1>20, <1>21, <1>22 DEF Next

(* Every step keeps the accesses within those of the stage. *)
LEMMA AccessStep ==
  ASSUME IInv, [Next]_vars
  PROVE  AccessOK'
<1> USE DEF IInv, TypeOK, ControlOK, Analyzing, AccessOK, StageAccess, callVars, controls, inputs, records, published, history, GoTo, Raise, Exit, Handled, Programs
<1>1. CASE Begin
  BY <1>1 DEF Begin
<1>2. CASE Admit
  BY <1>2 DEF Admit
<1>3. CASE Refuse
  BY <1>3 DEF Refuse
<1>4. CASE Activate
  BY <1>4 DEF Activate
<1>5. CASE Install
  BY <1>5 DEF Install
<1>6. CASE Envelope
  BY <1>6 DEF Envelope
<1>7. CASE MakePackage
  BY <1>7 DEF MakePackage
<1>8. CASE Copy
  BY <1>8 DEF Copy
<1>9. CASE Analyze
  BY <1>9 DEF Analyze
<1>10. CASE ReadTargets
  BY <1>10 DEF ReadTargets
<1>11. CASE SkipTargets
  BY <1>11 DEF SkipTargets
<1>12. CASE Store
  BY <1>12 DEF Store
<1>13. CASE Rename
  BY <1>13 DEF Rename
<1>14. CASE Verify
  BY <1>14 DEF Verify
<1>15. CASE Generate
  BY <1>15 DEF Generate
<1>16. CASE LinkManifest
  BY <1>16 DEF LinkManifest
<1>17. CASE Check
  BY <1>17 DEF Check
<1>18. CASE End
  BY <1>18 DEF End
<1>19. CASE RecordFailure
  BY <1>19 DEF RecordFailure
<1>20. CASE CallFails
  BY <1>20 DEF CallFails, Half
<1>21. CASE Kill
  BY <1>21 DEF Kill, Half
<1>22. CASE UNCHANGED vars
  BY <1>22 DEF vars
<1> QED
  BY <1>1, <1>2, <1>3, <1>4, <1>5, <1>6, <1>7, <1>8, <1>9, <1>10, <1>11, <1>12, <1>13, <1>14, <1>15, <1>16, <1>17, <1>18, <1>19, <1>20, <1>21, <1>22 DEF Next

(* C3 reads at most once. *)
LEMMA ClaimStep ==
  ASSUME IInv, [Next]_vars
  PROVE  (ClaimOK /\ OneRecoveryRead)'
<1> USE DEF IInv, TypeOK, ControlOK, Analyzing, ClaimOK, OneRecoveryRead, callVars, controls, inputs, records, published, history, GoTo, Raise, Exit, Handled, Programs
<1>1. CASE Begin
  BY <1>1 DEF Begin
<1>2. CASE Admit
  BY <1>2 DEF Admit
<1>3. CASE Refuse
  BY <1>3 DEF Refuse
<1>4. CASE Activate
  BY <1>4 DEF Activate
<1>5. CASE Install
  BY <1>5 DEF Install
<1>6. CASE Envelope
  BY <1>6 DEF Envelope
<1>7. CASE MakePackage
  BY <1>7 DEF MakePackage
<1>8. CASE Copy
  BY <1>8 DEF Copy
<1>9. CASE Analyze
  BY <1>9 DEF Analyze
<1>10. CASE ReadTargets
  BY <1>10 DEF ReadTargets
<1>11. CASE SkipTargets
  BY <1>11 DEF SkipTargets
<1>12. CASE Store
  BY <1>12 DEF Store
<1>13. CASE Rename
  BY <1>13 DEF Rename
<1>14. CASE Verify
  BY <1>14 DEF Verify
<1>15. CASE Generate
  BY <1>15 DEF Generate
<1>16. CASE LinkManifest
  BY <1>16 DEF LinkManifest
<1>17. CASE Check
  BY <1>17 DEF Check
<1>18. CASE End
  BY <1>18 DEF End
<1>19. CASE RecordFailure
  BY <1>19 DEF RecordFailure
<1>20. CASE CallFails
  BY <1>20 DEF CallFails, Half
<1>21. CASE Kill
  BY <1>21 DEF Kill, Half
<1>22. CASE UNCHANGED vars
  BY <1>22 DEF vars
<1> QED
  BY <1>1, <1>2, <1>3, <1>4, <1>5, <1>6, <1>7, <1>8, <1>9, <1>10, <1>11, <1>12, <1>13, <1>14, <1>15, <1>16, <1>17, <1>18, <1>19, <1>20, <1>21, <1>22 DEF Next

(* The inductive invariant, for every bound on invocations and faults. *)
THEOREM CampaignInductive == Spec => []IInv
<1>1. Init => IInv
  BY DEF Init, IInv, TypeOK, PublicationIsBound, OneRecoveryRead, ControlOK, Analyzing, PairOK,
     AccessOK, ClaimOK, Programs, Kinds, Accesses
<1>2. IInv /\ [Next]_vars => IInv'
  <2> SUFFICES ASSUME IInv, [Next]_vars PROVE IInv'
    OBVIOUS
  <2> QED
    BY TypeStep, ControlStep, BoundStep, PairStep, AccessStep, ClaimStep DEF IInv
<1> QED
  BY <1>1, <1>2, PTL DEF Spec

(* A publication stays bound to the files it names (generate_a0r2_report,
   _write_pair_atomic).                                                     *)
THEOREM CampaignPublicationIsBound == Spec => []PublicationIsBound
<1>1. IInv => PublicationIsBound
  BY DEF IInv
<1> QED
  BY <1>1, CampaignInductive, PTL

(* The C3 recovery reads the sealed targets at most once (_run_all). *)
THEOREM CampaignOneRecoveryRead == Spec => []OneRecoveryRead
<1>1. IInv => OneRecoveryRead
  BY DEF IInv
<1> QED
  BY <1>1, CampaignInductive, PTL

(* No step ends with status 0 and nothing published. *)
LEMMA SuccessStep ==
  ASSUME IInv, SuccessIsPublished, [Next]_vars
  PROVE  SuccessIsPublished'
<1>0. code' # "ok" => SuccessIsPublished'
  BY DEF SuccessIsPublished
<1>1. CASE End
  <2>1. Verified' <=> Verified
    BY <1>1, TerminalsStay DEF End, Verified, callVars, inputs, records, published
  <2>2. stage \in {"verify", "all"} /\ program # "a0r1" =>
          Verified /\ (failure = "absent" => manifest = "result")
    <3>1. stage \in {"verify", "all"} /\ program # "a0r1" => Verified
      BY <1>1 DEF End, IInv, PairOK
    <3>2. Verified /\ failure = "absent" => manifest = "result"
      BY DEF IInv, TypeOK, Verified, Kinds
    <3> QED
      BY <3>1, <3>2
  <2>3. UNCHANGED <<stage, program, failure, manifest>>
    BY <1>1 DEF End, callVars, records, published
  <2> QED
    BY <2>1, <2>2, <2>3 DEF SuccessIsPublished
<1>2. CASE Begin
  BY <1>0, <1>2 DEF Begin
<1>3. CASE UNCHANGED vars
  <2>1. Verified' <=> Verified
    BY <1>3, TerminalsStay DEF vars, Verified, callVars, inputs, records, published
  <2>2. UNCHANGED <<stage, program, failure, manifest, code>>
    BY <1>3 DEF vars, callVars, controls, records, published
  <2> QED
    BY <2>1, <2>2 DEF SuccessIsPublished
<1>4. CASE Admit
  BY <1>0, <1>4 DEF Admit, GoTo, Raise, Exit, Handled, IInv, ControlOK, controls
<1>5. CASE Refuse
  BY <1>0, <1>5 DEF Refuse, GoTo, Raise, Exit, Handled, IInv, ControlOK, controls
<1>6. CASE Activate
  BY <1>0, <1>6 DEF Activate, GoTo, Raise, Exit, Handled, IInv, ControlOK, controls
<1>7. CASE Install
  BY <1>0, <1>7 DEF Install, GoTo, Raise, Exit, Handled, IInv, ControlOK, controls
<1>8. CASE Envelope
  BY <1>0, <1>8 DEF Envelope, GoTo, Raise, Exit, Handled, IInv, ControlOK, controls
<1>9. CASE MakePackage
  BY <1>0, <1>9 DEF MakePackage, GoTo, Raise, Exit, Handled, IInv, ControlOK, controls
<1>10. CASE Copy
  BY <1>0, <1>10 DEF Copy, GoTo, Raise, Exit, Handled, IInv, ControlOK, controls
<1>11. CASE Analyze
  BY <1>0, <1>11 DEF Analyze, GoTo, Raise, Exit, Handled, IInv, ControlOK, controls
<1>12. CASE ReadTargets
  BY <1>0, <1>12 DEF ReadTargets, GoTo, Raise, Exit, Handled, IInv, ControlOK, controls
<1>13. CASE SkipTargets
  BY <1>0, <1>13 DEF SkipTargets, GoTo, Raise, Exit, Handled, IInv, ControlOK, controls
<1>14. CASE Store
  BY <1>0, <1>14 DEF Store, GoTo, Raise, Exit, Handled, IInv, ControlOK, controls
<1>15. CASE Rename
  BY <1>0, <1>15 DEF Rename, GoTo, Raise, Exit, Handled, IInv, ControlOK, controls
<1>16. CASE Verify
  BY <1>0, <1>16 DEF Verify, GoTo, Raise, Exit, Handled, IInv, ControlOK, controls
<1>17. CASE Generate
  BY <1>0, <1>17 DEF Generate, GoTo, Raise, Exit, Handled, IInv, ControlOK, controls
<1>18. CASE LinkManifest
  BY <1>0, <1>18 DEF LinkManifest, GoTo, Raise, Exit, Handled, IInv, ControlOK, controls
<1>19. CASE Check
  BY <1>0, <1>19 DEF Check, GoTo, Raise, Exit, Handled, IInv, ControlOK, controls
<1>20. CASE RecordFailure
  BY <1>0, <1>20 DEF RecordFailure, GoTo, Raise, Exit, Handled, IInv, ControlOK, controls
<1>21. CASE CallFails
  BY <1>0, <1>21 DEF CallFails, GoTo, Raise, Exit, Handled, IInv, ControlOK, controls
<1>22. CASE Kill
  BY <1>0, <1>22 DEF Kill, GoTo, Raise, Exit, Handled, IInv, ControlOK, controls
<1> QED
  BY <1>1, <1>2, <1>3, <1>4, <1>5, <1>6, <1>7, <1>8, <1>9, <1>10, <1>11, <1>12, <1>13, <1>14, <1>15, <1>16, <1>17, <1>18, <1>19, <1>20, <1>21, <1>22 DEF Next

(* Status 0 after a verify stage means a verified publication (main). *)
THEOREM CampaignSuccessIsPublished == Spec => []SuccessIsPublished
<1>1. Init => SuccessIsPublished
  BY DEF Init, SuccessIsPublished
<1>2. IInv /\ SuccessIsPublished /\ [Next]_vars => SuccessIsPublished'
  BY SuccessStep
<1> QED
  BY <1>1, <1>2, CampaignInductive, PTL DEF Spec

(* Without faults: a report lacks its manifest only between the two links, a
   copy is unfinished only while it is made, and a recorded failure that is not
   published yet is about to be.                                            *)
Faultless ==
  faults = 0 =>
    /\ report # "absent" /\ manifest = "absent" => pc = "link"
    /\ copies # "broken" /\ (copies = "first" => pc = "copy")
    /\ program # "a0r1" /\ result = "absent" /\ failure = "failed" /\ manifest = "absent" =>
         pc \in {"generate", "link"}

LEMMA FaultlessStep ==
  ASSUME IInv, Faultless, [Next]_vars
  PROVE  Faultless'
<1> USE DEF IInv, TypeOK, ControlOK, Analyzing, PairOK, PublicationIsBound, Faultless, callVars, controls, inputs, records, published, history, GoTo, Raise, Exit, Handled, Programs, Kinds
<1>1. CASE Begin
  BY <1>1 DEF Begin
<1>2. CASE Admit
  BY <1>2 DEF Admit
<1>3. CASE Refuse
  BY <1>3 DEF Refuse
<1>4. CASE Activate
  BY <1>4 DEF Activate
<1>5. CASE Install
  BY <1>5 DEF Install
<1>6. CASE Envelope
  BY <1>6 DEF Envelope
<1>7. CASE MakePackage
  BY <1>7 DEF MakePackage
<1>8. CASE Copy
  BY <1>8 DEF Copy
<1>9. CASE Analyze
  BY <1>9 DEF Analyze
<1>10. CASE ReadTargets
  BY <1>10 DEF ReadTargets
<1>11. CASE SkipTargets
  BY <1>11 DEF SkipTargets
<1>12. CASE Store
  BY <1>12 DEF Store
<1>13. CASE Rename
  BY <1>13 DEF Rename
<1>14. CASE Verify
  BY <1>14 DEF Verify
<1>15. CASE Generate
  <2>1. faults' = faults /\ UNCHANGED <<program, copies, result, failure, manifest>> /\ pc = "generate"
    BY <1>15 DEF Generate
  <2>2. ASSUME NEW k \in Kinds, Publishable(k), report' = k, GoTo("link") PROVE Faultless'
    BY <2>1, <2>2
  <2>3. ASSUME \A k \in Kinds : ~Publishable(k), Raise("failed"), UNCHANGED report PROVE Faultless'
    <3>1. ~Publishable("failure")
      BY <2>3
    <3>2. result = "absent" /\ failure = "failed" => Terminals = {"failure"}
      BY TerminalsOnFile
    <3>3. faults = 0 => ~(result = "absent" /\ failure = "failed" /\ manifest = "absent")
      BY <2>1, <3>1, <3>2 DEF Publishable
    <3>4. faults = 0 /\ manifest = "absent" => report = "absent"
      BY <2>1
    <3> QED
      BY <2>1, <2>3, <3>3, <3>4
  <2> QED
    BY <1>15, <2>2, <2>3 DEF Generate
<1>16. CASE LinkManifest
  BY <1>16 DEF LinkManifest
<1>17. CASE Check
  BY <1>17 DEF Check
<1>18. CASE End
  BY <1>18 DEF End
<1>19. CASE RecordFailure
  BY <1>19 DEF RecordFailure
<1>20. CASE CallFails
  BY <1>20 DEF CallFails, Half
<1>21. CASE Kill
  BY <1>21 DEF Kill, Half
<1>22. CASE UNCHANGED vars
  BY <1>22 DEF vars
<1> QED
  BY <1>1, <1>2, <1>3, <1>4, <1>5, <1>6, <1>7, <1>8, <1>9, <1>10, <1>11, <1>12, <1>13, <1>14, <1>15, <1>16, <1>17, <1>18, <1>19, <1>20, <1>21, <1>22 DEF Next

(* A run id without faults whose only terminal is a failure record has its
   publication when main returns exactly if the record says "failed": one
   that says "incompatible" is never published.                             *)
FailuresArePublished ==
  pc = "idle" /\ faults = 0 /\ program # "a0r1" /\ Terminals = {"failure"} =>
    (manifest # "absent" <=> failure = "failed")

(* Theorem: _record_failure goes on to publish what it recorded, and
   generate_a0r2_report accepts every recorded failure but an incompatible
   one (_find_result_path).                                                 *)
THEOREM CampaignFailuresArePublished == Spec => []FailuresArePublished
<1>1. Init => Faultless
  BY DEF Init, Faultless
<1>2. IInv /\ Faultless /\ [Next]_vars => Faultless'
  BY FaultlessStep
<1>3. IInv /\ Faultless => FailuresArePublished
  <2> SUFFICES ASSUME IInv, Faultless, pc = "idle", faults = 0, program # "a0r1",
                      Terminals = {"failure"}
               PROVE  manifest # "absent" <=> failure = "failed"
    BY DEF FailuresArePublished
  <2>1. result = "absent" /\ failure # "absent"
    BY TerminalsOnFile
  <2>2. failure = "failed" => manifest # "absent"
    BY <2>1 DEF Faultless
  <2>3. manifest # "absent" => failure = "failed"
    BY <2>1 DEF IInv, TypeOK, PublicationIsBound, Kinds
  <2> QED
    BY <2>2, <2>3
<1> QED
  BY <1>1, <1>2, <1>3, CampaignInductive, PTL DEF Spec

(* Installed activations are never computed again and a result on file is
   never read for again (_run_activate, _run_analyze).                      *)
THEOREM CampaignNothingIsRecomputed == Spec => NothingIsRecomputed
<1>1. IInv /\ [Next]_vars => [(dense = "installed" => loads' = loads) /\ (result # "absent" => reads' = reads)]_vars
  BY DEF IInv, ControlOK, Analyzing, Next, Begin, Admit, Refuse, Activate, Install, Envelope,
     MakePackage, Copy, Analyze, ReadTargets, SkipTargets, Store, Rename, Verify, Generate,
     LinkManifest, Check, End, RecordFailure, CallFails, Kill, vars, history
<1> QED
  BY <1>1, CampaignInductive, PTL DEF Spec, NothingIsRecomputed

(* A failure record owns up to what its invocation accessed
   (_failure_access, _access_from_failure_stage).                           *)
THEOREM CampaignRecordCovers == Spec => RecordCoversItsInvocation
<1>1. IInv /\ [Next]_vars => [failure' # failure => touched \subseteq claims']_vars
  BY DEF IInv, AccessOK, Next, Begin, Admit, Refuse, Activate, Install, Envelope,
     MakePackage, Copy, Analyze, ReadTargets, SkipTargets, Store, Rename, Verify, Generate,
     LinkManifest, Check, End, RecordFailure, CallFails, Kill, vars, records
<1> QED
  BY <1>1, CampaignInductive, PTL DEF Spec, RecordCoversItsInvocation

(* The files of one run id are a ledger of terminals. *)
THEOREM CampaignImplementsLedger == Spec => ImplementsLedger
<1>1. Init => Ledger!Init
  BY DEF Init, Ledger!Init, Terminals
<1>2. IInv /\ [Next]_vars => [Ledger!Next]_(Ledger!vars)
  <2> SUFFICES ASSUME IInv, [Next]_vars PROVE [Ledger!Next]_(Ledger!vars)
    OBVIOUS
  <2> USE DEF Ledger!Next, Ledger!vars, Ledger!Record, Ledger!Publish, Terminals, Kinds, IInv, TypeOK
  <2>1. CASE LinkManifest
    BY <2>1 DEF LinkManifest, PairOK, records
  <2>2. CASE RecordFailure
    BY <2>2 DEF RecordFailure, ControlOK, published
  <2>3. CASE Store \/ Rename \/ CallFails \/ Kill
    BY <2>3 DEF Store, Rename, CallFails, Kill, Half, ControlOK, Analyzing, published
  <2>4. CASE \/ Begin \/ Admit \/ Refuse \/ Activate \/ Install \/ Envelope \/ MakePackage
             \/ Copy \/ Analyze \/ ReadTargets \/ SkipTargets \/ Verify \/ Generate \/ Check \/ End
             \/ UNCHANGED vars
    BY <2>4 DEF Begin, Admit, Refuse, Activate, Install, Envelope, MakePackage, Copy, Analyze,
       ReadTargets, SkipTargets, Verify, Generate, Check, End, vars, records, published
  <2> QED
    BY <2>1, <2>2, <2>3, <2>4 DEF Next
<1> QED
  BY <1>1, <1>2, CampaignInductive, PTL DEF Spec, ImplementsLedger, Ledger!Spec
=============================================================================
