------------------------- MODULE GuardExecutorProofs -------------------------
(***************************************************************************)
(* The safety of one supervised guard for any set of signals: IInv is      *)
(* inductive, the properties the run checks follow from it, and every step *)
(* of the executor and its guard is a step of SupervisedGuard or leaves    *)
(* what the launcher sees alone.                                           *)
(***************************************************************************)
EXTENDS GuardExecutor, Naturals, TLAPS

(* What giving back one handler may disturb. *)
LEMMA RestoreKeeps ==
  ASSUME IInv, NEW s \in Signals, RestoreHandler(s)
  PROVE  /\ pc = "restore" /\ recording' \subseteq recording
         /\ cleanupFailed' \in BOOLEAN /\ (cleanupFailed => cleanupFailed')
         /\ UNCHANGED <<pc, latched, delivered, cancel, timedOut, lifecycleError, cleanupStarted,
                       threadsAlive, procVars, outcome>>
<1>1. cleanupFailed \in BOOLEAN
  BY DEF IInv, TypeOK
<1>2. cleanupFailed' \in {cleanupFailed, TRUE}
  BY DEF RestoreHandler
<1>3. cleanupFailed' = cleanupFailed \/ cleanupFailed' = TRUE
  BY <1>2, Zenon
<1>4. cleanupFailed' \in BOOLEAN /\ (cleanupFailed => cleanupFailed')
  BY <1>1, <1>3, Zenon
<1> QED
  BY <1>4 DEF RestoreHandler

(* Every step keeps the types. *)
LEMMA TypeStep ==
  ASSUME IInv, [Next]_vars
  PROVE  TypeOK'
<1> USE DEF IInv, TypeOK, StartOfPc, Outcomes, sigVars, flagVars, procVars
<1>1. CASE \E s \in Signals : InstallHandler(s)
  <2>1. PICK s \in Signals : InstallHandler(s)
    BY <1>1
  <2>2. /\ recording' \subseteq Signals /\ lifecycleError' \in BOOLEAN
        /\ pc' \in {"install", "start", "restore"} /\ pc = "install"
    BY <2>1 DEF InstallHandler
  <2>3. UNCHANGED <<latched, delivered, cancel, timedOut, cleanupStarted, cleanupFailed,
                  threadsAlive, procVars, outcome>>
    BY <2>1 DEF InstallHandler
  <2> QED
    BY <2>2, <2>3
<1>2. CASE \E s \in Signals : RestoreHandler(s)
  <2>1. PICK s \in Signals : RestoreHandler(s)
    BY <1>2
  <2>2. recording' \subseteq Signals /\ cleanupFailed' \in BOOLEAN
    BY <2>1, RestoreKeeps
  <2>3. UNCHANGED <<pc, latched, delivered, cancel, timedOut, lifecycleError, cleanupStarted,
                  threadsAlive, procVars, outcome>>
    BY <2>1, RestoreKeeps
  <2> QED
    BY <2>2, <2>3
<1>3. CASE StartGuard
  <2>1. drain' \in [Streams -> {"none", "reading", "drained"}]
    BY <1>3 DEF StartGuard, Streams
  <2>2. /\ started' \in BOOLEAN /\ lifecycleError' \in BOOLEAN /\ hit' = hit
        /\ pc' \in {"restore", "watch", "sweep"}
        /\ procs' \subseteq {"leader", "helper", "escaped"} /\ (~started' => procs' = {})
    BY <1>3 DEF StartGuard
  <2>3. /\ outcome = "none"
        /\ UNCHANGED <<sigVars, cancel, timedOut, cleanupStarted, cleanupFailed, threadsAlive, outcome>>
    BY <1>3 DEF StartGuard
  <2> QED
    BY <2>1, <2>2, <2>3
<1>4. CASE Watch
  BY <1>4 DEF Watch
<1>5. CASE Sweep
  BY <1>5 DEF Sweep
<1>6. CASE Terminate
  <2>1. pc' \in {"termwait", "join", "rejoin", "restore"}
    BY <1>6 DEF Terminate, AfterTermination
  <2>2. cleanupStarted' \in BOOLEAN /\ cleanupFailed' \in BOOLEAN /\ hit' \in BOOLEAN
    BY <1>6 DEF Terminate
  <2>3. /\ pc = "term"
        /\ UNCHANGED <<sigVars, cancel, timedOut, lifecycleError, threadsAlive, started, procs,
                      drain, outcome>>
    BY <1>6 DEF Terminate
  <2> QED
    BY <2>1, <2>2, <2>3
<1>7. CASE AwaitGrace
  <2>1. pc' \in {"killwait", "join", "rejoin", "restore"}
    BY <1>7 DEF AwaitGrace, AfterTermination
  <2>2. cleanupFailed' \in BOOLEAN /\ hit' \in BOOLEAN
    BY <1>7 DEF AwaitGrace
  <2>3. /\ pc = "termwait"
        /\ UNCHANGED <<sigVars, cancel, timedOut, lifecycleError, cleanupStarted, threadsAlive,
                      started, procs, drain, outcome>>
    BY <1>7 DEF AwaitGrace
  <2> QED
    BY <2>1, <2>2, <2>3
<1>8. CASE AwaitKill
  BY <1>8 DEF AwaitKill, AfterTermination
<1>9. CASE Join
  BY <1>9 DEF Join
<1>10. CASE LateCheck
  BY <1>10 DEF LateCheck
<1>11. CASE Rejoin
  BY <1>11 DEF Rejoin
<1>12. CASE Conclude
  BY <1>12 DEF Conclude
<1>13. CASE \E s \in Signals : Signal(s)
  <2>1. PICK s \in Signals : Signal(s)
    BY <1>13
  <2>0. /\ UNCHANGED <<recording, timedOut, lifecycleError, cleanupStarted, cleanupFailed,
                     threadsAlive, procVars>>
        /\ latched' \in BOOLEAN /\ delivered' \in BOOLEAN /\ cancel' \in BOOLEAN
    BY <2>1 DEF Signal
  <2>2. CASE UNCHANGED <<pc, outcome>>
    BY <2>0, <2>2
  <2>3. CASE ~UNCHANGED <<pc, outcome>>
    <3>1. latched' = TRUE /\ pc \in {"install", "restore"}
      BY <2>1, <2>3 DEF Signal
    <3>2. CASE pc = "install"
      BY <2>0, <2>1, <2>3, <3>2 DEF Signal
    <3>3. CASE pc = "restore"
      BY <2>0, <2>1, <2>3, <3>3 DEF Signal
    <3> QED
      BY <3>1, <3>2, <3>3
  <2> QED
    BY <2>2, <2>3
<1>14. CASE \E new \in {"helper", "escaped"} : Fork(new)
  <2>1. PICK new \in {"helper", "escaped"} : Fork(new)
    BY <1>14
  <2>2. procs # {}
    BY <2>1 DEF Fork, group
  <2>3. procs' \subseteq {"leader", "helper", "escaped"}
    BY <2>1 DEF Fork
  <2>4. started
    BY <2>2
  <2>5. UNCHANGED <<pc, sigVars, flagVars, started, drain, hit, outcome>>
    BY <2>1 DEF Fork
  <2> QED
    BY <2>3, <2>4, <2>5
<1>15. CASE \E p \in procs : Exit(p)
  BY <1>15 DEF Exit
<1>16. CASE \E s \in Streams : Drained(s)
  BY <1>16 DEF Drained
<1>17. CASE UNCHANGED vars
  BY <1>17 DEF vars
<1> QED
  BY <1>1, <1>2, <1>3, <1>4, <1>5, <1>6, <1>7, <1>8, <1>9,
     <1>10, <1>11, <1>12, <1>13, <1>14, <1>15, <1>16, <1>17
     DEF Next, Supervise

(* A signal is noted when it arrives, and a note is never withdrawn. *)
LEMMA NotedStep ==
  ASSUME IInv, [Next]_vars
  PROVE  Noted'
<1> USE DEF IInv, TypeOK, Noted, sigVars, flagVars, procVars
<1>1. CASE \E s \in Signals : InstallHandler(s)
  BY <1>1 DEF InstallHandler
<1>2. CASE \E s \in Signals : RestoreHandler(s)
  BY <1>2, RestoreKeeps
<1>3. CASE StartGuard
  BY <1>3 DEF StartGuard
<1>4. CASE Watch
  BY <1>4 DEF Watch
<1>5. CASE Sweep
  BY <1>5 DEF Sweep
<1>6. CASE Terminate
  BY <1>6 DEF Terminate
<1>7. CASE AwaitGrace
  BY <1>7 DEF AwaitGrace
<1>8. CASE AwaitKill
  BY <1>8 DEF AwaitKill
<1>9. CASE Join
  BY <1>9 DEF Join
<1>10. CASE LateCheck
  BY <1>10 DEF LateCheck
<1>11. CASE Rejoin
  BY <1>11 DEF Rejoin
<1>12. CASE Conclude
  BY <1>12 DEF Conclude
<1>13. CASE \E s \in Signals : Signal(s)
  BY <1>13 DEF Signal
<1>14. CASE \E new \in {"helper", "escaped"} : Fork(new)
  BY <1>14 DEF Fork
<1>15. CASE \E p \in procs : Exit(p)
  BY <1>15 DEF Exit
<1>16. CASE \E s \in Streams : Drained(s)
  BY <1>16 DEF Drained
<1>17. CASE UNCHANGED vars
  BY <1>17 DEF vars
<1> QED
  BY <1>1, <1>2, <1>3, <1>4, <1>5, <1>6, <1>7, <1>8, <1>9,
     <1>10, <1>11, <1>12, <1>13, <1>14, <1>15, <1>16, <1>17
     DEF Next, Supervise

(* The guard is started at one statement, and with it its readers. *)
LEMMA StartStep ==
  ASSUME IInv, [Next]_vars
  PROVE  StartOfPc'
<1> USE DEF IInv, TypeOK, StartOfPc, sigVars, flagVars, procVars
<1>1. CASE \E s \in Signals : InstallHandler(s)
  BY <1>1 DEF InstallHandler
<1>2. CASE \E s \in Signals : RestoreHandler(s)
  BY <1>2, RestoreKeeps
<1>3. CASE StartGuard
  BY <1>3 DEF StartGuard
<1>4. CASE Watch
  BY <1>4 DEF Watch
<1>5. CASE Sweep
  BY <1>5 DEF Sweep
<1>6. CASE Terminate
  BY <1>6 DEF Terminate, AfterTermination
<1>7. CASE AwaitGrace
  BY <1>7 DEF AwaitGrace, AfterTermination
<1>8. CASE AwaitKill
  BY <1>8 DEF AwaitKill, AfterTermination
<1>9. CASE Join
  BY <1>9 DEF Join
<1>10. CASE LateCheck
  BY <1>10 DEF LateCheck
<1>11. CASE Rejoin
  BY <1>11 DEF Rejoin
<1>12. CASE Conclude
  BY <1>12 DEF Conclude
<1>13. CASE \E s \in Signals : Signal(s)
  BY <1>13 DEF Signal
<1>14. CASE \E new \in {"helper", "escaped"} : Fork(new)
  BY <1>14 DEF Fork
<1>15. CASE \E p \in procs : Exit(p)
  BY <1>15 DEF Exit
<1>16. CASE \E s \in Streams : Drained(s)
  BY <1>16 DEF Drained
<1>17. CASE UNCHANGED vars
  BY <1>17 DEF vars
<1> QED
  BY <1>1, <1>2, <1>3, <1>4, <1>5, <1>6, <1>7, <1>8, <1>9,
     <1>10, <1>11, <1>12, <1>13, <1>14, <1>15, <1>16, <1>17
     DEF Next, Supervise

(* Readers only end, so what a join saw stays true. *)
LEMMA ReadersStep ==
  ASSUME IInv, [Next]_vars
  PROVE  ReadersOfPc'
<1> USE DEF IInv, TypeOK, StartOfPc, ReadersOfPc, Finished, reading, sigVars, flagVars, procVars
<1>1. CASE \E s \in Signals : InstallHandler(s)
  BY <1>1 DEF InstallHandler
<1>2. CASE \E s \in Signals : RestoreHandler(s)
  BY <1>2, RestoreKeeps
<1>3. CASE StartGuard
  BY <1>3 DEF StartGuard
<1>4. CASE Watch
  BY <1>4 DEF Watch
<1>5. CASE Sweep
  BY <1>5 DEF Sweep
<1>6. CASE Terminate
  BY <1>6 DEF Terminate, AfterTermination
<1>7. CASE AwaitGrace
  BY <1>7 DEF AwaitGrace, AfterTermination
<1>8. CASE AwaitKill
  BY <1>8 DEF AwaitKill, AfterTermination
<1>9. CASE Join
  BY <1>9 DEF Join
<1>10. CASE LateCheck
  BY <1>10 DEF LateCheck
<1>11. CASE Rejoin
  BY <1>11 DEF Rejoin
<1>12. CASE Conclude
  BY <1>12 DEF Conclude
<1>13. CASE \E s \in Signals : Signal(s)
  BY <1>13 DEF Signal
<1>14. CASE \E new \in {"helper", "escaped"} : Fork(new)
  BY <1>14 DEF Fork
<1>15. CASE \E p \in procs : Exit(p)
  BY <1>15 DEF Exit
<1>16. CASE \E s \in Streams : Drained(s)
  BY <1>16 DEF Drained
<1>17. CASE UNCHANGED vars
  BY <1>17 DEF vars
<1> QED
  BY <1>1, <1>2, <1>3, <1>4, <1>5, <1>6, <1>7, <1>8, <1>9,
     <1>10, <1>11, <1>12, <1>13, <1>14, <1>15, <1>16, <1>17
     DEF Next, Supervise

(* Nobody enters a group that is empty, and only a troubled call signals it. *)
LEMMA GroupStep ==
  ASSUME IInv, [Next]_vars
  PROVE  GroupOfPc'
<1> USE DEF IInv, TypeOK, StartOfPc, GroupOfPc, Trouble, Finished, group, sigVars, flagVars, procVars
<1>1. CASE \E s \in Signals : InstallHandler(s)
  BY <1>1 DEF InstallHandler
<1>2. CASE \E s \in Signals : RestoreHandler(s)
  BY <1>2, RestoreKeeps
<1>3. CASE StartGuard
  BY <1>3 DEF StartGuard
<1>4. CASE Watch
  BY <1>4 DEF Watch
<1>5. CASE Sweep
  BY <1>5 DEF Sweep
<1>6. CASE Terminate
  BY <1>6 DEF Terminate, AfterTermination
<1>7. CASE AwaitGrace
  BY <1>7 DEF AwaitGrace, AfterTermination
<1>8. CASE AwaitKill
  BY <1>8 DEF AwaitKill, AfterTermination
<1>9. CASE Join
  BY <1>9 DEF Join
<1>10. CASE LateCheck
  BY <1>10 DEF LateCheck
<1>11. CASE Rejoin
  BY <1>11 DEF Rejoin
<1>12. CASE Conclude
  BY <1>12 DEF Conclude
<1>13. CASE \E s \in Signals : Signal(s)
  BY <1>13 DEF Signal
<1>14. CASE \E new \in {"helper", "escaped"} : Fork(new)
  BY <1>14 DEF Fork
<1>15. CASE \E p \in procs : Exit(p)
  BY <1>15 DEF Exit
<1>16. CASE \E s \in Streams : Drained(s)
  BY <1>16 DEF Drained
<1>17. CASE UNCHANGED vars
  BY <1>17 DEF vars
<1> QED
  BY <1>1, <1>2, <1>3, <1>4, <1>5, <1>6, <1>7, <1>8, <1>9,
     <1>10, <1>11, <1>12, <1>13, <1>14, <1>15, <1>16, <1>17
     DEF Next, Supervise

(* The outcome is chosen last, from flags that do not change any more. *)
LEMMA OutcomeStep ==
  ASSUME IInv, [Next]_vars
  PROVE  OutcomeOfFlags'
<1> USE DEF IInv, TypeOK, StartOfPc, OutcomeOfFlags, Trouble, sigVars, flagVars, procVars
<1>1. CASE \E s \in Signals : InstallHandler(s)
  BY <1>1 DEF InstallHandler
<1>2. CASE \E s \in Signals : RestoreHandler(s)
  BY <1>2, RestoreKeeps
<1>3. CASE StartGuard
  BY <1>3 DEF StartGuard
<1>4. CASE Watch
  BY <1>4 DEF Watch
<1>5. CASE Sweep
  BY <1>5 DEF Sweep
<1>6. CASE Terminate
  BY <1>6 DEF Terminate
<1>7. CASE AwaitGrace
  BY <1>7 DEF AwaitGrace
<1>8. CASE AwaitKill
  BY <1>8 DEF AwaitKill
<1>9. CASE Join
  BY <1>9 DEF Join
<1>10. CASE LateCheck
  BY <1>10 DEF LateCheck
<1>11. CASE Rejoin
  BY <1>11 DEF Rejoin
<1>12. CASE Conclude
  BY <1>12 DEF Conclude
<1>13. CASE \E s \in Signals : Signal(s)
  BY <1>13 DEF Signal
<1>14. CASE \E new \in {"helper", "escaped"} : Fork(new)
  BY <1>14 DEF Fork
<1>15. CASE \E p \in procs : Exit(p)
  BY <1>15 DEF Exit
<1>16. CASE \E s \in Streams : Drained(s)
  BY <1>16 DEF Drained
<1>17. CASE UNCHANGED vars
  BY <1>17 DEF vars
<1> QED
  BY <1>1, <1>2, <1>3, <1>4, <1>5, <1>6, <1>7, <1>8, <1>9,
     <1>10, <1>11, <1>12, <1>13, <1>14, <1>15, <1>16, <1>17
     DEF Next, Supervise

LEMMA InitIInv == Init => IInv
BY DEF Init, IInv, TypeOK, Outcomes, Noted, StartOfPc, ReadersOfPc, GroupOfPc, OutcomeOfFlags,
   Trouble, Finished, group, reading, Streams

(* Theorem: the inductive invariant of _SubprocessExecutor.run, whatever the
   guard, the signals and the cleanup calls do.                            *)
THEOREM GuardExecutorInductive == Spec => []IInv
<1>1. ASSUME IInv, [Next]_vars PROVE IInv'
  BY <1>1, TypeStep, NotedStep, StartStep, ReadersStep, GroupStep, OutcomeStep DEF IInv
<1> QED
  BY <1>1, InitIInv, PTL DEF Spec

(* Theorem: every variable has its type, a call has an outcome exactly when it
   has ended, and a guard that was not started has no process.             *)
THEOREM GuardExecutorTypeOK == Spec => []TypeOK
<1>1. IInv => TypeOK
  BY DEF IInv
<1> QED
  BY <1>1, GuardExecutorInductive, PTL

(* Theorem: after a signal the call does not report the guard's own exit code
   (request_cancel and the handler of the permission window).              *)
THEOREM GuardExecutorSignalIsNeverLost == Spec => []SignalIsNeverLost
<1>1. IInv => SignalIsNeverLost
  BY DEF IInv, Noted, OutcomeOfFlags, SignalIsNeverLost
<1> QED
  BY <1>1, GuardExecutorInductive, PTL

(* Theorem: the guard's own exit code means an untouched guard that is gone
   and streams read to their end.                                          *)
THEOREM GuardExecutorExitCodeIsTheGuards == Spec => []ExitCodeIsTheGuards
<1>1. ASSUME IInv, outcome = "child"
      PROVE  ~hit /\ "leader" \notin procs /\ \A s \in Streams : drain[s] = "drained"
  <2>1. pc = "ended" /\ started /\ ~Trouble
    BY <1>1 DEF IInv, TypeOK, OutcomeOfFlags
  <2>2. group = {} /\ ~hit
    BY <1>1, <2>1 DEF IInv, GroupOfPc
  <2>3. reading = {} /\ \A s \in Streams : drain[s] # "none"
    BY <1>1, <2>1 DEF IInv, ReadersOfPc, StartOfPc, Finished, Trouble
  <2>4. \A s \in Streams : drain[s] = "drained"
    BY <1>1, <2>3 DEF IInv, TypeOK, reading
  <2> QED
    BY <2>2, <2>4 DEF group
<1>2. IInv => ExitCodeIsTheGuards
  BY <1>1 DEF ExitCodeIsTheGuards
<1> QED
  BY <1>2, GuardExecutorInductive, PTL

(* Theorem: every outcome of a started guard but 70, and but a signal that
   leaves the call while the handlers are given back, means that its group
   is gone and no reader is left.                                          *)
THEOREM GuardExecutorOnlySeventyLeavesSomething == Spec => []OnlySeventyLeavesSomething
<1>1. IInv => OnlySeventyLeavesSomething
  BY DEF IInv, TypeOK, OutcomeOfFlags, Trouble, ReadersOfPc, GroupOfPc, Finished,
     OnlySeventyLeavesSomething
<1> QED
  BY <1>1, GuardExecutorInductive, PTL

-----------------------------------------------------------------------------
(* The refinement of SupervisedGuard.                                      *)

seenGuard  == IF ~started THEN "none" ELSE IF group # {} THEN "running" ELSE "done"
seenReport == IF outcome = "none" THEN "none"
              ELSE IF outcome \in {"raised", "interrupted"} THEN "lost"
              ELSE IF outcome = "70" THEN "unclean" ELSE "clean"

(* The names above are what the instance puts for the abstract variables. *)
LEMMA PromiseIsAbout ==
  /\ Promise!vars = <<seenGuard, seenReport>>
  /\ Promise!vars' = <<seenGuard', seenReport'>>
  /\ Promise!Init <=> seenGuard = "none" /\ seenReport = "none"
  /\ Promise!Start <=> seenGuard = "none" /\ seenReport = "none"
                       /\ seenGuard' = "running" /\ UNCHANGED seenReport
  /\ Promise!Exit <=> seenGuard = "running" /\ seenGuard' = "done" /\ UNCHANGED seenReport
  /\ \A how : Promise!Report(how) <=>
       /\ seenReport = "none" /\ seenReport' = how
       /\ UNCHANGED seenGuard \/ (seenGuard = "running" /\ seenGuard' = "done")
       /\ how = "clean" => seenGuard' = "done"
BY DEF Promise!vars, Promise!Init, Promise!Start, Promise!Exit, Promise!Report,
   seenGuard, seenReport

(* What leaves the processes and the outcome alone is not seen outside. *)
LEMMA Unseen ==
  ASSUME UNCHANGED <<started, procs, outcome>>
  PROVE  UNCHANGED <<seenGuard, seenReport>>
BY DEF seenGuard, seenReport, group

(* One call of Popen starts the guard. *)
LEMMA StartIsSeen ==
  ASSUME IInv, StartGuard
  PROVE  Promise!Start \/ UNCHANGED <<seenGuard, seenReport>>
<1>1. ~started /\ outcome = "none" /\ UNCHANGED outcome
  BY DEF IInv, TypeOK, StartOfPc, StartGuard
<1>2. CASE UNCHANGED procVars
  BY <1>1, <1>2, Unseen DEF procVars
<1>3. CASE started' /\ procs' = {"leader"}
  <2>1. seenGuard = "none" /\ seenGuard' = "running"
    BY <1>1, <1>3 DEF seenGuard, group
  <2> QED
    BY <1>1, <2>1, PromiseIsAbout DEF seenReport
<1> QED
  BY <1>2, <1>3 DEF StartGuard

(* The group is fed only by its members, so it ends once. *)
LEMMA ProcessesAreSeen ==
  ASSUME IInv, NEW p, (p \in {"helper", "escaped"} /\ Fork(p)) \/ Exit(p)
  PROVE  Promise!Exit \/ UNCHANGED <<seenGuard, seenReport>>
<1>1. UNCHANGED <<started, outcome>>
  BY DEF Fork, Exit
<1>2. UNCHANGED seenReport
  BY <1>1 DEF seenReport
<1>3. procs # {}
  BY DEF Fork, Exit, group
<1>4. started
  BY <1>3 DEF IInv, TypeOK
<1>5. group = {} => group' = {}
  BY DEF Fork, Exit, group
<1> QED
  BY <1>1, <1>2, <1>4, <1>5, PromiseIsAbout DEF seenGuard

(* The call ends with the one report; a clean one finds the group gone. *)
LEMMA EndIsSeen ==
  ASSUME IInv, IInv', outcome' # outcome,
         Conclude \/ \E s \in Signals : Signal(s)
  PROVE  \E how \in {"clean", "unclean", "lost"} : Promise!Report(how)
<1>1. outcome = "none" /\ outcome' # "none" /\ pc' = "ended" /\ UNCHANGED procVars
  BY DEF IInv, TypeOK, Conclude, Signal
<1>2. UNCHANGED seenGuard
  BY <1>1 DEF seenGuard, group, procVars
<1>3. seenReport = "none" /\ seenReport' \in {"clean", "unclean", "lost"}
  BY <1>1 DEF seenReport
<1>4. ASSUME seenReport' = "clean" PROVE seenGuard' = "done"
  <2>1. outcome' \in {"child", "124", "130"}
    BY <1>1, <1>4 DEF IInv, TypeOK, Outcomes, seenReport
  <2>2. started'
    BY <2>1 DEF IInv, TypeOK
  <2>3. (outcome = "child" => ~Trouble)' /\ (outcome \in {"124", "130", "raised"} /\ started => ~cleanupFailed)'
    BY DEF IInv, OutcomeOfFlags
  <2>4. ~cleanupFailed'
    BY <2>1, <2>2, <2>3 DEF Trouble
  <2>5. group' = {}
    BY <1>1, <2>4 DEF IInv, GroupOfPc, Finished
  <2> QED
    BY <2>2, <2>5 DEF seenGuard
<1> QED
  BY <1>2, <1>3, <1>4, PromiseIsAbout

(* Theorem: one supervised call is a SupervisedGuard: the guard is started at
   most once, its supervision ends with at most one report, and a clean
   report means that its process group is gone, which is what run_material
   takes an executor's return for.                                         *)
THEOREM GuardExecutorKeepsPromise == Spec => Promise!Spec
<1>1. Init => Promise!Init
  BY PromiseIsAbout DEF Init, seenGuard, seenReport
<1>2. ASSUME IInv, IInv', [Next]_vars PROVE [Promise!Next]_(Promise!vars)
  <2>1. CASE StartGuard
    BY <1>2, <2>1, StartIsSeen, PromiseIsAbout DEF Promise!Next
  <2>2. CASE \E new \in {"helper", "escaped"} : Fork(new)
    BY <1>2, <2>2, ProcessesAreSeen, PromiseIsAbout DEF Promise!Next
  <2>3. CASE \E p \in procs : Exit(p)
    BY <1>2, <2>3, ProcessesAreSeen, PromiseIsAbout DEF Promise!Next
  <2>4. CASE Conclude \/ \E s \in Signals : Signal(s)
    <3>1. CASE outcome' # outcome
      BY <1>2, <2>4, <3>1, EndIsSeen DEF Promise!Next
    <3>2. CASE outcome' = outcome
      <4>1. UNCHANGED <<started, procs, outcome>>
        BY <2>4, <3>2 DEF Conclude, Signal, procVars
      <4> QED
        BY <4>1, Unseen, PromiseIsAbout
    <3> QED
      BY <3>1, <3>2
  <2>5. CASE UNCHANGED <<started, procs, outcome>>
    BY <2>5, Unseen, PromiseIsAbout
  <2> QED
    <3>1. CASE \E s \in Signals : InstallHandler(s) \/ RestoreHandler(s)
      BY <2>5, <3>1 DEF InstallHandler, RestoreHandler, procVars
    <3>2. CASE Watch \/ Sweep \/ Terminate \/ AwaitGrace \/ AwaitKill
      BY <2>5, <3>2 DEF Watch, Sweep, Terminate, AwaitGrace, AwaitKill, procVars
    <3>3. CASE Join \/ LateCheck \/ Rejoin
      BY <2>5, <3>3 DEF Join, LateCheck, Rejoin, procVars
    <3>4. CASE \E s \in Streams : Drained(s)
      BY <2>5, <3>4 DEF Drained
    <3>5. CASE UNCHANGED vars
      BY <2>5, <3>5 DEF vars, procVars
    <3> QED
      BY <1>2, <2>1, <2>2, <2>3, <2>4, <3>1, <3>2, <3>3, <3>4, <3>5 DEF Next, Supervise
<1> QED
  BY <1>1, <1>2, GuardExecutorInductive, PTL DEF Spec, Promise!Spec

-----------------------------------------------------------------------------
(* Supervision comes to an end.                                            *)

(* Where control is; the group may be terminated before the readers are
   joined, or after it, for one that is left.                              *)
Position ==
  CASE pc = "install"  -> 0
    [] pc = "start"    -> 1
    [] pc = "watch"    -> 2
    [] pc = "sweep"    -> 3
    [] pc = "term"     -> IF threadsAlive = "unknown" THEN 4 ELSE 9
    [] pc = "termwait" -> IF threadsAlive = "unknown" THEN 5 ELSE 10
    [] pc = "killwait" -> IF threadsAlive = "unknown" THEN 6 ELSE 11
    [] pc = "join"     -> 7
    [] pc = "late"     -> 8
    [] pc = "rejoin"   -> 12
    [] pc = "restore"  -> 13
    [] OTHER           -> 14

(* A step of the executor goes on, or takes or gives back one handler. *)
Advances ==
  \/ Position' > Position
  \/ /\ pc = "install" /\ pc' = "install"
     /\ recording \subseteq recording' /\ recording' # recording
  \/ /\ pc = "restore" /\ pc' = "restore"
     /\ recording' \subseteq recording /\ recording' # recording

(* Signals, the guard and the readers may move it on, and never back. *)
NotBack == Position' >= Position /\ (Position' = Position => UNCHANGED <<pc, recording>>)

(* Where the parts of the cleanup send control. *)
LEMMA TerminationReturns ==
  ASSUME IInv, pc \in {"term", "termwait", "killwait"}, UNCHANGED threadsAlive,
         pc' = AfterTermination
  PROVE  Position' > Position
<1>1. threadsAlive \in {"unknown", "no", "yes"}
  BY DEF IInv, TypeOK
<1>2. pc' = IF threadsAlive = "unknown" THEN "join"
            ELSE IF threadsAlive = "yes" THEN "rejoin" ELSE "restore"
  BY <1>1 DEF AfterTermination
<1> QED
  BY <1>1, <1>2 DEF Position

LEMMA SuperviseAdvances ==
  ASSUME IInv, Supervise
  PROVE  Advances
<1>1. CASE \E s \in Signals : InstallHandler(s)
  <2>1. PICK s \in Signals : InstallHandler(s)
    BY <1>1
  <2>2. CASE pc' = "install"
    BY <2>1, <2>2 DEF InstallHandler, Advances
  <2>3. CASE pc' # "install"
    <3>1. pc = "install" /\ pc' \in {"start", "restore"}
      BY <2>1, <2>3 DEF InstallHandler
    <3> QED
      BY <3>1 DEF Advances, Position
  <2> QED
    BY <2>2, <2>3
<1>2. CASE \E s \in Signals : RestoreHandler(s)
  BY <1>2 DEF RestoreHandler, Advances
<1>3. CASE StartGuard
  <2>1. pc = "start" /\ pc' \in {"restore", "watch", "sweep"}
    BY <1>3 DEF StartGuard
  <2> QED
    BY <2>1 DEF Advances, Position
<1>4. CASE Watch
  BY <1>4 DEF Watch, Advances, Position
<1>5. CASE Sweep
  <2>1. pc = "sweep" /\ pc' \in {"term", "join"} /\ threadsAlive' = "unknown"
    BY <1>5 DEF IInv, ReadersOfPc, Sweep
  <2> QED
    BY <2>1 DEF Advances, Position
<1>6. CASE Terminate
  <2>1. pc = "term" /\ UNCHANGED threadsAlive /\ (pc' = "termwait" \/ pc' = AfterTermination)
    BY <1>6 DEF Terminate
  <2>2. CASE pc' = "termwait"
    BY <2>1, <2>2 DEF Advances, Position
  <2> QED
    BY <2>1, <2>2, TerminationReturns DEF Advances
<1>7. CASE AwaitGrace
  <2>1. pc = "termwait" /\ UNCHANGED threadsAlive /\ (pc' = "killwait" \/ pc' = AfterTermination)
    BY <1>7 DEF AwaitGrace
  <2>2. CASE pc' = "killwait"
    BY <2>1, <2>2 DEF Advances, Position
  <2> QED
    BY <2>1, <2>2, TerminationReturns DEF Advances
<1>8. CASE AwaitKill
  BY <1>8, TerminationReturns DEF AwaitKill, Advances
<1>9. CASE Join
  BY <1>9 DEF Join, Advances, Position
<1>10. CASE LateCheck
  <2>1. pc = "late" /\ pc' \in {"term", "rejoin", "restore"} /\ threadsAlive' # "unknown"
    BY <1>10 DEF IInv, ReadersOfPc, LateCheck, flagVars
  <2> QED
    BY <2>1 DEF Advances, Position
<1>11. CASE Rejoin
  BY <1>11 DEF Rejoin, Advances, Position
<1>12. CASE Conclude
  BY <1>12 DEF Conclude, Advances, Position
<1> QED
  BY <1>1, <1>2, <1>3, <1>4, <1>5, <1>6, <1>7, <1>8, <1>9, <1>10, <1>11, <1>12 DEF Supervise

LEMMA EnvironmentMovesOn ==
  ASSUME IInv, Next, ~Supervise
  PROVE  NotBack
<1>1. Position \in 0 .. 14
  BY DEF Position
<1>2. CASE \E s \in Signals : Signal(s)
  <2>1. UNCHANGED <<threadsAlive, recording>>
        /\ \/ UNCHANGED pc
           \/ pc = "install" /\ pc' = "restore"
           \/ pc = "restore" /\ pc' = "ended"
    BY <1>2 DEF Signal
  <2> QED
    BY <1>1, <2>1 DEF NotBack, Position
<1>3. CASE UNCHANGED <<pc, recording, threadsAlive>>
  BY <1>1, <1>3 DEF NotBack, Position
<1>4. (\E new \in {"helper", "escaped"} : Fork(new)) \/ (\E p \in procs : Exit(p))
      \/ (\E s \in Streams : Drained(s)) => UNCHANGED <<pc, recording, threadsAlive>>
  BY DEF Fork, Exit, Drained, sigVars, flagVars
<1> QED
  BY <1>2, <1>3, <1>4 DEF Next

(* Theorem: _SubprocessExecutor.run goes from one statement to a later one, or
   through its finitely many handlers, and nothing the guard does and no
   signal sends it back: no wait is repeated, and the group is terminated at
   most once before the readers are joined and once after.  That it always
   has a next statement is what KeepsPromise adds under fairness.          *)
THEOREM GuardExecutorAdvances ==
  Spec => [][(Supervise => Advances) /\ (~Supervise => NotBack)]_vars
<1>1. IInv /\ [Next]_vars => [(Supervise => Advances) /\ (~Supervise => NotBack)]_vars
  BY SuperviseAdvances, EnvironmentMovesOn
<1> QED
  BY <1>1, GuardExecutorInductive, PTL DEF Spec

=============================================================================
