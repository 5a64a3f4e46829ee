---------------------------- MODULE GuardExecutor ----------------------------
(***************************************************************************)
(* One call of _SubprocessExecutor.run (a0x_ccp_executor.py): it starts    *)
(* the guard in a session of its own, drains its two streams in threads,   *)
(* and supervises it while signals arrive, the deadline passes, the guard  *)
(* forks and dies as it likes, and cleanup steps fail.  Time is a free     *)
(* choice: a wait with a timeout may end at any moment.                    *)
(***************************************************************************)
CONSTANT Signals   \* SIGTERM, SIGHUP, SIGINT

ASSUME SignalsAssumption == Signals # {}

VARIABLES
  pc,
  recording,       \* signals whose handler is request_cancel
  latched,         \* signal_received of the permission window's own handler
  delivered,       \* history: some signal arrived during the call
  cancel,          \* cancel_requested
  timedOut,
  lifecycleError,
  cleanupStarted,
  cleanupFailed,
  threadsAlive,    \* "unknown" until the first join
  started,         \* process is not None
  procs,           \* live processes that hold the guard's streams
  drain,           \* the reader thread of each stream
  hit,             \* history: a live member of the group was sent a signal
  outcome          \* return code, "child" for the guard's own, or an exception

procVars == <<started, procs, drain, hit>>
flagVars == <<cancel, timedOut, lifecycleError, cleanupStarted, cleanupFailed, threadsAlive>>
sigVars  == <<recording, latched, delivered>>
vars     == <<pc, sigVars, flagVars, procVars, outcome>>

Streams == {"stdout", "stderr"}

(* The leader and its helpers share the group; a process that took a session
   of its own keeps the streams but is out of the executor's reach.         *)
group    == procs \cap {"leader", "helper"}
reading  == {s \in Streams : drain[s] = "reading"}

Init ==
  /\ pc = "install"
  /\ recording = {} /\ latched = FALSE /\ delivered = FALSE
  /\ cancel = FALSE /\ timedOut = FALSE /\ lifecycleError = FALSE
  /\ cleanupStarted = FALSE /\ cleanupFailed = FALSE /\ threadsAlive = "unknown"
  /\ started = FALSE /\ procs = {} /\ drain = [s \in Streams |-> "none"] /\ hit = FALSE
  /\ outcome = "none"

-----------------------------------------------------------------------------
(* The environment: signals and the guard.                                 *)

(* A recording handler takes note.  The window's handler raises once: in the
   body that is caught as a cancellation, while the handlers are given back
   it is caught or leaves the call.                                         *)
Signal(s) ==
  /\ pc # "ended"
  /\ delivered' = TRUE
  /\ \/ s \in recording /\ cancel' = TRUE /\ UNCHANGED <<pc, latched, outcome>>
     \/ s \notin recording /\ latched /\ UNCHANGED <<pc, latched, cancel, outcome>>
     \/ /\ s \notin recording /\ ~latched /\ latched' = TRUE
        /\ \/ pc = "install" /\ pc' = "restore" /\ cancel' = TRUE /\ UNCHANGED outcome
           \/ pc = "restore" /\ cancel' = TRUE /\ UNCHANGED <<pc, outcome>>
           \/ /\ pc = "restore" /\ pc' = "ended" /\ outcome' = "interrupted"
              /\ UNCHANGED cancel
  /\ UNCHANGED <<recording, timedOut, lifecycleError, cleanupStarted, cleanupFailed,
                 threadsAlive, procVars>>

(* Only a member of the group adds to the group. *)
Fork(new) ==
  /\ new \notin procs
  /\ IF new = "helper" THEN group # {} ELSE procs # {}
  /\ procs' = procs \cup {new}
  /\ UNCHANGED <<pc, sigVars, flagVars, started, drain, hit, outcome>>

Exit(p) ==
  /\ p \in procs
  /\ procs' = procs \ {p}
  /\ UNCHANGED <<pc, sigVars, flagVars, started, drain, hit, outcome>>

(* A reader sees the end of its stream when nobody holds it any more. *)
Drained(s) ==
  /\ drain[s] = "reading" /\ procs = {}
  /\ drain' = [drain EXCEPT ![s] = "drained"]
  /\ UNCHANGED <<pc, sigVars, flagVars, started, procs, hit, outcome>>

-----------------------------------------------------------------------------
(* The body: handlers, start, watch.                                       *)

InstallHandler(s) ==
  /\ pc = "install" /\ s \notin recording
  /\ \/ /\ recording' = recording \cup {s}
        /\ pc' = IF recording' = Signals THEN "start" ELSE "install"
        /\ UNCHANGED lifecycleError
     \/ lifecycleError' = TRUE /\ pc' = "restore" /\ UNCHANGED recording
  /\ UNCHANGED <<latched, delivered, cancel, timedOut, cleanupStarted, cleanupFailed,
                 threadsAlive, procVars, outcome>>

(* A cancellation seen before Popen starts nothing. *)
StartGuard ==
  /\ pc = "start"
  /\ \/ cancel /\ pc' = "restore" /\ UNCHANGED <<procVars, lifecycleError>>
     \/ ~cancel /\ pc' = "restore" /\ lifecycleError' = TRUE /\ UNCHANGED procVars
     \/ /\ ~cancel
        /\ started' = TRUE /\ procs' = {"leader"}
        /\ \/ /\ drain' = [s \in Streams |-> "reading"]
              /\ pc' = "watch" /\ UNCHANGED lifecycleError
           \/ /\ drain' \in { [s \in Streams |-> "none"],
                              [drain EXCEPT !["stdout"] = "reading"] }
              /\ pc' = "sweep" /\ lifecycleError' = TRUE
        /\ UNCHANGED hit
  /\ UNCHANGED <<sigVars, cancel, timedOut, cleanupStarted, cleanupFailed, threadsAlive, outcome>>

(* One turn of the wait loop that leaves it. *)
Watch ==
  /\ pc = "watch"
  /\ \/ (cancel \/ "leader" \notin procs) /\ UNCHANGED <<timedOut, lifecycleError>>
     \/ ~cancel /\ timedOut' = TRUE /\ UNCHANGED lifecycleError
     \/ ~cancel /\ lifecycleError' = TRUE /\ UNCHANGED timedOut
  /\ pc' = "sweep"
  /\ UNCHANGED <<sigVars, cancel, cleanupStarted, cleanupFailed, threadsAlive, procVars, outcome>>

-----------------------------------------------------------------------------
(* The finally clause: the group, the readers, the handlers.               *)

(* Variant: a guard that exited by itself is taken to be gone. *)
SweepTrusting ==
  /\ pc = "sweep"
  /\ pc' = IF timedOut \/ cancel \/ lifecycleError THEN "term" ELSE "join"
  /\ UNCHANGED <<sigVars, flagVars, procVars, outcome>>

(* A guard that exited must have left nobody in its group. *)
Sweep ==
  /\ pc = "sweep"
  /\ LET stop == timedOut \/ cancel \/ lifecycleError
     IN  \/ stop /\ pc' = "term" /\ UNCHANGED cleanupFailed
         \/ ~stop /\ group = {} /\ pc' = "join" /\ UNCHANGED cleanupFailed
         \/ ~stop /\ cleanupFailed' = TRUE /\ pc' = "term"
  /\ UNCHANGED <<sigVars, cancel, timedOut, lifecycleError, cleanupStarted, threadsAlive,
                 procVars, outcome>>

(* terminate_owned returns to where it was called. *)
AfterTermination ==
  CASE threadsAlive = "unknown" -> "join"
    [] threadsAlive = "yes"     -> "rejoin"
    [] threadsAlive = "no"      -> "restore"

(* SIGTERM to the group, once. *)
Terminate ==
  /\ pc = "term"
  /\ cleanupStarted' = TRUE
  /\ \/ hit' = (hit \/ group # {}) /\ pc' = "termwait" /\ UNCHANGED cleanupFailed
     \/ cleanupFailed' = TRUE /\ pc' = AfterTermination /\ UNCHANGED hit
  /\ UNCHANGED <<sigVars, cancel, timedOut, lifecycleError, threadsAlive, started, procs,
                 drain, outcome>>

(* It ends within the grace, or is sent SIGKILL; a status error ends this. *)
AwaitGrace ==
  /\ pc = "termwait"
  /\ \/ group = {} /\ pc' = AfterTermination /\ UNCHANGED <<cleanupFailed, hit>>
     \/ group # {} /\ hit' = TRUE /\ pc' = "killwait" /\ UNCHANGED cleanupFailed
     \/ cleanupFailed' = TRUE /\ pc' = AfterTermination /\ UNCHANGED hit
  /\ UNCHANGED <<sigVars, cancel, timedOut, lifecycleError, cleanupStarted, threadsAlive,
                 started, procs, drain, outcome>>

(* A forced kill is an unclean end whether or not it worked. *)
AwaitKill ==
  /\ pc = "killwait"
  /\ cleanupFailed' = TRUE /\ pc' = AfterTermination
  /\ UNCHANGED <<sigVars, cancel, timedOut, lifecycleError, cleanupStarted, threadsAlive,
                 procVars, outcome>>

(* Variant: the readers are joined without a timeout. *)
JoinUnbounded ==
  /\ pc = "join" /\ reading = {}
  /\ threadsAlive' = "no" /\ pc' = "late"
  /\ UNCHANGED <<sigVars, cancel, timedOut, lifecycleError, cleanupStarted, cleanupFailed,
                 procVars, outcome>>

Join ==
  /\ pc = "join"
  /\ threadsAlive' = IF reading = {} THEN "no" ELSE "yes"
  /\ pc' = "late"
  /\ UNCHANGED <<sigVars, cancel, timedOut, lifecycleError, cleanupStarted, cleanupFailed,
                 procVars, outcome>>

(* A cancellation or a reader left over terminates the group if nothing did. *)
LateCheck ==
  /\ pc = "late"
  /\ pc' = IF (cancel \/ threadsAlive = "yes") /\ ~cleanupStarted THEN "term"
           ELSE IF threadsAlive = "yes" THEN "rejoin" ELSE "restore"
  /\ UNCHANGED <<sigVars, flagVars, procVars, outcome>>

(* Variant: a reader that is still alive is left alone. *)
RejoinIgnored ==
  /\ pc = "rejoin"
  /\ pc' = "restore"
  /\ UNCHANGED <<sigVars, flagVars, procVars, outcome>>

Rejoin ==
  /\ pc = "rejoin"
  /\ cleanupFailed' = (cleanupFailed \/ reading # {})
  /\ pc' = "restore"
  /\ UNCHANGED <<sigVars, cancel, timedOut, lifecycleError, cleanupStarted, threadsAlive,
                 procVars, outcome>>

RestoreHandler(s) ==
  /\ pc = "restore" /\ s \in recording
  /\ recording' = recording \ {s}
  /\ cleanupFailed' \in {cleanupFailed, TRUE}
  /\ UNCHANGED <<pc, latched, delivered, cancel, timedOut, lifecycleError, cleanupStarted,
                 threadsAlive, procVars, outcome>>

(* Variant: the guard's own exit code comes before a cancellation. *)
ConcludeExitFirst ==
  /\ pc = "restore" /\ recording = {}
  /\ outcome' = IF ~started THEN IF cancel THEN "interrupted" ELSE "raised"
                ELSE IF cleanupFailed THEN "70"
                ELSE IF timedOut THEN "124"
                ELSE IF lifecycleError THEN "raised"
                ELSE "child"
  /\ pc' = "ended"
  /\ UNCHANGED <<sigVars, flagVars, procVars>>

(* Variant: a process that was never started is not told apart. *)
ConcludeUnstarted ==
  /\ pc = "restore" /\ recording = {}
  /\ outcome' = IF cleanupFailed THEN "70"
                ELSE IF timedOut THEN "124"
                ELSE IF cancel THEN "130"
                ELSE IF lifecycleError THEN "raised"
                ELSE "child"
  /\ pc' = "ended"
  /\ UNCHANGED <<sigVars, flagVars, procVars>>

Conclude ==
  /\ pc = "restore" /\ recording = {}
  /\ outcome' = IF ~started THEN IF cancel THEN "interrupted" ELSE "raised"
                ELSE IF cleanupFailed THEN "70"
                ELSE IF timedOut THEN "124"
                ELSE IF cancel THEN "130"
                ELSE IF lifecycleError THEN "raised"
                ELSE "child"
  /\ pc' = "ended"
  /\ UNCHANGED <<sigVars, flagVars, procVars>>

Supervise ==
  \/ \E s \in Signals : InstallHandler(s) \/ RestoreHandler(s)
  \/ StartGuard \/ Watch \/ Sweep \/ Terminate \/ AwaitGrace \/ AwaitKill
  \/ Join \/ LateCheck \/ Rejoin \/ Conclude

Next ==
  \/ Supervise
  \/ \E s \in Signals : Signal(s)
  \/ \E new \in {"helper", "escaped"} : Fork(new)
  \/ \E p \in procs : Exit(p)
  \/ \E s \in Streams : Drained(s)

Spec     == Init /\ [][Next]_vars
FairSpec == Spec /\ WF_vars(Supervise)

-----------------------------------------------------------------------------
(* Properties.                                                             *)

Outcomes == {"none", "child", "70", "124", "130", "raised", "interrupted"}

TypeOK ==
  /\ pc \in {"install", "start", "watch", "sweep", "term", "termwait", "killwait", "join",
             "late", "rejoin", "restore", "ended"}
  /\ recording \subseteq Signals
  /\ latched \in BOOLEAN /\ delivered \in BOOLEAN /\ cancel \in BOOLEAN
  /\ timedOut \in BOOLEAN /\ lifecycleError \in BOOLEAN
  /\ cleanupStarted \in BOOLEAN /\ cleanupFailed \in BOOLEAN
  /\ threadsAlive \in {"unknown", "no", "yes"}
  /\ started \in BOOLEAN /\ hit \in BOOLEAN
  /\ procs \subseteq {"leader", "helper", "escaped"}
  /\ drain \in [Streams -> {"none", "reading", "drained"}]
  /\ outcome \in Outcomes /\ (pc = "ended" <=> outcome # "none")
  /\ ~started => procs = {} /\ outcome \in {"none", "raised", "interrupted"}

(* A signal that arrives while the executor owns the handlers is never
   swallowed: the call cannot report the guard's own exit code after it,
   whenever it came.                                                       *)
SignalIsNeverLost == pc = "ended" /\ delivered => outcome \notin {"child", "raised"}

(* The guard's own exit code is reported only if the guard ended by itself,
   untouched, and both streams were read to their end.                     *)
ExitCodeIsTheGuards ==
  outcome = "child" => ~hit /\ "leader" \notin procs /\ \A s \in Streams : drain[s] = "drained"

(* Any other code than 70 means that the group is gone and no reader is
   left behind on its streams.                                             *)
OnlySeventyLeavesSomething ==
  started /\ outcome \in {"child", "124", "130", "raised"} => group = {} /\ reading = {}

(* The executor keeps what the launcher relies on, whatever guard, signals
   and cleanup do: one start, one report, clean only if the group is gone;
   and it does report, although nothing obliges the guard to end.          *)
Promise ==
  INSTANCE SupervisedGuard WITH
    guard   <- IF ~started THEN "none" ELSE IF group # {} THEN "running" ELSE "done",
    outcome <- IF outcome = "none" THEN "none"
               ELSE IF outcome \in {"raised", "interrupted"} THEN "lost"
               ELSE IF outcome = "70" THEN "unclean" ELSE "clean"
KeepsPromise == Promise!FairSpec

-----------------------------------------------------------------------------
(* The inductive invariant: what control knows of the guard, its readers and *)
(* the flags.                                                              *)

(* Whoever heard a signal has noted it, or has left the call with it. *)
Noted == delivered \/ latched => cancel \/ outcome = "interrupted"

(* What has been started when, and a stream without a reader is an error. *)
StartOfPc ==
  /\ pc \in {"install", "start"} => ~started
  /\ pc \notin {"install", "start", "restore", "ended"} => started
  /\ started /\ ~lifecycleError => \A s \in Streams : drain[s] # "none"

(* What the joins know about the readers. *)
Finished == {"restore", "ended"}
ReadersOfPc ==
  /\ pc \in {"install", "start", "watch", "sweep"} => threadsAlive = "unknown"
  /\ pc \in {"late", "rejoin"} \/ (pc \in Finished /\ started) => threadsAlive # "unknown"
  /\ threadsAlive = "no" => reading = {}
  /\ pc \in Finished /\ started /\ ~cleanupFailed => reading = {}

(* Without trouble the sweep saw the group gone, and nobody signalled it; past
   its termination it is gone unless a cleanup step failed.                   *)
Trouble == timedOut \/ cancel \/ lifecycleError \/ cleanupFailed
GroupOfPc ==
  /\ pc \in {"install", "start", "watch", "sweep"} => ~hit
  /\ pc \notin {"install", "start", "watch", "sweep"} /\ ~Trouble => group = {} /\ ~hit
  /\ pc \in {"join", "late", "rejoin"} \cup Finished /\ ~cleanupFailed => group = {}

(* What an outcome says about the flags it was chosen from. *)
OutcomeOfFlags ==
  /\ outcome = "child" => started /\ ~Trouble
  /\ outcome \in {"child", "raised"} => ~cancel
  /\ outcome \in {"124", "130", "raised"} /\ started => ~cleanupFailed

IInv == TypeOK /\ Noted /\ StartOfPc /\ ReadersOfPc /\ GroupOfPc /\ OutcomeOfFlags
=============================================================================
