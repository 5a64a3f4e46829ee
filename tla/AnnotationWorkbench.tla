------------------------ MODULE AnnotationWorkbench ------------------------
(***************************************************************************)
(* The annotation workbench (annotation_workbench.py): sessions of a       *)
(* loopback server, each for one rater, that append annotations to one     *)
(* JSONL file, and the page a rater answers cases in.  A request is a      *)
(* thread of its session's server; a rater may send the same case twice,   *)
(* reload the page, or lose an answer; a call may fail, a write may be     *)
(* short, and a session ends with its threads wherever they are.           *)
(***************************************************************************)
EXTENDS Naturals, FiniteSets

CONSTANTS
  Sessions,   \* the servers started on the file
  Raters,
  Cases,
  Requests    \* the POSTs sent, each one annotation_id

ASSUME NamesAssumption == "none" \notin Requests /\ "none" \notin Cases

VARIABLES
  rater,      \* whom a session was started for; it never changes
  serving,    \* "new", "serving", "refused" to start or "ended"
  pairs,      \* the store's set of case and rater pairs, one per session
  lock,       \* the request that holds the store's lock
  queue,      \* the cases the session was started with
  at,         \* the case its page shows, "none" when the queue is complete
  passed,     \* the cases the page has gone past since it was loaded
  job,        \* the session and case of a request
  pc,         \* where a request is
  unheard,    \* requests whose page was reloaded
  exists,     \* whether the annotation file exists
  lines,      \* its lines, each the set of the pieces it consists of
  tail,       \* the pieces behind its last newline
  upset       \* history: what went wrong, of Mishaps

session == <<rater, serving, pairs, queue>>
page    == <<at, passed, unheard>>
file    == <<exists, lines, tail>>
vars    == <<session, lock, page, job, pc, file, upset>>

Mishaps == {"torn", "empty", "unsynced", "overlap"}

(* The record of a request ends in a newline: a short write leaves its head,
   which is no JSON record.                                                *)
Head(q)  == <<q, "head">>
Rest(q)  == <<q, "rest">>
Whole(q) == {Head(q), Rest(q)}
Pieces   == Requests \X {"head", "rest"}

Pair(q) == <<job[q][2], rater[job[q][1]]>>

Init ==
  /\ rater \in [Sessions -> Raters]
  /\ serving = [s \in Sessions |-> "new"]
  /\ pairs = [s \in Sessions |-> {}] /\ lock = [s \in Sessions |-> "none"]
  /\ queue = [s \in Sessions |-> {}]
  /\ at = [s \in Sessions |-> "none"] /\ passed = [s \in Sessions |-> {}]
  /\ job = [q \in Requests |-> <<"none", "none">>]
  /\ pc = [q \in Requests |-> "idle"] /\ unheard = {}
  /\ exists = "no" /\ lines = {} /\ tail = {} /\ upset = {}

Serving(s) == serving[s] = "serving"
InLock     == {"write", "rest", "sync"}
Go(q, p)   == pc' = [pc EXCEPT ![q] = p]
Blame(m)   == upset' = upset \cup m

(* load_jsonl accepts a file of whole records, at least one; the store only
   one for each pair.                                                      *)
Loadable ==
  exists = "yes" =>
    /\ tail = {} /\ lines # {}
    /\ \A l \in lines : \E q \in Requests : l = Whole(q)
    /\ \A p, q \in Requests : Whole(p) \in lines /\ Whole(q) \in lines /\ Pair(p) = Pair(q) => p = q

OnFile == {Pair(q) : q \in {p \in Requests : Whole(p) \in lines}}

(* show(): the page goes to a case of its queue it has not gone past. *)
Show(s, cases) ==
  IF cases = {} THEN at' = [at EXCEPT ![s] = "none"]
  ELSE \E c \in cases : at' = [at EXCEPT ![s] = c]

(* create_server loads the file and leaves out what its rater has annotated. *)
Start(s) ==
  /\ serving[s] = "new"
  /\ IF Loadable
     THEN LET left == {c \in Cases : <<c, rater[s]>> \notin OnFile}
          IN  /\ serving' = [serving EXCEPT ![s] = "serving"]
              /\ pairs' = [pairs EXCEPT ![s] = OnFile]
              /\ queue' = [queue EXCEPT ![s] = left] /\ Show(s, left)
              /\ Blame({m \in {"overlap"} :
                   \E o \in Sessions : Serving(o) /\ rater[o] = rater[s]})
     ELSE /\ serving' = [serving EXCEPT ![s] = "refused"]
          /\ UNCHANGED <<pairs, queue, at, upset>>
  /\ UNCHANGED <<rater, passed, unheard, lock, job, pc, file>>

(* The page posts the case it shows; nothing stops a second click. *)
Submit(s, q) ==
  /\ Serving(s) /\ at[s] # "none" /\ pc[q] = "idle"
  /\ job' = [job EXCEPT ![q] = <<s, at[s]>>]
  /\ Go(q, "received")
  /\ UNCHANGED <<session, lock, page, file, upset>>

(* A request that is not valid is answered 400, which changes no page. *)
Invalid(q) ==
  /\ pc[q] = "received"
  /\ Go(q, "over")
  /\ UNCHANGED <<session, lock, page, job, file, upset>>

(* Variant: the pair is looked up before the lock is taken. *)
LookUp(q) ==
  /\ pc[q] = "received" /\ UNCHANGED lock
  /\ IF Pair(q) \in pairs[job[q][1]]
     THEN Go(q, "over") /\ UNCHANGED exists
     ELSE Go(q, "write") /\ exists' = "yes"
  /\ UNCHANGED <<session, page, job, lines, tail, upset>>

(* append takes the lock, refuses a pair the store has and opens the file. *)
Acquire(q) ==
  /\ pc[q] = "received" /\ lock[job[q][1]] = "none"
  /\ IF Pair(q) \in pairs[job[q][1]]
     THEN Go(q, "over") /\ UNCHANGED <<lock, exists>>
     ELSE Go(q, "write") /\ lock' = [lock EXCEPT ![job[q][1]] = q] /\ exists' = "yes"
  /\ UNCHANGED <<session, page, job, lines, tail, upset>>

(* Variant: how much os.write has written is not looked at. *)
WriteOnce(q) ==
  /\ pc[q] = "write" /\ Go(q, "sync")
  /\ \/ lines' = lines \cup {tail \cup Whole(q)} /\ tail' = {}
     \/ tail' = tail \cup {Head(q)} /\ UNCHANGED lines
  /\ UNCHANGED <<session, lock, page, job, exists, upset>>

(* os.write appends all of the record or, short, its head; the loop goes on.
   Another session's record may then come between.                         *)
Write(q) ==
  /\ pc[q] = "write"
  /\ \/ /\ lines' = lines \cup {tail \cup Whole(q)} /\ tail' = {}
        /\ Go(q, "sync") /\ UNCHANGED upset
     \/ /\ tail' = tail \cup {Head(q)} /\ UNCHANGED lines
        /\ Go(q, "rest")
        /\ Blame({m \in {"torn"} : \E o \in Sessions : Serving(o) /\ o # job[q][1]})
  /\ UNCHANGED <<session, lock, page, job, exists>>

WriteRest(q) ==
  /\ pc[q] = "rest"
  /\ lines' = lines \cup {tail \cup {Rest(q)}} /\ tail' = {}
  /\ Go(q, "sync")
  /\ UNCHANGED <<session, lock, page, job, exists, upset>>

(* Variant: the pair is not remembered. *)
SyncForgets(q) ==
  /\ pc[q] = "sync"
  /\ lock' = [lock EXCEPT ![job[q][1]] = "none"]
  /\ Go(q, "saved")
  /\ UNCHANGED <<session, page, job, file, upset>>

(* fsync, and the pair joins the store's. *)
Sync(q) ==
  /\ pc[q] = "sync"
  /\ pairs' = [pairs EXCEPT ![job[q][1]] = @ \cup {Pair(q)}]
  /\ lock' = [lock EXCEPT ![job[q][1]] = "none"]
  /\ Go(q, "saved")
  /\ UNCHANGED <<rater, serving, queue, page, job, file, upset>>

(* What is left of an append that stops where q is. *)
Remains(q) ==
  {m \in {"torn"} : pc[q] = "rest"} \cup {m \in {"empty"} : pc[q] = "write" /\ lines = {}}

(* os.write or fsync raises OSError, which do_POST does not catch: the
   lock is released and the connection closed.                             *)
Fail(q) ==
  /\ pc[q] \in InLock
  /\ lock' = [lock EXCEPT ![job[q][1]] = "none"]
  /\ Go(q, "over")
  /\ Blame(Remains(q) \cup {m \in {"unsynced"} : pc[q] = "sync"})
  /\ UNCHANGED <<session, page, job, file>>

(* The 201 reaches the page, unless it was reloaded, or is lost; it takes the
   page to the next case, whichever case it shows.                         *)
Answer(q) ==
  LET s == job[q][1] IN
  /\ pc[q] = "saved" /\ Go(q, "acknowledged")
  /\ \/ /\ q \notin unheard /\ at[s] # "none"
        /\ passed' = [passed EXCEPT ![s] = @ \cup {at[s]}]
        /\ Show(s, queue[s] \ (passed[s] \cup {at[s]}))
     \/ UNCHANGED <<at, passed>>
  /\ UNCHANGED <<session, lock, unheard, job, file, upset>>

(* GET / sends the page as it was at the start, from its first case. *)
Reload(s) ==
  /\ Serving(s)
  /\ passed' = [passed EXCEPT ![s] = {}] /\ Show(s, queue[s])
  /\ unheard' = unheard \cup {q \in Requests : job[q][1] = s /\ pc[q] \in InLock \cup {"received", "saved"}}
  /\ UNCHANGED <<session, lock, job, pc, file, upset>>

(* Ctrl-C or a kill: the threads are daemons and end where they are. *)
End(s) ==
  LET mine == {q \in Requests : job[q][1] = s /\ pc[q] \in InLock \cup {"received"}} IN
  /\ Serving(s)
  /\ serving' = [serving EXCEPT ![s] = "ended"]
  /\ pc' = [q \in Requests |-> IF q \in mine THEN "over" ELSE pc[q]]
  /\ Blame(UNION {Remains(q) : q \in mine})
  /\ UNCHANGED <<rater, pairs, queue, lock, page, job, file>>

Next ==
  \/ \E s \in Sessions : Start(s) \/ Reload(s) \/ End(s) \/ \E q \in Requests : Submit(s, q)
  \/ \E q \in Requests : Invalid(q) \/ Acquire(q) \/ Write(q) \/ WriteRest(q)
                         \/ Sync(q) \/ Fail(q) \/ Answer(q)

Spec == Init /\ [][Next]_vars

TypeOK ==
  /\ rater \in [Sessions -> Raters]
  /\ serving \in [Sessions -> {"new", "serving", "refused", "ended"}]
  /\ pairs \in [Sessions -> SUBSET (Cases \X Raters)]
  /\ lock \in [Sessions -> Requests \cup {"none"}]
  /\ queue \in [Sessions -> SUBSET Cases] /\ passed \in [Sessions -> SUBSET Cases]
  /\ at \in [Sessions -> Cases \cup {"none"}]
  /\ pc \in [Requests -> InLock \cup {"idle", "received", "saved", "acknowledged", "over"}]
  /\ job \in [Requests -> (Sessions \X Cases) \cup {<<"none", "none">>}]
  /\ \A q \in Requests : pc[q] # "idle" => job[q] \in Sessions \X Cases
  /\ unheard \subseteq Requests
  /\ exists \in {"yes", "no"} /\ lines \subseteq SUBSET Pieces /\ tail \subseteq Pieces
  /\ upset \subseteq Mishaps

(* Saved: the store has answered 201, or is about to. *)
Saved(q)  == pc[q] \in {"saved", "acknowledged"}
Flying(q) == pc[q] \in InLock \cup {"received", "saved"}

(* The page never goes past a case whose annotation was not saved, whatever
   the rater clicks and whichever answers are late or lost.                *)
PageSkipsNothing ==
  \A s \in Sessions : \A c \in passed[s] :
    \E q \in Requests : job[q] = <<s, c>> /\ pc[q] = "acknowledged"

(* An annotation that was reported saved is a record of its own in the file,
   unless some append was torn.                                            *)
AcknowledgedIsKept ==
  "torn" \notin upset => \A q \in Requests : Saved(q) \/ pc[q] = "sync" => Whole(q) \in lines

(* Without a mishap (a torn append, a failed fsync, a file created and never
   written, two sessions of one rater) a workbench can always be started again
   on its file.                                                            *)
FileLoads ==
  upset = {} /\ (\A q \in Requests : pc[q] \notin InLock) => Loadable

(* A request in the append holds the lock of a session that serves, and no
   request is older than its session.                                      *)
LockHeld ==
  \A q \in Requests :
    /\ pc[q] \in InLock => lock[job[q][1]] = q /\ exists = "yes"
    /\ pc[q] \in InLock \cup {"received"} => Serving(job[q][1])
    /\ pc[q] # "idle" => serving[job[q][1]] # "new"

(* The store saves a pair once. *)
SavedOnce ==
  /\ \A q \in Requests : Saved(q) => Pair(q) \in pairs[job[q][1]]
  /\ \A q \in Requests : pc[q] \in InLock => Pair(q) \notin pairs[job[q][1]]
  /\ \A p, q \in Requests : Saved(p) /\ Saved(q) /\ job[p] = job[q] => p = q

(* What the page waits for is the case it shows, or one it has passed. *)
PageOK ==
  /\ \A q \in Requests : Flying(q) /\ q \notin unheard =>
       job[q][2] = at[job[q][1]] \/ job[q][2] \in passed[job[q][1]]
  /\ \A s \in Sessions : serving[s] = "new" => passed[s] = {}

(* Behind the last newline there is nothing but the head being written. *)
NothingTorn ==
  "torn" \notin upset =>
    /\ (\A q \in Requests : pc[q] # "rest") => tail = {}
    /\ \A q \in Requests : pc[q] = "rest" =>
         tail = {Head(q)} /\ \A s \in Sessions : Serving(s) => s = job[q][1]
    /\ tail # {} => exists = "yes"

(* Nothing in the file is of a request that has not come to the append. *)
Wrote ==
  \A q \in Requests :
    Head(q) \in tail \/ (\E l \in lines : Head(q) \in l) => pc[q] \notin {"idle", "received"}

(* Without a mishap: the file holds whole records, of requests that wrote. *)
RecordsOnly ==
  upset = {} =>
    /\ \A l \in lines : \E q \in Requests : l = Whole(q)
    /\ \A q \in Requests : Whole(q) \in lines => pc[q] \notin {"idle", "received", "write", "rest"}

(* Only one session of a rater serves, and it knows of every record of the
   rater, but for the one it is about to remember.                         *)
Known ==
  upset = {} =>
    /\ \A r, s \in Sessions : Serving(r) /\ Serving(s) /\ rater[r] = rater[s] => r = s
    /\ \A s \in Sessions, q \in Requests :
         Serving(s) /\ Whole(q) \in lines /\ rater[job[q][1]] = rater[s] =>
           Pair(q) \in pairs[s] \/ (job[q][1] = s /\ pc[q] = "sync")

OnePerPair ==
  upset = {} =>
    \A p, q \in Requests :
      Whole(p) \in lines /\ Whole(q) \in lines /\ Pair(p) = Pair(q) => p = q

NeverEmpty ==
  upset = {} /\ exists = "yes" /\ lines = {} => \E q \in Requests : pc[q] \in {"write", "rest"}

IInv ==
  /\ TypeOK /\ LockHeld /\ SavedOnce /\ PageOK /\ PageSkipsNothing
  /\ Wrote /\ NothingTorn /\ AcknowledgedIsKept
  /\ RecordsOnly /\ Known /\ OnePerPair /\ NeverEmpty
=============================================================================
