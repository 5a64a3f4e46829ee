--------------------- MODULE AnnotationWorkbenchProofs ---------------------
(***************************************************************************)
(* The safety of the annotation workbench for any number of sessions,      *)
(* raters, cases and requests: IInv is inductive; from it the page skips   *)
(* nothing, what was acknowledged is kept, and the file can be loaded.     *)
(***************************************************************************)
EXTENDS AnnotationWorkbench, TLAPS

USE NamesAssumption

(* A record is told from another by any piece of it. *)
LEMMA Words ==
  ASSUME NEW p \in Requests, NEW q \in Requests
  PROVE  /\ Whole(p) = Whole(q) => p = q
         /\ {Head(q)} \cup {Rest(q)} = Whole(q) /\ {} \cup Whole(q) = Whole(q)
         /\ Whole(q) # {} /\ Whole(q) \subseteq Pieces /\ Head(q) \in Pieces /\ Rest(q) \in Pieces
BY DEF Whole, Head, Rest, Pieces

(* What a write does to a file that is not torn. *)
LEMMA WriteShape ==
  ASSUME IInv, NEW q \in Requests, Write(q) \/ WriteRest(q), "torn" \notin upset
  PROVE  /\ pc[q] \in {"write", "rest"} /\ UNCHANGED <<session, lock, page, job, exists>>
         /\ job[q] \in Sessions \X Cases /\ Serving(job[q][1]) /\ lock[job[q][1]] = q
         /\ upset \subseteq upset'
         /\ \/ lines' = lines \cup {Whole(q)} /\ tail' = {} /\ pc' = [pc EXCEPT ![q] = "sync"]
            \/ lines' = lines /\ tail' = {Head(q)} /\ pc' = [pc EXCEPT ![q] = "rest"]
               /\ (upset' = upset => \A s \in Sessions : Serving(s) => s = job[q][1])
<1>1. /\ pc[q] \in {"write", "rest"} /\ job[q] \in Sessions \X Cases
      /\ Serving(job[q][1]) /\ lock[job[q][1]] = q
  BY DEF Write, WriteRest, IInv, TypeOK, LockHeld, InLock
<1>2. pc[q] = "rest" => tail = {Head(q)}
  BY DEF IInv, NothingTorn
<1>3. pc[q] = "write" => tail = {}
  <2>1. ASSUME pc[q] = "write", NEW p \in Requests, pc[p] = "rest"
        PROVE  FALSE
    <3>1. job[p][1] = job[q][1] /\ lock[job[p][1]] = p
      BY <1>1, <2>1 DEF IInv, TypeOK, NothingTorn, LockHeld, InLock
    <3> QED BY <1>1, <2>1, <3>1
  <2> QED BY <2>1 DEF IInv, NothingTorn
<1>4. CASE Write(q)
  <2>1. pc[q] = "write" /\ tail = {} /\ UNCHANGED <<session, lock, page, job, exists>>
    BY <1>3, <1>4 DEF Write
  <2> QED BY <1>1, <1>4, <2>1, Words DEF Write, Go, Blame
<1>5. CASE WriteRest(q)
  <2>1. pc[q] = "rest" /\ tail = {Head(q)} /\ UNCHANGED <<session, lock, page, job, exists, upset>>
    BY <1>2, <1>5 DEF WriteRest
  <2> QED BY <1>1, <1>5, <2>1, Words DEF WriteRest, Go
<1> QED BY <1>4, <1>5

LEMMA WroteJob ==
  ASSUME IInv, NEW p \in Requests, Whole(p) \in lines
  PROVE  pc[p] # "idle" /\ Pair(p) \in Cases \X Raters
<1>1. Head(p) \in Whole(p)
  BY DEF Whole
<1>2. pc[p] # "idle"
  BY <1>1 DEF IInv, Wrote
<1> QED BY <1>2 DEF IInv, TypeOK, Pair

LEMMA ShowFacts ==
  ASSUME NEW s \in Sessions, NEW cases \in SUBSET Cases, Show(s, cases), TypeOK
  PROVE  /\ at' \in [Sessions -> Cases \cup {"none"}]
         /\ \A o \in Sessions : o # s => at'[o] = at[o]
<1>1. at \in [Sessions -> Cases \cup {"none"}]
  BY DEF TypeOK
<1>2. CASE cases = {}
  BY <1>1, <1>2 DEF Show
<1>3. CASE cases # {}
  <2>1. PICK c \in cases : at' = [at EXCEPT ![s] = c]
    BY <1>3 DEF Show
  <2> QED BY <1>1, <2>1
<1> QED BY <1>2, <1>3

LEMMA MishapFacts ==
  ASSUME NEW q \in Requests
  PROVE  Remains(q) \subseteq Mishaps
BY DEF Remains, Mishaps

LEMMA OnFileType ==
  ASSUME IInv
  PROVE  OnFile \subseteq Cases \X Raters
<1>1. \A p \in Requests : Whole(p) \in lines => Pair(p) \in Cases \X Raters
  BY WroteJob
<1> QED BY <1>1 DEF OnFile

(* Every step keeps the types. *)
LEMMA TypeStep ==
  ASSUME IInv, Next
  PROVE  TypeOK'
<1> USE DEF IInv, TypeOK, Blame, Remains, Show, Mishaps, Pieces, Head, Rest, Whole, Pair, OnFile, session, page, file, Go, Serving, InLock
<1>1. ASSUME NEW s \in Sessions, Start(s)
      PROVE  TypeOK'
  <2>1. UNCHANGED <<rater, lock, job, pc, unheard, passed, exists, lines, tail>>
    BY <1>1 DEF Start
  <2>2. /\ serving' \in [Sessions -> {"new", "serving", "refused", "ended"}]
        /\ queue' \in [Sessions -> SUBSET Cases]
    BY <1>1 DEF Start
  <2>5. at' \in [Sessions -> Cases \cup {"none"}]
    <3>1. at' = at \/ \E left \in SUBSET Cases : Show(s, left)
      <4> HIDE DEF Show, Loadable
      <4> QED BY <1>1 DEF Start
    <3> HIDE DEF Show
    <3> QED BY <3>1, ShowFacts DEF IInv
  <2>3. pairs' \in [Sessions -> SUBSET (Cases \X Raters)]
    <3>1. OnFile \subseteq Cases \X Raters
      BY OnFileType
    <3> HIDE DEF OnFile, Loadable, Show
    <3> QED BY <1>1, <3>1 DEF Start
  <2>4. upset' \subseteq Mishaps
    <3>1. upset' = upset \/ \E m \in SUBSET {"overlap"} : upset' = upset \cup m
      <4> HIDE DEF Loadable, Show, OnFile
      <4> QED BY <1>1 DEF Start
    <3> QED BY <3>1
  <2> QED BY <2>1, <2>2, <2>3, <2>4, <2>5
<1>2. ASSUME NEW s \in Sessions, Reload(s)
      PROVE  TypeOK'
  BY <1>2 DEF Reload
<1>3. ASSUME NEW s \in Sessions, End(s)
      PROVE  TypeOK'
  <2>1. UNCHANGED <<rater, pairs, queue, lock, at, passed, unheard, job, exists, lines, tail>>
    BY <1>3 DEF End
  <2>2. serving' \in [Sessions -> {"new", "serving", "refused", "ended"}]
    BY <1>3 DEF End
  <2>3. /\ pc' \in [Requests -> InLock \cup {"idle", "received", "saved", "acknowledged", "over"}]
        /\ \A q \in Requests : pc'[q] # "idle" => pc[q] # "idle"
    BY <1>3 DEF End
  <2>4. upset' \subseteq Mishaps
    <3>1. \A q \in Requests : Remains(q) \subseteq Mishaps
      BY MishapFacts
    <3>2. \E mine \in SUBSET Requests : upset' = upset \cup UNION {Remains(q) : q \in mine}
      BY <1>3 DEF End
    <3> HIDE DEF Remains, Mishaps
    <3> QED BY <3>1, <3>2
  <2> QED BY <2>1, <2>2, <2>3, <2>4
<1>4. ASSUME NEW s \in Sessions, NEW q \in Requests, Submit(s, q)
      PROVE  TypeOK'
  BY <1>4 DEF Submit
<1>5. ASSUME NEW q \in Requests, Invalid(q)
      PROVE  TypeOK'
  BY <1>5 DEF Invalid
<1>6. ASSUME NEW q \in Requests, Acquire(q)
      PROVE  TypeOK'
  BY <1>6 DEF Acquire
<1>7. ASSUME NEW q \in Requests, Write(q)
      PROVE  TypeOK'
  <2>1. UNCHANGED <<session, lock, page, job, exists>>
    BY <1>7 DEF Write
  <2>2. lines' \subseteq SUBSET Pieces /\ tail' \subseteq Pieces
    <3>1. Whole(q) \subseteq Pieces /\ Head(q) \in Pieces
      BY Words
    <3>2. lines' = lines \cup {tail \cup Whole(q)} \/ lines' = lines
      BY <1>7 DEF Write
    <3>3. tail' = {} \/ tail' = tail \cup {Head(q)}
      BY <1>7 DEF Write
    <3> HIDE DEF Whole, Head, Rest, Pieces
    <3> QED BY <3>1, <3>2, <3>3
  <2>3. /\ pc' \in [Requests -> InLock \cup {"idle", "received", "saved", "acknowledged", "over"}]
        /\ \A p \in Requests : pc'[p] # "idle" => pc[p] # "idle"
    BY <1>7 DEF Write
  <2>4. upset' \subseteq Mishaps
    BY <1>7 DEF Write
  <2> QED BY <2>1, <2>2, <2>3, <2>4
<1>8. ASSUME NEW q \in Requests, WriteRest(q)
      PROVE  TypeOK'
  BY <1>8 DEF WriteRest
<1>9. ASSUME NEW q \in Requests, Sync(q)
      PROVE  TypeOK'
  BY <1>9 DEF Sync
<1>10. ASSUME NEW q \in Requests, Fail(q)
      PROVE  TypeOK'
  BY <1>10 DEF Fail
<1>11. ASSUME NEW q \in Requests, Answer(q)
      PROVE  TypeOK'
  BY <1>11 DEF Answer
<1> QED
  BY <1>1, <1>2, <1>3, <1>4, <1>5, <1>6, <1>7, <1>8, <1>9, <1>10, <1>11 DEF Next

(* The store's lock is held by the request that appends. *)
LEMMA LockStep ==
  ASSUME IInv, Next
  PROVE  LockHeld'
<1> USE DEF IInv, TypeOK, LockHeld, session, page, file, Go, Serving, InLock
<1>1. ASSUME NEW s \in Sessions, Start(s)
      PROVE  LockHeld'
  BY <1>1 DEF Start
<1>2. ASSUME NEW s \in Sessions, Reload(s)
      PROVE  LockHeld'
  BY <1>2 DEF Reload
<1>3. ASSUME NEW s \in Sessions, End(s)
      PROVE  LockHeld'
  BY <1>3 DEF End
<1>4. ASSUME NEW s \in Sessions, NEW q \in Requests, Submit(s, q)
      PROVE  LockHeld'
  BY <1>4 DEF Submit
<1>5. ASSUME NEW q \in Requests, Invalid(q)
      PROVE  LockHeld'
  BY <1>5 DEF Invalid
<1>6. ASSUME NEW q \in Requests, Acquire(q)
      PROVE  LockHeld'
  BY <1>6 DEF Acquire
<1>7. ASSUME NEW q \in Requests, Write(q)
      PROVE  LockHeld'
  BY <1>7 DEF Write
<1>8. ASSUME NEW q \in Requests, WriteRest(q)
      PROVE  LockHeld'
  BY <1>8 DEF WriteRest
<1>9. ASSUME NEW q \in Requests, Sync(q)
      PROVE  LockHeld'
  BY <1>9 DEF Sync
<1>10. ASSUME NEW q \in Requests, Fail(q)
      PROVE  LockHeld'
  BY <1>10 DEF Fail
<1>11. ASSUME NEW q \in Requests, Answer(q)
      PROVE  LockHeld'
  BY <1>11 DEF Answer
<1> QED
  BY <1>1, <1>2, <1>3, <1>4, <1>5, <1>6, <1>7, <1>8, <1>9, <1>10, <1>11 DEF Next

(* A pair is looked up and saved under one lock. *)
LEMMA OnceStep ==
  ASSUME IInv, Next
  PROVE  SavedOnce'
<1> USE DEF IInv, TypeOK, LockHeld, SavedOnce, Saved, Pair, session, page, file, Go, Serving, InLock
<1>1. ASSUME NEW s \in Sessions, Start(s)
      PROVE  SavedOnce'
  BY <1>1 DEF Start
<1>2. ASSUME NEW s \in Sessions, Reload(s)
      PROVE  SavedOnce'
  BY <1>2 DEF Reload
<1>3. ASSUME NEW s \in Sessions, End(s)
      PROVE  SavedOnce'
  BY <1>3 DEF End
<1>4. ASSUME NEW s \in Sessions, NEW q \in Requests, Submit(s, q)
      PROVE  SavedOnce'
  BY <1>4 DEF Submit
<1>5. ASSUME NEW q \in Requests, Invalid(q)
      PROVE  SavedOnce'
  BY <1>5 DEF Invalid
<1>6. ASSUME NEW q \in Requests, Acquire(q)
      PROVE  SavedOnce'
  <2>1. UNCHANGED <<rater, job>> /\ pc[q] \in {"received", "sync"}
    BY <1>6 DEF Acquire
  <2>2. \A p \in Requests : pc[p] # "idle" => job[p][1] \in Sessions
    BY <1>6 DEF Acquire
  <2>3. ASSUME NEW p \in Requests, Saved(p)'
        PROVE  Pair(p)' \in pairs'[job'[p][1]]
    BY <1>6, <2>1, <2>2, <2>3 DEF Acquire
  <2>4. ASSUME NEW p \in Requests, pc'[p] \in InLock
        PROVE  Pair(p)' \notin pairs'[job'[p][1]]
    <3>1. CASE p = q
      BY <1>6, <2>1, <2>2, <2>4, <3>1 DEF Acquire
    <3>2. CASE p # q
      <4>1. pc[p] \in InLock /\ (pc[q] \in InLock => job[p][1] # job[q][1])
        BY <1>6, <2>4, <3>2 DEF Acquire
      <4>2. pairs'[job[p][1]] = pairs[job[p][1]]
        BY <1>6, <2>1, <2>2, <4>1 DEF Acquire
      <4> QED BY <2>1, <4>1, <4>2
    <3> QED BY <3>1, <3>2
  <2>5. ASSUME NEW p \in Requests, NEW o \in Requests, Saved(p)', Saved(o)', job'[p] = job'[o]
        PROVE  p = o
    <3>1. CASE Saved(p) /\ Saved(o)
      BY <2>1, <2>5, <3>1
    <3>2. \A r \in Requests : Saved(r)' => Saved(r) \/ r = q
      BY <1>6, <2>1 DEF Acquire
    <3>3. Pair(q) \notin pairs[job[q][1]] \/ pc'[q] \in InLock \cup {"over"}
      BY <1>6, <2>1 DEF Acquire
    <3>4. \A r \in Requests : Saved(r) /\ job[r] = job[q] => Pair(q) \in pairs[job[q][1]]
      BY <2>1
    <3> QED BY <2>1, <2>5, <3>1, <3>2, <3>3, <3>4
  <2> QED BY <2>3, <2>4, <2>5
<1>7. ASSUME NEW q \in Requests, Write(q)
      PROVE  SavedOnce'
  BY <1>7 DEF Write
<1>8. ASSUME NEW q \in Requests, WriteRest(q)
      PROVE  SavedOnce'
  BY <1>8 DEF WriteRest
<1>9. ASSUME NEW q \in Requests, Sync(q)
      PROVE  SavedOnce'
  <2>1. UNCHANGED <<rater, job>> /\ pc[q] \in {"received", "sync"}
    BY <1>9 DEF Sync
  <2>2. \A p \in Requests : pc[p] # "idle" => job[p][1] \in Sessions
    BY <1>9 DEF Sync
  <2>3. ASSUME NEW p \in Requests, Saved(p)'
        PROVE  Pair(p)' \in pairs'[job'[p][1]]
    BY <1>9, <2>1, <2>2, <2>3 DEF Sync
  <2>4. ASSUME NEW p \in Requests, pc'[p] \in InLock
        PROVE  Pair(p)' \notin pairs'[job'[p][1]]
    <3>1. CASE p = q
      BY <1>9, <2>1, <2>2, <2>4, <3>1 DEF Sync
    <3>2. CASE p # q
      <4>1. pc[p] \in InLock /\ (pc[q] \in InLock => job[p][1] # job[q][1])
        BY <1>9, <2>4, <3>2 DEF Sync
      <4>2. pairs'[job[p][1]] = pairs[job[p][1]]
        BY <1>9, <2>1, <2>2, <4>1 DEF Sync
      <4> QED BY <2>1, <4>1, <4>2
    <3> QED BY <3>1, <3>2
  <2>5. ASSUME NEW p \in Requests, NEW o \in Requests, Saved(p)', Saved(o)', job'[p] = job'[o]
        PROVE  p = o
    <3>1. CASE Saved(p) /\ Saved(o)
      BY <2>1, <2>5, <3>1
    <3>2. \A r \in Requests : Saved(r)' => Saved(r) \/ r = q
      BY <1>9, <2>1 DEF Sync
    <3>3. Pair(q) \notin pairs[job[q][1]] \/ pc'[q] \in InLock \cup {"over"}
      BY <1>9, <2>1 DEF Sync
    <3>4. \A r \in Requests : Saved(r) /\ job[r] = job[q] => Pair(q) \in pairs[job[q][1]]
      BY <2>1
    <3> QED BY <2>1, <2>5, <3>1, <3>2, <3>3, <3>4
  <2> QED BY <2>3, <2>4, <2>5
<1>10. ASSUME NEW q \in Requests, Fail(q)
      PROVE  SavedOnce'
  BY <1>10 DEF Fail
<1>11. ASSUME NEW q \in Requests, Answer(q)
      PROVE  SavedOnce'
  BY <1>11 DEF Answer
<1> QED
  BY <1>1, <1>2, <1>3, <1>4, <1>5, <1>6, <1>7, <1>8, <1>9, <1>10, <1>11 DEF Next

(* The page waits for no case but the one it shows. *)
LEMMA PageStep ==
  ASSUME IInv, Next
  PROVE  PageOK'
<1> USE DEF IInv, TypeOK, LockHeld, PageOK, Flying, Show, session, page, file, Go, Serving, InLock
<1>1. ASSUME NEW s \in Sessions, Start(s)
      PROVE  PageOK'
  <2>1. \A q \in Requests : Flying(q) => job[q][1] # s
    BY <1>1 DEF Start
  <2>2. \A o \in Sessions : o # s => at'[o] = at[o]
    <3>1. at' = at \/ \E left \in SUBSET Cases : Show(s, left)
      <4> HIDE DEF Show, Loadable
      <4> QED BY <1>1 DEF Start
    <3> HIDE DEF Show
    <3> QED BY <3>1, ShowFacts DEF IInv
  <2>3. UNCHANGED <<pc, passed, unheard, job>> /\ \A o \in Sessions : serving'[o] = "new" => serving[o] = "new"
    BY <1>1 DEF Start
  <2>4. \A q \in Requests : Flying(q) => job[q][1] \in Sessions
    OBVIOUS
  <2> HIDE DEF Show
  <2> QED BY <2>1, <2>2, <2>3, <2>4
<1>2. ASSUME NEW s \in Sessions, Reload(s)
      PROVE  PageOK'
  BY <1>2 DEF Reload
<1>3. ASSUME NEW s \in Sessions, End(s)
      PROVE  PageOK'
  BY <1>3 DEF End
<1>4. ASSUME NEW s \in Sessions, NEW q \in Requests, Submit(s, q)
      PROVE  PageOK'
  BY <1>4 DEF Submit
<1>5. ASSUME NEW q \in Requests, Invalid(q)
      PROVE  PageOK'
  BY <1>5 DEF Invalid
<1>6. ASSUME NEW q \in Requests, Acquire(q)
      PROVE  PageOK'
  BY <1>6 DEF Acquire
<1>7. ASSUME NEW q \in Requests, Write(q)
      PROVE  PageOK'
  BY <1>7 DEF Write
<1>8. ASSUME NEW q \in Requests, WriteRest(q)
      PROVE  PageOK'
  BY <1>8 DEF WriteRest
<1>9. ASSUME NEW q \in Requests, Sync(q)
      PROVE  PageOK'
  BY <1>9 DEF Sync
<1>10. ASSUME NEW q \in Requests, Fail(q)
      PROVE  PageOK'
  BY <1>10 DEF Fail
<1>11. ASSUME NEW q \in Requests, Answer(q)
      PROVE  PageOK'
  BY <1>11 DEF Answer
<1> QED
  BY <1>1, <1>2, <1>3, <1>4, <1>5, <1>6, <1>7, <1>8, <1>9, <1>10, <1>11 DEF Next

(* The page goes past a case only when it was saved. *)
LEMMA SkipStep ==
  ASSUME IInv, Next
  PROVE  PageSkipsNothing'
<1> USE DEF IInv, TypeOK, SavedOnce, PageOK, PageSkipsNothing, Flying, Saved, session, page, file, Go, Serving, InLock
<1>1. ASSUME NEW s \in Sessions, Start(s)
      PROVE  PageSkipsNothing'
  BY <1>1 DEF Start
<1>2. ASSUME NEW s \in Sessions, Reload(s)
      PROVE  PageSkipsNothing'
  BY <1>2 DEF Reload
<1>3. ASSUME NEW s \in Sessions, End(s)
      PROVE  PageSkipsNothing'
  BY <1>3 DEF End
<1>4. ASSUME NEW s \in Sessions, NEW q \in Requests, Submit(s, q)
      PROVE  PageSkipsNothing'
  BY <1>4 DEF Submit
<1>5. ASSUME NEW q \in Requests, Invalid(q)
      PROVE  PageSkipsNothing'
  BY <1>5 DEF Invalid
<1>6. ASSUME NEW q \in Requests, Acquire(q)
      PROVE  PageSkipsNothing'
  BY <1>6 DEF Acquire
<1>7. ASSUME NEW q \in Requests, Write(q)
      PROVE  PageSkipsNothing'
  BY <1>7 DEF Write
<1>8. ASSUME NEW q \in Requests, WriteRest(q)
      PROVE  PageSkipsNothing'
  BY <1>8 DEF WriteRest
<1>9. ASSUME NEW q \in Requests, Sync(q)
      PROVE  PageSkipsNothing'
  BY <1>9 DEF Sync
<1>10. ASSUME NEW q \in Requests, Fail(q)
      PROVE  PageSkipsNothing'
  BY <1>10 DEF Fail
<1>11. ASSUME NEW q \in Requests, Answer(q)
      PROVE  PageSkipsNothing'
  <2>1. /\ pc[q] = "saved" /\ UNCHANGED job /\ job[q] \in Sessions \X Cases
        /\ pc' = [pc EXCEPT ![q] = "acknowledged"]
    BY <1>11 DEF Answer
  <2> DEFINE s == job[q][1]
             c == job[q][2]
  <2>2. s \in Sessions /\ c \in Cases /\ job[q] = <<s, c>>
    BY <2>1
  <2>3. c \notin passed[s]
    <3>1. ASSUME c \in passed[s]
          PROVE  FALSE
      <4>1. PICK p \in Requests : job[p] = <<s, c>> /\ pc[p] = "acknowledged"
        BY <2>2, <3>1
      <4>2. p = q
        BY <2>1, <2>2, <4>1
      <4> QED BY <2>1, <4>1, <4>2
    <3> QED BY <3>1
  <2>4. ASSUME NEW o \in Sessions, NEW d \in passed[o]
        PROVE  \E p \in Requests : job'[p] = <<o, d>> /\ pc'[p] = "acknowledged"
    <3>1. PICK p \in Requests : job[p] = <<o, d>> /\ pc[p] = "acknowledged"
      BY <2>4
    <3> QED BY <2>1, <3>1
  <2>6. passed' = passed \/ (q \notin unheard /\ passed' = [passed EXCEPT ![s] = passed[s] \cup {at[s]}])
    BY <1>11 DEF Answer
  <2>7. passed \in [Sessions -> SUBSET Cases]
    OBVIOUS
  <2>8. pc'[q] = "acknowledged"
    BY <2>1
  <2>9. q \notin unheard => at[s] = c
    BY <2>1, <2>3
  <2> HIDE DEF IInv, TypeOK, SavedOnce, PageOK, s, c
  <2>5. CASE passed' = passed
    BY <2>4, <2>5
  <2>10. CASE q \notin unheard /\ passed' = [passed EXCEPT ![s] = passed[s] \cup {at[s]}]
    <3>1. at[s] = c
      BY <2>9, <2>10
    <3>2. ASSUME NEW o \in Sessions, NEW d \in passed'[o]
          PROVE  d \in passed[o] \/ (o = s /\ d = c)
      BY <2>2, <2>7, <2>10, <3>1, <3>2
    <3>3. job'[q] = <<s, c>> /\ pc'[q] = "acknowledged"
      BY <2>1, <2>2, <2>8
    <3> QED BY <2>4, <3>2, <3>3
  <2> QED BY <2>5, <2>6, <2>10
<1> QED
  BY <1>1, <1>2, <1>3, <1>4, <1>5, <1>6, <1>7, <1>8, <1>9, <1>10, <1>11 DEF Next

(* Only an append puts pieces into the file. *)
LEMMA WroteStep ==
  ASSUME IInv, Next
  PROVE  Wrote'
<1> USE DEF IInv, TypeOK, Wrote, Head, Rest, Whole, session, page, file, Go, Serving, InLock
<1>1. ASSUME NEW s \in Sessions, Start(s)
      PROVE  Wrote'
  BY <1>1 DEF Start
<1>2. ASSUME NEW s \in Sessions, Reload(s)
      PROVE  Wrote'
  BY <1>2 DEF Reload
<1>3. ASSUME NEW s \in Sessions, End(s)
      PROVE  Wrote'
  BY <1>3 DEF End
<1>4. ASSUME NEW s \in Sessions, NEW q \in Requests, Submit(s, q)
      PROVE  Wrote'
  BY <1>4 DEF Submit
<1>5. ASSUME NEW q \in Requests, Invalid(q)
      PROVE  Wrote'
  BY <1>5 DEF Invalid
<1>6. ASSUME NEW q \in Requests, Acquire(q)
      PROVE  Wrote'
  BY <1>6 DEF Acquire
<1>7. ASSUME NEW q \in Requests, Write(q)
      PROVE  Wrote'
  BY <1>7 DEF Write
<1>8. ASSUME NEW q \in Requests, WriteRest(q)
      PROVE  Wrote'
  BY <1>8 DEF WriteRest
<1>9. ASSUME NEW q \in Requests, Sync(q)
      PROVE  Wrote'
  BY <1>9 DEF Sync
<1>10. ASSUME NEW q \in Requests, Fail(q)
      PROVE  Wrote'
  BY <1>10 DEF Fail
<1>11. ASSUME NEW q \in Requests, Answer(q)
      PROVE  Wrote'
  BY <1>11 DEF Answer
<1> QED
  BY <1>1, <1>2, <1>3, <1>4, <1>5, <1>6, <1>7, <1>8, <1>9, <1>10, <1>11 DEF Next

(* A torn append is remembered. *)
LEMMA TornStep ==
  ASSUME IInv, Next
  PROVE  NothingTorn'
<1> USE DEF IInv, TypeOK, LockHeld, NothingTorn, Blame, Remains, Loadable, Head, Rest, session, page, file, Go, Serving, InLock
<1>1. ASSUME NEW s \in Sessions, Start(s)
      PROVE  NothingTorn'
  <2>1. UNCHANGED <<pc, job, lines, tail, exists>> /\ upset \subseteq upset'
    BY <1>1 DEF Start
  <2>2. CASE "torn" \in upset
    BY <2>1, <2>2
  <2>3. CASE "torn" \notin upset /\ Loadable
    <3>1. tail = {}
      BY <2>3
    <3>2. \A q \in Requests : pc[q] # "rest"
      BY <2>3, <3>1
    <3> QED BY <2>1, <3>1, <3>2
  <2>4. CASE "torn" \notin upset /\ ~Loadable
    <3>1. \A o \in Sessions : serving'[o] = "serving" => serving[o] = "serving"
      BY <1>1, <2>4 DEF Start
    <3> QED BY <2>1, <2>4, <3>1
  <2> QED BY <2>2, <2>3, <2>4
<1>2. ASSUME NEW s \in Sessions, Reload(s)
      PROVE  NothingTorn'
  BY <1>2 DEF Reload
<1>3. ASSUME NEW s \in Sessions, End(s)
      PROVE  NothingTorn'
  BY <1>3 DEF End
<1>4. ASSUME NEW s \in Sessions, NEW q \in Requests, Submit(s, q)
      PROVE  NothingTorn'
  BY <1>4 DEF Submit
<1>5. ASSUME NEW q \in Requests, Invalid(q)
      PROVE  NothingTorn'
  BY <1>5 DEF Invalid
<1>6. ASSUME NEW q \in Requests, Acquire(q)
      PROVE  NothingTorn'
  BY <1>6 DEF Acquire
<1>7. ASSUME NEW q \in Requests, Write(q)
      PROVE  NothingTorn'
  <2>1. CASE "torn" \in upset \/ "torn" \in upset'
    BY <1>7, <2>1 DEF Write
  <2>2. CASE "torn" \notin upset /\ "torn" \notin upset'
    <3>1. /\ pc[q] \in {"write", "rest"} /\ UNCHANGED <<job, exists, serving>>
          /\ job[q] \in Sessions \X Cases /\ Serving(job[q][1]) /\ lock[job[q][1]] = q
          /\ \/ tail' = {} /\ pc' = [pc EXCEPT ![q] = "sync"]
             \/ tail' = {Head(q)} /\ pc' = [pc EXCEPT ![q] = "rest"]
      BY <1>7, <2>2, WriteShape
    <3>2. \A p \in Requests : p # q => pc[p] # "rest"
      <4>1. ASSUME NEW p \in Requests, pc[p] = "rest"
            PROVE  p = q
        <5>1. job[p][1] = job[q][1]
          BY <2>2, <3>1, <4>1
        <5> QED BY <3>1, <4>1, <5>1
      <4> QED BY <4>1
    <3>3. pc'[q] = "rest" => \A s \in Sessions : Serving(s) => s = job[q][1]
      BY <1>7, <2>2 DEF Write
    <3>4. exists = "yes"
      BY <3>1
    <3> QED BY <3>1, <3>2, <3>3, <3>4
  <2> QED BY <2>1, <2>2
<1>8. ASSUME NEW q \in Requests, WriteRest(q)
      PROVE  NothingTorn'
  BY <1>8 DEF WriteRest
<1>9. ASSUME NEW q \in Requests, Sync(q)
      PROVE  NothingTorn'
  BY <1>9 DEF Sync
<1>10. ASSUME NEW q \in Requests, Fail(q)
      PROVE  NothingTorn'
  BY <1>10 DEF Fail
<1>11. ASSUME NEW q \in Requests, Answer(q)
      PROVE  NothingTorn'
  BY <1>11 DEF Answer
<1> QED
  BY <1>1, <1>2, <1>3, <1>4, <1>5, <1>6, <1>7, <1>8, <1>9, <1>10, <1>11 DEF Next

(* What is written stays a record of its own. *)
LEMMA KeptStep ==
  ASSUME IInv, Next
  PROVE  AcknowledgedIsKept'
<1> USE DEF IInv, TypeOK, LockHeld, NothingTorn, AcknowledgedIsKept, Saved, Blame, Whole, Head, Rest, session, page, file, Go, Serving, InLock
<1>1. ASSUME NEW s \in Sessions, Start(s)
      PROVE  AcknowledgedIsKept'
  BY <1>1 DEF Start
<1>2. ASSUME NEW s \in Sessions, Reload(s)
      PROVE  AcknowledgedIsKept'
  BY <1>2 DEF Reload
<1>3. ASSUME NEW s \in Sessions, End(s)
      PROVE  AcknowledgedIsKept'
  BY <1>3 DEF End
<1>4. ASSUME NEW s \in Sessions, NEW q \in Requests, Submit(s, q)
      PROVE  AcknowledgedIsKept'
  BY <1>4 DEF Submit
<1>5. ASSUME NEW q \in Requests, Invalid(q)
      PROVE  AcknowledgedIsKept'
  BY <1>5 DEF Invalid
<1>6. ASSUME NEW q \in Requests, Acquire(q)
      PROVE  AcknowledgedIsKept'
  BY <1>6 DEF Acquire
<1>7. ASSUME NEW q \in Requests, Write(q)
      PROVE  AcknowledgedIsKept'
  BY <1>7 DEF Write
<1>8. ASSUME NEW q \in Requests, WriteRest(q)
      PROVE  AcknowledgedIsKept'
  BY <1>8 DEF WriteRest
<1>9. ASSUME NEW q \in Requests, Sync(q)
      PROVE  AcknowledgedIsKept'
  BY <1>9 DEF Sync
<1>10. ASSUME NEW q \in Requests, Fail(q)
      PROVE  AcknowledgedIsKept'
  BY <1>10 DEF Fail
<1>11. ASSUME NEW q \in Requests, Answer(q)
      PROVE  AcknowledgedIsKept'
  BY <1>11 DEF Answer
<1> QED
  BY <1>1, <1>2, <1>3, <1>4, <1>5, <1>6, <1>7, <1>8, <1>9, <1>10, <1>11 DEF Next

(* Only whole records enter the file. *)
LEMMA RecordsStep ==
  ASSUME IInv, Next
  PROVE  RecordsOnly'
<1> USE DEF IInv, TypeOK, LockHeld, Blame, Remains, session, page, file, Go, Serving, InLock, RecordsOnly
<1>1. ASSUME NEW s \in Sessions, Start(s)
      PROVE  RecordsOnly'
  BY <1>1 DEF Start
<1>2. ASSUME NEW s \in Sessions, Reload(s)
      PROVE  RecordsOnly'
  BY <1>2 DEF Reload
<1>3. ASSUME NEW s \in Sessions, End(s)
      PROVE  RecordsOnly'
  BY <1>3 DEF End
<1>4. ASSUME NEW s \in Sessions, NEW q \in Requests, Submit(s, q)
      PROVE  RecordsOnly'
  BY <1>4 DEF Submit
<1>5. ASSUME NEW q \in Requests, Invalid(q)
      PROVE  RecordsOnly'
  BY <1>5 DEF Invalid
<1>6. ASSUME NEW q \in Requests, Acquire(q)
      PROVE  RecordsOnly'
  BY <1>6 DEF Acquire
<1>7. ASSUME NEW q \in Requests, Write(q)
      PROVE  RecordsOnly'
  <2>1. CASE upset' = {}
    <3>1. "torn" \notin upset /\ upset = {}
      BY <1>7, <2>1 DEF Write, WriteRest
    <3>2. Write(q) \/ WriteRest(q)
      BY <1>7
    <3> QED BY <2>1, <3>1, <3>2, WriteShape, Words
  <2>2. CASE upset' # {}
    BY <2>2
  <2> QED BY <2>1, <2>2
<1>8. ASSUME NEW q \in Requests, WriteRest(q)
      PROVE  RecordsOnly'
  <2>1. CASE upset' = {}
    <3>1. "torn" \notin upset /\ upset = {}
      BY <1>8, <2>1 DEF Write, WriteRest
    <3>2. Write(q) \/ WriteRest(q)
      BY <1>8
    <3> QED BY <2>1, <3>1, <3>2, WriteShape, Words
  <2>2. CASE upset' # {}
    BY <2>2
  <2> QED BY <2>1, <2>2
<1>9. ASSUME NEW q \in Requests, Sync(q)
      PROVE  RecordsOnly'
  BY <1>9 DEF Sync
<1>10. ASSUME NEW q \in Requests, Fail(q)
      PROVE  RecordsOnly'
  BY <1>10 DEF Fail
<1>11. ASSUME NEW q \in Requests, Answer(q)
      PROVE  RecordsOnly'
  BY <1>11 DEF Answer
<1> QED
  BY <1>1, <1>2, <1>3, <1>4, <1>5, <1>6, <1>7, <1>8, <1>9, <1>10, <1>11 DEF Next

(* The sessions of a rater know of what is on file. *)
LEMMA KnownStep ==
  ASSUME IInv, Next
  PROVE  Known'
<1> USE DEF IInv, TypeOK, LockHeld, Blame, Remains, session, page, file, Go, Serving, InLock, Known, RecordsOnly, OnFile, Pair
<1>1. ASSUME NEW s \in Sessions, Start(s)
      PROVE  Known'
  <2>1. UNCHANGED <<rater, pc, job, lines>> /\ (upset' = {} => upset = {})
    BY <1>1 DEF Start
  <2>2. CASE upset' # {}
    BY <2>2
  <2>3. CASE upset' = {} /\ Loadable
    <3>1. /\ serving' = [serving EXCEPT ![s] = "serving"] /\ pairs' = [pairs EXCEPT ![s] = OnFile]
          /\ \A o \in Sessions : Serving(o) => rater[o] # rater[s]
      BY <1>1, <2>3 DEF Start
    <3>2. \A q \in Requests : Whole(q) \in lines => Pair(q) \in OnFile
      OBVIOUS
    <3> HIDE DEF OnFile, Loadable
    <3> QED BY <2>1, <2>3, <3>1, <3>2
  <2>4. CASE ~Loadable
    <3>1. serving' = [serving EXCEPT ![s] = "refused"] /\ pairs' = pairs
      BY <1>1, <2>4 DEF Start
    <3> HIDE DEF OnFile, Loadable
    <3> QED BY <2>1, <3>1
  <2> QED BY <2>2, <2>3, <2>4
<1>2. ASSUME NEW s \in Sessions, Reload(s)
      PROVE  Known'
  BY <1>2 DEF Reload
<1>3. ASSUME NEW s \in Sessions, End(s)
      PROVE  Known'
  BY <1>3 DEF End
<1>4. ASSUME NEW s \in Sessions, NEW q \in Requests, Submit(s, q)
      PROVE  Known'
  BY <1>4 DEF Submit
<1>5. ASSUME NEW q \in Requests, Invalid(q)
      PROVE  Known'
  BY <1>5 DEF Invalid
<1>6. ASSUME NEW q \in Requests, Acquire(q)
      PROVE  Known'
  BY <1>6 DEF Acquire
<1>7. ASSUME NEW q \in Requests, Write(q)
      PROVE  Known'
  <2>1. CASE upset' = {}
    <3>1. "torn" \notin upset /\ upset = {}
      BY <1>7, <2>1 DEF Write, WriteRest
    <3>2. Write(q) \/ WriteRest(q)
      BY <1>7
    <3> QED BY <2>1, <3>1, <3>2, WriteShape, Words
  <2>2. CASE upset' # {}
    BY <2>2
  <2> QED BY <2>1, <2>2
<1>8. ASSUME NEW q \in Requests, WriteRest(q)
      PROVE  Known'
  <2>1. CASE upset' = {}
    <3>1. "torn" \notin upset /\ upset = {}
      BY <1>8, <2>1 DEF Write, WriteRest
    <3>2. Write(q) \/ WriteRest(q)
      BY <1>8
    <3> QED BY <2>1, <3>1, <3>2, WriteShape, Words
  <2>2. CASE upset' # {}
    BY <2>2
  <2> QED BY <2>1, <2>2
<1>9. ASSUME NEW q \in Requests, Sync(q)
      PROVE  Known'
  BY <1>9 DEF Sync
<1>10. ASSUME NEW q \in Requests, Fail(q)
      PROVE  Known'
  <2>1. UNCHANGED <<rater, serving, pairs, job, lines>> /\ pc' = [pc EXCEPT ![q] = "over"]
    BY <1>10 DEF Fail
  <2>2. upset' = {} => upset = {} /\ pc[q] # "sync"
    BY <1>10 DEF Fail
  <2> QED BY <2>1, <2>2
<1>11. ASSUME NEW q \in Requests, Answer(q)
      PROVE  Known'
  BY <1>11 DEF Answer
<1> QED
  BY <1>1, <1>2, <1>3, <1>4, <1>5, <1>6, <1>7, <1>8, <1>9, <1>10, <1>11 DEF Next

(* A second record of a pair is not written. *)
LEMMA OneStep ==
  ASSUME IInv, Next
  PROVE  OnePerPair'
<1> USE DEF IInv, TypeOK, LockHeld, Blame, Remains, session, page, file, Go, Serving, InLock, SavedOnce, Known, OnePerPair, RecordsOnly, Pair
<1>1. ASSUME NEW s \in Sessions, Start(s)
      PROVE  OnePerPair'
  BY <1>1 DEF Start
<1>2. ASSUME NEW s \in Sessions, Reload(s)
      PROVE  OnePerPair'
  BY <1>2 DEF Reload
<1>3. ASSUME NEW s \in Sessions, End(s)
      PROVE  OnePerPair'
  BY <1>3 DEF End
<1>4. ASSUME NEW s \in Sessions, NEW q \in Requests, Submit(s, q)
      PROVE  OnePerPair'
  BY <1>4 DEF Submit
<1>5. ASSUME NEW q \in Requests, Invalid(q)
      PROVE  OnePerPair'
  BY <1>5 DEF Invalid
<1>6. ASSUME NEW q \in Requests, Acquire(q)
      PROVE  OnePerPair'
  BY <1>6 DEF Acquire
<1>7. ASSUME NEW q \in Requests, Write(q)
      PROVE  OnePerPair'
  <2>1. CASE upset' = {}
    <3>1. "torn" \notin upset /\ upset = {}
      BY <1>7, <2>1 DEF Write
    <3>2. /\ pc[q] \in {"write", "rest"} /\ UNCHANGED <<rater, job>>
          /\ job[q] \in Sessions \X Cases /\ Serving(job[q][1]) /\ lock[job[q][1]] = q
          /\ lines' = lines \cup {Whole(q)} \/ lines' = lines
      BY <1>7, <3>1, WriteShape
    <3>3. ASSUME NEW p \in Requests, Whole(p) \in lines, Pair(p) = Pair(q), p # q
          PROVE  FALSE
      <4>1. pc[p] # "idle" /\ job[p] \in Sessions \X Cases
        BY <3>3, WroteJob
      <4>2. rater[job[p][1]] = rater[job[q][1]]
        BY <3>3
      <4>3. Pair(q) \in pairs[job[q][1]] \/ (job[p][1] = job[q][1] /\ pc[p] = "sync")
        BY <3>1, <3>2, <3>3, <4>2
      <4>4. Pair(q) \notin pairs[job[q][1]]
        BY <3>2
      <4> QED BY <3>2, <3>3, <4>3, <4>4
    <3>4. \A p \in Requests : Whole(p) = Whole(q) => p = q
      BY Words
    <3>5. \A p, o \in Requests : Whole(p) \in lines /\ Whole(o) \in lines /\ Pair(p) = Pair(o) => p = o
      BY <3>1
    <3> QED BY <3>2, <3>3, <3>4, <3>5
  <2>2. CASE upset' # {}
    BY <2>2
  <2> QED BY <2>1, <2>2
<1>8. ASSUME NEW q \in Requests, WriteRest(q)
      PROVE  OnePerPair'
  <2>1. CASE upset' = {}
    <3>1. "torn" \notin upset /\ upset = {}
      BY <1>8, <2>1 DEF WriteRest
    <3>2. /\ pc[q] \in {"write", "rest"} /\ UNCHANGED <<rater, job>>
          /\ job[q] \in Sessions \X Cases /\ Serving(job[q][1]) /\ lock[job[q][1]] = q
          /\ lines' = lines \cup {Whole(q)} \/ lines' = lines
      BY <1>8, <3>1, WriteShape
    <3>3. ASSUME NEW p \in Requests, Whole(p) \in lines, Pair(p) = Pair(q), p # q
          PROVE  FALSE
      <4>1. pc[p] # "idle" /\ job[p] \in Sessions \X Cases
        BY <3>3, WroteJob
      <4>2. rater[job[p][1]] = rater[job[q][1]]
        BY <3>3
      <4>3. Pair(q) \in pairs[job[q][1]] \/ (job[p][1] = job[q][1] /\ pc[p] = "sync")
        BY <3>1, <3>2, <3>3, <4>2
      <4>4. Pair(q) \notin pairs[job[q][1]]
        BY <3>2
      <4> QED BY <3>2, <3>3, <4>3, <4>4
    <3>4. \A p \in Requests : Whole(p) = Whole(q) => p = q
      BY Words
    <3>5. \A p, o \in Requests : Whole(p) \in lines /\ Whole(o) \in lines /\ Pair(p) = Pair(o) => p = o
      BY <3>1
    <3> QED BY <3>2, <3>3, <3>4, <3>5
  <2>2. CASE upset' # {}
    BY <2>2
  <2> QED BY <2>1, <2>2
<1>9. ASSUME NEW q \in Requests, Sync(q)
      PROVE  OnePerPair'
  BY <1>9 DEF Sync
<1>10. ASSUME NEW q \in Requests, Fail(q)
      PROVE  OnePerPair'
  BY <1>10 DEF Fail
<1>11. ASSUME NEW q \in Requests, Answer(q)
      PROVE  OnePerPair'
  BY <1>11 DEF Answer
<1> QED
  BY <1>1, <1>2, <1>3, <1>4, <1>5, <1>6, <1>7, <1>8, <1>9, <1>10, <1>11 DEF Next

(* A file that was made gets its record. *)
LEMMA EmptyStep ==
  ASSUME IInv, Next
  PROVE  NeverEmpty'
<1> USE DEF IInv, TypeOK, LockHeld, Blame, Remains, session, page, file, Go, Serving, InLock, NeverEmpty, RecordsOnly, Loadable
<1>1. ASSUME NEW s \in Sessions, Start(s)
      PROVE  NeverEmpty'
  BY <1>1 DEF Start
<1>2. ASSUME NEW s \in Sessions, Reload(s)
      PROVE  NeverEmpty'
  BY <1>2 DEF Reload
<1>3. ASSUME NEW s \in Sessions, End(s)
      PROVE  NeverEmpty'
  <2>1. UNCHANGED <<exists, lines>> /\ (upset' = {} => upset = {})
    BY <1>3 DEF End
  <2>2. CASE upset' = {} /\ exists = "yes" /\ lines = {}
    <3>1. PICK q \in Requests : pc[q] \in {"write", "rest"}
      BY <2>1, <2>2
    <3>2. job[q][1] # s
      <4>1. ASSUME job[q][1] = s
            PROVE  FALSE
        <5>1. Remains(q) # {} /\ pc[q] \in InLock
          BY <2>2, <3>1
        <5>2. Remains(q) \subseteq upset'
          BY <1>3, <4>1, <5>1 DEF End
        <5> QED BY <2>2, <5>1, <5>2
      <4> QED BY <4>1
    <3>3. pc'[q] = pc[q]
      BY <1>3, <3>2 DEF End
    <3> QED BY <3>1, <3>3
  <2>3. CASE ~(upset' = {} /\ exists = "yes" /\ lines = {})
    BY <2>1, <2>3
  <2> QED BY <2>2, <2>3
<1>4. ASSUME NEW s \in Sessions, NEW q \in Requests, Submit(s, q)
      PROVE  NeverEmpty'
  BY <1>4 DEF Submit
<1>5. ASSUME NEW q \in Requests, Invalid(q)
      PROVE  NeverEmpty'
  BY <1>5 DEF Invalid
<1>6. ASSUME NEW q \in Requests, Acquire(q)
      PROVE  NeverEmpty'
  BY <1>6 DEF Acquire
<1>7. ASSUME NEW q \in Requests, Write(q)
      PROVE  NeverEmpty'
  <2>1. CASE upset' = {}
    <3>1. "torn" \notin upset /\ upset = {}
      BY <1>7, <2>1 DEF Write, WriteRest
    <3>2. Write(q) \/ WriteRest(q)
      BY <1>7
    <3> QED BY <2>1, <3>1, <3>2, WriteShape, Words
  <2>2. CASE upset' # {}
    BY <2>2
  <2> QED BY <2>1, <2>2
<1>8. ASSUME NEW q \in Requests, WriteRest(q)
      PROVE  NeverEmpty'
  <2>1. CASE upset' = {}
    <3>1. "torn" \notin upset /\ upset = {}
      BY <1>8, <2>1 DEF Write, WriteRest
    <3>2. Write(q) \/ WriteRest(q)
      BY <1>8
    <3> QED BY <2>1, <3>1, <3>2, WriteShape, Words
  <2>2. CASE upset' # {}
    BY <2>2
  <2> QED BY <2>1, <2>2
<1>9. ASSUME NEW q \in Requests, Sync(q)
      PROVE  NeverEmpty'
  BY <1>9 DEF Sync
<1>10. ASSUME NEW q \in Requests, Fail(q)
      PROVE  NeverEmpty'
  BY <1>10 DEF Fail
<1>11. ASSUME NEW q \in Requests, Answer(q)
      PROVE  NeverEmpty'
  BY <1>11 DEF Answer
<1> QED
  BY <1>1, <1>2, <1>3, <1>4, <1>5, <1>6, <1>7, <1>8, <1>9, <1>10, <1>11 DEF Next

LEMMA InvariantInit ==
  ASSUME Init
  PROVE  IInv
<1> USE DEF Init, Serving, InLock
<1>1. TypeOK
  BY DEF TypeOK
<1>2. LockHeld /\ SavedOnce /\ PageOK /\ PageSkipsNothing
  BY DEF LockHeld, SavedOnce, PageOK, PageSkipsNothing, Saved, Flying
<1>3. Wrote /\ NothingTorn /\ AcknowledgedIsKept
  BY DEF Wrote, NothingTorn, AcknowledgedIsKept, Saved
<1>4. RecordsOnly /\ Known /\ OnePerPair /\ NeverEmpty
  BY DEF RecordsOnly, Known, OnePerPair, NeverEmpty
<1> QED BY <1>1, <1>2, <1>3, <1>4 DEF IInv

LEMMA InvariantStep ==
  ASSUME IInv, [Next]_vars
  PROVE  IInv'
<1>1. CASE Next
  BY <1>1, TypeStep, LockStep, OnceStep, PageStep, SkipStep, WroteStep, TornStep, KeptStep,
     RecordsStep, KnownStep, OneStep, EmptyStep DEF IInv
<1>2. CASE UNCHANGED vars
  <2> USE <1>2 DEF vars, session, page, file, Serving, Saved, Flying, Pair
  <2>1. TypeOK' /\ LockHeld' /\ SavedOnce' /\ PageOK' /\ PageSkipsNothing'
    BY DEF IInv, TypeOK, LockHeld, SavedOnce, PageOK, PageSkipsNothing
  <2>2. Wrote' /\ NothingTorn' /\ AcknowledgedIsKept'
    BY DEF IInv, Wrote, NothingTorn, AcknowledgedIsKept
  <2>3. RecordsOnly' /\ Known' /\ OnePerPair' /\ NeverEmpty'
    BY DEF IInv, RecordsOnly, Known, OnePerPair, NeverEmpty
  <2> QED BY <2>1, <2>2, <2>3 DEF IInv
<1> QED BY <1>1, <1>2

(* The invariant of the workbench: locks, pages, stores and the file stay
   in step through double clicks, lost answers, short writes, failing calls
   and interrupted sessions.                                               *)
THEOREM WorkbenchInductive == Spec => []IInv
<1>1. Init => IInv
  BY InvariantInit
<1>2. IInv /\ [Next]_vars => IInv'
  BY InvariantStep
<1> QED BY <1>1, <1>2, PTL DEF Spec

(* save() advances the page on any 201, whichever case it shows by then; it
   still never goes past a case that was not saved, for append looks a pair
   up and remembers it under one lock.                                     *)
THEOREM WorkbenchPageSkipsNothing == Spec => []PageSkipsNothing
<1>1. IInv => PageSkipsNothing
  BY DEF IInv
<1> QED BY <1>1, WorkbenchInductive, PTL

(* An annotation answered 201 is a whole record of the file from then on,
   unless an append was torn.                                              *)
THEOREM WorkbenchAcknowledgedIsKept == Spec => []AcknowledgedIsKept
<1>1. IInv => AcknowledgedIsKept
  BY DEF IInv
<1> QED BY <1>1, WorkbenchInductive, PTL

(* AnnotationStore.__init__ accepts the file of every history without a torn
   or empty append, a failed fsync or two sessions of one rater at a time.  *)
THEOREM WorkbenchFileLoads == Spec => []FileLoads
<1>1. ASSUME IInv, upset = {}, \A q \in Requests : pc[q] \notin InLock
      PROVE  Loadable
  <2>1. tail = {}
    BY <1>1 DEF IInv, NothingTorn, InLock
  <2>2. exists = "yes" => lines # {}
    BY <1>1 DEF IInv, NeverEmpty, InLock
  <2>3. \A l \in lines : \E q \in Requests : l = Whole(q)
    BY <1>1 DEF IInv, RecordsOnly
  <2>4. \A p, q \in Requests :
          Whole(p) \in lines /\ Whole(q) \in lines /\ Pair(p) = Pair(q) => p = q
    BY <1>1 DEF IInv, OnePerPair
  <2> QED BY <2>1, <2>2, <2>3, <2>4 DEF Loadable
<1>2. IInv => FileLoads
  BY <1>1 DEF FileLoads
<1> QED BY <1>2, WorkbenchInductive, PTL
=============================================================================
