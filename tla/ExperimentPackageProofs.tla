---------------------- MODULE ExperimentPackageProofs ----------------------
(***************************************************************************)
(* The safety of the experiment runners for any number of overlapping      *)
(* calls for one run id: IInv is inductive, no record hides a read, and    *)
(* the package implements the ledger of terminals.                         *)
(***************************************************************************)
EXTENDS ExperimentPackage, TLAPS

USE RunnersAssumption

(* The plans, where the facts below need to know their order. *)
LEMMA PlanFacts ==
  ASSUME NEW q \in Programs, NEW m \in Modes
  PROVE  /\ Len(Plan(q, m)) \in 1 .. 9
         /\ \A i \in 1 .. Len(Plan(q, m)) : Plan(q, m)[i] \in Files \ {"observation"}
         /\ \A i \in 1 .. Len(Plan(q, m)) : Plan(q, m)[i] = "manifest" <=> i = Len(Plan(q, m))
         /\ \E i \in 1 .. Len(Plan(q, m)) - 1 : Plan(q, m)[i] = "statistic"
         /\ \E i \in 1 .. Len(Plan(q, m)) - 1 : Plan(q, m)[i] = "package"
         /\ \A i \in 1 .. Len(Plan(q, m)) : Plan(q, m)[i] \in {"statistic", "sealed", "report", "manifest"} =>
              \E j \in 1 .. i - 1 : Plan(q, m)[j] = "package"
<1> DEFINE CR == <<"external", "package", "index", "statistic", "sealed", "recovery", "receipt", "report", "manifest">>
           CF == <<"package", "external", "statistic", "sealed", "recovery", "receipt", "report", "manifest">>
           RR == <<"package", "index", "external", "statistic", "sealed", "recovery", "receipt", "report", "manifest">>
           RF == <<"package", "statistic", "external", "sealed", "recovery", "receipt", "report", "manifest">>
           XX == <<"external", "package", "receipt", "statistic", "index", "sealed", "recovery", "report", "manifest">>
           Good(p) ==
             /\ Len(p) \in 1 .. 9
             /\ \A i \in 1 .. Len(p) : p[i] \in Files \ {"observation"}
             /\ \A i \in 1 .. Len(p) : p[i] = "manifest" <=> i = Len(p)
             /\ \E i \in 1 .. Len(p) - 1 : p[i] = "statistic"
             /\ \E i \in 1 .. Len(p) - 1 : p[i] = "package"
             /\ \A i \in 1 .. Len(p) : p[i] \in {"statistic", "sealed", "report", "manifest"} =>
                  \E j \in 1 .. i - 1 : p[j] = "package"
<1>1. Good(CR)
  <2>1. CR[4] = "statistic" /\ CR[2] = "package" /\ Len(CR) = 9
    OBVIOUS
  <2>2. \A i \in 1 .. 9 : CR[i] \in {"statistic", "sealed", "report", "manifest"} => i \in 3 .. 9
    OBVIOUS
  <2> QED
    BY <2>1, <2>2 DEF Files
<1>2. Good(CF)
  <2>1. CF[3] = "statistic" /\ CF[1] = "package" /\ Len(CF) = 8
    OBVIOUS
  <2>2. \A i \in 1 .. 8 : CF[i] \in {"statistic", "sealed", "report", "manifest"} => i \in 3 .. 8
    OBVIOUS
  <2> QED
    BY <2>1, <2>2 DEF Files
<1>3. Good(RR)
  <2>1. RR[4] = "statistic" /\ RR[1] = "package" /\ Len(RR) = 9
    OBVIOUS
  <2>2. \A i \in 1 .. 9 : RR[i] \in {"statistic", "sealed", "report", "manifest"} => i \in 3 .. 9
    OBVIOUS
  <2> QED
    BY <2>1, <2>2 DEF Files
<1>4. Good(RF)
  <2>1. RF[2] = "statistic" /\ RF[1] = "package" /\ Len(RF) = 8
    OBVIOUS
  <2>2. \A i \in 1 .. 8 : RF[i] \in {"statistic", "sealed", "report", "manifest"} => i \in 2 .. 8
    OBVIOUS
  <2> QED
    BY <2>1, <2>2 DEF Files
<1>5. Good(XX)
  <2>1. XX[4] = "statistic" /\ XX[2] = "package" /\ Len(XX) = 9
    OBVIOUS
  <2>2. \A i \in 1 .. 9 : XX[i] \in {"statistic", "sealed", "report", "manifest"} => i \in 3 .. 9
    OBVIOUS
  <2> QED
    BY <2>1, <2>2 DEF Files
<1>6. Plan(q, m) \in {CR, CF, RR, RF, XX}
  BY DEF Plan, ComparativePlan, R3Plan, Exp002Plan
<1> HIDE DEF CR, CF, RR, RF, XX, Good
<1>7. Good(Plan(q, m))
  BY <1>1, <1>2, <1>3, <1>4, <1>5, <1>6
<1> QED
  BY <1>7 DEF Good

(* What the invariant says of one runner that writes. *)
LEMMA WriterFacts ==
  ASSUME IInv, NEW r \in Runners, pc[r] = "write"
  PROVE  /\ step[r] \in 1 .. Len(Plan(program, mode[r])) /\ Len(Plan(program, mode[r])) \in 1 .. 9
         /\ File(r) \in Files \ {"observation"}
         /\ File(r) = "manifest" <=> step[r] = Len(Plan(program, mode[r]))
         /\ File(r) \in {"statistic", "sealed", "report", "manifest"} => author["package"] # "none"
         /\ File(r) = "manifest" => author["statistic"] = r
         /\ author["manifest"] # r
<1>1. program \in Programs /\ mode[r] \in Modes
  BY DEF IInv, TypeOK
<1>2. /\ step[r] \in 1 .. Len(Plan(program, mode[r]))
      /\ \A i \in 1 .. step[r] - 1 :
           /\ author[Plan(program, mode[r])[i]] # "none"
           /\ Plan(program, mode[r])[i] # "package" => author[Plan(program, mode[r])[i]] = r
  BY DEF IInv, StepsDone
<1> DEFINE p == Plan(program, mode[r])
           s == step[r]
<1>3. /\ Len(p) \in 1 .. 9
      /\ \A i \in 1 .. Len(p) : p[i] \in Files \ {"observation"}
      /\ \A i \in 1 .. Len(p) : p[i] = "manifest" <=> i = Len(p)
      /\ \E i \in 1 .. Len(p) - 1 : p[i] = "statistic"
      /\ \A i \in 1 .. Len(p) : p[i] \in {"statistic", "sealed", "report", "manifest"} =>
           \E j \in 1 .. i - 1 : p[j] = "package"
  BY <1>1, PlanFacts
<1>4. File(r) = p[s]
  BY DEF File
<1>5. author["manifest"] # r
  BY DEF IInv, LocalOK
<1> HIDE DEF p, s
<1> QED
  BY <1>2, <1>3, <1>4, <1>5 DEF p, s

(* What a step of a writing runner does, in one form for the three actions:
   where it goes, and whether it makes a file, leaves the files, or takes
   back its own report.                                                     *)
Moves(r, p) ==
  /\ pc' = [pc EXCEPT ![r] = p]
  /\ p \in {"write", "observe", "handle", "raised", "returned"}
  /\ p = "handle" => Handles /\ mode[r] = "result"
  /\ p = "observe" => program = "r3" /\ author["package"] # "none"
  /\ p = "write" =>
       /\ pc[r] = "write" /\ File(r) # "manifest"
       /\ step[r] + 1 \in 1 .. Len(Plan(program, mode[r]))
       /\ step' = [step EXCEPT ![r] = step[r] + 1]
       /\ author'[File(r)] # "none"
       /\ File(r) # "package" => author'[File(r)] = r
  /\ p # "write" => step' = step

Makes(r, f) ==
  /\ author[f] = "none" /\ author' = [author EXCEPT ![f] = r]
  /\ f = "sealed" => pc[r] = "write" /\ stated' = [stated EXCEPT ![r] =
        IF program = "comparative" /\ mode[r] = "result" THEN "accessed" ELSE access[r]]
  /\ f # "sealed" => stated' = stated
  /\ f \in {"statistic", "sealed", "manifest"} => author["package"] # "none"
  /\ f = "manifest" => pc[r] = "write" /\ File(r) = "manifest" /\ pc'[r] # "write"

Withdraws(r) ==
  /\ author["report"] = r /\ author["manifest"] # r
  /\ author' = [author EXCEPT !["report"] = "none"]
  /\ stated' = stated /\ pc'[r] = "observe"

LEMMA WriterMoves ==
  ASSUME IInv, NEW r \in Runners, WriteNew(r) \/ WriteFails(r) \/ Observe(r)
  PROVE  /\ pc[r] \in {"write", "observe"} /\ UNCHANGED <<program, mode, access, reads>>
         /\ \E p : Moves(r, p)
         /\ \/ author' = author /\ stated' = stated
            \/ \E f \in Files : Makes(r, f)
            \/ Withdraws(r)
<1> USE DEF Go, Put
<1>0. /\ program \in Programs /\ step \in [Runners -> 1 .. 9]
      /\ pc \in [Runners -> Ended \cup {"idle", "score", "read", "reading", "weigh", "handle", "write", "observe"}]
      /\ author \in [Files -> Runners \cup {"none"}] /\ mode[r] \in Modes
  BY DEF IInv, TypeOK
<1>1. CASE WriteNew(r)
  <2>1. pc[r] = "write" /\ UNCHANGED <<program, access, reads>>
    BY <1>1 DEF WriteNew
  <2>2. /\ step[r] \in 1 .. Len(Plan(program, mode[r])) /\ Len(Plan(program, mode[r])) \in 1 .. 9
        /\ File(r) \in Files \ {"observation"}
        /\ File(r) = "manifest" <=> step[r] = Len(Plan(program, mode[r]))
        /\ File(r) \in {"statistic", "sealed", "report", "manifest"} => author["package"] # "none"
    BY <2>1, WriterFacts
  <2>3. CASE author[File(r)] = "none" /\ Put(r, File(r)) /\ Advance(r) /\ UNCHANGED mode
    <3>1. Makes(r, File(r))
      BY <2>1, <2>2, <2>3, <1>0 DEF Makes, Advance
    <3>2. \E p : Moves(r, p)
      <4>1. CASE step[r] = Len(Plan(program, mode[r]))
        <5>1. Moves(r, "returned")
          BY <2>1, <2>2, <2>3, <4>1, <1>0 DEF Moves, Advance
        <5> QED BY <5>1
      <4>2. CASE step[r] # Len(Plan(program, mode[r]))
        <5>1. Moves(r, "write")
          BY <2>1, <2>2, <2>3, <4>2, <1>0 DEF Moves, Advance
        <5> QED BY <5>1
      <4> QED BY <4>1, <4>2
    <3> QED BY <2>1, <2>2, <2>3, <3>1, <3>2
  <2>4. CASE /\ author[File(r)] # "none" /\ File(r) = "package" /\ Handles /\ mode[r] = "failure"
             /\ Advance(r) /\ UNCHANGED <<mode, author, stated>>
    <3>1. Moves(r, "write")
      BY <2>1, <2>2, <2>4, <1>0 DEF Moves, Advance
    <3> QED BY <2>1, <2>4, <3>1
  <2>5. CASE /\ author[File(r)] # "none" /\ Raise(r) /\ UNCHANGED <<step, author, stated>>
    <3>1. UNCHANGED mode /\ (Moves(r, "handle") \/ Moves(r, "raised"))
      BY <2>1, <2>2, <2>5, <1>0 DEF Moves, Raise, Modes
    <3> QED BY <2>1, <2>5, <3>1
  <2>6. CASE /\ program = "r3" /\ File(r) = "report"
             /\ Go(r, "observe") /\ UNCHANGED <<mode, step, author, stated>>
    <3>1. Moves(r, "observe")
      BY <2>1, <2>2, <2>6, <1>0 DEF Moves
    <3> QED BY <2>1, <2>6, <3>1
  <2> QED BY <1>1, <2>3, <2>4, <2>5, <2>6 DEF WriteNew
<1>2. CASE WriteFails(r)
  <2>1. pc[r] = "write" /\ UNCHANGED <<program, step, access, reads>>
    BY <1>2 DEF WriteFails
  <2>2. /\ File(r) \in Files \ {"observation"}
        /\ File(r) \in {"statistic", "sealed", "report", "manifest"} => author["package"] # "none"
        /\ author["manifest"] # r
    BY <2>1, WriterFacts
  <2>3. CASE program = "r3" /\ File(r) \in {"report", "manifest"}
    <3>1. Moves(r, "observe") /\ UNCHANGED <<mode, stated>>
      BY <1>2, <2>1, <2>2, <2>3, <1>0 DEF WriteFails, Moves
    <3>2. pc'[r] = "observe"
      BY <3>1, <1>0 DEF Moves
    <3>3. CASE author' = [f \in Files |-> IF f = "report" /\ author[f] = r THEN "none" ELSE author[f]]
      <4>1. CASE author["report"] = r
        <5>1. author' = [author EXCEPT !["report"] = "none"]
          BY <3>3, <4>1, <1>0
        <5> QED BY <5>1, <4>1, <3>1, <3>2, <2>1, <2>2 DEF Withdraws
      <4>2. CASE author["report"] # r
        <5>1. author' = author
          BY <3>3, <4>2, <1>0
        <5> QED BY <5>1, <3>1, <2>1
      <4> QED BY <4>1, <4>2
    <3>4. CASE File(r) = "manifest" /\ author[File(r)] = "none" /\ Put(r, File(r))
      <4>1. Makes(r, "manifest")
        BY <2>1, <2>2, <3>1, <3>2, <3>4 DEF Makes
      <4> QED BY <4>1, <3>1, <2>1, <2>2, <3>4
    <3> QED BY <1>2, <2>3, <3>3, <3>4 DEF WriteFails
  <2>4. CASE ~(program = "r3" /\ File(r) \in {"report", "manifest"})
    <3>1. Raise(r)
      BY <1>2, <2>4 DEF WriteFails
    <3>2. UNCHANGED mode /\ (Moves(r, "handle") \/ Moves(r, "raised")) /\ pc'[r] # "write"
      BY <2>1, <3>1, <1>0 DEF Moves, Raise, Modes
    <3>3. CASE UNCHANGED <<author, stated>>
      BY <2>1, <3>2, <3>3
    <3>4. CASE author[File(r)] = "none" /\ Put(r, File(r))
      <4>1. Makes(r, File(r))
        BY <2>1, <2>2, <3>2, <3>4 DEF Makes
      <4> QED BY <4>1, <3>2, <2>1, <2>2
    <3> QED BY <1>2, <2>4, <3>3, <3>4 DEF WriteFails
  <2> QED BY <2>3, <2>4
<1>3. CASE Observe(r)
  <2>1. /\ pc[r] = "observe" /\ UNCHANGED <<program, step, access, reads>>
        /\ program = "r3" /\ author["package"] # "none"
    BY <1>3 DEF Observe, IInv, LocalOK
  <2>2. CASE /\ author["observation"] = "none" /\ Put(r, "observation") /\ UNCHANGED mode
             /\ Go(r, IF mode[r] = "result" THEN "handle" ELSE "returned")
    <3>1. Makes(r, "observation") /\ "observation" \in Files
      BY <2>2 DEF Makes, Files
    <3>2. Moves(r, "handle") \/ Moves(r, "returned")
      BY <2>1, <2>2, <1>0 DEF Moves, Handles
    <3> QED BY <2>1, <2>2, <3>1, <3>2
  <2>3. CASE Raise(r) /\ UNCHANGED <<author, stated>>
    <3>1. UNCHANGED mode /\ (Moves(r, "handle") \/ Moves(r, "raised"))
      BY <2>1, <2>3, <1>0 DEF Moves, Raise, Handles, Modes
    <3> QED BY <2>1, <2>3, <3>1
  <2> QED BY <1>3, <2>2, <2>3 DEF Observe
<1> QED
  BY <1>1, <1>2, <1>3


(* The positions of a plan, for the steps that need no more of it. *)
LEMMA PlanLength ==
  ASSUME NEW q \in Programs, NEW m \in Modes
  PROVE  1 \in 1 .. Len(Plan(q, m)) /\ Len(Plan(q, m)) \in 1 .. 9
BY PlanFacts

LEMMA StepInRange ==
  ASSUME IInv, NEW r \in Runners, NEW p, Moves(r, p)
  PROVE  step' \in [Runners -> 1 .. 9]
<1>1. program \in Programs /\ mode[r] \in Modes /\ step \in [Runners -> 1 .. 9]
  BY DEF IInv, TypeOK
<1>2. Len(Plan(program, mode[r])) \in 1 .. 9
  BY <1>1, PlanLength
<1>3. CASE p = "write"
  <2>1. step[r] + 1 \in 1 .. Len(Plan(program, mode[r])) /\ step' = [step EXCEPT ![r] = step[r] + 1]
    BY <1>3 DEF Moves
  <2> DEFINE k == step[r] + 1
             n == Len(Plan(program, mode[r]))
  <2>2. k \in 1 .. n /\ n \in 1 .. 9
    BY <1>2, <2>1
  <2>3. step' = [step EXCEPT ![r] = k]
    BY <2>1
  <2> HIDE DEF k, n
  <2>4. k \in 1 .. 9
    BY <2>2
  <2> QED BY <1>1, <2>3, <2>4
<1>4. CASE p # "write"
  BY <1>1, <1>4 DEF Moves
<1> QED BY <1>3, <1>4

(* Every call keeps the types. *)
LEMMA TypeStep ==
  ASSUME IInv, NEW r \in Runners, Runner(r)
  PROVE  TypeOK'
<1> USE DEF IInv, TypeOK, Go, Handles, Modes, Ended
<1>1. CASE Begin(r)
  BY <1>1 DEF Begin
<1>2. CASE Score(r)
  BY <1>2 DEF Score
<1>3. CASE OpenTarget(r)
  BY <1>3 DEF OpenTarget, LocalOK
<1>4. CASE Analyze(r)
  BY <1>4 DEF Analyze
<1>5. CASE RunFails(r)
  BY <1>5 DEF RunFails, Raise
<1>6. CASE Weigh(r)
  BY <1>6 DEF Weigh, Raise
<1>7. CASE Handle(r)
  BY <1>7 DEF Handle
<1>8. CASE Kill(r)
  BY <1>8 DEF Kill
<1>9. CASE WriteNew(r) \/ WriteFails(r) \/ Observe(r)
  <2>1. /\ pc[r] \in {"write", "observe"} /\ UNCHANGED <<program, mode, access, reads>>
        /\ \/ author' = author /\ stated' = stated
           \/ \E f \in Files : Makes(r, f)
           \/ Withdraws(r)
    BY <1>9, WriterMoves
  <2>2. PICK p : Moves(r, p)
    BY <1>9, WriterMoves
  <2>3. pc' \in [Runners -> Ended \cup {"idle", "score", "read", "reading", "weigh", "handle", "write", "observe"}]
    BY <2>2 DEF Moves
  <2>4. step' \in [Runners -> 1 .. 9]
    BY <2>2, StepInRange
  <2>5. author' \in [Files -> Runners \cup {"none"}] /\ stated' \in [Runners -> {"none", "possibly", "accessed"}]
    BY <2>1 DEF Makes, Withdraws
  <2>6. disturbed' \in {"no", "yes"}
    BY <1>9 DEF WriteNew, WriteFails, Observe
  <2> QED BY <2>1, <2>3, <2>4, <2>5, <2>6
<1> QED
  BY <1>1, <1>2, <1>3, <1>4, <1>5, <1>6, <1>7, <1>8, <1>9 DEF Runner

(* No terminal appears without its directory, and none loses it. *)
LEMMA PackageStep ==
  ASSUME IInv, NEW r \in Runners, Runner(r)
  PROVE  PackageFirst'
<1> USE DEF IInv, TypeOK, Go, PackageFirst, Files
<1>1. CASE Begin(r)
  BY <1>1 DEF Begin
<1>2. CASE Score(r)
  BY <1>2 DEF Score
<1>3. CASE OpenTarget(r)
  BY <1>3 DEF OpenTarget
<1>4. CASE Analyze(r)
  BY <1>4 DEF Analyze
<1>5. CASE RunFails(r)
  BY <1>5 DEF RunFails, Raise
<1>6. CASE Weigh(r)
  BY <1>6 DEF Weigh, Raise
<1>7. CASE Handle(r)
  BY <1>7 DEF Handle
<1>8. CASE Kill(r)
  BY <1>8 DEF Kill
<1>9. CASE WriteNew(r) \/ WriteFails(r) \/ Observe(r)
  <2>1. /\ pc[r] \in {"write", "observe"} /\ UNCHANGED <<program, mode, access, reads>>
        /\ \/ author' = author /\ stated' = stated
           \/ \E f \in Files : Makes(r, f)
           \/ Withdraws(r)
    BY <1>9, WriterMoves
  <2>2. PICK p : Moves(r, p)
    BY <1>9, WriterMoves
  <2>3. CASE author' = author /\ stated' = stated
    BY <2>3
  <2>4. CASE \E f \in Files : Makes(r, f)
    <3>1. PICK f \in Files : Makes(r, f)
      BY <2>4
    <3> QED BY <3>1 DEF Makes
  <2>5. CASE Withdraws(r)
    BY <2>5 DEF Withdraws
  <2> QED BY <2>1, <2>3, <2>4, <2>5
<1> QED
  BY <1>1, <1>2, <1>3, <1>4, <1>5, <1>6, <1>7, <1>8, <1>9 DEF Runner

(* Every call keeps what the state of a runner implies. *)
LEMMA LocalStep ==
  ASSUME IInv, NEW r \in Runners, Runner(r)
  PROVE  LocalOK'
<1> USE DEF IInv, TypeOK, Go, Handles, Modes, Ended, LocalOK, Early
<1>1. CASE Begin(r)
  BY <1>1 DEF Begin
<1>2. CASE Score(r)
  BY <1>2 DEF Score
<1>3. CASE OpenTarget(r)
  BY <1>3 DEF OpenTarget
<1>4. CASE Analyze(r)
  BY <1>4 DEF Analyze
<1>5. CASE RunFails(r)
  BY <1>5 DEF RunFails, Raise
<1>6. CASE Weigh(r)
  <2>1. CASE Go(r, "write") /\ UNCHANGED <<mode, disturbed>>
    BY <1>6, <2>1 DEF Weigh, Files
  <2>2. CASE Handles /\ Raise(r) /\ UNCHANGED disturbed
    BY <1>6, <2>2 DEF Weigh, Raise
  <2>3. CASE ~Handles /\ Go(r, "write") /\ mode' = [mode EXCEPT ![r] = "failure"] /\ UNCHANGED disturbed
    BY <1>6, <2>3 DEF Weigh, Files
  <2>4. CASE ~Handles /\ Raise(r) /\ disturbed' = "yes"
    BY <1>6, <2>4 DEF Weigh, Raise
  <2> QED BY <1>6, <2>1, <2>2, <2>3, <2>4 DEF Weigh
<1>7. CASE Handle(r)
  BY <1>7 DEF Handle, PackageFirst, Files
<1>8. CASE Kill(r)
  BY <1>8 DEF Kill
<1>9. CASE WriteNew(r) \/ WriteFails(r) \/ Observe(r)
  <2>1. /\ pc[r] \in {"write", "observe"} /\ UNCHANGED <<program, mode, access, reads>>
        /\ \/ author' = author /\ stated' = stated
           \/ \E f \in Files : Makes(r, f)
           \/ Withdraws(r)
    BY <1>9, WriterMoves
  <2>2. PICK p : Moves(r, p)
    BY <1>9, WriterMoves
  <2>3. \A q \in Runners : q # r => pc'[q] = pc[q] /\ step'[q] = step[q]
    BY <2>2 DEF Moves
  <2>4. \A q \in Runners, f \in Files : q # r /\ author[f] # q => author'[f] # q
    BY <2>1 DEF Makes, Withdraws
  <2>5. \A f \in Files : author[f] # "none" => author'[f] = author[f] \/ (author[f] = r /\ Withdraws(r))
    BY <2>1 DEF Makes, Withdraws
  <2>6. author["package"] # "none" => author'["package"] # "none"
    BY <2>1 DEF Makes, Withdraws, Files
  <2>7. pc[r] = "write" /\ pc'[r] = "write" => author'["manifest"] # r
    BY <2>1 DEF Makes, Withdraws, Files
  <2>8. pc'[r] = p
    BY <2>2 DEF Moves
  <2>9. pc'[r] = "write" => pc[r] = "write"
    BY <2>2, <2>8 DEF Moves
  <2>10. pc'[r] = "handle" => Handles /\ mode[r] = "result"
    BY <2>2, <2>8 DEF Moves
  <2>11. pc'[r] = "observe" => program = "r3" /\ author["package"] # "none"
    BY <2>2, <2>8 DEF Moves
  <2>12. pc'[r] \notin {"idle", "score", "read", "reading", "weigh"}
    BY <2>2, <2>8 DEF Moves
  <2>13. "manifest" \in Files
    BY DEF Files
  <2> QED BY <2>1, <2>3, <2>4, <2>6, <2>7, <2>9, <2>10, <2>11, <2>12, <2>13
<1> QED
  BY <1>1, <1>2, <1>3, <1>4, <1>5, <1>6, <1>7, <1>8, <1>9 DEF Runner

(* No call takes away what another has written before its step. *)
LEMMA StepsStep ==
  ASSUME IInv, NEW r \in Runners, Runner(r)
  PROVE  StepsDone'
<1> USE DEF IInv, TypeOK, Go, Handles, Modes, LocalOK, Early, StepsDone
<1>1. CASE Begin(r)
  BY <1>1 DEF Begin
<1>2. CASE Score(r)
  BY <1>2 DEF Score
<1>3. CASE OpenTarget(r)
  BY <1>3 DEF OpenTarget
<1>4. CASE Analyze(r)
  BY <1>4 DEF Analyze
<1>5. CASE RunFails(r)
  BY <1>5 DEF RunFails, Raise
<1>6. CASE Weigh(r)
  <2>1. mode' \in [Runners -> Modes] /\ program' = program /\ program \in Programs
    BY <1>6 DEF Weigh, Raise
  <2>2. 1 \in 1 .. Len(Plan(program, mode'[r]))
    <3>1. program \in Programs /\ mode'[r] \in Modes
      BY <2>1
    <3> QED BY <3>1, PlanLength
  <2>3. \A q \in Runners : q # r => pc'[q] = pc[q] /\ mode'[q] = mode[q]
    BY <1>6 DEF Weigh, Raise
  <2>4. step[r] = 1 /\ UNCHANGED <<step, author, program>>
    BY <1>6 DEF Weigh
  <2>5. ASSUME NEW q \in Runners, q # r, pc'[q] = "write"
        PROVE  /\ step'[q] \in 1 .. Len(Plan(program', mode'[q]))
               /\ \A i \in 1 .. step'[q] - 1 :
                    /\ author'[Plan(program', mode'[q])[i]] # "none"
                    /\ Plan(program', mode'[q])[i] # "package" => author'[Plan(program', mode'[q])[i]] = q
    <3>1. pc[q] = "write" /\ step'[q] = step[q] /\ mode'[q] = mode[q] /\ program' = program /\ author' = author
      BY <1>6, <2>1, <2>3, <2>4, <2>5 DEF Weigh, Raise
    <3> QED BY <3>1
  <2>6. pc'[r] = "write" =>
          /\ step'[r] \in 1 .. Len(Plan(program', mode'[r]))
          /\ \A i \in 1 .. step'[r] - 1 :
               /\ author'[Plan(program', mode'[r])[i]] # "none"
               /\ Plan(program', mode'[r])[i] # "package" => author'[Plan(program', mode'[r])[i]] = r
    BY <2>1, <2>2, <2>4
  <2> QED BY <2>5, <2>6
<1>7. CASE Handle(r)
  <2>1. mode' \in [Runners -> Modes] /\ program' = program /\ program \in Programs
    BY <1>7 DEF Handle
  <2>2. 1 \in 1 .. Len(Plan(program, mode'[r]))
    <3>1. program \in Programs /\ mode'[r] \in Modes
      BY <2>1
    <3> QED BY <3>1, PlanLength
  <2>3. \A q \in Runners : q # r => pc'[q] = pc[q] /\ mode'[q] = mode[q] /\ step'[q] = step[q]
    BY <1>7 DEF Handle
  <2>4. (pc'[r] = "write" => step'[r] = 1) /\ UNCHANGED <<author, program>>
    BY <1>7 DEF Handle
  <2>5. ASSUME NEW q \in Runners, q # r, pc'[q] = "write"
        PROVE  /\ step'[q] \in 1 .. Len(Plan(program', mode'[q]))
               /\ \A i \in 1 .. step'[q] - 1 :
                    /\ author'[Plan(program', mode'[q])[i]] # "none"
                    /\ Plan(program', mode'[q])[i] # "package" => author'[Plan(program', mode'[q])[i]] = q
    <3>1. pc[q] = "write" /\ step'[q] = step[q] /\ mode'[q] = mode[q] /\ program' = program /\ author' = author
      BY <1>7, <2>1, <2>3, <2>4, <2>5
    <3> QED BY <3>1
  <2>6. pc'[r] = "write" =>
          /\ step'[r] \in 1 .. Len(Plan(program', mode'[r]))
          /\ \A i \in 1 .. step'[r] - 1 :
               /\ author'[Plan(program', mode'[r])[i]] # "none"
               /\ Plan(program', mode'[r])[i] # "package" => author'[Plan(program', mode'[r])[i]] = r
    BY <2>1, <2>2, <2>4
  <2> QED BY <2>5, <2>6
<1>8. CASE Kill(r)
  BY <1>8 DEF Kill
<1>9. CASE WriteNew(r) \/ WriteFails(r) \/ Observe(r)
  <2>1. /\ pc[r] \in {"write", "observe"} /\ UNCHANGED <<program, mode, access, reads>>
        /\ \/ author' = author /\ stated' = stated
           \/ \E f \in Files : Makes(r, f)
           \/ Withdraws(r)
    BY <1>9, WriterMoves
  <2>2. PICK p : Moves(r, p)
    BY <1>9, WriterMoves
  <2>3. \A q \in Runners : q # r => pc'[q] = pc[q] /\ step'[q] = step[q]
    BY <2>2 DEF Moves
  <2>4. \A q \in Runners, f \in Files : q # r /\ author[f] # q => author'[f] # q
    BY <2>1 DEF Makes, Withdraws
  <2>5. \A f \in Files : author[f] # "none" => author'[f] = author[f] \/ (author[f] = r /\ Withdraws(r))
    BY <2>1 DEF Makes, Withdraws
  <2>6. author["package"] # "none" => author'["package"] # "none"
    BY <2>1 DEF Makes, Withdraws, Files
  <2>7. ASSUME NEW q \in Runners, pc'[q] = "write", q # r
        PROVE  /\ step[q] \in 1 .. Len(Plan(program, mode[q]))
               /\ \A i \in 1 .. step[q] - 1 :
                    /\ author'[Plan(program, mode[q])[i]] # "none"
                    /\ Plan(program, mode[q])[i] # "package" => author'[Plan(program, mode[q])[i]] = q
    <3>1. /\ step[q] \in 1 .. Len(Plan(program, mode[q]))
          /\ \A i \in 1 .. step[q] - 1 :
               /\ author[Plan(program, mode[q])[i]] # "none"
               /\ Plan(program, mode[q])[i] # "package" => author[Plan(program, mode[q])[i]] = q
      BY <2>3, <2>7 DEF StepsDone
    <3>2. /\ Len(Plan(program, mode[q])) \in 1 .. 9
          /\ \A i \in 1 .. Len(Plan(program, mode[q])) : Plan(program, mode[q])[i] \in Files \ {"observation"}
      <4>1. program \in Programs /\ mode[q] \in Modes
        BY DEF TypeOK
      <4> QED BY <4>1, PlanFacts
    <3> QED BY <2>5, <2>6, <2>7, <3>1, <3>2
  <2>8. ASSUME pc'[r] = "write"
        PROVE  /\ step'[r] \in 1 .. Len(Plan(program, mode[r]))
               /\ \A i \in 1 .. step'[r] - 1 :
                    /\ author'[Plan(program, mode[r])[i]] # "none"
                    /\ Plan(program, mode[r])[i] # "package" => author'[Plan(program, mode[r])[i]] = r
    <3>1. /\ p = "write" /\ pc[r] = "write"
          /\ step'[r] = step[r] + 1 /\ step'[r] \in 1 .. Len(Plan(program, mode[r]))
          /\ author'[File(r)] # "none"
          /\ File(r) # "package" => author'[File(r)] = r
      BY <2>2, <2>8 DEF Moves
    <3>2. /\ step[r] \in 1 .. Len(Plan(program, mode[r])) /\ Len(Plan(program, mode[r])) \in 1 .. 9
          /\ \A i \in 1 .. step[r] - 1 :
               /\ author[Plan(program, mode[r])[i]] # "none"
               /\ Plan(program, mode[r])[i] # "package" => author[Plan(program, mode[r])[i]] = r
      BY <3>1, WriterFacts DEF StepsDone
    <3>3. \A i \in 1 .. Len(Plan(program, mode[r])) : Plan(program, mode[r])[i] \in Files \ {"observation"}
      <4>1. program \in Programs /\ mode[r] \in Modes
        BY DEF TypeOK
      <4> QED BY <4>1, PlanFacts
    <3>4. \A i \in 1 .. step[r] - 1 :
            /\ author'[Plan(program, mode[r])[i]] # "none"
            /\ Plan(program, mode[r])[i] # "package" => author'[Plan(program, mode[r])[i]] = r
      BY <2>5, <2>8, <3>2, <3>3 DEF Withdraws
    <3>5. File(r) = Plan(program, mode[r])[step[r]]
      BY DEF File
    <3>6. ASSUME NEW i \in 1 .. step'[r] - 1
          PROVE  i \in 1 .. step[r] - 1 \/ i = step[r]
      <4>1. step[r] \in Nat
        BY <3>2
      <4> QED BY <4>1, <3>1, <3>6
    <3> QED BY <3>1, <3>4, <3>5, <3>6
  <2> QED BY <2>1, <2>3, <2>7, <2>8 DEF StepsDone
<1> QED
  BY <1>1, <1>2, <1>3, <1>4, <1>5, <1>6, <1>7, <1>8, <1>9 DEF Runner

(* A call changes its mode only while it has made nothing that matters. *)
LEMMA ModeStep ==
  ASSUME IInv, NEW r \in Runners, Runner(r), ~(WriteNew(r) \/ WriteFails(r) \/ Observe(r))
  PROVE  /\ UNCHANGED <<program, author, stated>>
         /\ \A q \in Runners : author["statistic"] = q \/ author["manifest"] = q => mode'[q] = mode[q]
         /\ \A q \in Runners :
              author["sealed"] = q \/ author["manifest"] = q => reads'[q] = reads[q]
<1> USE DEF IInv, TypeOK, LocalOK, Early, Files
<1>1. CASE Begin(r)
  BY <1>1 DEF Begin
<1>2. CASE Score(r)
  BY <1>2 DEF Score
<1>3. CASE OpenTarget(r)
  BY <1>3 DEF OpenTarget
<1>4. CASE Analyze(r)
  BY <1>4 DEF Analyze
<1>5. CASE RunFails(r)
  BY <1>5 DEF RunFails, Raise
<1>6. CASE Weigh(r)
  BY <1>6 DEF Weigh, Raise
<1>7. CASE Handle(r)
  BY <1>7 DEF Handle, PackageFirst
<1>8. CASE Kill(r)
  BY <1>8 DEF Kill
<1> QED
  BY <1>1, <1>2, <1>3, <1>4, <1>5, <1>6, <1>7, <1>8 DEF Runner

(* The manifest is linked last, and nobody touches another's files. *)
LEMMA AuthorStep ==
  ASSUME IInv, NEW r \in Runners, Runner(r)
  PROVE  PublishedByOne'
<1>0. /\ author \in [Files -> Runners \cup {"none"}]
      /\ program \in Programs /\ mode \in [Runners -> Modes]
  BY DEF IInv, TypeOK
<1>1. \A q \in Runners : author["manifest"] = q =>
        /\ author["package"] # "none"
        /\ \A i \in 1 .. Len(Plan(program, mode[q])) :
             Plan(program, mode[q])[i] # "package" => author[Plan(program, mode[q])[i]] = q
  BY DEF IInv, PublishedByOne
<1>2. \A q \in Runners : \A i \in 1 .. Len(Plan(program, mode[q])) :
        Plan(program, mode[q])[i] \in Files \ {"observation"}
  BY <1>0, PlanFacts
<1>3. "manifest" \in Files /\ "package" \in Files /\ "report" \in Files
  BY DEF Files
<1>4. CASE ~(WriteNew(r) \/ WriteFails(r) \/ Observe(r))
  <2>1. /\ UNCHANGED <<program, author>>
        /\ \A q \in Runners : author["manifest"] = q => mode'[q] = mode[q]
    BY <1>4, ModeStep
  <2> QED BY <1>1, <2>1 DEF PublishedByOne
<1>9. CASE WriteNew(r) \/ WriteFails(r) \/ Observe(r)
  <2>1. /\ pc[r] \in {"write", "observe"} /\ UNCHANGED <<program, mode, access, reads>>
        /\ \/ author' = author /\ stated' = stated
           \/ \E f \in Files : Makes(r, f)
           \/ Withdraws(r)
    BY <1>9, WriterMoves
  <2>2. CASE author' = author
    BY <1>1, <2>1, <2>2 DEF PublishedByOne
  <2>3. CASE \E f \in Files : Makes(r, f)
    <3>1. PICK f \in Files : Makes(r, f)
      BY <2>3
    <3>2. author[f] = "none" /\ author' = [author EXCEPT ![f] = r]
      BY <3>1 DEF Makes
    <3>3. CASE f = "manifest"
      <4>1. pc[r] = "write" /\ File(r) = "manifest" /\ author["package"] # "none"
        BY <3>1, <3>3 DEF Makes
      <4>2. /\ step[r] = Len(Plan(program, mode[r])) /\ Len(Plan(program, mode[r])) \in 1 .. 9
            /\ File(r) = Plan(program, mode[r])[step[r]]
        BY <4>1, WriterFacts DEF File
      <4>3. \A i \in 1 .. step[r] - 1 :
              Plan(program, mode[r])[i] # "package" => author[Plan(program, mode[r])[i]] = r
        BY <4>1 DEF IInv, StepsDone
      <4>4. \A i \in 1 .. Len(Plan(program, mode[r])) : i \in 1 .. step[r] - 1 \/ i = step[r]
        BY <4>2
      <4>5. \A i \in 1 .. Len(Plan(program, mode[r])) :
              Plan(program, mode[r])[i] # "package" => author'[Plan(program, mode[r])[i]] = r
        <5>1. TAKE i \in 1 .. Len(Plan(program, mode[r]))
        <5>2. Plan(program, mode[r])[i] \in Files
          BY <1>2
        <5>3. CASE i = step[r]
          BY <5>3, <4>1, <4>2, <3>2, <3>3, <1>0, <1>3
        <5>4. CASE i \in 1 .. step[r] - 1
          BY <5>2, <5>4, <4>3, <3>2, <1>0
        <5> QED BY <4>4, <5>3, <5>4
      <4>6. author'["manifest"] = r /\ author'["package"] # "none"
        BY <1>0, <1>3, <3>2, <3>3, <4>1
      <4> QED BY <2>1, <4>5, <4>6 DEF PublishedByOne
    <3>4. CASE f # "manifest"
      <4>1. author'["manifest"] = author["manifest"]
        BY <1>0, <1>3, <3>2, <3>4
      <4>2. ASSUME NEW q \in Runners, author["manifest"] = q
            PROVE  /\ author'["package"] # "none"
                   /\ \A i \in 1 .. Len(Plan(program, mode[q])) :
                        Plan(program, mode[q])[i] # "package" => author'[Plan(program, mode[q])[i]] = q
        BY <1>0, <1>1, <1>2, <1>3, <3>2, <4>2
      <4> QED BY <2>1, <4>1, <4>2 DEF PublishedByOne
    <3> QED BY <3>3, <3>4
  <2>4. CASE Withdraws(r)
    <3>1. author["report"] = r /\ author["manifest"] # r /\ author' = [author EXCEPT !["report"] = "none"]
      BY <2>4 DEF Withdraws
    <3>2. author'["manifest"] = author["manifest"]
      BY <1>0, <1>3, <3>1
    <3>3. ASSUME NEW q \in Runners, author["manifest"] = q
          PROVE  /\ author'["package"] # "none"
                 /\ \A i \in 1 .. Len(Plan(program, mode[q])) :
                      Plan(program, mode[q])[i] # "package" => author'[Plan(program, mode[q])[i]] = q
      BY <1>0, <1>1, <1>2, <1>3, <3>1, <3>3
    <3> QED BY <2>1, <3>2, <3>3 DEF PublishedByOne
  <2> QED BY <2>1, <2>2, <2>3, <2>4
<1> QED BY <1>4, <1>9

(* The access record is written by the call that made the access. *)
LEMMA ReadStep ==
  ASSUME IInv, NoReadIsHidden, NEW r \in Runners, Runner(r)
  PROVE  NoReadIsHidden'
<1>0. /\ author \in [Files -> Runners \cup {"none"}] /\ "sealed" \in Files
      /\ stated \in [Runners -> {"none", "possibly", "accessed"}]
  BY DEF IInv, TypeOK, Files
<1>4. CASE ~(WriteNew(r) \/ WriteFails(r) \/ Observe(r))
  <2>1. UNCHANGED <<author, stated>> /\ \A q \in Runners : author["sealed"] = q => reads'[q] = reads[q]
    BY <1>4, ModeStep
  <2> QED BY <2>1 DEF NoReadIsHidden
<1>9. CASE WriteNew(r) \/ WriteFails(r) \/ Observe(r)
  <2>1. /\ pc[r] \in {"write", "observe"} /\ UNCHANGED <<program, mode, access, reads>>
        /\ \/ author' = author /\ stated' = stated
           \/ \E f \in Files : Makes(r, f)
           \/ Withdraws(r)
    BY <1>9, WriterMoves
  <2>2. CASE author' = author /\ stated' = stated
    BY <2>1, <2>2 DEF NoReadIsHidden
  <2>3. CASE \E f \in Files : Makes(r, f)
    <3>1. PICK f \in Files : Makes(r, f)
      BY <2>3
    <3>2. CASE f = "sealed"
      <4>1. /\ pc[r] = "write" /\ author' = [author EXCEPT !["sealed"] = r]
            /\ stated' = [stated EXCEPT ![r] =
                 IF program = "comparative" /\ mode[r] = "result" THEN "accessed" ELSE access[r]]
        BY <3>1, <3>2 DEF Makes
      <4>2. /\ access[r] = "none" <=> reads[r] = 0
            /\ program = "comparative" /\ mode[r] = "result" => reads[r] # 0
        BY <4>1 DEF IInv, LocalOK, Handles
      <4> QED BY <1>0, <2>1, <4>1, <4>2 DEF NoReadIsHidden
    <3>3. CASE f # "sealed"
      <4>1. author'["sealed"] = author["sealed"] /\ stated' = stated
        BY <1>0, <3>1, <3>3 DEF Makes
      <4> QED BY <2>1, <4>1 DEF NoReadIsHidden
    <3> QED BY <3>2, <3>3
  <2>4. CASE Withdraws(r)
    <3>1. author'["sealed"] = author["sealed"] /\ stated' = stated
      BY <1>0, <2>4 DEF Withdraws
    <3> QED BY <2>1, <3>1 DEF NoReadIsHidden
  <2> QED BY <2>1, <2>2, <2>3, <2>4
<1> QED BY <1>4, <1>9

(* Who published a result of EXP-001 made its one read before. *)
ResultsRead ==
  \A r \in Runners : Handles /\ mode[r] = "result" /\ author["manifest"] = r => reads[r] = 1

LEMMA ResultsReadStep ==
  ASSUME IInv, ResultsRead, NEW r \in Runners, Runner(r)
  PROVE  ResultsRead'
<1>1. author \in [Files -> Runners \cup {"none"}] /\ "manifest" \in Files
  BY DEF IInv, TypeOK, Files
<1>2. CASE ~(WriteNew(r) \/ WriteFails(r) \/ Observe(r))
  BY <1>2, ModeStep DEF ResultsRead, Handles
<1>3. CASE WriteNew(r) \/ WriteFails(r) \/ Observe(r)
  <2>1. /\ UNCHANGED <<program, mode, reads>>
        /\ \/ author' = author
           \/ \E f \in Files : Makes(r, f)
           \/ Withdraws(r)
    BY <1>3, WriterMoves
  <2>2. CASE author' = author
    BY <2>1, <2>2 DEF ResultsRead, Handles
  <2>3. ASSUME NEW f \in Files, Makes(r, f) PROVE ResultsRead'
    <3>1. CASE f = "manifest"
      <4>1. pc[r] = "write" /\ author'["manifest"] = r
        BY <1>1, <2>3, <3>1 DEF Makes
      <4>2. Handles /\ mode[r] = "result" => reads[r] = 1
        BY <4>1 DEF IInv, LocalOK
      <4> QED
        BY <2>1, <4>1, <4>2 DEF ResultsRead, Handles
    <3>2. CASE f # "manifest"
      <4>1. author'["manifest"] = author["manifest"]
        BY <1>1, <2>3, <3>2 DEF Makes
      <4> QED
        BY <2>1, <4>1 DEF ResultsRead, Handles
    <3> QED
      BY <3>1, <3>2
  <2>4. CASE Withdraws(r)
    <3>1. author'["manifest"] = author["manifest"]
      BY <1>1, <2>4 DEF Withdraws
    <3> QED
      BY <2>1, <3>1 DEF ResultsRead, Handles
  <2> QED
    BY <2>1, <2>2, <2>3, <2>4
<1> QED
  BY <1>2, <1>3

(* No plan names a file twice, and EXP-002 begins with the score asset. *)
LEMMA PlanOrder ==
  ASSUME NEW q \in Programs, NEW m \in Modes
  PROVE  /\ \A i, j \in 1 .. Len(Plan(q, m)) : Plan(q, m)[i] = Plan(q, m)[j] => i = j
         /\ q \in {"exp002", "auto"} => Plan(q, m)[1] = "external" /\ Len(Plan(q, m)) = 9
<1> DEFINE Once(p) == \A i, j \in 1 .. Len(p) : p[i] = p[j] => i = j
<1>1. Once(ComparativePlan("result")) /\ Once(ComparativePlan("failure"))
  BY DEF ComparativePlan
<1>2. Once(R3Plan("result")) /\ Once(R3Plan("failure"))
  BY DEF R3Plan
<1>3. Once(Exp002Plan) /\ Exp002Plan[1] = "external" /\ Len(Exp002Plan) = 9
  BY DEF Exp002Plan
<1>4. Plan(q, m) \in {ComparativePlan("result"), ComparativePlan("failure"), R3Plan("result"),
                      R3Plan("failure"), Exp002Plan}
  BY DEF Plan, Modes
<1>5. q \in {"exp002", "auto"} => Plan(q, m) = Exp002Plan
  BY DEF Plan
<1>6. Once(Plan(q, m))
  <2> HIDE DEF Once
  <2> QED
    BY <1>1, <1>2, <1>3, <1>4
<1> QED
  BY <1>3, <1>5, <1>6

(* The names a runner has still to take: the next one, and then fewer. *)
LEMMA AheadFacts ==
  ASSUME IInv, NEW r \in Runners, pc[r] = "write"
  PROVE  /\ File(r) \in Ahead(r) /\ Ahead(r) \subseteq Files \ {"observation"}
         /\ UNCHANGED <<program, mode>> /\ step'[r] = step[r] + 1 =>
              Ahead(r)' \subseteq Ahead(r) \ {File(r)}
<1> DEFINE p == Plan(program, mode[r])
           s == step[r]
<1>1. program \in Programs /\ mode[r] \in Modes
  BY DEF IInv, TypeOK
<1>2. s \in 1 .. Len(p) /\ Len(p) \in 1 .. 9
  BY WriterFacts
<1>3. /\ \A i \in 1 .. Len(p) : p[i] \in Files \ {"observation"}
      /\ \A i, j \in 1 .. Len(p) : p[i] = p[j] => i = j
  BY <1>1, PlanFacts, PlanOrder
<1>4. File(r) = p[s] /\ Ahead(r) = {p[i] : i \in s .. Len(p)}
  BY DEF File, Ahead
<1>5. ASSUME UNCHANGED <<program, mode>>, step'[r] = step[r] + 1
      PROVE  Ahead(r)' = {p[i] : i \in s + 1 .. Len(p)}
  BY <1>5 DEF Ahead
<1> HIDE DEF p, s
<1>6. \A f \in {p[i] : i \in s + 1 .. Len(p)} : f \in {p[i] : i \in s .. Len(p)} /\ f # p[s]
  BY <1>2, <1>3
<1> QED
  BY <1>2, <1>3, <1>4, <1>5, <1>6

(* A disturbance is never forgotten, and a runner moves alone. *)
LEMMA RunnerLocal ==
  ASSUME IInv, NEW k \in Runners, Runner(k)
  PROVE  /\ program' = program
         /\ disturbed' = "no" => disturbed = "no" /\ ~Kill(k) /\ ~WriteFails(k)
         /\ pc'[k] # "idle"
         /\ \A q \in Runners \ {k} : /\ pc'[q] = pc[q] /\ mode'[q] = mode[q]
                                     /\ step'[q] = step[q]
                                     /\ Ahead(q)' = Ahead(q)
<1> USE DEF IInv, TypeOK, Go, Ended
<1>1. program' = program
  BY DEF Runner, Begin, Score, OpenTarget, Analyze, RunFails, Weigh, Handle, WriteNew,
     WriteFails, Observe, Kill
<1>2. disturbed' = "no" => disturbed = "no" /\ ~Kill(k) /\ ~WriteFails(k)
  BY DEF Runner, Begin, Score, OpenTarget, Analyze, RunFails, Weigh, Handle, WriteNew,
     WriteFails, Observe, Kill
<1>3. /\ pc'[k] # "idle"
      /\ \A q \in Runners \ {k} : pc'[q] = pc[q] /\ mode'[q] = mode[q] /\ step'[q] = step[q]
  <2>1. CASE Begin(k) \/ Score(k) \/ OpenTarget(k) \/ Analyze(k) \/ Kill(k)
    BY <2>1 DEF Begin, Score, OpenTarget, Analyze, Kill
  <2>2. CASE RunFails(k) \/ Weigh(k) \/ Handle(k)
    BY <2>2 DEF RunFails, Weigh, Handle, Raise
  <2>3. CASE WriteNew(k)
    BY <2>3 DEF WriteNew, Raise, Advance
  <2>4. CASE WriteFails(k) \/ Observe(k)
    BY <2>4 DEF WriteFails, Observe, Raise
  <2> QED
    BY <2>1, <2>2, <2>3, <2>4 DEF Runner
<1>4. \A q \in Runners \ {k} : Ahead(q)' = Ahead(q)
  BY <1>1, <1>3 DEF Ahead
<1> QED
  BY <1>1, <1>2, <1>3, <1>4

(* What the one runner of EXP-001 keeps for itself, undisturbed. *)
Sole(r) ==
  /\ Active(r) /\ Early(r) => Fresh
  /\ pc[r] = "handle" => Fresh \/ Settled
  /\ pc[r] \in {"write", "observe"} => author["observation"] = "none"
  /\ pc[r] = "write" => \A f \in Ahead(r) : author[f] = "none"
  /\ pc[r] \in Ended => Settled

(* While nobody runs, either nothing was made or it is settled. *)
LEMMA IdleOrSettled ==
  ASSUME IInv, SoleRunner, Handles, disturbed = "no", \A q \in Runners : ~Active(q)
  PROVE  Fresh \/ Settled
<1> SUFFICES ASSUME NEW f \in Files, author[f] # "none" PROVE Settled
  BY DEF Fresh
<1>1. PICK q \in Runners : author[f] = q
  BY DEF IInv, TypeOK
<1>2. ~Early(q)
  BY <1>1 DEF IInv, LocalOK
<1>3. pc[q] \in Ended
  BY <1>2 DEF Early, Active
<1> QED
  BY <1>3 DEF SoleRunner

LEMMA SoleActor ==
  ASSUME IInv, NEW k \in Runners, Runner(k), Handles, disturbed' = "no"
  PROVE  (\A q \in Runners \ {k} : ~Active(q)) /\ Sole(k)'
<1>1. program' = program /\ disturbed = "no" /\ ~Kill(k) /\ ~WriteFails(k)
  BY RunnerLocal
<1>2. SoleRunner /\ pc \in [Runners -> Ended \cup {"idle", "score", "read", "reading", "weigh", "handle", "write", "observe"}]
      /\ program \in Programs /\ author \in [Files -> Runners \cup {"none"}] /\ step \in [Runners -> 1 .. 9]
  BY DEF IInv, TypeOK
<1>3. CASE Begin(k)
  <2>1. \A q \in Runners : ~Active(q)
    BY <1>1, <1>3 DEF Begin
  <2>2. Fresh \/ Settled
    BY <1>1, <1>2, <2>1, IdleOrSettled
  <2>3. author' = author /\ pc' = [pc EXCEPT ![k] = IF author["package"] # "none" THEN "refused" ELSE "score"]
    BY <1>3 DEF Begin, Go
  <2>4. (Fresh' <=> Fresh) /\ (Settled' <=> Settled)
    BY <2>3 DEF Fresh, Settled
  <2>5. CASE author["package"] # "none"
    <3>1. Settled /\ pc'[k] = "refused"
      BY <1>2, <2>2, <2>3, <2>5 DEF Fresh, Files
    <3> QED
      BY <2>1, <2>4, <3>1 DEF Sole, Active, Early, Ended
  <2>6. CASE author["package"] = "none"
    <3>1. Fresh /\ pc'[k] = "score"
      BY <1>2, <2>2, <2>3, <2>6 DEF Settled
    <3> QED
      BY <2>1, <2>4, <3>1 DEF Sole, Active, Early, Ended
  <2> QED
    BY <2>5, <2>6
<1>4. CASE ~Begin(k)
  <2>1. Active(k)
    BY <1>4 DEF Runner, Score, OpenTarget, Analyze, RunFails, Weigh, Handle, WriteNew, WriteFails,
       Observe, Kill, Active, Ended
  <2>2. \A q \in Runners \ {k} : ~Active(q)
    BY <1>1, <1>2, <2>1 DEF SoleRunner
  <2>3. /\ Early(k) => Fresh
        /\ pc[k] = "handle" => Fresh \/ Settled
        /\ pc[k] \in {"write", "observe"} => author["observation"] = "none"
        /\ pc[k] = "write" => \A f \in Ahead(k) : author[f] = "none"
    BY <1>1, <1>2, <2>1 DEF SoleRunner
  <2>4. Early(k) => mode[k] = "result" /\ step[k] = 1
    BY DEF IInv, LocalOK, Early
  <2>5. UNCHANGED author => (Fresh' <=> Fresh) /\ (Settled' <=> Settled)
    BY DEF Fresh, Settled
  <2>6. CASE Score(k) \/ OpenTarget(k) \/ Analyze(k) \/ RunFails(k)
    <3>1. Early(k) /\ UNCHANGED author /\ pc'[k] \in {"read", "reading", "weigh", "handle"}
      BY <1>2, <2>4, <2>6 DEF Score, OpenTarget, Analyze, RunFails, Raise, Go, Early
    <3> QED
      BY <2>2, <2>3, <2>5, <3>1 DEF Sole, Ended
  <2>7. CASE Weigh(k)
    <3>1. Early(k) /\ UNCHANGED author /\ pc'[k] \in {"write", "handle"}
      BY <1>2, <2>4, <2>7 DEF Weigh, Raise, Go, Early
    <3>2. Fresh' /\ Ahead(k)' \subseteq Files
      <4>1. UNCHANGED <<program, step, mode>>
        BY <2>4, <2>7, <3>1 DEF Weigh, Raise
      <4>2. \A i \in step[k] .. Len(Plan(program, mode[k])) : Plan(program, mode[k])[i] \in Files
        BY <2>4, <3>1, PlanFacts DEF IInv, TypeOK
      <4> QED
        BY <2>3, <2>5, <3>1, <4>1, <4>2 DEF Ahead
    <3> QED
      BY <2>2, <3>1, <3>2 DEF Sole, Early, Ended, Fresh, Files
  <2>8. CASE Handle(k)
    <3>1. UNCHANGED <<program, author>> /\ pc[k] = "handle"
      BY <2>8 DEF Handle
    <3>2. CASE author["package"] # "none"
      <4>1. pc'[k] = "raised" /\ Settled
        BY <1>2, <2>3, <2>8, <3>1, <3>2 DEF Handle, Go, Fresh, Files
      <4> QED
        BY <2>2, <2>5, <3>1, <4>1 DEF Sole, Early, Active, Ended
    <3>3. CASE author["package"] = "none"
      <4>1. pc'[k] = "write" /\ mode'[k] = "failure" /\ step'[k] = 1 /\ Fresh
        BY <1>2, <2>3, <2>8, <3>1, <3>3 DEF IInv, TypeOK, Handle, Go, Settled
      <4>2. \A i \in 1 .. Len(Plan(program, "failure")) : Plan(program, "failure")[i] \in Files
        BY <1>2, PlanFacts DEF Modes
      <4>3. Ahead(k)' \subseteq Files
        BY <3>1, <4>1, <4>2 DEF Ahead
      <4> QED
        BY <2>2, <2>5, <3>1, <4>1, <4>3 DEF Sole, Early, Ended, Fresh, Files
    <3> QED
      BY <3>2, <3>3
  <2>9. CASE WriteNew(k)
    <3>1. pc[k] = "write" /\ UNCHANGED program
      BY <2>9 DEF WriteNew
    <3>2. File(k) \in Ahead(k) /\ File(k) \in Files \ {"observation"} /\ author[File(k)] = "none"
          /\ author["observation"] = "none"
      BY <2>3, <3>1, AheadFacts
    <3>3. CASE Put(k, File(k)) /\ Advance(k) /\ UNCHANGED mode
      <4>1. author' = [author EXCEPT ![File(k)] = k] /\ author'["observation"] = "none"
        BY <1>2, <3>2, <3>3 DEF Put, Files
      <4>2. CASE step[k] = Len(Plan(program, mode[k]))
        <5>1. pc'[k] = "returned" /\ File(k) = "manifest" /\ author["package"] # "none"
          BY <1>2, <3>1, <3>3, <4>2, WriterFacts DEF Advance, Go
        <5>2. Settled'
          BY <1>2, <4>1, <5>1 DEF Settled, Files
        <5> QED
          BY <2>2, <5>1, <5>2 DEF Sole, Early, Active, Ended
      <4>3. CASE step[k] # Len(Plan(program, mode[k]))
        <5>1. pc'[k] = "write" /\ step'[k] = step[k] + 1
          BY <1>2, <3>1, <3>3, <4>3 DEF Advance
        <5>2. Ahead(k)' \subseteq Ahead(k) \ {File(k)} /\ Ahead(k) \subseteq Files
          BY <3>1, <3>3, <5>1, AheadFacts
        <5>3. \A f \in Ahead(k)' : author'[f] = "none"
          BY <1>2, <2>3, <3>1, <4>1, <5>2
        <5> QED
          BY <2>2, <4>1, <5>1, <5>3 DEF Sole, Early, Active, Ended
      <4> QED
        BY <4>2, <4>3
    <3>4. CASE Go(k, "observe") /\ UNCHANGED author
      <4>1. pc'[k] = "observe"
        BY <1>2, <3>4 DEF Go
      <4> QED
        BY <2>2, <3>2, <3>4, <4>1 DEF Sole, Early, Active, Ended
    <3> QED
      BY <2>9, <3>2, <3>3, <3>4 DEF WriteNew
  <2>10. CASE Observe(k)
    <3>1. pc[k] = "observe" /\ Put(k, "observation") /\ pc'[k] \in {"handle", "returned"}
      BY <1>1, <1>2, <2>10 DEF Observe, Go
    <3>2. author["package"] # "none"
      BY <3>1 DEF IInv, LocalOK
    <3>3. Settled'
      BY <1>2, <3>1, <3>2, RunnersAssumption DEF Put, Settled, Files
    <3> QED
      BY <2>2, <3>1, <3>3 DEF Sole, Early, Active, Ended
  <2> QED
    BY <1>1, <1>4, <2>6, <2>7, <2>8, <2>9, <2>10 DEF Runner
<1> QED
  BY <1>3, <1>4

LEMMA SoleStep ==
  ASSUME IInv, [Next]_vars
  PROVE  SoleRunner'
<1>1. ASSUME NEW k \in Runners, Runner(k) PROVE SoleRunner'
  <2> SUFFICES ASSUME Handles', disturbed' = "no"
               PROVE  /\ \A r, q \in Runners : Active(r)' /\ Active(q)' => r = q
                      /\ \A r \in Runners :
                           /\ (Active(r) /\ Early(r) => Fresh)'
                           /\ (pc[r] = "handle" => Fresh \/ Settled)'
                           /\ (pc[r] \in {"write", "observe"} => author["observation"] = "none")'
                           /\ (pc[r] = "write" => \A f \in Ahead(r) : author[f] = "none")'
                           /\ (pc[r] \in Ended => Settled \/ \E q \in Runners : Active(q))'
    BY DEF SoleRunner
  <2>1. Handles
    BY <1>1, RunnerLocal DEF Handles
  <2>2. (\A q \in Runners \ {k} : ~Active(q)) /\ Sole(k)'
    BY <1>1, <2>1, SoleActor
  <2>3. \A q \in Runners \ {k} : ~Active(q)' /\ pc'[q] \notin {"handle", "write", "observe"}
    BY <1>1, <2>2, RunnerLocal DEF Active, Ended
  <2>4. Active(k)' \/ pc'[k] \in Ended
    BY <1>1, RunnerLocal DEF Active
  <2>5. Settled' \/ \E q \in Runners : Active(q)'
    BY <2>2, <2>4 DEF Sole
  <2> QED
    BY <2>2, <2>3, <2>5 DEF Sole
<1>2. CASE UNCHANGED vars
  BY <1>2 DEF IInv, vars, locals, SoleRunner, Handles, Active, Early, Fresh, Settled, Ahead
<1> QED
  BY <1>1, <1>2 DEF Next

(* EXP-002: the score asset goes to one runner, and the others end with it. *)
LEMMA AssetActor ==
  ASSUME IInv, NEW k \in Runners, Runner(k), ~Handles, disturbed' = "no"
  PROVE  AssetDecides'
<1>1. program' = program /\ disturbed = "no" /\ ~Kill(k) /\ ~WriteFails(k) /\ ~Handles'
  BY RunnerLocal DEF Handles
<1>2. /\ pc \in [Runners -> Ended \cup {"idle", "score", "read", "reading", "weigh", "handle", "write", "observe"}]
      /\ program \in {"exp002", "auto"} /\ program \in Programs /\ mode \in [Runners -> Modes]
      /\ author \in [Files -> Runners \cup {"none"}] /\ step \in [Runners -> 1 .. 9]
  BY DEF IInv, TypeOK, Programs, Handles
<1>3. /\ \A f \in Files : author[f] # "none" => author["external"] = author[f]
      /\ author["external"] # "none" =>
           \/ author["manifest"] # "none"
           \/ pc[author["external"]] = "write" /\ step[author["external"]] > 1
      /\ \A r \in Runners :
           /\ pc[r] = "write" /\ step[r] > 1 => \A f \in Ahead(r) : author[f] = "none"
           /\ pc[r] \in Ended => author["external"] # "none"
  BY <1>1 DEF IInv, AssetDecides
<1>4. \A q \in Runners \ {k} : /\ pc'[q] = pc[q] /\ mode'[q] = mode[q] /\ step'[q] = step[q]
                               /\ Ahead(q)' = Ahead(q)
  BY RunnerLocal
<1>5. "external" \in Files /\ "package" \in Files /\ "manifest" \in Files
  BY DEF Files
<1>6. \A q \in Runners : pc[q] = "write" /\ step[q] > 1 => author["external"] = q
  <2> SUFFICES ASSUME NEW q \in Runners, pc[q] = "write", step[q] > 1
               PROVE  author["external"] = q
    OBVIOUS
  <2>1. Plan(program, mode[q])[1] = "external"
    BY <1>2, PlanOrder
  <2>2. 1 \in 1 .. step[q] - 1
    BY <1>2
  <2> QED
    BY <2>1, <2>2 DEF IInv, StepsDone
<1>7. ASSUME UNCHANGED author, author["external"] # k,
             pc'[k] = "write" => step'[k] = 1,
             pc'[k] \in Ended => author["external"] # "none"
      PROVE  AssetDecides'
  BY <1>2, <1>3, <1>4, <1>5, <1>7 DEF AssetDecides
<1>8. Early(k) => step[k] = 1 /\ author["external"] # k
  BY <1>5 DEF IInv, LocalOK
<1>9. CASE Begin(k)
  <2>1. UNCHANGED author /\ Early(k)
    BY <1>9 DEF Begin, Early
  <2>2. pc'[k] \in {"score", "refused"}
    BY <1>2, <1>9 DEF Begin, Go
  <2>3. pc'[k] = "refused" => author["external"] # "none"
    BY <1>1, <1>2, <1>3, <1>5, <1>9 DEF Begin, Go, Handles
  <2> QED
    BY <1>7, <1>8, <2>1, <2>2, <2>3 DEF Ended
<1>10. CASE Score(k) \/ OpenTarget(k) \/ Analyze(k) \/ RunFails(k) \/ Weigh(k)
  <2>1. UNCHANGED author /\ Early(k)
    BY <1>10 DEF Score, OpenTarget, Analyze, RunFails, Weigh, Early
  <2>2. step' = step /\ pc'[k] \in {"read", "reading", "weigh", "write"}
    BY <1>1, <1>2, <1>10 DEF Score, OpenTarget, Analyze, RunFails, Weigh, Raise, Go
  <2> QED
    BY <1>7, <1>8, <2>1, <2>2 DEF Ended
<1>11. CASE WriteNew(k)
  <2>1. pc[k] = "write" /\ step[k] \in 1 .. 9 /\ Len(Plan(program, mode[k])) = 9
        /\ Plan(program, mode[k])[1] = "external"
    BY <1>2, <1>11, PlanOrder DEF WriteNew
  <2>2. File(k) \in Ahead(k) /\ Ahead(k) \subseteq Files /\ File(k) \in Files
    BY <2>1, AheadFacts
  <2>3. step[k] = 1 <=> File(k) = "external"
    <3>1. \A i \in 1 .. 9 : Plan(program, mode[k])[i] = "external" => i = 1
      BY <1>2, <2>1, PlanOrder
    <3> QED
      BY <2>1, <3>1 DEF File
  <2>4. author["manifest"] # k
    BY <2>1 DEF IInv, LocalOK
  <2>5. CASE author[File(k)] = "none" /\ Put(k, File(k)) /\ Advance(k) /\ UNCHANGED mode
    <3>1. author' = [author EXCEPT ![File(k)] = k]
      BY <2>5 DEF Put
    <3>2. author'["external"] = k /\ (\A f \in Files : author'[f] # "none" => author'[f] = k)
          /\ \A f \in Ahead(k) \ {File(k)} : author'[f] = "none"
      <4>1. CASE step[k] = 1
        BY <1>2, <1>3, <1>5, <2>2, <2>3, <2>5, <3>1, <4>1
      <4>2. CASE step[k] # 1
        <5>1. author["external"] = k
          BY <1>6, <2>1, <4>2
        <5> QED
          BY <1>2, <1>3, <1>5, <2>1, <2>2, <2>3, <3>1, <4>2, <5>1
      <4> QED
        BY <4>1, <4>2
    <3>3. \A q \in Runners \ {k} : ~(pc[q] = "write" /\ step[q] > 1)
      <4>1. author["external"] \in {"none", k}
        <5>1. CASE File(k) = "external"
          BY <2>5, <5>1
        <5>2. CASE File(k) # "external"
          BY <1>2, <1>5, <3>1, <3>2, <5>2
        <5> QED
          BY <5>1, <5>2
      <4> QED
        BY <1>6, <4>1, RunnersAssumption
    <3>4. CASE step[k] = 9
      <4>1. pc'[k] = "returned" /\ File(k) = "manifest" /\ author'["manifest"] = k
        BY <1>2, <1>5, <2>1, <2>5, <3>1, <3>4, WriterFacts DEF Advance, Go
      <4> QED
        BY <1>2, <1>4, <1>5, <3>2, <3>3, <4>1, RunnersAssumption DEF AssetDecides
    <3>5. CASE step[k] # 9
      <4>1. pc'[k] = "write" /\ step'[k] = step[k] + 1 /\ step'[k] > 1
        BY <1>2, <2>1, <2>5, <3>5 DEF Advance
      <4>2. Ahead(k)' \subseteq Ahead(k) \ {File(k)}
        BY <1>1, <2>1, <2>5, <4>1, AheadFacts
      <4> QED
        BY <1>2, <1>4, <1>5, <3>2, <3>3, <4>1, <4>2, RunnersAssumption DEF AssetDecides, Ended
    <3> QED
      BY <3>4, <3>5
  <2>6. CASE author[File(k)] # "none" /\ Raise(k) /\ UNCHANGED <<step, author, stated>>
    <3>1. step[k] = 1
      BY <1>3, <2>1, <2>2, <2>6
    <3>2. author["external"] # "none"
      BY <2>3, <2>6, <3>1
    <3>3. author["external"] # k
      <4> SUFFICES ASSUME author["external"] = k PROVE FALSE
        OBVIOUS
      <4>1. author["manifest"] # "none"
        BY <1>3, <3>1, <3>2
      <4> QED
        BY <1>3, <1>5, <2>4, <4>1
    <3>4. pc'[k] = "raised"
      BY <1>2, <1>1, <2>1, <2>6 DEF Raise, Go
    <3> QED
      BY <1>7, <2>6, <3>2, <3>3, <3>4
  <2> QED
    BY <1>1, <1>2, <1>11, <2>5, <2>6 DEF WriteNew
<1>12. ~Handle(k) /\ ~Observe(k)
  BY <1>2 DEF IInv, LocalOK, Handle, Observe
<1> QED
  BY <1>1, <1>9, <1>10, <1>11, <1>12 DEF Runner

LEMMA AssetStep ==
  ASSUME IInv, [Next]_vars
  PROVE  AssetDecides'
<1>1. ASSUME NEW k \in Runners, Runner(k) PROVE AssetDecides'
  <2>1. CASE Handles' \/ disturbed' # "no"
    BY <2>1 DEF AssetDecides
  <2>2. CASE ~Handles' /\ disturbed' = "no"
    <3>1. ~Handles
      BY <1>1, <2>2, RunnerLocal DEF Handles
    <3> QED
      BY <1>1, <2>2, <3>1, AssetActor
  <2> QED
    BY <2>1, <2>2
<1>2. CASE UNCHANGED vars
  BY <1>2 DEF IInv, vars, locals, AssetDecides, Handles, Ahead
<1> QED
  BY <1>1, <1>2 DEF Next

(* A call keeps the whole invariant; so does a step that changes nothing. *)
LEMMA InvariantStep ==
  ASSUME IInv, [Next]_vars
  PROVE  IInv'
<1>1. CASE Next
  <2>1. PICK r \in Runners : Runner(r)
    BY <1>1 DEF Next
  <2> QED BY <2>1, TypeStep, AuthorStep, StepsStep, LocalStep, PackageStep, SoleStep,
             AssetStep DEF IInv
<1>2. CASE UNCHANGED vars
  BY <1>2, SoleStep, AssetStep DEF IInv, TypeOK, PublishedByOne, StepsDone, LocalOK, PackageFirst, vars, locals, Early, Handles
<1> QED BY <1>1, <1>2

LEMMA InvariantInit ==
  ASSUME Init
  PROVE  IInv
<1>1. TypeOK
  BY DEF Init, TypeOK, Modes, Files
<1>2. LocalOK
  BY DEF Init, LocalOK, Early, Handles, Files
<1>3. PublishedByOne /\ StepsDone /\ PackageFirst
  BY DEF Init, PublishedByOne, StepsDone, PackageFirst, Files
<1>4. SoleRunner /\ AssetDecides
  BY DEF Init, SoleRunner, AssetDecides, Active, Fresh, Files, Ended
<1> QED BY <1>1, <1>2, <1>3, <1>4 DEF IInv

(* The invariant of the runners: however many calls for one run id overlap,
   fail or are killed, the files of a package and the states of the calls
   stay in step.                                                            *)
THEOREM ExperimentInductive == Spec => []IInv
<1>1. Init => IInv
  BY InvariantInit
<1>2. IInv /\ [Next]_vars => IInv'
  BY InvariantStep
<1> QED BY <1>1, <1>2, PTL DEF Spec

(* Of overlapping calls for one run id one publishes, and every file of its
   package is its own: _write_new and mkdir refuse the files of the others. *)
THEOREM ExperimentPublishedByOne == Spec => []PublishedByOne
<1>1. IInv => PublishedByOne
  BY DEF IInv
<1> QED BY <1>1, ExperimentInductive, PTL

(* Calls that nothing disturbs leave a publication, or R3's record that there
   is none, when the last of them has ended, whether they were run one after
   the other or, for EXP-002, at once.                                      *)
THEOREM ExperimentUndisturbedPublishes == Spec => []UndisturbedPublishes
<1>1. IInv => UndisturbedPublishes
  <2> SUFFICES ASSUME IInv, disturbed = "no", \A r \in Runners : ~Active(r),
                      NEW r \in Runners, pc[r] # "idle"
               PROVE  author["manifest"] # "none" \/ author["observation"] # "none"
    BY DEF UndisturbedPublishes
  <2>1. pc[r] \in Ended
    BY DEF Active
  <2>2. CASE Handles
    BY <2>1, <2>2 DEF IInv, SoleRunner, Settled
  <2>3. CASE ~Handles
    <3>1. author["external"] # "none"
      BY <2>1, <2>3 DEF IInv, AssetDecides
    <3>2. author["external"] \in Runners
      BY <3>1 DEF IInv, TypeOK, Files
    <3>3. pc[author["external"]] # "write"
      BY <3>2 DEF Active, Ended
    <3> QED
      BY <2>3, <3>1, <3>3 DEF IInv, AssetDecides
  <2> QED BY <2>2, <2>3
<1> QED BY <1>1, ExperimentInductive, PTL

(* Of the publications of a comparative run exactly the results pass their
   verification: a published failure never does, whatever its receipt says.  *)
ResultsVerify ==
  program = "comparative" =>
    \A r \in Runners : author["manifest"] = r => (Verifies <=> mode[r] = "result")

(* Theorem: verify_comparative_publication accepts the results and no failure,
   however the calls for the run id overlapped, failed or were killed.       *)
THEOREM ExperimentResultsVerify == Spec => []ResultsVerify
<1>1. Init => ResultsRead
  BY RunnersAssumption DEF Init, ResultsRead, Files
<1>2. IInv /\ ResultsRead /\ [Next]_vars => ResultsRead'
  <2>1. ASSUME IInv, ResultsRead, UNCHANGED vars PROVE ResultsRead'
    BY <2>1 DEF vars, locals, ResultsRead, Handles
  <2> QED
    BY <2>1, ResultsReadStep DEF Next
<1>3. IInv /\ ResultsRead => ResultsVerify
  <2> SUFFICES ASSUME IInv, ResultsRead, program = "comparative",
                      NEW r \in Runners, author["manifest"] = r
               PROVE  Verifies <=> mode[r] = "result"
    BY DEF ResultsVerify
  <2>1. Verifies => mode[r] = "result"
    BY DEF Verifies
  <2>2. ASSUME mode[r] = "result" PROVE Verifies
    <3>1. reads[r] = 1
      BY <2>2 DEF ResultsRead, Handles
    <3>2. \A f \in Files \ {"package", "observation"} :
            \E i \in 1 .. Len(ComparativePlan("result")) : ComparativePlan("result")[i] = f
      <4>1. /\ Len(ComparativePlan("result")) = 9
            /\ ComparativePlan("result")[1] = "external" /\ ComparativePlan("result")[3] = "index"
            /\ ComparativePlan("result")[4] = "statistic" /\ ComparativePlan("result")[5] = "sealed"
            /\ ComparativePlan("result")[6] = "recovery" /\ ComparativePlan("result")[7] = "receipt"
            /\ ComparativePlan("result")[8] = "report" /\ ComparativePlan("result")[9] = "manifest"
        BY DEF ComparativePlan
      <4> HIDE DEF ComparativePlan
      <4> QED
        BY <4>1 DEF Files
    <3>3. \A i \in 1 .. Len(ComparativePlan("result")) :
            ComparativePlan("result")[i] # "package" => author[ComparativePlan("result")[i]] = r
      BY <2>2 DEF IInv, PublishedByOne, Plan
    <3>4. \A f \in Files \ {"package", "observation"} : author[f] = r
      BY <3>2, <3>3
    <3> QED
      BY <2>2, <3>1, <3>4 DEF Verifies
  <2> QED
    BY <2>1, <2>2
<1> QED
  BY <1>1, <1>2, <1>3, ExperimentInductive, PTL DEF Spec

(* The access record of a package never says that the sealed targets were
   left alone when its author's one-shot reader was called, nor that they
   were read when it was not.                                             *)
THEOREM ExperimentNoReadIsHidden == Spec => []NoReadIsHidden
<1>1. Init => NoReadIsHidden
  BY DEF Init, NoReadIsHidden, Files
<1>2. IInv /\ NoReadIsHidden /\ [Next]_vars => NoReadIsHidden'
  <2>1. CASE UNCHANGED vars
    BY <2>1 DEF NoReadIsHidden, vars, locals
  <2>2. ASSUME IInv, NoReadIsHidden, Next
        PROVE  NoReadIsHidden'
    BY <2>2, ReadStep DEF Next
  <2> QED BY <2>1, <2>2
<1> QED BY <1>1, <1>2, ExperimentInductive, PTL DEF Spec

(* The terminals on file, and the one that the manifest names. *)
Recorded  == {mode[r] : r \in {q \in Runners : author["statistic"] = q}}
Published == IF author["manifest"] = "none" THEN "absent" ELSE mode[author["manifest"]]

LEMMA LedgerStep ==
  ASSUME IInv, NEW r \in Runners, Runner(r)
  PROVE  \/ Recorded' = Recorded /\ Published' = Published
         \/ mode[r] \in Modes /\ Recorded' = Recorded \cup {mode[r]} /\ Published' = Published
         \/ mode[r] \in Modes /\ Recorded = {mode[r]} /\ Recorded' = Recorded
            /\ Published = "absent" /\ Published' = mode[r]
<1>0. /\ author \in [Files -> Runners \cup {"none"}] /\ mode \in [Runners -> Modes]
      /\ "statistic" \in Files /\ "manifest" \in Files /\ "report" \in Files
  BY DEF IInv, TypeOK, Files
<1>4. CASE ~(WriteNew(r) \/ WriteFails(r) \/ Observe(r))
  <2>1. /\ author' = author
        /\ \A q \in Runners : author["statistic"] = q \/ author["manifest"] = q => mode'[q] = mode[q]
    BY <1>4, ModeStep
  <2>2. Recorded' = Recorded
    BY <2>1 DEF Recorded
  <2>3. Published' = Published
    BY <1>0, <2>1 DEF Published
  <2> QED BY <2>2, <2>3
<1>9. CASE WriteNew(r) \/ WriteFails(r) \/ Observe(r)
  <2>1. /\ pc[r] \in {"write", "observe"} /\ UNCHANGED <<program, mode, access, reads>>
        /\ \/ author' = author /\ stated' = stated
           \/ \E f \in Files : Makes(r, f)
           \/ Withdraws(r)
    BY <1>9, WriterMoves
  <2>2. CASE author'["statistic"] = author["statistic"] /\ author'["manifest"] = author["manifest"]
    BY <2>1, <2>2 DEF Recorded, Published
  <2>3. CASE \E f \in Files : Makes(r, f)
    <3>1. PICK f \in Files : Makes(r, f)
      BY <2>3
    <3>2. author[f] = "none" /\ author' = [author EXCEPT ![f] = r]
      BY <3>1 DEF Makes
    <3>3. CASE f = "statistic"
      <4>1. author'["statistic"] = r /\ author'["manifest"] = author["manifest"]
        BY <1>0, <3>2, <3>3
      <4>2. Recorded = {} /\ Recorded' = {mode[r]}
        BY <1>0, <2>1, <3>2, <3>3, <4>1 DEF Recorded
      <4>3. Published' = Published
        BY <2>1, <4>1 DEF Published
      <4> QED BY <1>0, <4>2, <4>3
    <3>4. CASE f = "manifest"
      <4>1. author["statistic"] = r
        <5>1. pc[r] = "write" /\ File(r) = "manifest"
          BY <3>1, <3>4 DEF Makes
        <5> QED BY <5>1, WriterFacts
      <4>2. author'["manifest"] = r /\ author'["statistic"] = r
        BY <1>0, <3>2, <3>4, <4>1
      <4>3. Recorded = {mode[r]} /\ Recorded' = {mode[r]}
        BY <2>1, <4>1, <4>2 DEF Recorded
      <4>4. Published = "absent" /\ Published' = mode[r]
        BY <2>1, <3>2, <3>4, <4>2 DEF Published
      <4> QED BY <1>0, <4>3, <4>4
    <3>5. CASE f \notin {"statistic", "manifest"}
      BY <1>0, <2>2, <3>2, <3>5
    <3> QED BY <3>3, <3>4, <3>5
  <2>4. CASE Withdraws(r)
    <3>1. author'["statistic"] = author["statistic"] /\ author'["manifest"] = author["manifest"]
      BY <1>0, <2>4 DEF Withdraws
    <3> QED BY <2>2, <3>1
  <2>5. CASE author' = author
    BY <2>2, <2>5
  <2> QED BY <2>1, <2>3, <2>4, <2>5
<1> QED BY <1>4, <1>9

(* The package implements the ledger of terminals: statistical-result.json
   keeps the terminal it was written with, and the manifest names that one,
   once, whichever of the overlapping calls wrote it.                       *)
THEOREM ExperimentImplementsLedger == Spec => ImplementsLedger
<1> DEFINE R == Recorded
           P == Published
<1>1. Init => R = {} /\ P = "absent"
  BY DEF Init, Recorded, Published, Files
<1>2. ASSUME IInv, [Next]_vars
      PROVE  \/ \E k \in Modes :
                  \/ R' = R \cup {k} /\ P' = P
                  \/ P = "absent" /\ R = {k} /\ P' = k /\ R' = R
             \/ <<R, P>>' = <<R, P>>
  <2>1. CASE Next
    <3>1. PICK r \in Runners : Runner(r)
      BY <2>1 DEF Next
    <3> DEFINE k == mode[r]
    <3>2. \/ R' = R /\ P' = P
          \/ k \in Modes /\ R' = R \cup {k} /\ P' = P
          \/ k \in Modes /\ R = {k} /\ R' = R /\ P = "absent" /\ P' = k
      BY <1>2, <3>1, LedgerStep
    <3> HIDE DEF R, P, k
    <3> QED BY <3>2
  <2>2. CASE UNCHANGED vars
    BY <2>2 DEF Recorded, Published, vars, locals
  <2> QED BY <1>2, <2>1, <2>2
<1>3. Init => Ledger!Init
  BY <1>1 DEF Ledger!Init, Recorded, Published
<1>4. IInv /\ [Next]_vars => [Ledger!Next]_Ledger!vars
  BY <1>2 DEF Ledger!Next, Ledger!Record, Ledger!Publish, Ledger!vars, Recorded, Published
<1> QED BY <1>3, <1>4, ExperimentInductive, PTL DEF Spec, ImplementsLedger, Ledger!Spec
=============================================================================
