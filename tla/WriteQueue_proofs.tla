--------------------------- MODULE WriteQueue_proofs ---------------------------
(***************************************************************************)
(* For any set of writes, any number of retries and any breaker threshold: *)
(* the safety invariants of the write queue, its two action properties,    *)
(* and that its steps implement OrderedWrites.                             *)
(*                                                                         *)
(* The argument rests on Unsettled, the write in hand followed by the      *)
(* pending ones.  An Enqueue appends to it, a settling run takes its head, *)
(* every other step leaves it as it is, however the runner moves the head  *)
(* between `current` and `pending`.  It holds every waiting write once.    *)
(***************************************************************************)
EXTENDS WriteQueue, SequenceTheorems, TLAPS

InSeq(t, s) == \E i \in 1..Len(s) : s[i] = t
Distinct(s) == \A i, j \in 1..Len(s) : s[i] = s[j] => i = j

\* Where the runner holds a write, and when it sleeps on an empty queue.
Shape ==
  /\ current = NoTask <=> pc \in {"idle", "cooling", "loop"}
  /\ pc = "idle" => pending = <<>>
  /\ pc = "cooling" => pending # <<>>

\* The waiting writes are the unsettled ones, each there once.
Queue ==
  /\ Distinct(Unsettled)
  /\ \A t \in Tasks : outcome[t] = "waiting" <=> InSeq(t, Unsettled)

\* The row of a run whose answer is not in yet.
Committed(t) == IF pc = "committed" /\ current = t THEN 1 ELSE 0

\* How often a write ran and was applied, by what its promise has done.
Counts ==
  \A t \in Tasks :
    /\ outcome[t] = "new" => attempts[t] = 0 /\ rows[t] = 0
    /\ outcome[t] = "waiting" =>
         /\ attempts[t] <= MaxRetries
         /\ rows[t] <= attempts[t] + Committed(t)
         /\ Committed(t) <= rows[t]
    /\ outcome[t] = "written" =>
         /\ attempts[t] <= MaxRetries
         /\ rows[t] \in 1..(attempts[t] + 1)
    /\ outcome[t] = "dead" =>
         /\ attempts[t] = MaxRetries + 1
         /\ rows[t] <= attempts[t]

Inv == TypeOK /\ Shape /\ Queue /\ Counts

-----------------------------------------------------------------------------
(* Sequences.                                                               *)

\* Putting a write in front, and taking it away again.
LEMMA ConsProperties ==
  ASSUME NEW S, NEW s \in Seq(S), NEW x \in S
  PROVE  /\ <<x>> \o s \in Seq(S)
         /\ <<x>> \o s # <<>>
         /\ Head(<<x>> \o s) = x
         /\ Tail(<<x>> \o s) = s
<1>1. <<x>> \in Seq(S) /\ Len(<<x>>) = 1 /\ <<x>>[1] = x
  OBVIOUS
<1>2. /\ <<x>> \o s \in Seq(S)
      /\ Len(<<x>> \o s) = 1 + Len(s)
      /\ \A i \in 1..(1 + Len(s)) :
           (<<x>> \o s)[i] = IF i <= 1 THEN <<x>>[i] ELSE s[i - 1]
  BY <1>1, ConcatProperties
<1>3. Len(s) \in Nat
  BY LenProperties
<1>4. <<x>> \o s # <<>>
  BY <1>2, <1>3, EmptySeq
<1>5. Head(<<x>> \o s) = x
  BY <1>1, <1>2, <1>3
<1>6. Tail(<<x>> \o s) = s
  <2>1. /\ Tail(<<x>> \o s) \in Seq(S)
        /\ Len(Tail(<<x>> \o s)) = Len(s)
        /\ \A i \in 1..Len(s) : Tail(<<x>> \o s)[i] = (<<x>> \o s)[i + 1]
    BY <1>2, <1>3, <1>4, HeadTailProperties
  <2>2. \A i \in 1..Len(s) : Tail(<<x>> \o s)[i] = s[i]
    BY <1>2, <1>3, <2>1
  <2> QED
    BY <2>1, <2>2, SeqEqual
<1> QED
  BY <1>2, <1>4, <1>5, <1>6

LEMMA ConsHeadTail ==
  ASSUME NEW S, NEW s \in Seq(S), s # <<>>
  PROVE  <<Head(s)>> \o Tail(s) = s
<1>1. /\ Head(s) \in S /\ Tail(s) \in Seq(S)
      /\ Len(s) \in Nat \ {0} /\ Len(Tail(s)) = Len(s) - 1
      /\ \A i \in 1..Len(Tail(s)) : Tail(s)[i] = s[i + 1]
  BY HeadTailProperties, EmptySeq
<1>2. <<Head(s)>> \in Seq(S) /\ Len(<<Head(s)>>) = 1 /\ <<Head(s)>>[1] = s[1]
  BY <1>1
<1> DEFINE r == <<Head(s)>> \o Tail(s)
<1>3. /\ r \in Seq(S) /\ Len(r) = Len(s)
      /\ \A i \in 1..Len(s) :
           r[i] = IF i <= 1 THEN <<Head(s)>>[i] ELSE Tail(s)[i - 1]
  BY <1>1, <1>2, ConcatProperties
<1>4. \A i \in 1..Len(s) : r[i] = s[i]
  BY <1>1, <1>2, <1>3
<1> QED
  BY <1>3, <1>4, SeqEqual

LEMMA ConsAppend ==
  ASSUME NEW S, NEW s \in Seq(S), NEW x \in S, NEW y \in S
  PROVE  <<x>> \o Append(s, y) = Append(<<x>> \o s, y)
<1>1. <<x>> \in Seq(S) /\ <<y>> \in Seq(S) /\ <<x>> \o s \in Seq(S)
  BY ConcatProperties
<1>2. Append(s, y) = s \o <<y>>
  BY AppendIsConcat
<1>3. Append(<<x>> \o s, y) = (<<x>> \o s) \o <<y>>
  BY <1>1, AppendIsConcat
<1> QED
  BY <1>1, <1>2, <1>3, ConcatAssociative

LEMMA DistinctAppend ==
  ASSUME NEW S, NEW s \in Seq(S), NEW x \in S, Distinct(s), ~InSeq(x, s)
  PROVE  /\ Distinct(Append(s, x))
         /\ \A y : InSeq(y, Append(s, x)) <=> InSeq(y, s) \/ y = x
<1>1. /\ Len(Append(s, x)) = Len(s) + 1 /\ Len(s) \in Nat
      /\ \A i \in 1..Len(s) : Append(s, x)[i] = s[i]
      /\ Append(s, x)[Len(s) + 1] = x
  BY AppendProperties, LenProperties
<1>2. \A i \in 1..(Len(s) + 1) : i \in 1..Len(s) \/ i = Len(s) + 1
  BY <1>1
<1> QED
  BY <1>1, <1>2 DEF Distinct, InSeq

LEMMA DistinctTail ==
  ASSUME NEW S, NEW s \in Seq(S), s # <<>>, Distinct(s)
  PROVE  /\ Distinct(Tail(s))
         /\ \A y : InSeq(y, Tail(s)) <=> InSeq(y, s) /\ y # Head(s)
<1>1. /\ Len(s) \in Nat \ {0} /\ Len(Tail(s)) = Len(s) - 1
      /\ \A i \in 1..Len(Tail(s)) : Tail(s)[i] = s[i + 1]
      /\ Head(s) = s[1]
  BY HeadTailProperties, EmptySeq
<1>2. Distinct(Tail(s))
  BY <1>1 DEF Distinct
<1>3. ASSUME NEW y, InSeq(y, Tail(s)) PROVE InSeq(y, s) /\ y # Head(s)
  <2>1. PICK i \in 1..Len(Tail(s)) : Tail(s)[i] = y
    BY <1>3 DEF InSeq
  <2>2. i + 1 \in 1..Len(s) /\ 1 \in 1..Len(s) /\ s[i + 1] = y /\ i + 1 # 1
    BY <1>1, <2>1
  <2> QED
    BY <1>1, <2>2 DEF InSeq, Distinct
<1>4. ASSUME NEW y, InSeq(y, s), y # Head(s) PROVE InSeq(y, Tail(s))
  <2>1. PICK i \in 1..Len(s) : s[i] = y
    BY <1>4 DEF InSeq
  <2>2. i - 1 \in 1..Len(Tail(s)) /\ Tail(s)[i - 1] = s[i]
    BY <1>1, <1>4, <2>1
  <2> QED
    BY <2>1, <2>2 DEF InSeq
<1> QED
  BY <1>2, <1>3, <1>4

-----------------------------------------------------------------------------
(* What each step does to the unsettled writes.                             *)

LEMMA UnsettledType == TypeOK => Unsettled \in Seq(Tasks)
  BY ConsProperties DEF TypeOK, Unsettled

\* The write in hand is the oldest unsettled one.
LEMMA HeldIsOldest ==
  ASSUME TypeOK, current # NoTask
  PROVE  /\ current \in Tasks
         /\ Unsettled \in Seq(Tasks)
         /\ Unsettled # <<>>
         /\ Head(Unsettled) = current
         /\ Tail(Unsettled) = pending
         /\ InSeq(current, Unsettled)
<1>1. current \in Tasks /\ pending \in Seq(Tasks)
  BY DEF TypeOK
<1>2. /\ Unsettled \in Seq(Tasks)
      /\ Unsettled # <<>>
      /\ Head(Unsettled) = current
      /\ Tail(Unsettled) = pending
  BY <1>1, ConsProperties DEF Unsettled
<1>3. 1 \in 1..Len(Unsettled) /\ Unsettled[1] = current
  BY <1>2, EmptySeq
<1> QED
  BY <1>1, <1>2, <1>3 DEF InSeq

LEMMA StartKeeps ==
  ASSUME NEW q \in Seq(Tasks), q # <<>>, StartHead(q)
  PROVE  /\ Unsettled' = q
         /\ current' \in Tasks /\ current' # NoTask
         /\ pending' \in Seq(Tasks)
         /\ pc' = "running"
<1>1. Head(q) \in Tasks /\ Tail(q) \in Seq(Tasks)
  BY HeadTailProperties
<1>2. current' = Head(q) /\ pending' = Tail(q) /\ pc' = "running"
  BY DEF StartHead
<1>3. Head(q) # NoTask
  BY <1>1, NoTaskAssumption
<1> QED
  BY <1>1, <1>2, <1>3, ConsHeadTail DEF Unsettled

LEMMA LoopTopKeeps ==
  ASSUME NEW q \in Seq(Tasks), LoopTop(q)
  PROVE  /\ Unsettled' = q
         /\ Shape'
         /\ pending' \in Seq(Tasks)
         /\ current' \in Tasks \cup {NoTask}
         /\ pc' \in {"idle", "cooling", "running"}
<1>1. CASE q # <<>> /\ ~paused /\ StartHead(q)
  BY <1>1, StartKeeps DEF Shape
<1>2. CASE q = <<>> /\ pc' = "idle" /\ pending' = q /\ current' = NoTask
  BY <1>2 DEF Shape, Unsettled
<1>3. CASE q # <<>> /\ paused /\ pc' = "cooling" /\ pending' = q
           /\ current' = NoTask
  BY <1>3 DEF Shape, Unsettled
<1> QED
  BY <1>1, <1>2, <1>3 DEF LoopTop

\* A write handed over goes behind all others, whatever the runner does.
LEMMA EnqueueAppends ==
  ASSUME TypeOK, Shape, NEW t \in Tasks, Enqueue(t)
  PROVE  /\ Unsettled' = Append(Unsettled, t)
         /\ Shape'
         /\ pending' \in Seq(Tasks)
         /\ current' \in Tasks \cup {NoTask}
         /\ pc' \in Places
<1>1. pending \in Seq(Tasks) /\ Append(pending, t) \in Seq(Tasks)
      /\ Append(pending, t) # <<>> /\ pc \in Places
  BY AppendProperties DEF TypeOK
<1>2. CASE pc = "idle" /\ LoopTop(Append(pending, t))
  <2>1. Unsettled = pending
    BY <1>2 DEF Shape, Unsettled
  <2> QED
    BY <1>1, <1>2, <2>1, LoopTopKeeps DEF Places
<1>3. CASE pc # "idle" /\ pending' = Append(pending, t)
           /\ UNCHANGED <<current, pc>>
  <2>1. Unsettled' = Append(Unsettled, t)
    BY <1>1, <1>3, ConsAppend DEF Unsettled, TypeOK
  <2> QED
    BY <1>1, <1>3, <2>1 DEF Shape, TypeOK
<1> QED
  BY <1>2, <1>3 DEF Enqueue

\* A run that settles takes the oldest write away.
LEMMA SettlingTakesHead ==
  ASSUME TypeOK, Shape, RunResolves \/ RunDies
  PROVE  /\ current # NoTask
         /\ Unsettled' = Tail(Unsettled)
         /\ Shape'
<1>1. pc \in {"running", "committed"}
  BY DEF RunResolves, RunDies, CountFailure
<1>2. current # NoTask
  BY <1>1 DEF Shape
<1>3. pc' = "loop" /\ current' = NoTask /\ pending' = pending
  BY DEF RunResolves, RunDies
<1>4. Unsettled' = pending /\ Shape'
  BY <1>3 DEF Unsettled, Shape
<1> QED
  BY <1>2, <1>4, HeldIsOldest

\* The other steps move writes between the runner's hand and the queue.
Moves == \/ DatabaseCommits \/ RunRejects \/ BackoffEnds
         \/ LoopResumes \/ CooldownPasses \/ CoolingEnds

LEMMA MovingKeeps ==
  ASSUME TypeOK, Shape, Moves
  PROVE  Unsettled' = Unsettled /\ Shape'
<1>1. CASE DatabaseCommits \/ RunRejects \/ CooldownPasses
  BY <1>1 DEF DatabaseCommits, RunRejects, CountFailure, CooldownPasses,
              Unsettled, Shape
<1>2. CASE BackoffEnds
  <2>1. current # NoTask
    BY <1>2 DEF BackoffEnds, Shape
  <2> QED
    BY <1>2, <2>1 DEF BackoffEnds, Unsettled, Shape
<1>3. CASE LoopResumes
  <2>1. Unsettled = pending
    BY <1>3 DEF LoopResumes, Shape, Unsettled
  <2> QED
    BY <1>3, <2>1, LoopTopKeeps DEF LoopResumes, TypeOK
<1>4. CASE CoolingEnds
  <2>1. Unsettled = pending /\ pending # <<>>
    BY <1>4 DEF CoolingEnds, Shape, Unsettled
  <2>2. Unsettled' = pending /\ current' # NoTask /\ pc' = "running"
    BY <1>4, <2>1, StartKeeps DEF CoolingEnds, TypeOK
  <2> QED
    BY <2>1, <2>2 DEF Shape
<1> QED
  BY <1>1, <1>2, <1>3, <1>4 DEF Moves

-----------------------------------------------------------------------------
(* The invariant.                                                           *)

LEMMA TypeStep ==
  ASSUME TypeOK, Shape, [Next]_vars
  PROVE  TypeOK'
<1>0. pc \in {"running", "committed", "backoff"} => current \in Tasks
  BY DEF Shape, TypeOK
<1>1. ASSUME NEW t \in Tasks, Enqueue(t) PROVE TypeOK'
  <2>1. /\ pending' \in Seq(Tasks)
        /\ current' \in Tasks \cup {NoTask}
        /\ pc' \in Places
    BY <1>1, EnqueueAppends
  <2> QED
    BY <1>1, <2>1 DEF Enqueue, TypeOK
<1>2. CASE DatabaseCommits
  BY <1>0, <1>2 DEF DatabaseCommits, TypeOK, Places
<1>3. CASE RunResolves
  BY <1>0, <1>3 DEF RunResolves, TypeOK, Places
<1>4. CASE RunRejects
  BY <1>0, <1>4 DEF RunRejects, CountFailure, TypeOK, Places
<1>5. CASE RunDies
  BY <1>0, <1>5 DEF RunDies, CountFailure, TypeOK, Places
<1>6. CASE BackoffEnds
  <2>1. <<current>> \o pending \in Seq(Tasks)
    BY <1>0, <1>6, ConsProperties DEF BackoffEnds, TypeOK
  <2> QED
    BY <1>6, <2>1 DEF BackoffEnds, TypeOK, Places
<1>7. CASE LoopResumes
  BY <1>7, LoopTopKeeps DEF LoopResumes, TypeOK, Places
<1>8. CASE CooldownPasses
  BY <1>8 DEF CooldownPasses, TypeOK
<1>9. CASE CoolingEnds
  <2>1. pending \in Seq(Tasks) /\ pending # <<>>
    BY <1>9 DEF CoolingEnds, TypeOK, Shape
  <2> QED
    BY <1>9, <2>1, StartKeeps DEF CoolingEnds, TypeOK, Places
<1>10. CASE UNCHANGED vars
  BY <1>10 DEF vars, TypeOK
<1> QED
  BY <1>1, <1>2, <1>3, <1>4, <1>5, <1>6, <1>7, <1>8, <1>9, <1>10 DEF Next

LEMMA ShapeStep ==
  ASSUME TypeOK, Shape, [Next]_vars
  PROVE  Shape'
<1>1. ASSUME NEW t \in Tasks, Enqueue(t) PROVE Shape'
  BY <1>1, EnqueueAppends
<1>2. CASE RunResolves \/ RunDies
  BY <1>2, SettlingTakesHead
<1>3. CASE Moves
  BY <1>3, MovingKeeps
<1>4. CASE UNCHANGED vars
  BY <1>4 DEF vars, Shape
<1> QED
  BY <1>1, <1>2, <1>3, <1>4 DEF Next, Moves

LEMMA QueueStep ==
  ASSUME TypeOK, Shape, Queue, [Next]_vars
  PROVE  Queue'
<1>0. Unsettled \in Seq(Tasks)
  BY UnsettledType
<1>1. ASSUME NEW t \in Tasks, Enqueue(t) PROVE Queue'
  <2>1. Unsettled' = Append(Unsettled, t)
    BY <1>1, EnqueueAppends
  <2>2. outcome[t] = "new" /\ outcome' = [outcome EXCEPT ![t] = "waiting"]
    BY <1>1 DEF Enqueue
  <2>3. ~InSeq(t, Unsettled)
    BY <2>2 DEF Queue
  <2>4. /\ Distinct(Unsettled')
        /\ \A y : InSeq(y, Unsettled') <=> InSeq(y, Unsettled) \/ y = t
    BY <1>0, <2>1, <2>3, DistinctAppend DEF Queue
  <2> QED
    BY <2>2, <2>4 DEF Queue, TypeOK
<1>2. CASE RunResolves \/ RunDies
  <2>1. current # NoTask /\ Unsettled' = Tail(Unsettled)
    BY <1>2, SettlingTakesHead
  <2>2. Unsettled # <<>> /\ Head(Unsettled) = current /\ current \in Tasks
    BY <2>1, HeldIsOldest
  <2>3. \/ outcome' = [outcome EXCEPT ![current] = "written"]
        \/ outcome' = [outcome EXCEPT ![current] = "dead"]
    BY <1>2 DEF RunResolves, RunDies
  <2>4. /\ Distinct(Unsettled')
        /\ \A y : InSeq(y, Unsettled') <=> InSeq(y, Unsettled) /\ y # current
    BY <1>0, <2>1, <2>2, DistinctTail DEF Queue
  <2>5. ASSUME NEW t \in Tasks
        PROVE  outcome'[t] = "waiting" <=> outcome[t] = "waiting" /\ t # current
    BY <2>2, <2>3 DEF TypeOK
  <2> QED
    BY <2>4, <2>5 DEF Queue
<1>3. CASE Moves
  <2>1. Unsettled' = Unsettled
    BY <1>3, MovingKeeps
  <2>2. outcome' = outcome
    BY <1>3 DEF Moves, DatabaseCommits, RunRejects, BackoffEnds, LoopResumes,
                CooldownPasses, CoolingEnds
  <2> QED
    BY <2>1, <2>2 DEF Queue
<1>4. CASE UNCHANGED vars
  BY <1>4 DEF vars, Queue, Unsettled
<1> QED
  BY <1>1, <1>2, <1>3, <1>4 DEF Next, Moves

\* The write in hand is waiting.
LEMMA HeldIsWaiting ==
  ASSUME TypeOK, Queue, current # NoTask
  PROVE  current \in Tasks /\ outcome[current] = "waiting"
  BY HeldIsOldest DEF Queue

\* Steps that leave the counts and the promises alone, and move neither to
\* nor from "committed".
LEMMA CountsUntouched ==
  ASSUME Counts, UNCHANGED <<attempts, rows, outcome>>,
         pc # "committed", pc' # "committed"
  PROVE  Counts'
  BY DEF Counts, Committed

LEMMA CountsStep ==
  ASSUME TypeOK, Shape, Queue, Counts, [Next]_vars
  PROVE  Counts'
<1> USE MaxRetriesAssumption
<1>1. ASSUME NEW t \in Tasks, Enqueue(t) PROVE Counts'
  <2>1. /\ outcome[t] = "new" /\ outcome' = [outcome EXCEPT ![t] = "waiting"]
        /\ attempts' = attempts /\ rows' = rows
    BY <1>1 DEF Enqueue
  <2>2. \/ pc' # "committed" /\ pc # "committed"
        \/ pc' = pc /\ current' = current
    BY <1>1, LoopTopKeeps, AppendProperties DEF Enqueue, TypeOK
  <2>3. current # t
    BY <2>1, HeldIsWaiting, NoTaskAssumption
  <2>4. \A u \in Tasks : Committed(u)' = Committed(u) /\ Committed(t) = 0
    BY <2>2, <2>3 DEF Committed
  <2> QED
    BY <2>1, <2>4 DEF Counts, TypeOK
<1>2. CASE DatabaseCommits
  <2>1. current \in Tasks /\ outcome[current] = "waiting"
    BY <1>2, HeldIsWaiting DEF DatabaseCommits, Shape
  <2>2. /\ rows' = [rows EXCEPT ![current] = @ + 1]
        /\ pc = "running" /\ pc' = "committed"
        /\ UNCHANGED <<current, attempts, outcome>>
    BY <1>2 DEF DatabaseCommits
  <2> QED
    BY <2>1, <2>2 DEF Counts, Committed, TypeOK
<1>3. CASE RunResolves
  <2>1. current \in Tasks /\ outcome[current] = "waiting"
    BY <1>3, HeldIsWaiting DEF RunResolves, Shape
  <2>2. /\ outcome' = [outcome EXCEPT ![current] = "written"]
        /\ pc = "committed" /\ pc' = "loop"
        /\ UNCHANGED <<attempts, rows>>
    BY <1>3 DEF RunResolves
  <2> QED
    BY <2>1, <2>2 DEF Counts, Committed, TypeOK
<1>4. CASE RunRejects
  <2>1. current \in Tasks /\ outcome[current] = "waiting"
    BY <1>4, HeldIsWaiting DEF RunRejects, CountFailure, Shape
  <2>2. /\ attempts' = [attempts EXCEPT ![current] = @ + 1]
        /\ pc' = "backoff" /\ attempts[current] + 1 <= MaxRetries
        /\ UNCHANGED <<current, rows, outcome>>
    BY <1>4 DEF RunRejects, CountFailure, RetryLeft
  <2> QED
    BY <2>1, <2>2 DEF Counts, Committed, TypeOK
<1>5. CASE RunDies
  <2>1. current \in Tasks /\ outcome[current] = "waiting"
    BY <1>5, HeldIsWaiting DEF RunDies, CountFailure, Shape
  <2>2. /\ attempts' = [attempts EXCEPT ![current] = @ + 1]
        /\ outcome' = [outcome EXCEPT ![current] = "dead"]
        /\ pc' = "loop" /\ attempts[current] + 1 > MaxRetries
        /\ rows' = rows
    BY <1>5, <2>1 DEF RunDies, CountFailure, RetryLeft, TypeOK
  <2> QED
    BY <2>1, <2>2 DEF Counts, Committed, TypeOK
<1>6. CASE BackoffEnds
  BY <1>6, CountsUntouched DEF BackoffEnds
<1>7. CASE LoopResumes
  BY <1>7, CountsUntouched, LoopTopKeeps DEF LoopResumes, TypeOK
<1>8. CASE CooldownPasses
  BY <1>8 DEF CooldownPasses, Counts, Committed
<1>9. CASE CoolingEnds
  BY <1>9, CountsUntouched DEF CoolingEnds, StartHead
<1>10. CASE UNCHANGED vars
  BY <1>10 DEF vars, Counts, Committed
<1> QED
  BY <1>1, <1>2, <1>3, <1>4, <1>5, <1>6, <1>7, <1>8, <1>9, <1>10 DEF Next

LEMMA Initially == Init => Inv
<1> SUFFICES ASSUME Init PROVE Inv
  OBVIOUS
<1>1. <<>> \in Seq(Tasks) /\ Len(<<>>) = 0
  OBVIOUS
<1>2. TypeOK
  BY <1>1 DEF Init, TypeOK, Places
<1>3. Unsettled = <<>> /\ Shape
  BY DEF Init, Unsettled, Shape
<1>4. Queue
  BY <1>1, <1>3 DEF Init, Queue, Distinct, InSeq
<1>5. Counts
  BY DEF Init, Counts
<1> QED
  BY <1>2, <1>3, <1>4, <1>5 DEF Inv

LEMMA Inductive == Inv /\ [Next]_vars => Inv'
  BY TypeStep, ShapeStep, QueueStep, CountsStep DEF Inv

LEMMA Invariance == SafeSpec => []Inv
  BY Initially, Inductive, PTL DEF SafeSpec

-----------------------------------------------------------------------------
(* What follows from it.                                                    *)

\* The queue's variables keep their types.
THEOREM Typing == SafeSpec => []TypeOK
<1>1. Inv => TypeOK
  BY DEF Inv
<1> QED
  BY <1>1, Invariance, PTL

\* A promise of enqueue that resolved stands for a row in the database.
THEOREM Acknowledgement == SafeSpec => []AcknowledgedIsPersisted
<1>1. ASSUME Inv, NEW t \in Tasks
      PROVE  /\ outcome[t] = "written" => rows[t] > 0
             /\ outcome[t] = "new" => rows[t] = 0
  <2>1. attempts[t] \in Nat /\ rows[t] \in Nat
    BY <1>1 DEF Inv, TypeOK
  <2> QED
    BY <1>1, <2>1 DEF Inv, Counts
<1>2. Inv => AcknowledgedIsPersisted
  BY <1>1 DEF AcknowledgedIsPersisted
<1> QED
  BY <1>2, Invariance, PTL

\* No write is applied more often than executeTask may run it.
THEOREM BoundedRepeats == SafeSpec => []RepeatsBounded
<1>1. ASSUME Inv, NEW t \in Tasks PROVE rows[t] <= MaxRetries + 1
  <2>1. /\ outcome[t] \in {"new", "waiting", "written", "dead"}
        /\ rows[t] \in Nat /\ attempts[t] \in Nat
    BY <1>1 DEF Inv, TypeOK
  <2> QED
    BY <1>1, <2>1, MaxRetriesAssumption DEF Inv, Counts, Committed
<1>2. Inv => RepeatsBounded
  BY <1>1 DEF RepeatsBounded
<1> QED
  BY <1>2, Invariance, PTL

\* The dead-letter queue gets a write after its last retry and then only.
THEOREM DeadLetters == SafeSpec => []DeadOnlyAfterLastRetry
<1>1. ASSUME Inv, NEW t \in Tasks
      PROVE  outcome[t] = "dead" <=> attempts[t] = MaxRetries + 1
  <2>1. /\ outcome[t] \in {"new", "waiting", "written", "dead"}
        /\ attempts[t] \in Nat
    BY <1>1 DEF Inv, TypeOK
  <2> QED
    BY <1>1, <2>1, MaxRetriesAssumption DEF Inv, Counts
<1>2. Inv => DeadOnlyAfterLastRetry
  BY <1>1 DEF DeadOnlyAfterLastRetry
<1> QED
  BY <1>2, Invariance, PTL

\* kick and processLoop never leave a waiting write behind an idle runner.
THEOREM NoWakeupLost == SafeSpec => []NoLostWakeup
<1>1. ASSUME Inv, pc = "idle" PROVE \A t \in Tasks : outcome[t] # "waiting"
  <2>1. Unsettled = <<>>
    BY <1>1 DEF Inv, Shape, Unsettled
  <2>2. \A t : ~InSeq(t, <<>>)
    BY DEF InSeq
  <2> QED
    BY <1>1, <2>1, <2>2 DEF Inv, Queue
<1>2. Inv => NoLostWakeup
  BY <1>1 DEF NoLostWakeup
<1> QED
  BY <1>2, Invariance, PTL

\* No write starts while the breaker's pause lasts.
THEOREM BreakerPauses == SafeSpec => BreakerHolds
<1>1. [Next]_vars => [pc # "running" /\ pc' = "running" => ~paused]_vars
  BY DEF Next, vars, Enqueue, LoopTop, DatabaseCommits, RunResolves, RunRejects,
         RunDies, BackoffEnds, LoopResumes, CooldownPasses, CoolingEnds
<1> QED
  BY <1>1, PTL DEF SafeSpec, BreakerHolds

\* A settled promise stays settled, and its write is not sent again.
THEOREM Settlement == SafeSpec => SettledIsFinal
<1> DEFINE Settled(t) == outcome[t] \in {"written", "dead"}
           Final == \A t \in Tasks :
                      Settled(t) => outcome'[t] = outcome[t] /\ rows'[t] = rows[t]
<1>1. ASSUME Inv, Next PROVE Final
  <2>1. pc \in {"running", "committed"} =>
          current \in Tasks /\ outcome[current] = "waiting"
    BY <1>1, HeldIsWaiting DEF Inv, Shape
  <2>2. outcome \in [Tasks -> {"new", "waiting", "written", "dead"}]
        /\ rows \in [Tasks -> Nat]
    BY <1>1 DEF Inv, TypeOK
  <2> QED
    BY <1>1, <2>1, <2>2
    DEF Next, Enqueue, DatabaseCommits, RunResolves, RunRejects, RunDies,
        CountFailure, BackoffEnds, LoopResumes, CooldownPasses, CoolingEnds
<1>2. Inv /\ [Next]_vars => [Final]_vars
  BY <1>1
<1> QED
  BY <1>2, Invariance, PTL DEF SafeSpec, SettledIsFinal

-----------------------------------------------------------------------------
(* The refinement.                                                          *)

\* The statement the database commits is the oldest unsettled write's, and
\* that write has runs left.
LEMMA CommitIsApply ==
  ASSUME Inv, DatabaseCommits
  PROVE  Ordered!Apply
<1>1. current # NoTask /\ pc = "running"
  BY DEF DatabaseCommits, Inv, Shape
<1>2. Unsettled # <<>> /\ Head(Unsettled) = current
  BY <1>1, HeldIsOldest DEF Inv
<1>3. current \in Tasks /\ outcome[current] = "waiting"
  BY <1>1, HeldIsWaiting DEF Inv
<1>4. rows[current] < MaxRetries + 1
  <2>1. attempts[current] \in Nat /\ rows[current] \in Nat
    BY <1>3 DEF Inv, TypeOK
  <2>2. rows[current] <= attempts[current] /\ attempts[current] <= MaxRetries
    BY <1>1, <1>3, <2>1 DEF Inv, Counts, Committed
  <2> QED
    BY <2>1, <2>2, MaxRetriesAssumption
<1>5. Unsettled' = Unsettled
  BY MovingKeeps DEF Inv, Moves
<1> QED
  BY <1>2, <1>4, <1>5 DEF DatabaseCommits, Ordered!Apply

\* A settling run settles the oldest unsettled write.
LEMMA RunIsSettle ==
  ASSUME Inv, RunResolves \/ RunDies
  PROVE  Ordered!SettleOldest
<1>1. current # NoTask /\ Unsettled' = Tail(Unsettled)
  BY SettlingTakesHead DEF Inv
<1>2. Unsettled # <<>> /\ Head(Unsettled) = current
  BY <1>1, HeldIsOldest DEF Inv
<1>3. current \in Tasks /\ outcome[current] = "waiting"
  BY <1>1, HeldIsWaiting DEF Inv
<1>4. CASE RunResolves
  <2>1. rows[current] > 0
    <3>1. Committed(current) = 1 /\ rows[current] \in Nat
      BY <1>3, <1>4 DEF RunResolves, Committed, Inv, TypeOK
    <3> QED
      BY <1>3, <3>1 DEF Inv, Counts
  <2>2. Ordered!Settle("written")
    BY <1>1, <1>2, <1>4, <2>1 DEF RunResolves, Ordered!Settle
  <2> QED
    BY <2>2 DEF Ordered!SettleOldest
<1>5. CASE RunDies
  <2>1. Ordered!Settle("dead")
    BY <1>1, <1>2, <1>5 DEF RunDies, CountFailure, Ordered!Settle
  <2> QED
    BY <2>1 DEF Ordered!SettleOldest
<1> QED
  BY <1>4, <1>5

LEMMA StepImplements ==
  ASSUME Inv, [Next]_vars
  PROVE  [Ordered!Next]_(Ordered!vars)
<1>1. ASSUME NEW t \in Tasks, Enqueue(t) PROVE Ordered!Next
  <2>1. Unsettled' = Append(Unsettled, t)
    BY <1>1, EnqueueAppends DEF Inv
  <2>2. Ordered!Submit(t)
    BY <1>1, <2>1 DEF Enqueue, Ordered!Submit
  <2> QED
    BY <2>2 DEF Ordered!Next
<1>2. CASE DatabaseCommits
  BY <1>2, CommitIsApply DEF Ordered!Next
<1>3. CASE RunResolves \/ RunDies
  BY <1>3, RunIsSettle DEF Ordered!Next
<1>4. CASE RunRejects \/ BackoffEnds \/ LoopResumes \/ CooldownPasses
           \/ CoolingEnds
  <2>1. Unsettled' = Unsettled
    BY <1>4, MovingKeeps DEF Inv, Moves
  <2>2. outcome' = outcome /\ rows' = rows
    BY <1>4 DEF RunRejects, BackoffEnds, LoopResumes, CooldownPasses, CoolingEnds
  <2> QED
    BY <2>1, <2>2 DEF Ordered!vars
<1>5. CASE UNCHANGED vars
  BY <1>5 DEF vars, Unsettled, Ordered!vars
<1> QED
  BY <1>1, <1>2, <1>3, <1>4, <1>5 DEF Next

\* The write queue keeps the promise of OrderedWrites: its writes reach the
\* database one at a time and in the order they were handed over, retries,
\* dead letters and pauses included.
THEOREM WritesAreOrdered == SafeSpec => Ordered!SafeSpec
<1>1. Init => Ordered!Init
  BY DEF Init, Ordered!Init, Unsettled
<1>2. Inv /\ [Next]_vars => [Ordered!Next]_(Ordered!vars)
  BY StepImplements
<1> QED
  BY <1>1, <1>2, Invariance, PTL DEF SafeSpec, Ordered!SafeSpec
=============================================================================
