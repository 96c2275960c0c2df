-------------------------- MODULE Moderation_proofs --------------------------
(***************************************************************************)
(* The moderation pipeline, for any updates, owners, senders, clocks,      *)
(* windows and faults, and any number of handlers and crashes.             *)
(***************************************************************************)
EXTENDS Moderation, FiniteSetTheorems, TLAPS

-----------------------------------------------------------------------------
(* Types.                                                                   *)

\* An executor at work has a message to work on.
LEMMA SubjectType ==
  ASSUME TypeOK, NEW e \in Executors, exec[e] \notin {"idle", "between"}
  PROVE  Subject(e) \in Updates /\ Pair(Subject(e)) \in Pairs
<1>1. Subject(e) \in Updates
  BY DEF Subject, TypeOK, Executors
<1> QED BY <1>1 DEF Pairs

LEMMA SavedType ==
  ASSUME TypeOK, NEW u \in Updates, NEW d \in Decisions, SaveDeferred(u, d)
  PROVE  logQueue' \in Seq(Updates \X Decisions)
<1>1. <<u, d>> \in Updates \X Decisions
  OBVIOUS
<1> QED BY <1>1 DEF SaveDeferred, TypeOK

LEMMA ForgetType ==
  ASSUME TypeOK, NEW keys, Forget(keys)
  PROVE  forgotten' \in [Keys -> Nat]
BY DEF Forget, TypeOK

LEMMA HandlerTypes ==
  ASSUME TypeOK, NEW u \in Updates, Receive(u) \/ HandlerStep(u)
  PROVE  TypeOK'
<1> USE DEF TypeOK, Goto, HandlerPlaces
<1>1. CASE Receive(u)
  <2>1. Message[u] \in Keys
    BY DEF Keys
  <2>2. forgotten' \in [Keys -> Nat]
    BY <1>1, ForgetType DEF Receive, Claim
  <2> QED BY <1>1, <2>1, <2>2 DEF Receive, Claim
<1>2. CASE SaveRow(u)
  BY <1>2 DEF SaveRow
<1>3. CASE HandlerFails(u)
  BY <1>3 DEF HandlerFails
<1>4. CASE ReadPrior(u)
  <2>1. logQueue' \in Seq(Updates \X Decisions)
    BY <1>4, SavedType DEF ReadPrior, Decisions
  <2> QED BY <1>4, <2>1 DEF ReadPrior
<1>5. CASE ReadOther(u)
  <2>1. LoggedElsewhere(Pair(u)) \in BOOLEAN
    BY DEF LoggedElsewhere
  <2> QED BY <1>5, <2>1 DEF ReadOther
<1>6. CASE CountInstances(u)
  <2>1. Runner \in Executors /\ u # Runner /\ u \in Executors
    BY RunnerAssumption DEF Executors
  <2>2. /\ queue' \in Seq(Updates) /\ running' \in Executors
        /\ exec' \in [Executors -> ExecPlaces]
        /\ (running' = Runner) <=> (exec'[Runner] \in {"idle", "between"})
    <3>1. CASE EnqueueBlock(u) /\ exec[Runner] = "idle"
      <4>1. exec' = [exec EXCEPT ![Runner] = "session"] /\ running' = u /\ queue' = queue
        BY <3>1 DEF EnqueueBlock
      <4>2. exec' \in [Executors -> ExecPlaces] /\ exec'[Runner] = "session"
        BY <2>1, <4>1 DEF ExecPlaces
      <4> QED BY <2>1, <4>1, <4>2
    <3>2. CASE EnqueueBlock(u) /\ exec[Runner] # "idle"
      <4>1. exec' = exec /\ running' = running /\ queue' = Append(queue, u)
        BY <3>2 DEF EnqueueBlock
      <4>2. queue' \in Seq(Updates)
        BY <4>1
      <4> QED BY <4>1, <4>2
    <3> QED BY <1>6, <3>1, <3>2 DEF CountInstances
  <2> QED BY <1>6, <2>2 DEF CountInstances
<1>7. CASE SendWarning(u)
  <2>1. logQueue' \in Seq(Updates \X Decisions)
    BY <1>7, SavedType DEF SendWarning, Warn, Decisions
  <2> QED BY <1>7, <2>1 DEF SendWarning, Warn, OfferBlock
<1> QED
  BY <1>1, <1>2, <1>3, <1>4, <1>5, <1>6, <1>7 DEF HandlerStep

\* Ending a task, or going on with it, keeps the runner and its task together.
LEMMA EndTypes ==
  ASSUME TypeOK, NEW e \in Executors, exec[e] \notin {"idle", "between"}
  PROVE  /\ EndTask(e) => /\ exec' \in [Executors -> ExecPlaces]
                          /\ running' \in Executors
                          /\ (running' = Runner) <=> (exec'[Runner] \in {"idle", "between"})
         /\ \A place \in ExecPlaces \ {"idle", "between"} :
              ExecGoto(e, place) =>
                /\ exec' \in [Executors -> ExecPlaces]
                /\ running' \in Executors
                /\ (running' = Runner) <=> (exec'[Runner] \in {"idle", "between"})
<1>1. Runner \in Executors
  BY DEF Executors
<1>2. (running = Runner) <=> (exec[Runner] \in {"idle", "between"})
  BY DEF TypeOK
<1>3. exec \in [Executors -> ExecPlaces] /\ running \in Executors
  BY DEF TypeOK
<1>4. ASSUME EndTask(e)
      PROVE  /\ exec' \in [Executors -> ExecPlaces]
             /\ running' \in Executors
             /\ (running' = Runner) <=> (exec'[Runner] \in {"idle", "between"})
  <2>1. CASE e = Runner
    BY <1>1, <1>3, <1>4, <2>1 DEF EndTask, ExecPlaces
  <2>2. CASE e # Runner
    BY <1>1, <1>2, <1>3, <1>4, <2>2 DEF EndTask, ExecPlaces
  <2> QED BY <2>1, <2>2
<1>5. ASSUME NEW place \in ExecPlaces \ {"idle", "between"}, ExecGoto(e, place)
      PROVE  /\ exec' \in [Executors -> ExecPlaces]
             /\ running' \in Executors
             /\ (running' = Runner) <=> (exec'[Runner] \in {"idle", "between"})
  <2>1. CASE e = Runner
    BY <1>1, <1>2, <1>3, <1>5, <2>1 DEF ExecGoto
  <2>2. CASE e # Runner
    BY <1>1, <1>2, <1>3, <1>5, <2>2 DEF ExecGoto
  <2> QED BY <2>1, <2>2
<1> QED BY <1>4, <1>5

LEMMA ExecutorTypes ==
  ASSUME TypeOK, NEW e \in Executors, ExecutorStep(e)
  PROVE  TypeOK'
<1> DEFINE RunnerOK == /\ exec' \in [Executors -> ExecPlaces]
                       /\ running' \in Executors
                       /\ (running' = Runner) <=> (exec'[Runner] \in {"idle", "between"})
<1>1. exec[e] \notin {"idle", "between"}
  BY DEF ExecutorStep, AskSession, Unblock, Block, SendNotice, Announce
<1>2. RunnerOK
  BY <1>1, EndTypes DEF ExecutorStep, AskSession, Unblock, Block, SendNotice,
     Announce, NotBlocked, ExecPlaces
<1>3. Pair(Subject(e)) \in Pairs /\ Subject(e) \in Updates
  BY <1>1, SubjectType
<1>4. blocked' \subseteq Pairs
  BY <1>3 DEF ExecutorStep, AskSession, Unblock, Block, SendNotice, Announce, TypeOK
<1>5. logQueue' \in Seq(Updates \X Decisions)
  BY <1>3, SavedType DEF ExecutorStep, AskSession, Unblock, Block, SendNotice,
     Announce, TypeOK, Decisions
<1>6. UNCHANGED <<handler, seen, forgotten, rows, other, queue, offers, log, crashes>>
  BY DEF ExecutorStep, AskSession, Unblock, Block, SendNotice, Announce
<1> QED BY <1>2, <1>4, <1>5, <1>6 DEF TypeOK

LEMMA ButtonTypes ==
  ASSUME TypeOK, NEW u \in Updates,
         PressButton(u) \/ OfferExpires(u) \/ ButtonReadsPrior(u)
  PROVE  TypeOK'
<1>1. u \in Executors /\ u # Runner /\ Runner \in Executors
  BY RunnerAssumption DEF Executors
<1>2. CASE PressButton(u)
  BY <1>1, <1>2 DEF PressButton, ConsumeOffer, ExecGoto, TypeOK, ExecPlaces
<1>3. CASE OfferExpires(u)
  BY <1>3 DEF OfferExpires, TypeOK
<1>4. CASE ButtonReadsPrior(u)
  <2>1. exec[u] \notin {"idle", "between"}
    BY <1>4 DEF ButtonReadsPrior
  <2>2. /\ exec' \in [Executors -> ExecPlaces]
        /\ running' \in Executors
        /\ (running' = Runner) <=> (exec'[Runner] \in {"idle", "between"})
    BY <1>1, <1>4, <2>1, EndTypes DEF ButtonReadsPrior, ExecPlaces
  <2> QED BY <1>4, <2>2 DEF ButtonReadsPrior, TypeOK
<1> QED BY <1>2, <1>3, <1>4

LEMMA RunnerTypes ==
  ASSUME TypeOK, FallbackReads \/ FallbackWarns \/ RunnerContinues
  PROVE  TypeOK'
<1>1. Runner \in Executors /\ Runner \notin Updates
  BY RunnerAssumption DEF Executors
<1>2. CASE FallbackReads
  <2>1. exec[Runner] \notin {"idle", "between"}
    BY <1>2 DEF FallbackReads
  <2>2. /\ exec' \in [Executors -> ExecPlaces]
        /\ running' \in Executors
        /\ (running' = Runner) <=> (exec'[Runner] \in {"idle", "between"})
    BY <1>1, <1>2, <2>1, EndTypes DEF FallbackReads, ExecPlaces
  <2>3. LoggedElsewhere(Pair(running)) \in BOOLEAN
    BY DEF LoggedElsewhere
  <2>4. other' \in [Updates -> BOOLEAN]
    BY <1>2, <2>3 DEF FallbackReads, TypeOK
  <2> QED BY <1>2, <2>2, <2>4 DEF FallbackReads, TypeOK
<1>3. CASE FallbackWarns
  <2>1. exec[Runner] \notin {"idle", "between"}
    BY <1>3 DEF FallbackWarns
  <2>2. running \in Updates
    BY <1>1, <2>1, SubjectType DEF Subject
  <2>3. /\ exec' \in [Executors -> ExecPlaces]
        /\ running' \in Executors
        /\ (running' = Runner) <=> (exec'[Runner] \in {"idle", "between"})
    BY <1>1, <1>3, <2>1, EndTypes DEF FallbackWarns
  <2>4. logQueue' \in Seq(Updates \X Decisions)
    BY <1>3, <2>2, SavedType DEF FallbackWarns, Warn, Decisions
  <2>5. offers' \subseteq Updates
    BY <1>3, <2>2 DEF FallbackWarns, Warn, OfferBlock, TypeOK
  <2> QED BY <1>3, <2>3, <2>4, <2>5 DEF FallbackWarns, TypeOK
<1>4. CASE RunnerContinues
  <2>1. CASE queue = <<>>
    BY <1>1, <1>4, <2>1 DEF RunnerContinues, TypeOK, ExecPlaces
  <2>2. CASE queue # <<>>
    <3>1. Head(queue) \in Updates /\ Tail(queue) \in Seq(Updates)
      BY <2>2 DEF TypeOK
    <3> QED BY <1>1, <1>4, <2>2, <3>1 DEF RunnerContinues, TypeOK, ExecPlaces, Executors
  <2> QED BY <2>1, <2>2
<1> QED BY <1>2, <1>3, <1>4

LEMMA SettleTypes ==
  ASSUME TypeOK, LogSettles
  PROVE  TypeOK'
<1>1. Head(logQueue) \in Updates \X Decisions /\ Tail(logQueue) \in Seq(Updates \X Decisions)
  BY DEF TypeOK, LogSettles
<1>2. Head(logQueue)[1] \in Updates /\ Head(logQueue)[2] \in Decisions
  BY <1>1
<1>3. log' \in [Updates -> [Decisions -> Nat]]
  <2> DEFINE u == Head(logQueue)[1]
             d == Head(logQueue)[2]
  <2>1. log \in [Updates -> [Decisions -> Nat]]
    BY DEF TypeOK
  <2>2. u \in Updates /\ d \in Decisions
    BY <1>2
  <2>3. PICK n \in 0..MaxWrites : log' = [log EXCEPT ![u][d] = @ + n]
    BY DEF LogSettles
  <2>4. n \in Nat
    BY WritesAssumption
  <2> HIDE DEF u, d
  <2> QED BY <2>1, <2>2, <2>3, <2>4
<1> QED BY <1>1, <1>3 DEF LogSettles, TypeOK

LEMMA CrashTypes ==
  ASSUME TypeOK, Crash
  PROVE  TypeOK'
BY BoundsAssumption, ForgetType DEF Crash, TypeOK, Executors, ExecPlaces, HandlerPlaces

LEMMA TypeStep == TypeOK /\ [Next]_vars => TypeOK'
<1> SUFFICES ASSUME TypeOK, [Next]_vars PROVE TypeOK'
  OBVIOUS
<1>1. CASE UNCHANGED vars
  BY <1>1 DEF vars, TypeOK
<1>2. ASSUME NEW u \in Updates PROVE u \in Executors
  BY DEF Executors
<1>3. Runner \in Executors
  BY DEF Executors
<1> QED
  BY <1>1, <1>2, <1>3, HandlerTypes, ExecutorTypes, ButtonTypes, RunnerTypes,
     SettleTypes, CrashTypes DEF Next, RunnerStep

LEMMA TypeInit == Init => TypeOK
  BY BoundsAssumption DEF Init, TypeOK, Executors, ExecPlaces, HandlerPlaces

\* The pipeline's state keeps its types, and the runner is idle or pausing
\* exactly while it has no task (ActionQueueService).
THEOREM Typing == Spec => []TypeOK
  BY TypeInit, TypeStep, PTL DEF Spec, SafeSpec

-----------------------------------------------------------------------------
(* The inductive invariants.                                                *)

Queued(u) == \E i \in 1..Len(queue) : queue[i] = u

\* An update is in one place: with its handler, in the queue once, or running.
OneTask ==
  /\ \A u \in Updates : handler[u] # "finished" => ~Queued(u) /\ running # u
  /\ \A i, j \in 1..Len(queue) : queue[i] = queue[j] => i = j
  /\ ~Queued(running)

\* The pipeline still owes u its decision.
Undecided(u) == \/ handler[u] # "finished"
                \/ Queued(u)
                \/ running = u /\ exec[Runner] # "announce"

\* A "Block now" on u is offered, or pressed and not logged yet.
Reopened(u) ==
  u \in offers \/ exec[u] \in {"prior", "session", "unblock", "block", "notice"}

OneDecision(u) ==
  /\ \A d \in Decisions : Entries(u, d) <= MaxWrites
  /\ Entries(u, "ignore") > 0 => Entries(u, "warn") = 0 /\ Entries(u, "block") = 0
  /\ Entries(u, "warn") > 0 /\ Entries(u, "block") > 0 => other[u]

\* One decision per row, and why the next entry of u will not be a second one.
RowInv(u) ==
  /\ Undecided(u) => /\ \A d \in Decisions : Entries(u, d) = 0
                     /\ u \notin offers /\ exec[u] = "idle"
  /\ u \in offers => exec[u] = "idle"
  /\ Reopened(u) => other[u] /\ Entries(u, "block") = 0 /\ Entries(u, "ignore") = 0
  /\ OneDecision(u)

DecisionInv == OneTask /\ \A u \in Updates : RowInv(u)

\* u is the delivery that claimed its message and may write, or wrote, its row.
Claimant(u) == handler[u] = "saving" \/ u \in rows

Claimants(k) == {u \in Updates : Message[u] = k /\ Claimant(u)}

\* How many claims of k were granted.
Claims(k) == forgotten[k] + (IF k \in seen THEN 1 ELSE 0)

ClaimInv ==
  \A k \in Keys : IsFiniteSet(Claimants(k)) /\ Cardinality(Claimants(k)) <= Claims(k)

\* A block of p is logged, on its way to the log, or made and not yet logged.
BlockMade(p) ==
  \/ \E u \in Updates : Pair(u) = p /\ Entries(u, "block") > 0
  \/ \E e \in Executors : exec[e] = "notice" /\ Pair(Subject(e)) = p

BetweenTheCalls(p) == \E e \in Executors : exec[e] = "block" /\ Pair(Subject(e)) = p

BlockInv ==
  crashes = 0 =>
    \A p \in Pairs : BlockMade(p) => p \in blocked \/ BetweenTheCalls(p)

ThreeBursts(p) ==
  \E u, v, w \in RowsOf(p) :
    /\ CountedApart(u, v) /\ CountedApart(v, w) /\ CountedApart(u, w)
    /\ LaterBurst(u, v) /\ LaterBurst(v, w)

\* What stands behind every block made, under way, queued or offered.
StrikeInv ==
  /\ \A u \in Updates : other[u] => LoggedElsewhere(Pair(u))
  /\ \A u \in Updates : u \in offers \/ exec[u] # "idle" => LoggedElsewhere(Pair(u))
  /\ \A u \in Updates : Queued(u) \/ running = u => ThreeBursts(Pair(u))
  /\ \A p \in blocked : LoggedElsewhere(p) \/ ThreeBursts(p)

-----------------------------------------------------------------------------
(* The log and what is on its way to it.                                    *)

\* Entries with n, or n + 1, of them on their way
LEMMA OnTheWay ==
  ASSUME NEW n \in Nat
  PROVE  /\ MaxWrites * n \in Nat /\ MaxWrites * (n + 1) = MaxWrites * n + MaxWrites
         /\ MaxWrites * 0 = 0 /\ MaxWrites * 1 = MaxWrites /\ MaxWrites \in Nat \ {0}
BY WritesAssumption

LEMMA EntriesFinite ==
  ASSUME TypeOK, NEW u \in Updates, NEW d \in Decisions
  PROVE  /\ IsFiniteSet({i \in 1..Len(logQueue) : logQueue[i] = <<u, d>>})
         /\ Cardinality({i \in 1..Len(logQueue) : logQueue[i] = <<u, d>>}) \in Nat
         /\ Entries(u, d) \in Nat /\ log[u][d] \in Nat /\ log[u][d] <= Entries(u, d)
<1> DEFINE I == {i \in 1..Len(logQueue) : logQueue[i] = <<u, d>>}
<1>1. Len(logQueue) \in Nat /\ log[u][d] \in Nat
  BY DEF TypeOK
<1>2. IsFiniteSet(1..Len(logQueue)) /\ I \in SUBSET (1..Len(logQueue))
  BY <1>1, FS_Interval
<1>3. IsFiniteSet(I)
  BY <1>2, FS_Subset
<1>4. Cardinality(I) \in Nat /\ MaxWrites * Cardinality(I) \in Nat
  BY <1>3, FS_CardinalityType, OnTheWay
<1> QED BY <1>1, <1>3, <1>4 DEF Entries, OnTheirWay

\* A queued entry counts at once.
LEMMA EntriesSaved ==
  ASSUME TypeOK, NEW u \in Updates, NEW d \in Decisions, SaveDeferred(u, d), log' = log,
         NEW v \in Updates, NEW c \in Decisions
  PROVE  Entries(v, c)' = IF v = u /\ c = d THEN Entries(v, c) + MaxWrites
                                            ELSE Entries(v, c)
<1> DEFINE n == Len(logQueue)
           I == {i \in 1..n : logQueue[i] = <<v, c>>}
           J == {i \in 1..Len(logQueue') : logQueue'[i] = <<v, c>>}
<1>1. n \in Nat /\ log[v][c] \in Nat /\ <<u, d>> \in Updates \X Decisions
  BY DEF TypeOK
<1>2. /\ Len(logQueue') = n + 1 /\ logQueue'[n + 1] = <<u, d>>
      /\ \A i \in 1..n : logQueue'[i] = logQueue[i]
  BY <1>1 DEF SaveDeferred, TypeOK
<1>3. IsFiniteSet(I) /\ Cardinality(I) \in Nat
  BY EntriesFinite
<1>4. (n + 1) \notin I
  BY <1>1
<1>5. CASE v = u /\ c = d
  <2>1. J = I \cup {n + 1}
    BY <1>1, <1>2, <1>5
  <2>2. Cardinality(J) = Cardinality(I) + 1
    BY <1>3, <1>4, <2>1, FS_AddElement
  <2>3. MaxWrites * Cardinality(J) = MaxWrites * Cardinality(I) + MaxWrites
        /\ MaxWrites * Cardinality(I) \in Nat /\ MaxWrites \in Nat
    BY <1>3, <2>2, OnTheWay
  <2>4. /\ Entries(v, c) = log[v][c] + MaxWrites * Cardinality(I)
        /\ Entries(v, c)' = log[v][c] + MaxWrites * Cardinality(J)
    BY DEF Entries, OnTheirWay
  <2> HIDE DEF I, J
  <2> QED BY <1>1, <1>5, <2>3, <2>4
<1>6. CASE ~(v = u /\ c = d)
  <2>1. J = I
    BY <1>1, <1>2, <1>6
  <2> QED BY <1>6, <2>1 DEF Entries, OnTheirWay
<1> QED BY <1>5, <1>6

LEMMA LogWritten ==
  ASSUME TypeOK, LogSettles, NEW v \in Updates, NEW c \in Decisions
  PROVE  \/ log'[v][c] = log[v][c]
         \/ /\ \E n \in 1..MaxWrites : log'[v][c] = log[v][c] + n
            /\ v = Head(logQueue)[1] /\ c = Head(logQueue)[2]
<1> DEFINE u == Head(logQueue)[1]
           d == Head(logQueue)[2]
<1>1. log \in [Updates -> [Decisions -> Nat]]
  BY DEF TypeOK
<1>2. PICK n \in 0..MaxWrites : log' = [log EXCEPT ![u][d] = @ + n]
  BY DEF LogSettles
<1>3. n = 0 \/ n \in 1..MaxWrites
  BY WritesAssumption
<1> HIDE DEF u, d
<1>4. log'[v][c] = log[v][c] \/ (log'[v][c] = log[v][c] + n /\ v = u /\ c = d)
  BY <1>1, <1>2
<1>5. log[v][c] + 0 = log[v][c]
  BY <1>1
<1> QED BY <1>3, <1>4, <1>5 DEF u, d

\* However often it is written, a settled entry was counted in full before.
LEMMA EntriesSettle ==
  ASSUME TypeOK, LogSettles, NEW v \in Updates, NEW c \in Decisions
  PROVE  Entries(v, c)' <= Entries(v, c)
<1> DEFINE n == Len(logQueue)
           I == {i \in 1..n : logQueue[i] = <<v, c>>}
           J == {i \in 1..Len(logQueue') : logQueue'[i] = <<v, c>>}
           u == Head(logQueue)[1]
           d == Head(logQueue)[2]
<1>1. n \in Nat \ {0} /\ log[v][c] \in Nat /\ logQueue[1] = <<u, d>>
      /\ u \in Updates /\ d \in Decisions
  <2>1. logQueue \in Seq(Updates \X Decisions) /\ logQueue # <<>>
    BY DEF TypeOK, LogSettles
  <2>2. n \in Nat \ {0} /\ Head(logQueue) = logQueue[1]
        /\ Head(logQueue) \in Updates \X Decisions
    BY <2>1
  <2>3. log[v][c] \in Nat
    BY DEF TypeOK
  <2> QED BY <2>2, <2>3
<1>2. /\ Len(logQueue') = n - 1
      /\ \A i \in 1..(n - 1) : logQueue'[i] = logQueue[i + 1]
  BY <1>1 DEF LogSettles, TypeOK
<1>3. IsFiniteSet(I) /\ Cardinality(I) \in Nat
  BY EntriesFinite
<1>4. IsFiniteSet(I \ {1})
      /\ Cardinality(I \ {1}) = IF 1 \in I THEN Cardinality(I) - 1 ELSE Cardinality(I)
  BY <1>3, FS_RemoveElement
<1>5. Cardinality(J) = Cardinality(I \ {1})
  <2> DEFINE f == [i \in I \ {1} |-> i - 1]
  <2>1. f \in [I \ {1} -> J]
    BY <1>1, <1>2
  <2>2. \A i, j \in I \ {1} : f[i] = f[j] => i = j
    BY <1>1
  <2>3. \A j \in J : \E i \in I \ {1} : f[i] = j
    <3> TAKE j \in J
    <3>1. j + 1 \in I \ {1} /\ (j + 1) - 1 = j
      BY <1>1, <1>2
    <3> QED BY <3>1
  <2> HIDE DEF f, I, J
  <2>4. f \in Bijection(I \ {1}, J)
    BY <2>1, <2>2, <2>3 DEF Bijection, Injection, Surjection, IsInjective
  <2> QED BY <1>4, <2>4, FS_Bijection DEF ExistsBijection
<1>6. CASE v = u /\ c = d
  <2>1. 1 \in I
    BY <1>1, <1>6
  <2>2. PICK m \in 0..MaxWrites : log'[v][c] = log[v][c] + m
    <3>1. 0 \in 0..MaxWrites /\ log[v][c] + 0 = log[v][c]
          /\ \A m \in 1..MaxWrites : m \in 0..MaxWrites
      BY <1>1, WritesAssumption
    <3> QED BY <3>1, LogWritten
  <2>3. Cardinality(J) \in Nat /\ Cardinality(I) = Cardinality(J) + 1
    <3> HIDE DEF I, J
    <3>1. Cardinality(J) = Cardinality(I) - 1 /\ Cardinality(I) # 0
      BY <1>3, <1>4, <1>5, <2>1, FS_EmptySet
    <3> QED BY <1>3, <3>1
  <2>4. MaxWrites * Cardinality(I) = MaxWrites * Cardinality(J) + MaxWrites
        /\ MaxWrites * Cardinality(J) \in Nat /\ MaxWrites \in Nat
    BY <2>3, OnTheWay
  <2>5. /\ Entries(v, c) = log[v][c] + MaxWrites * Cardinality(I)
        /\ Entries(v, c)' = log'[v][c] + MaxWrites * Cardinality(J)
    BY DEF Entries, OnTheirWay
  <2> HIDE DEF I, J
  <2> QED BY <1>1, <2>2, <2>4, <2>5
<1>7. CASE ~(v = u /\ c = d)
  <2>1. 1 \notin I
    BY <1>1, <1>7
  <2>2. log'[v][c] = log[v][c]
    BY <1>1, <1>7, LogWritten
  <2>3. Cardinality(J) = Cardinality(I)
    BY <1>4, <1>5, <2>1
  <2>4. /\ Entries(v, c) = log[v][c] + MaxWrites * Cardinality(I)
        /\ Entries(v, c)' = log'[v][c] + MaxWrites * Cardinality(J)
    BY DEF Entries, OnTheirWay
  <2>5. Entries(v, c)' = Entries(v, c) /\ Entries(v, c) \in Nat
    BY <2>2, <2>3, <2>4, EntriesFinite
  <2> QED BY <2>5
<1> QED BY <1>6, <1>7

LEMMA EntriesLost ==
  ASSUME TypeOK, Crash, NEW v \in Updates, NEW c \in Decisions
  PROVE  Entries(v, c)' <= Entries(v, c)
<1>1. Len(logQueue') = 0 /\ log' = log
  BY DEF Crash
<1>2. {i \in 1..Len(logQueue') : logQueue'[i] = <<v, c>>} = {}
  BY <1>1
<1>3. log[v][c] \in Nat /\ log[v][c] <= Entries(v, c)
  BY EntriesFinite
<1>4. Entries(v, c)' = log[v][c] + 0
  BY <1>1, <1>2, FS_EmptySet, OnTheWay DEF Entries, OnTheirWay
<1> QED BY <1>3, <1>4

LEMMA EntriesKept ==
  ASSUME logQueue' = logQueue, log' = log, NEW v \in Updates, NEW c \in Decisions
  PROVE  Entries(v, c)' = Entries(v, c)
BY DEF Entries, OnTheirWay

LEMMA EntriesNat == TypeOK => \A u \in Updates : \A d \in Decisions : Entries(u, d) \in Nat
  BY EntriesFinite

-----------------------------------------------------------------------------
(* One decision per row.                                                    *)

\* The steps that neither queue a task nor take one off the queue.
Steady == /\ queue' = queue
          /\ running' = running \/ running' = Runner
          /\ \A v \in Updates : handler'[v] # "finished" => handler[v] # "finished"

LEMMA QueuedType == TypeOK => \A i \in 1..Len(queue) : queue[i] \in Updates /\ queue[i] # Runner
  BY RunnerAssumption DEF TypeOK

LEMMA SteadyKeepsTasks ==
  ASSUME TypeOK, OneTask, Steady
  PROVE  OneTask'
<1>1. ~Queued(Runner)
  BY QueuedType DEF Queued
<1>2. \A x : Queued(x)' <=> Queued(x)
  BY DEF Queued, Steady
<1>3. \A v \in Updates : v # Runner
  BY RunnerAssumption
<1> QED BY <1>1, <1>2, <1>3 DEF OneTask, Steady

LEMMA HandlerSteady ==
  ASSUME TypeOK, NEW u \in Updates,
         \/ Receive(u) \/ SaveRow(u) \/ HandlerFails(u)
         \/ ReadPrior(u) \/ ReadOther(u) \/ SendWarning(u)
  PROVE  Steady
<1>1. handler \in [Updates -> HandlerPlaces]
  BY DEF TypeOK
<1>2. handler[u] # "finished"
  BY DEF Receive, SaveRow, HandlerFails, ReadPrior, ReadOther, SendWarning
<1>3. \E place : handler' = [handler EXCEPT ![u] = place]
  BY DEF Receive, SaveRow, HandlerFails, ReadPrior, ReadOther, SendWarning, Goto
<1>4. queue' = queue /\ running' = running
  BY DEF Receive, SaveRow, HandlerFails, ReadPrior, ReadOther, SendWarning
<1> QED BY <1>1, <1>2, <1>3, <1>4 DEF Steady

LEMMA ExecutorSteady ==
  \/ \E e \in Executors : ExecutorStep(e)
  \/ \E u \in Updates : PressButton(u) \/ OfferExpires(u) \/ ButtonReadsPrior(u)
  \/ FallbackReads \/ FallbackWarns \/ LogSettles
  => Steady
<1>1. ASSUME NEW e, EndTask(e) \/ NotBlocked(e) \/ \E place : ExecGoto(e, place)
      PROVE  running' = running \/ running' = Runner
  BY <1>1 DEF EndTask, NotBlocked, ExecGoto
<1>2. ASSUME NEW e \in Executors, ExecutorStep(e)
      PROVE  Steady
  <2>1. running' = running \/ running' = Runner
    BY <1>1, <1>2 DEF ExecutorStep, AskSession, Unblock, Block, SendNotice, Announce
  <2>2. queue' = queue /\ handler' = handler
    BY <1>2 DEF ExecutorStep, AskSession, Unblock, Block, SendNotice, Announce
  <2> QED BY <2>1, <2>2 DEF Steady
<1>3. ASSUME NEW u \in Updates, PressButton(u) \/ OfferExpires(u) \/ ButtonReadsPrior(u)
      PROVE  Steady
  <2>1. running' = running \/ running' = Runner
    BY <1>1, <1>3 DEF PressButton, OfferExpires, ButtonReadsPrior
  <2>2. queue' = queue /\ handler' = handler
    BY <1>3 DEF PressButton, OfferExpires, ButtonReadsPrior
  <2> QED BY <2>1, <2>2 DEF Steady
<1>4. ASSUME FallbackReads \/ FallbackWarns \/ LogSettles
      PROVE  Steady
  <2>1. running' = running \/ running' = Runner
    BY <1>1, <1>4 DEF FallbackReads, FallbackWarns, LogSettles
  <2>2. queue' = queue /\ handler' = handler
    BY <1>4 DEF FallbackReads, FallbackWarns, LogSettles
  <2> QED BY <2>1, <2>2 DEF Steady
<1> QED BY <1>2, <1>3, <1>4

LEMMA CountKeepsTasks ==
  ASSUME TypeOK, OneTask, NEW u \in Updates, CountInstances(u)
  PROVE  OneTask' /\ \A v \in Updates : Undecided(v)' => Undecided(v)
<1>1. /\ handler \in [Updates -> HandlerPlaces] /\ queue \in Seq(Updates)
      /\ handler[u] = "count" /\ u # Runner
      /\ running = Runner <=> exec[Runner] \in {"idle", "between"}
  BY RunnerAssumption DEF TypeOK, CountInstances
<1>2. ~Queued(u) /\ running # u
  BY <1>1 DEF OneTask
<1>3. CASE handler' = [handler EXCEPT ![u] = "warning"] /\ UNCHANGED <<queue, running, exec>>
  BY <1>1, <1>2, <1>3 DEF OneTask, Queued, Undecided
<1>4. CASE /\ handler' = [handler EXCEPT ![u] = "finished"]
           /\ exec[Runner] = "idle" /\ running' = u /\ UNCHANGED queue
  <2>1. \A x : Queued(x)' <=> Queued(x)
    BY <1>4 DEF Queued
  <2>2. OneTask'
    BY <1>1, <1>2, <1>4, <2>1 DEF OneTask
  <2>3. \A v \in Updates : Undecided(v)' => Undecided(v)
    BY <1>1, <1>2, <1>4, <2>1 DEF Undecided
  <2> QED BY <2>2, <2>3
<1>5. CASE /\ handler' = [handler EXCEPT ![u] = "finished"]
           /\ queue' = Append(queue, u) /\ UNCHANGED <<running, exec>>
  <2>1. \A x : Queued(x)' <=> Queued(x) \/ x = u
    BY <1>1, <1>5 DEF Queued
  <2>2. \A i, j \in 1..Len(queue') : queue'[i] = queue'[j] => i = j
    BY <1>1, <1>2, <1>5 DEF OneTask, Queued
  <2>3. OneTask'
    BY <1>1, <1>2, <1>5, <2>1, <2>2 DEF OneTask
  <2>4. \A v \in Updates : Undecided(v)' => Undecided(v)
    BY <1>1, <1>2, <1>5, <2>1 DEF Undecided
  <2> QED BY <2>3, <2>4
<1> QED BY <1>3, <1>4, <1>5 DEF CountInstances, EnqueueBlock, Goto

LEMMA ContinueKeepsTasks ==
  ASSUME TypeOK, OneTask, RunnerContinues
  PROVE  OneTask' /\ \A v \in Updates : Undecided(v)' => Undecided(v)
<1>1. /\ queue \in Seq(Updates) /\ handler' = handler /\ running = Runner
      /\ \A v \in Updates : v # Runner
  BY RunnerAssumption DEF TypeOK, RunnerContinues
<1>2. CASE queue' = queue /\ running' = running
  BY <1>1, <1>2 DEF OneTask, Queued, Undecided
<1>3. CASE queue # <<>> /\ running' = Head(queue) /\ queue' = Tail(queue)
  <2>1. /\ Len(queue) \in Nat \ {0} /\ Len(queue') = Len(queue) - 1
        /\ \A i \in 1..Len(queue') : queue'[i] = queue[i + 1]
        /\ running' = queue[1]
    BY <1>1, <1>3
  <2>2. Queued(running')
    BY <2>1 DEF Queued
  <2>3. \A x : Queued(x)' => Queued(x) /\ x # running'
    BY <2>1 DEF OneTask, Queued
  <2>4. \A i, j \in 1..Len(queue') : queue'[i] = queue'[j] => i = j
    BY <2>1 DEF OneTask
  <2>5. OneTask'
    BY <1>1, <2>2, <2>3, <2>4 DEF OneTask
  <2>6. \A v \in Updates : Undecided(v)' => Undecided(v)
    BY <1>1, <2>2, <2>3 DEF Undecided
  <2> QED BY <2>5, <2>6
<1> QED BY <1>2, <1>3 DEF RunnerContinues

LEMMA CrashKeepsTasks ==
  ASSUME TypeOK, Crash
  PROVE  OneTask' /\ \A v \in Updates : Undecided(v)' => Undecided(v)
<1>1. /\ queue' = <<>> /\ running' = Runner
      /\ \A v \in Updates : handler'[v] # "finished" => handler[v] # "finished"
  BY DEF Crash, TypeOK
<1>2. handler' \in [Updates -> {"new", "finished"}]
  BY DEF Crash
<1>3. Len(queue') = 0 /\ \A v \in Updates : v # Runner
  BY <1>1, RunnerAssumption
<1>4. \A x : ~Queued(x)'
  BY <1>3 DEF Queued
<1> QED BY <1>1, <1>3, <1>4 DEF OneTask, Undecided

\* A logged block stays "announce" until the runner lets go of its task.
LEMMA AnnounceEnds ==
  ASSUME TypeOK, Next, Steady, exec[Runner] = "announce"
  PROVE  running' = Runner \/ exec'[Runner] = "announce"
<1>1. exec \in [Executors -> ExecPlaces] /\ Runner \in Executors
      /\ \A u \in Updates : u \in Executors /\ u # Runner
  BY RunnerAssumption DEF TypeOK, Executors
<1>2. ASSUME NEW u \in Updates, EndTask(u) \/ NotBlocked(u) \/ \E place : ExecGoto(u, place)
      PROVE  exec'[Runner] = "announce"
  BY <1>1, <1>2 DEF EndTask, NotBlocked, ExecGoto
<1>3. ASSUME NEW u \in Updates, Receive(u) \/ HandlerStep(u)
      PROVE  exec'[Runner] = "announce"
  BY <1>3 DEF Receive, HandlerStep, SaveRow, HandlerFails, ReadPrior, ReadOther,
     CountInstances, EnqueueBlock, SendWarning
<1>4. ASSUME NEW u \in Updates, PressButton(u) \/ OfferExpires(u) \/ ButtonReadsPrior(u)
      PROVE  exec'[Runner] = "announce"
  BY <1>2, <1>4 DEF PressButton, OfferExpires, ButtonReadsPrior
<1>5. ASSUME NEW u \in Updates, ExecutorStep(u)
      PROVE  exec'[Runner] = "announce"
  BY <1>2, <1>5 DEF ExecutorStep, AskSession, Unblock, Block, SendNotice, Announce
<1>6. CASE RunnerStep
  BY <1>6 DEF RunnerStep, ExecutorStep, AskSession, Unblock, Block, SendNotice,
     Announce, EndTask, FallbackReads, FallbackWarns, RunnerContinues
<1>7. CASE LogSettles
  BY <1>7 DEF LogSettles
<1>8. CASE Crash
  BY <1>8 DEF Crash
<1> QED BY <1>3, <1>4, <1>5, <1>6, <1>7, <1>8 DEF Next

LEMMA TasksStep ==
  ASSUME TypeOK, OneTask, Next
  PROVE  OneTask' /\ \A v \in Updates : Undecided(v)' => Undecided(v)
<1>1. CASE Steady
  <2>1. OneTask'
    BY <1>1, SteadyKeepsTasks
  <2>2. \A x : Queued(x)' <=> Queued(x)
    BY <1>1 DEF Queued, Steady
  <2>3. \A v \in Updates : v # Runner
    BY RunnerAssumption
  <2>4. exec[Runner] = "announce" => running' = Runner \/ exec'[Runner] = "announce"
    BY <1>1, AnnounceEnds
  <2> QED BY <1>1, <2>1, <2>2, <2>3, <2>4 DEF Undecided, Steady
<1>2. ASSUME NEW u \in Updates, CountInstances(u)
      PROVE  OneTask' /\ \A v \in Updates : Undecided(v)' => Undecided(v)
  BY <1>2, CountKeepsTasks
<1>3. CASE RunnerContinues
  BY <1>3, ContinueKeepsTasks
<1>4. CASE Crash
  BY <1>4, CrashKeepsTasks
<1>5. Runner \in Executors /\ \A u \in Updates : u \in Executors
  BY DEF Executors
<1> QED BY <1>1, <1>2, <1>3, <1>4, <1>5, HandlerSteady, ExecutorSteady
        DEF Next, HandlerStep, RunnerStep

\* A step that takes no decision about v, and reopens none.
Calm(v) ==
  /\ \A d \in Decisions : Entries(v, d)' <= Entries(v, d)
  /\ v \in offers' => v \in offers
  /\ exec[v] = "idle" => exec'[v] = "idle"
  /\ \A place \in {"prior", "session", "unblock", "block", "notice"} :
       exec'[v] = place =>
         exec[v] \in {"prior", "session", "unblock", "block", "notice"}
  /\ Undecided(v) \/ other'[v] = other[v]

LEMMA CalmKeepsRow ==
  ASSUME TypeOK, TypeOK', NEW v \in Updates, RowInv(v), Calm(v), Undecided(v)' => Undecided(v)
  PROVE  RowInv(v)'
<1>1. \A d \in Decisions : Entries(v, d) \in Nat
  BY EntriesNat
<1>2. (\A u \in Updates : \A d \in Decisions : Entries(u, d) \in Nat)'
  BY EntriesNat, PTL
<1>3. \A d \in Decisions : Entries(v, d)' \in Nat
  BY <1>2
<1>4. "ignore" \in Decisions /\ "warn" \in Decisions /\ "block" \in Decisions
  BY DEF Decisions
<1>5. Reopened(v)' => Reopened(v)
  BY DEF Reopened, Calm
<1>6. \A d \in Decisions : Entries(v, d) = 0 => Entries(v, d)' = 0
  BY <1>1, <1>3 DEF Calm
<1>7. (Undecided(v) => /\ \A d \in Decisions : Entries(v, d) = 0
                       /\ v \notin offers /\ exec[v] = "idle")'
  BY <1>6 DEF RowInv, Calm
<1>8. (v \in offers => exec[v] = "idle")'
  BY DEF RowInv, Calm
<1>9. (Reopened(v) => other[v] /\ Entries(v, "block") = 0 /\ Entries(v, "ignore") = 0)'
  <2>1. Reopened(v)' => other'[v] = other[v]
    BY <1>5 DEF RowInv, Calm, Reopened
  <2> QED BY <1>4, <1>5, <1>6, <2>1 DEF RowInv
<1>10. OneDecision(v)'
  <2>1. \A d \in Decisions : Entries(v, d)' > 0 => Entries(v, d) > 0
    BY <1>1, <1>3 DEF Calm
  <2>2. \A d \in Decisions : Entries(v, d)' <= MaxWrites
    BY <1>1, <1>3, WritesAssumption DEF RowInv, OneDecision, Calm
  <2>3. Entries(v, "block")' > 0 => other'[v] = other[v]
    BY <1>4, <1>6, <1>3 DEF RowInv, Calm
  <2> QED BY <1>4, <1>6, <2>1, <2>2, <2>3 DEF RowInv, OneDecision
<1> QED BY <1>7, <1>8, <1>9, <1>10 DEF RowInv

\* The decision the pipeline owed u is logged.
LEMMA DecidesRow ==
  ASSUME TypeOK, TypeOK', NEW u \in Updates, NEW d \in Decisions, RowInv(u), Undecided(u),
         ~Undecided(u)', SaveDeferred(u, d), log' = log, exec'[u] = exec[u],
         other' = other, u \in offers' => d = "warn" /\ other[u]
  PROVE  RowInv(u)'
<1>1. /\ \A c \in Decisions : Entries(u, c)' = IF c = d THEN MaxWrites ELSE 0
      /\ MaxWrites \in Nat
  BY EntriesSaved, WritesAssumption DEF RowInv
<1>2. "ignore" \in Decisions /\ "warn" \in Decisions /\ "block" \in Decisions
  BY DEF Decisions
<1>3. exec'[u] = "idle"
  BY DEF RowInv
<1>4. (Reopened(u) => other[u] /\ Entries(u, "block") = 0 /\ Entries(u, "ignore") = 0)'
  BY <1>1, <1>2, <1>3 DEF Reopened
<1>5. OneDecision(u)'
  BY <1>1, <1>2 DEF OneDecision
<1> QED BY <1>3, <1>4, <1>5 DEF RowInv

\* A step that logs something for u is calm for every other row.
LEMMA OthersCalm ==
  ASSUME TypeOK, NEW u \in Updates, NEW d \in Decisions, SaveDeferred(u, d), log' = log,
         NEW v \in Updates, v # u, v \in offers' => v \in offers, exec'[v] = exec[v],
         other' = other
  PROVE  Calm(v)
<1>1. \A c \in Decisions : Entries(v, c)' = Entries(v, c) /\ Entries(v, c) \in Nat
  BY EntriesSaved, EntriesNat
<1> QED BY <1>1 DEF Calm

LEMMA KeptCalm ==
  ASSUME TypeOK, UNCHANGED <<logQueue, log>>, NEW v \in Updates
  PROVE  \A d \in Decisions : Entries(v, d)' <= Entries(v, d)
<1>1. \A c \in Decisions : Entries(v, c)' = Entries(v, c) /\ Entries(v, c) \in Nat
  BY EntriesKept, EntriesNat
<1> QED BY <1>1

LEMMA HandlerRow ==
  ASSUME TypeOK, TypeOK', OneTask, NEW u \in Updates, Receive(u) \/ HandlerStep(u),
         NEW v \in Updates, RowInv(v), Undecided(v)' => Undecided(v)
  PROVE  RowInv(v)'
<1>1. /\ handler \in [Updates -> HandlerPlaces] /\ v # Runner
      /\ exec \in [Executors -> ExecPlaces] /\ v \in Executors
  BY RunnerAssumption DEF TypeOK, Executors
<1>2. CASE \/ Receive(u) \/ SaveRow(u) \/ HandlerFails(u) \/ ReadOther(u)
           \/ CountInstances(u) \/ (ReadPrior(u) /\ UNCHANGED logQueue)
  <2>1. UNCHANGED <<logQueue, log, offers>>
    BY <1>2 DEF Receive, SaveRow, HandlerFails, ReadOther, CountInstances, ReadPrior
  <2>2. exec'[v] = exec[v]
    BY <1>1, <1>2 DEF Receive, SaveRow, HandlerFails, ReadOther, CountInstances,
       ReadPrior, EnqueueBlock
  <2>3. Undecided(v) \/ other'[v] = other[v]
    BY <1>2 DEF Receive, SaveRow, HandlerFails, ReadOther, CountInstances, ReadPrior,
       Undecided, TypeOK
  <2>4. Calm(v)
    BY <2>1, <2>2, <2>3, KeptCalm DEF Calm
  <2> QED BY <2>4, CalmKeepsRow
<1>3. ASSUME NEW d \in Decisions, SaveDeferred(u, d), Goto(u, "finished"),
             handler[u] # "finished", UNCHANGED <<other, queue, running, exec, log>>,
             \A x \in offers' : x \in offers \/ (x = u /\ d = "warn" /\ other[u])
      PROVE  RowInv(v)'
  <2>1. CASE v = u
    <3>1. ~Queued(u) /\ running # u /\ Undecided(u)
      BY <1>3 DEF OneTask, Undecided
    <3>2. ~Undecided(u)'
      BY <1>1, <1>3, <3>1 DEF Undecided, Queued, Goto
    <3>3. u \notin offers
      BY <2>1, <3>1 DEF RowInv
    <3> QED BY <1>3, <2>1, <3>1, <3>2, <3>3, DecidesRow
  <2>2. CASE v # u
    <3>1. Calm(v)
      BY <1>3, <2>2, OthersCalm
    <3> QED BY <3>1, CalmKeepsRow
  <2> QED BY <2>1, <2>2
<1>4. CASE ReadPrior(u) /\ SaveDeferred(u, "ignore")
  <2>1. "ignore" \in Decisions
    BY DEF Decisions
  <2> QED BY <1>2, <1>3, <1>4, <2>1 DEF ReadPrior
<1>5. CASE SendWarning(u)
  <2>1. "warn" \in Decisions
    BY DEF Decisions
  <2> QED BY <1>3, <1>5, <2>1 DEF SendWarning, Warn, OfferBlock
<1> QED BY <1>2, <1>4, <1>5 DEF HandlerStep, ReadPrior

LEMMA ButtonRow ==
  ASSUME TypeOK, TypeOK', NEW u \in Updates,
         PressButton(u) \/ OfferExpires(u) \/ ButtonReadsPrior(u),
         NEW v \in Updates, RowInv(v), Undecided(v)' => Undecided(v)
  PROVE  RowInv(v)'
<1>1. exec \in [Executors -> ExecPlaces] /\ u \in Executors /\ v \in Executors
      /\ u # Runner /\ v # Runner
  BY RunnerAssumption DEF TypeOK, Executors
<1>2. UNCHANGED <<other, logQueue, log>>
  BY DEF PressButton, OfferExpires, ButtonReadsPrior
<1>3. \A d \in Decisions : Entries(v, d)' <= Entries(v, d)
  BY <1>2, KeptCalm
<1>4. CASE PressButton(u) /\ v = u
  <2>1. v \in offers /\ v \notin offers' /\ exec'[v] = "prior"
    BY <1>1, <1>4 DEF PressButton, ConsumeOffer, ExecGoto
  <2>2. ~Undecided(v)'
    BY <2>1 DEF RowInv
  <2>3. \A d \in Decisions : Entries(v, d)' = Entries(v, d)
    BY <1>2, EntriesKept
  <2>4. "ignore" \in Decisions /\ "warn" \in Decisions /\ "block" \in Decisions
    BY DEF Decisions
  <2>5. (Reopened(v) => other[v] /\ Entries(v, "block") = 0 /\ Entries(v, "ignore") = 0)'
    BY <1>2, <2>1, <2>3, <2>4 DEF RowInv, Reopened
  <2>6. OneDecision(v)'
    BY <1>2, <2>3, <2>4 DEF RowInv, OneDecision
  <2> QED BY <2>1, <2>2, <2>5, <2>6 DEF RowInv
<1>5. CASE PressButton(u) /\ v # u
  <2>1. exec'[v] = exec[v] /\ (v \in offers' => v \in offers)
    BY <1>1, <1>5 DEF PressButton, ConsumeOffer, ExecGoto
  <2>2. Calm(v)
    BY <1>2, <1>3, <2>1 DEF Calm
  <2> QED BY <2>2, CalmKeepsRow
<1>6. CASE OfferExpires(u)
  <2>1. exec'[v] = exec[v] /\ (v \in offers' => v \in offers)
    BY <1>6 DEF OfferExpires
  <2>2. Calm(v)
    BY <1>2, <1>3, <2>1 DEF Calm
  <2> QED BY <2>2, CalmKeepsRow
<1>7. CASE ButtonReadsPrior(u)
  <2>1. offers' = offers
    BY <1>7 DEF ButtonReadsPrior
  <2>2. exec'[v] = exec[v] \/ (v = u /\ exec[u] = "prior")
    BY <1>1, <1>7 DEF ButtonReadsPrior, EndTask, ExecGoto
  <2>3. Calm(v)
    BY <1>2, <1>3, <2>1, <2>2 DEF Calm
  <2> QED BY <2>3, CalmKeepsRow
<1> QED BY <1>4, <1>5, <1>6, <1>7

LEMMA ExecutorRow ==
  ASSUME TypeOK, TypeOK', OneTask, NEW e \in Executors, ExecutorStep(e),
         NEW v \in Updates, RowInv(v), Undecided(v)' => Undecided(v)
  PROVE  RowInv(v)'
<1> DEFINE Opened == {"prior", "session", "unblock", "block", "notice"}
<1>1. exec \in [Executors -> ExecPlaces] /\ v \in Executors /\ v # Runner
  BY RunnerAssumption DEF TypeOK, Executors
<1>2. offers' = offers /\ log' = log /\ other' = other
  BY DEF ExecutorStep, AskSession, Unblock, Block, SendNotice, Announce
<1>3. ASSUME NEW x \in Executors, x # e
      PROVE  exec'[x] = exec[x]
  BY <1>1, <1>3 DEF ExecutorStep, AskSession, Unblock, Block, SendNotice, Announce,
     EndTask, ExecGoto, NotBlocked
<1>4. CASE AskSession(e) \/ Unblock(e) \/ Block(e) \/ Announce(e)
  <2>1. \A d \in Decisions : Entries(v, d)' <= Entries(v, d)
    BY <1>4, KeptCalm DEF AskSession, Unblock, Block, Announce
  <2>2. v = e => exec[v] # "idle" /\ (exec'[v] \in Opened => exec[v] \in Opened)
    BY <1>1, <1>4 DEF AskSession, Unblock, Block, Announce, EndTask, ExecGoto, NotBlocked
  <2>3. Calm(v)
    BY <1>1, <1>2, <1>3, <2>1, <2>2 DEF Calm
  <2> QED BY <2>3, CalmKeepsRow
<1>5. CASE SendNotice(e)
  <2>1. exec[e] = "notice" /\ SaveDeferred(Subject(e), "block") /\ UNCHANGED queue
        /\ exec' = [exec EXCEPT ![e] = "announce"] /\ running' = running /\ handler' = handler
    BY <1>5 DEF SendNotice, ExecGoto
  <2>2. Subject(e) \in Updates /\ "block" \in Decisions
    BY <2>1, SubjectType DEF Decisions
  <2>3. CASE v # Subject(e)
    <3>1. exec'[v] = exec[v]
      BY <1>1, <2>1, <2>3 DEF Subject
    <3>2. Calm(v)
      BY <1>2, <2>1, <2>2, <2>3, <3>1, OthersCalm
    <3> QED BY <3>2, CalmKeepsRow
  <2>4. CASE v = Subject(e) /\ e = Runner
    <3>1. running = v
      BY <2>4 DEF Subject
    <3>2. handler[v] = "finished" /\ ~Queued(v)
      BY <3>1 DEF OneTask
    <3>3. Undecided(v) /\ ~Undecided(v)'
      BY <1>1, <2>1, <2>4, <3>1, <3>2 DEF Undecided, Queued
    <3>4. exec'[v] = exec[v] /\ v \notin offers
      BY <1>1, <1>3, <2>4, <3>3 DEF RowInv
    <3> QED BY <1>2, <2>1, <2>2, <2>4, <3>3, <3>4, DecidesRow
  <2>5. CASE v = Subject(e) /\ e # Runner
    <3>1. v = e /\ Reopened(v) /\ exec'[v] = "announce" /\ v \notin offers
      BY <1>1, <2>1, <2>5 DEF Subject, Reopened, RowInv
    <3>2. ~Undecided(v)'
      BY <2>1, <3>1 DEF RowInv
    <3>3. "ignore" \in Decisions /\ "warn" \in Decisions /\ "block" \in Decisions
      BY DEF Decisions
    <3>4. /\ Entries(v, "block") = 0 /\ Entries(v, "ignore") = 0
          /\ Entries(v, "block")' = MaxWrites /\ Entries(v, "ignore")' = 0
          /\ Entries(v, "warn")' = Entries(v, "warn") /\ MaxWrites \in Nat
      BY <1>2, <2>1, <2>2, <2>5, <3>1, <3>3, EntriesSaved, WritesAssumption DEF RowInv
    <3>5. OneDecision(v)'
      BY <1>2, <3>1, <3>3, <3>4 DEF OneDecision, RowInv, Decisions
    <3>6. ~Reopened(v)'
      BY <1>2, <3>1 DEF Reopened
    <3> QED BY <1>2, <3>1, <3>2, <3>5, <3>6 DEF RowInv
  <2> QED BY <2>3, <2>4, <2>5
<1> QED BY <1>4, <1>5 DEF ExecutorStep

LEMMA RunnerRow ==
  ASSUME TypeOK, TypeOK', OneTask, FallbackReads \/ FallbackWarns \/ RunnerContinues,
         NEW v \in Updates, RowInv(v), Undecided(v)' => Undecided(v)
  PROVE  RowInv(v)'
<1>1. /\ exec \in [Executors -> ExecPlaces] /\ v \in Executors /\ v # Runner
      /\ Runner \in Executors
  BY RunnerAssumption DEF TypeOK, Executors
<1>2. exec'[v] = exec[v] /\ log' = log
  BY <1>1 DEF FallbackReads, FallbackWarns, RunnerContinues, EndTask, ExecGoto
<1>3. CASE FallbackReads \/ RunnerContinues
  <2>1. \A d \in Decisions : Entries(v, d)' <= Entries(v, d)
    BY <1>3, KeptCalm DEF FallbackReads, RunnerContinues
  <2>2. Undecided(v) \/ other'[v] = other[v]
    BY <1>3 DEF FallbackReads, RunnerContinues, Undecided, TypeOK
  <2>3. Calm(v)
    BY <1>2, <1>3, <2>1, <2>2 DEF Calm, FallbackReads, RunnerContinues
  <2> QED BY <2>3, CalmKeepsRow
<1>4. CASE FallbackWarns
  <2>1. /\ exec[Runner] = "fallback" /\ SaveDeferred(running, "warn")
        /\ running' = Runner /\ UNCHANGED <<handler, queue>>
        /\ other' = other
        /\ \A x \in offers' : x \in offers \/ (x = running /\ other[x])
    BY <1>4 DEF FallbackWarns, Warn, OfferBlock, EndTask
  <2>2. running \in Updates /\ "warn" \in Decisions
    BY <1>1, <2>1, SubjectType DEF Subject, Decisions
  <2>3. CASE v # running
    <3>1. Calm(v)
      BY <1>2, <2>1, <2>2, <2>3, OthersCalm
    <3> QED BY <3>1, CalmKeepsRow
  <2>4. CASE v = running
    <3>1. handler[v] = "finished" /\ ~Queued(v)
      BY <2>4 DEF OneTask
    <3>2. Undecided(v) /\ ~Undecided(v)'
      BY <1>1, <2>1, <2>4, <3>1 DEF Undecided, Queued
    <3>3. v \notin offers
      BY <3>2 DEF RowInv
    <3> QED BY <1>2, <2>1, <2>2, <2>4, <3>2, <3>3, DecidesRow
  <2> QED BY <2>3, <2>4
<1> QED BY <1>3, <1>4

LEMMA SettleRow ==
  ASSUME TypeOK, TypeOK', LogSettles \/ Crash,
         NEW v \in Updates, RowInv(v), Undecided(v)' => Undecided(v)
  PROVE  RowInv(v)'
<1>1. \A d \in Decisions : Entries(v, d)' <= Entries(v, d)
  BY EntriesSettle, EntriesLost
<1>2. exec'[v] = exec[v] \/ exec'[v] = "idle"
  BY DEF LogSettles, Crash, Executors
<1>3. (v \in offers' => v \in offers) /\ other' = other
  BY DEF LogSettles, Crash
<1>4. Calm(v)
  BY <1>1, <1>2, <1>3 DEF Calm
<1> QED BY <1>4, CalmKeepsRow

LEMMA DecisionStep == TypeOK /\ TypeOK' /\ DecisionInv /\ [Next]_vars => DecisionInv'
<1> SUFFICES ASSUME TypeOK, TypeOK', DecisionInv, [Next]_vars PROVE DecisionInv'
  OBVIOUS
<1>1. CASE UNCHANGED vars
  <2>1. UNCHANGED <<handler, other, queue, running, exec, offers, logQueue, log>>
    BY <1>1 DEF vars
  <2>2. \A x : Queued(x)' <=> Queued(x)
    BY <2>1 DEF Queued
  <2>3. ASSUME NEW v \in Updates PROVE RowInv(v)'
    <3>1. Calm(v)
      BY <2>1, KeptCalm DEF Calm
    <3>2. Undecided(v)' => Undecided(v)
      BY <2>1, <2>2 DEF Undecided
    <3> QED BY <3>1, <3>2, CalmKeepsRow DEF DecisionInv
  <2> QED BY <2>1, <2>2, <2>3 DEF DecisionInv, OneTask
<1>2. CASE Next
  <2>1. OneTask' /\ \A v \in Updates : Undecided(v)' => Undecided(v)
    BY <1>2, TasksStep DEF DecisionInv
  <2>2. Runner \in Executors /\ \A u \in Updates : u \in Executors
    BY DEF Executors
  <2>3. ASSUME NEW v \in Updates PROVE RowInv(v)'
    BY <1>2, <2>1, <2>2, HandlerRow, ButtonRow, ExecutorRow, RunnerRow, SettleRow
       DEF Next, RunnerStep, DecisionInv
  <2> QED BY <2>1, <2>3 DEF DecisionInv
<1> QED BY <1>1, <1>2

LEMMA DecisionInit == Init => DecisionInv
<1> SUFFICES ASSUME Init PROVE DecisionInv
  OBVIOUS
<1>1. TypeOK
  BY TypeInit
<1>2. Len(queue) = 0 /\ Len(logQueue) = 0 /\ \A u \in Updates : running # u
  BY RunnerAssumption DEF Init
<1>3. OneTask
  BY <1>2 DEF OneTask, Queued
<1>4. ASSUME NEW u \in Updates PROVE RowInv(u)
  <2>1. ASSUME NEW d \in Decisions PROVE Entries(u, d) = 0
    <3>1. {i \in 1..Len(logQueue) : logQueue[i] = <<u, d>>} = {} /\ log[u][d] = 0
      BY <1>2, <2>1 DEF Init
    <3>2. Entries(u, d) = 0 + 0
      BY <3>1, FS_EmptySet, OnTheWay DEF Entries, OnTheirWay
    <3> QED BY <3>2
  <2>2. exec[u] = "idle" /\ u \notin offers
    BY DEF Init, Executors
  <2>3. ~Reopened(u)
    BY <2>2 DEF Reopened
  <2>4. OneDecision(u)
    BY <2>1, WritesAssumption DEF OneDecision, Decisions
  <2> QED BY <2>1, <2>2, <2>3, <2>4 DEF RowInv
<1> QED BY <1>3, <1>4 DEF DecisionInv

\* A row gets one decision from the pipeline, and a second one only from a
\* "Block now" on a warned message, for any number of handlers, presses and
\* crashes and whichever calls fail (process-incoming-message.ts,
\* block-tier-handler.ts, handle-owner-block-callback.ts).
THEOREM Decided == Spec => []OneDecisionPerRow
<1>1. DecisionInv => OneDecisionPerRow
  BY DEF DecisionInv, RowInv, OneDecision, OneDecisionPerRow
<1> QED BY <1>1, TypeInit, TypeStep, DecisionInit, DecisionStep, PTL DEF Spec, SafeSpec

-----------------------------------------------------------------------------
(* One row per message.                                                     *)

LEMMA ClaimsType ==
  ASSUME TypeOK, NEW k \in Keys
  PROVE  forgotten[k] \in Nat /\ Claims(k) \in Nat
BY DEF TypeOK, Claims

\* A step that has no new claimant of k, and takes back no claim of k.
LEMMA ClaimantsKept ==
  ASSUME NEW k \in Keys, ClaimInv, Claims(k)' = Claims(k), TypeOK,
         \A v \in Updates : Message[v] = k /\ Claimant(v)' => Claimant(v)
  PROVE  IsFiniteSet(Claimants(k)') /\ Cardinality(Claimants(k)') <= Claims(k)'
<1>1. IsFiniteSet(Claimants(k)) /\ Cardinality(Claimants(k)) <= Claims(k)
  BY DEF ClaimInv
<1>2. Claimants(k)' \subseteq Claimants(k)
  BY DEF Claimants
<1>3. /\ IsFiniteSet(Claimants(k)') /\ Cardinality(Claimants(k)') <= Cardinality(Claimants(k))
      /\ Cardinality(Claimants(k)') \in Nat /\ Cardinality(Claimants(k)) \in Nat
  BY <1>1, <1>2, FS_Subset, FS_CardinalityType
<1> QED BY <1>1, <1>3, ClaimsType

LEMMA OneMore ==
  ASSUME NEW S, IsFiniteSet(S), NEW x
  PROVE  /\ IsFiniteSet(S \cup {x}) /\ Cardinality(S) \in Nat
         /\ Cardinality(S \cup {x}) \in Nat /\ Cardinality(S \cup {x}) <= Cardinality(S) + 1
<1>1. Cardinality(S) \in Nat
  BY FS_CardinalityType
<1>2. CASE x \in S
  <2>1. S \cup {x} = S
    BY <1>2
  <2>2. IsFiniteSet(S \cup {x}) /\ Cardinality(S \cup {x}) = Cardinality(S)
    BY <2>1
  <2>3. Cardinality(S) <= Cardinality(S) + 1
    BY <1>1
  <2> QED BY <1>1, <2>2, <2>3
<1>3. CASE x \notin S
  <2>1. IsFiniteSet(S \cup {x}) /\ Cardinality(S \cup {x}) = Cardinality(S) + 1
    BY <1>3, FS_AddElement
  <2> QED BY <1>1, <2>1
<1> QED BY <1>2, <1>3

\* One more claim is granted to one more update.
LEMMA ReceiveClaims ==
  ASSUME TypeOK, ClaimInv, NEW u \in Updates, Claim(u), Goto(u, "saving"), rows' = rows,
         NEW k \in Keys
  PROVE  IsFiniteSet(Claimants(k)') /\ Cardinality(Claimants(k)') <= Claims(k)'
<1>1. /\ seen' = seen \cup {Message[u]}
      /\ forgotten'[k] = IF k \in {Message[u]} \cap seen THEN forgotten[k] + 1 ELSE forgotten[k]
      /\ forgotten[k] \in Nat
  BY ClaimsType DEF Claim, Forget
<1>2. \A v \in Updates : Claimant(v)' => Claimant(v) \/ v = u
  BY DEF Claimant, Goto, TypeOK
<1>3. CASE k # Message[u]
  <2>1. Claims(k)' = Claims(k)
    BY <1>1, <1>3 DEF Claims
  <2> QED BY <1>2, <1>3, <2>1, ClaimantsKept
<1>4. CASE k = Message[u]
  <2>1. Claims(k)' = Claims(k) + 1 /\ Claims(k) \in Nat
    BY <1>1, <1>4 DEF Claims
  <2>2. IsFiniteSet(Claimants(k)) /\ Cardinality(Claimants(k)) <= Claims(k)
    BY DEF ClaimInv
  <2>3. /\ IsFiniteSet(Claimants(k) \cup {u}) /\ Cardinality(Claimants(k)) \in Nat
        /\ Cardinality(Claimants(k) \cup {u}) <= Cardinality(Claimants(k)) + 1
        /\ Cardinality(Claimants(k) \cup {u}) \in Nat
    BY <2>2, OneMore
  <2>4. Claimants(k)' \subseteq Claimants(k) \cup {u}
    BY <1>2 DEF Claimants
  <2>5. /\ IsFiniteSet(Claimants(k)') /\ Cardinality(Claimants(k)') \in Nat
        /\ Cardinality(Claimants(k)') <= Cardinality(Claimants(k) \cup {u})
    BY <2>3, <2>4, FS_Subset, FS_CardinalityType
  <2> QED BY <2>1, <2>2, <2>3, <2>5
<1> QED BY <1>3, <1>4

LEMMA ClaimStep == TypeOK /\ ClaimInv /\ [Next]_vars => ClaimInv'
<1> SUFFICES ASSUME TypeOK, ClaimInv, [Next]_vars, NEW k \in Keys
             PROVE  IsFiniteSet(Claimants(k)') /\ Cardinality(Claimants(k)') <= Claims(k)'
  BY DEF ClaimInv, Keys
<1>1. handler \in [Updates -> HandlerPlaces]
  BY DEF TypeOK
<1>2. ASSUME UNCHANGED <<seen, forgotten>>, \A v \in Updates : Claimant(v)' => Claimant(v)
      PROVE  IsFiniteSet(Claimants(k)') /\ Cardinality(Claimants(k)') <= Claims(k)'
  <2>1. Claims(k)' = Claims(k)
    BY <1>2 DEF Claims
  <2> QED BY <1>2, <2>1, ClaimantsKept
<1>3. ASSUME NEW u \in Updates, Receive(u)
      PROVE  IsFiniteSet(Claimants(k)') /\ Cardinality(Claimants(k)') <= Claims(k)'
  <2>1. CASE Claim(u) /\ Goto(u, "saving")
    BY <1>3, <2>1, ReceiveClaims DEF Receive
  <2>2. CASE UNCHANGED <<seen, forgotten>> /\ handler' = [handler EXCEPT ![u] = "finished"]
    BY <1>1, <1>2, <1>3, <2>2 DEF Receive, Claimant
  <2> QED BY <1>3, <2>1, <2>2 DEF Receive, Goto
<1>4. ASSUME NEW u \in Updates, HandlerStep(u)
      PROVE  /\ UNCHANGED <<seen, forgotten>>
             /\ \A v \in Updates : Claimant(v)' => Claimant(v)
  <2>1. CASE SaveRow(u) \/ HandlerFails(u)
    BY <1>1, <2>1 DEF SaveRow, HandlerFails, Goto, Claimant
  <2>2. CASE ReadPrior(u) \/ ReadOther(u) \/ CountInstances(u) \/ SendWarning(u)
    <3>1. UNCHANGED <<seen, forgotten, rows>>
      BY <2>2 DEF ReadPrior, ReadOther, CountInstances, SendWarning
    <3>2. \E place \in {"other", "count", "warning", "finished"} :
             handler' = [handler EXCEPT ![u] = place]
      BY <2>2 DEF ReadPrior, ReadOther, CountInstances, SendWarning, Goto
    <3> QED BY <1>1, <3>1, <3>2 DEF Claimant
  <2> QED BY <1>4, <2>1, <2>2 DEF HandlerStep
<1>5. ASSUME \/ UNCHANGED vars \/ RunnerStep \/ LogSettles
             \/ \E u \in Updates : \/ PressButton(u) \/ OfferExpires(u)
                                   \/ ButtonReadsPrior(u) \/ ExecutorStep(u)
      PROVE  UNCHANGED <<handler, seen, forgotten, rows>>
  <2>1. ASSUME NEW e, ExecutorStep(e)
        PROVE  UNCHANGED <<handler, seen, forgotten, rows>>
    BY <2>1 DEF ExecutorStep, AskSession, Unblock, Block, SendNotice, Announce
  <2>2. ASSUME NEW u, PressButton(u) \/ OfferExpires(u) \/ ButtonReadsPrior(u)
        PROVE  UNCHANGED <<handler, seen, forgotten, rows>>
    BY <2>2 DEF PressButton, OfferExpires, ButtonReadsPrior
  <2>3. CASE FallbackReads \/ FallbackWarns \/ RunnerContinues \/ LogSettles
    BY <2>3 DEF FallbackReads, FallbackWarns, RunnerContinues, LogSettles
  <2> QED BY <1>5, <2>1, <2>2, <2>3 DEF vars, RunnerStep
<1>6. CASE Crash
  <2>1. Claims(k)' = Claims(k)
    BY <1>6, ClaimsType DEF Crash, Forget, Claims
  <2>2. \A v \in Updates : Claimant(v)' => Claimant(v)
    BY <1>1, <1>6 DEF Crash, Claimant
  <2> QED BY <2>1, <2>2, ClaimantsKept
<1> QED BY <1>2, <1>3, <1>4, <1>5, <1>6 DEF Next, Claimant

LEMMA ClaimInit == Init => ClaimInv
<1> SUFFICES ASSUME Init, NEW k \in Keys
             PROVE  IsFiniteSet(Claimants(k)) /\ Cardinality(Claimants(k)) <= Claims(k)
  BY DEF ClaimInv
<1>1. Claimants(k) = {} /\ Claims(k) = 0
  BY DEF Init, Claimants, Claimant, Claims
<1> QED BY <1>1, FS_EmptySet

\* What ClaimInv says of the table.
LEMMA RowsOfMessage ==
  ASSUME TypeOK, ClaimInv, NEW k \in Keys
  PROVE  LET R == {u \in rows : Message[u] = k}
         IN  /\ IsFiniteSet(R) /\ Cardinality(R) \in Nat
             /\ Cardinality(R) <= 1 + forgotten[k]
<1> DEFINE R == {u \in rows : Message[u] = k}
<1>1. IsFiniteSet(Claimants(k)) /\ Cardinality(Claimants(k)) <= Claims(k)
  BY DEF ClaimInv
<1>2. R \subseteq Claimants(k)
  BY DEF TypeOK, Claimants, Claimant
<1>3. /\ IsFiniteSet(R) /\ Cardinality(R) <= Cardinality(Claimants(k))
      /\ Cardinality(R) \in Nat /\ Cardinality(Claimants(k)) \in Nat
  BY <1>1, <1>2, FS_Subset, FS_CardinalityType
<1>4. forgotten[k] \in Nat /\ Claims(k) \in Nat /\ Claims(k) <= 1 + forgotten[k]
  BY ClaimsType DEF Claims
<1> QED BY <1>1, <1>3, <1>4

\* Telegram may deliver a message any number of times, to handlers in any
\* interleaving and to any number of processes one after the other: it has one
\* row, and at most one more for each time its claim was over its TTL, trimmed
\* or gone with a process (InboundMessageDedupe in process-incoming-message.ts).
THEOREM CountedOnce == Spec => []OneRowPerMessage
<1>1. TypeOK /\ ClaimInv => OneRowPerMessage
  BY RowsOfMessage DEF OneRowPerMessage
<1> QED BY <1>1, TypeInit, TypeStep, ClaimInit, ClaimStep, PTL DEF Spec, SafeSpec

-----------------------------------------------------------------------------
(* What the log says of the block list.                                     *)

\* A step that makes no block known, and takes nobody off a block list.
LEMMA KeepsBlocks ==
  ASSUME TypeOK, TypeOK', BlockInv, crashes' = crashes, blocked \subseteq blocked',
         \A u \in Updates : Entries(u, "block")' <= Entries(u, "block"),
         \A e \in Executors : exec'[e] = "notice" =>
           exec[e] = "notice" /\ Pair(Subject(e))' = Pair(Subject(e)),
         \A e \in Executors : exec[e] = "block" =>
           exec'[e] = "block" /\ Pair(Subject(e))' = Pair(Subject(e))
  PROVE  BlockInv'
<1>1. \A u \in Updates : Entries(u, "block") \in Nat
  BY EntriesNat DEF Decisions
<1>2. (\A u \in Updates : \A d \in Decisions : Entries(u, d) \in Nat)'
  BY EntriesNat, PTL
<1>3. \A u \in Updates : Entries(u, "block")' \in Nat
  BY <1>2 DEF Decisions
<1>4. \A u \in Updates : Pair(u)' = Pair(u)
  BY DEF Pair
<1>5. \A p \in Pairs : BlockMade(p)' => BlockMade(p)
  BY <1>1, <1>3, <1>4 DEF BlockMade
<1>6. \A p \in Pairs : BetweenTheCalls(p) => BetweenTheCalls(p)'
  BY DEF BetweenTheCalls
<1> QED BY <1>5, <1>6 DEF BlockInv

LEMMA BlocksKept ==
  ASSUME TypeOK, TypeOK', BlockInv, Next,
         \A e \in Executors : ~Unblock(e) /\ ~Block(e) /\ ~SendNotice(e)
  PROVE  BlockInv'
<1>1. /\ exec \in [Executors -> ExecPlaces] /\ Runner \in Executors /\ "block" \in Decisions
      /\ running = Runner <=> exec[Runner] \in {"idle", "between"}
      /\ \A u \in Updates : u \in Executors /\ u # Runner
  BY RunnerAssumption DEF TypeOK, Executors, Decisions
<1> DEFINE Same(e) ==
             /\ exec'[e] = "notice" => exec[e] = "notice" /\ Pair(Subject(e))' = Pair(Subject(e))
             /\ exec[e] = "block" => exec'[e] = "block" /\ Pair(Subject(e))' = Pair(Subject(e))
<1>2. ASSUME crashes' = crashes, blocked' = blocked,
             \A u \in Updates : Entries(u, "block")' <= Entries(u, "block"),
             \A e \in Executors : Same(e)
      PROVE  BlockInv'
  BY <1>2, KeepsBlocks
<1>3. ASSUME NEW e \in Executors, exec'[e] = exec[e], e = Runner => running' = running
      PROVE  Same(e)
  BY <1>3 DEF Subject, Pair
<1>4. ASSUME NEW e \in Executors, exec[e] \notin {"block", "notice"},
             exec'[e] \notin {"notice"}
      PROVE  Same(e)
  BY <1>4
<1>5. ASSUME NEW e \in Executors, exec[e] \notin {"block", "notice"},
             EndTask(e) \/ NotBlocked(e) \/ \E place \in ExecPlaces \ {"notice"} : ExecGoto(e, place),
             NEW x \in Executors
      PROVE  Same(x)
  <2>1. CASE x = e
    <3>1. exec'[e] # "notice"
      BY <1>1, <1>5 DEF EndTask, NotBlocked, ExecGoto
    <3> QED BY <1>4, <1>5, <2>1, <3>1
  <2>2. CASE x # e
    <3>1. exec'[x] = exec[x] /\ (x = Runner => running' = running)
      BY <1>1, <1>5, <2>2 DEF EndTask, NotBlocked, ExecGoto
    <3> QED BY <1>3, <3>1
  <2> QED BY <2>1, <2>2
<1>6. ASSUME UNCHANGED <<logQueue, log>>
      PROVE  \A u \in Updates : Entries(u, "block")' <= Entries(u, "block")
  BY <1>1, <1>6, KeptCalm
<1>7. ASSUME NEW u \in Updates, NEW d \in Decisions \ {"block"}, SaveDeferred(u, d), log' = log
      PROVE  \A v \in Updates : Entries(v, "block")' <= Entries(v, "block")
  <2> TAKE v \in Updates
  <2>1. Entries(v, "block")' = Entries(v, "block") /\ Entries(v, "block") \in Nat
    BY <1>1, <1>7, EntriesSaved, EntriesNat
  <2> QED BY <2>1
<1>8. ASSUME NEW u \in Updates, Receive(u) \/ HandlerStep(u)
      PROVE  BlockInv'
  <2>1. crashes' = crashes /\ blocked' = blocked
    BY <1>8 DEF Receive, HandlerStep, SaveRow, HandlerFails, ReadPrior, ReadOther,
       CountInstances, SendWarning
  <2>2. \A v \in Updates : Entries(v, "block")' <= Entries(v, "block")
    BY <1>6, <1>7, <1>8 DEF Receive, HandlerStep, SaveRow, HandlerFails, ReadPrior,
       ReadOther, CountInstances, SendWarning, Warn, Decisions
  <2>3. ASSUME NEW e \in Executors PROVE Same(e)
    <3>1. CASE exec' = exec /\ running' = running
      BY <1>3, <3>1
    <3>2. CASE exec[Runner] = "idle" /\ exec' = [exec EXCEPT ![Runner] = "session"]
      BY <1>1, <1>3, <1>4, <3>2
    <3> QED BY <1>8, <3>1, <3>2 DEF Receive, HandlerStep, SaveRow, HandlerFails, ReadPrior,
            ReadOther, CountInstances, EnqueueBlock, SendWarning
  <2> QED BY <1>2, <2>1, <2>2, <2>3
<1>9. ASSUME NEW e \in Executors, ExecutorStep(e)
      PROVE  BlockInv'
  <2>1. AskSession(e) \/ Announce(e)
    BY <1>9 DEF ExecutorStep
  <2>2. crashes' = crashes /\ blocked' = blocked /\ UNCHANGED <<logQueue, log>>
    BY <2>1 DEF AskSession, Announce
  <2>3. \A x \in Executors : Same(x)
    BY <1>5, <2>1 DEF AskSession, Announce, ExecPlaces
  <2> QED BY <1>2, <1>6, <2>2, <2>3
<1>10. ASSUME NEW u \in Updates, PressButton(u) \/ OfferExpires(u) \/ ButtonReadsPrior(u)
       PROVE  BlockInv'
  <2>1. crashes' = crashes /\ blocked' = blocked /\ UNCHANGED <<logQueue, log>>
    BY <1>10 DEF PressButton, OfferExpires, ButtonReadsPrior
  <2>2. \A x \in Executors : Same(x)
    <3>1. CASE exec' = exec /\ running' = running
      BY <1>3, <3>1
    <3>2. CASE PressButton(u) \/ ButtonReadsPrior(u)
      BY <1>1, <1>5, <3>2 DEF PressButton, ButtonReadsPrior, ExecPlaces
    <3> QED BY <1>10, <3>1, <3>2 DEF OfferExpires
  <2> QED BY <1>2, <1>6, <2>1, <2>2
<1>11. CASE FallbackReads
  <2>1. \A x \in Executors : Same(x)
    BY <1>1, <1>5, <1>11 DEF FallbackReads, ExecPlaces
  <2> QED BY <1>2, <1>6, <1>11, <2>1 DEF FallbackReads
<1>12. CASE FallbackWarns
  <2>1. \A x \in Executors : Same(x)
    BY <1>1, <1>5, <1>12 DEF FallbackWarns
  <2>2. running \in Updates /\ log' = log /\ SaveDeferred(running, "warn")
    BY <1>1, <1>12, SubjectType DEF FallbackWarns, Warn, Subject
  <2>3. \A v \in Updates : Entries(v, "block")' <= Entries(v, "block")
    BY <1>7, <2>2 DEF Decisions
  <2> QED BY <1>2, <1>12, <2>1, <2>3 DEF FallbackWarns
<1>13. CASE RunnerContinues
  <2>1. \A x \in Executors : Same(x)
    BY <1>1, <1>3, <1>4, <1>13 DEF RunnerContinues
  <2> QED BY <1>2, <1>6, <1>13, <2>1 DEF RunnerContinues
<1>14. CASE LogSettles
  <2>1. \A x \in Executors : Same(x)
    BY <1>3, <1>14 DEF LogSettles
  <2>2. \A v \in Updates : Entries(v, "block")' <= Entries(v, "block")
    BY <1>1, <1>14, EntriesSettle
  <2> QED BY <1>2, <1>14, <2>1, <2>2 DEF LogSettles
<1>15. CASE Crash
  BY <1>15 DEF Crash, TypeOK, BlockInv
<1> QED BY <1>1, <1>8, <1>9, <1>10, <1>11, <1>12, <1>13, <1>14, <1>15 DEF Next, RunnerStep

\* The three calls of a block: off the list, onto it, into the log.
LEMMA BlockCalls ==
  ASSUME TypeOK, TypeOK', BlockInv, "block" \notin Faults, NEW e \in Executors,
         Unblock(e) \/ Block(e) \/ SendNotice(e)
  PROVE  BlockInv'
<1> DEFINE q == Pair(Subject(e))
<1> SUFFICES ASSUME crashes' = 0, NEW p \in Pairs, BlockMade(p)'
             PROVE  (p \in blocked \/ BetweenTheCalls(p))'
  BY DEF BlockInv
<1>1. exec \in [Executors -> ExecPlaces] /\ "block" \in Decisions
  BY DEF TypeOK, Decisions
<1>2. running' = running /\ crashes = 0 /\ log' = log
  BY DEF Unblock, Block, SendNotice, ExecGoto
<1>3. \A x \in Executors : Pair(Subject(x))' = Pair(Subject(x))
  BY <1>2 DEF Pair, Subject
<1>4. \A u \in Updates : Pair(u)' = Pair(u)
  BY DEF Pair
<1>5. BlockMade(p) => p \in blocked \/ BetweenTheCalls(p)
  BY <1>2 DEF BlockInv
<1>6. CASE Unblock(e)
  <2>1. exec[e] = "unblock" /\ exec' = [exec EXCEPT ![e] = "block"]
    BY <1>6 DEF Unblock, ExecGoto
  <2>2. BlockMade(p)
    <3>1. \A u \in Updates : Entries(u, "block")' = Entries(u, "block")
      BY <1>1, <1>2, <1>6, EntriesKept DEF Unblock
    <3> QED BY <1>1, <1>3, <1>4, <2>1, <3>1 DEF BlockMade
  <2>3. CASE p = q
    BY <1>1, <1>3, <2>1, <2>3 DEF BetweenTheCalls
  <2>4. CASE p # q
    <3>1. p \in blocked => p \in blocked'
      BY <1>6, <2>4 DEF Unblock
    <3>2. BetweenTheCalls(p) => BetweenTheCalls(p)'
      BY <1>1, <1>3, <2>1 DEF BetweenTheCalls
    <3> QED BY <1>5, <2>2, <3>1, <3>2
  <2> QED BY <2>3, <2>4
<1>7. CASE Block(e)
  <2>1. /\ exec[e] = "block" /\ exec' = [exec EXCEPT ![e] = "notice"]
        /\ blocked' = blocked \cup {q}
    BY <1>7 DEF Block, ExecGoto
  <2>2. CASE p # q
    <3>1. BlockMade(p)
      <4>1. \A u \in Updates : Entries(u, "block")' = Entries(u, "block")
        BY <1>1, <1>2, <1>7, EntriesKept DEF Block
      <4> QED BY <1>1, <1>3, <1>4, <2>1, <2>2, <4>1 DEF BlockMade
    <3>2. BetweenTheCalls(p) => BetweenTheCalls(p)'
      BY <1>1, <1>3, <2>1, <2>2 DEF BetweenTheCalls
    <3> QED BY <1>5, <2>1, <3>1, <3>2
  <2> QED BY <2>1, <2>2
<1>8. CASE SendNotice(e)
  <2>1. /\ exec[e] = "notice" /\ exec' = [exec EXCEPT ![e] = "announce"]
        /\ blocked' = blocked /\ SaveDeferred(Subject(e), "block")
    BY <1>8 DEF SendNotice, ExecGoto
  <2>2. Subject(e) \in Updates
    BY <2>1, SubjectType
  <2>3. \A u \in Updates :
          Entries(u, "block")' = IF u = Subject(e) THEN Entries(u, "block") + MaxWrites
                                                   ELSE Entries(u, "block")
    BY <1>1, <1>2, <2>1, <2>2, EntriesSaved
  <2>4. BlockMade(p)
    BY <1>1, <1>3, <1>4, <2>1, <2>2, <2>3 DEF BlockMade
  <2>5. BetweenTheCalls(p) => BetweenTheCalls(p)'
    BY <1>1, <1>3, <2>1 DEF BetweenTheCalls
  <2> QED BY <1>5, <2>1, <2>4, <2>5
<1> QED BY <1>6, <1>7, <1>8

LEMMA BlockStep ==
  ASSUME "block" \notin Faults
  PROVE  TypeOK /\ TypeOK' /\ BlockInv /\ [Next]_vars => BlockInv'
<1> SUFFICES ASSUME TypeOK, TypeOK', BlockInv, [Next]_vars PROVE BlockInv'
  OBVIOUS
<1>1. CASE UNCHANGED vars
  <2>1. \A u \in Updates : Entries(u, "block")' <= Entries(u, "block")
    BY <1>1, KeptCalm DEF vars, Decisions
  <2>2. \A e \in Executors : Pair(Subject(e))' = Pair(Subject(e))
    BY <1>1 DEF vars, Subject, Pair
  <2> QED BY <1>1, <2>1, <2>2, KeepsBlocks DEF vars
<1>2. CASE Next
  BY <1>2, BlocksKept, BlockCalls
<1> QED BY <1>1, <1>2

LEMMA BlockInit == Init => BlockInv
<1> SUFFICES ASSUME Init PROVE BlockInv
  OBVIOUS
<1>1. TypeOK /\ DecisionInv
  BY TypeInit, DecisionInit
<1>2. \A u \in Updates : handler[u] # "finished" /\ "block" \in Decisions
  BY DEF Init, Decisions
<1>3. \A u \in Updates : Entries(u, "block") = 0
  BY <1>1, <1>2 DEF DecisionInv, RowInv, Undecided
<1>4. \A e \in Executors : exec[e] = "idle"
  BY DEF Init
<1> QED BY <1>3, <1>4 DEF BlockInv, BlockMade

\* While TDLib does not refuse to block, whoever the log says is blocked is on
\* the owner's block list, except between the two calls of another block of
\* the same sender (BlockTierHandler unblocks first, then blocks, then logs).
THEOREM LogTellsTheTruth ==
  ASSUME "block" \notin Faults
  PROVE  Spec => []LoggedBlockHolds
<1>1. TypeOK /\ BlockInv => LoggedBlockHolds
  <2> SUFFICES ASSUME TypeOK, BlockInv, NEW p \in Pairs, crashes = 0, LoggedBlock(p),
                      \A e \in Executors : exec[e] = "block" => Pair(Subject(e)) # p
               PROVE  p \in blocked
    BY DEF LoggedBlockHolds
  <2>1. PICK u \in RowsOf(p) : log[u]["block"] > 0
    BY DEF LoggedBlock
  <2>2. u \in Updates /\ Pair(u) = p /\ "block" \in Decisions
    BY DEF RowsOf, TypeOK, Decisions
  <2>3. Entries(u, "block") > 0
    <3>1. log[u]["block"] \in Nat /\ Entries(u, "block") \in Nat
          /\ log[u]["block"] <= Entries(u, "block")
      BY <2>2, EntriesFinite
    <3> QED BY <2>1, <3>1
  <2>4. BlockMade(p)
    BY <2>2, <2>3 DEF BlockMade
  <2> QED BY <2>4 DEF BlockInv, BetweenTheCalls
<1>2. TypeOK /\ TypeOK' /\ BlockInv /\ [Next]_vars => BlockInv'
  BY BlockStep
<1> QED BY <1>1, <1>2, TypeInit, TypeStep, BlockInit, PTL DEF Spec, SafeSpec

-----------------------------------------------------------------------------
(* Three bursts before a block.                                             *)

LEMMA ThreeElements ==
  ASSUME NEW S, IsFiniteSet(S), Cardinality(S) >= 3
  PROVE  \E x, y, z \in S : x # y /\ y # z /\ x # z
<1>1. Cardinality(S) \in Nat
  BY FS_CardinalityType
<1>2. PICK x \in S : TRUE
  BY <1>1, FS_EmptySet
<1>3. IsFiniteSet(S \ {x}) /\ Cardinality(S \ {x}) = Cardinality(S) - 1
  BY <1>2, FS_RemoveElement
<1>4. PICK y \in S \ {x} : TRUE
  BY <1>1, <1>3, FS_EmptySet
<1>5. IsFiniteSet((S \ {x}) \ {y}) /\ Cardinality((S \ {x}) \ {y}) = Cardinality(S \ {x}) - 1
  BY <1>3, <1>4, FS_RemoveElement
<1>6. PICK z \in (S \ {x}) \ {y} : TRUE
  BY <1>1, <1>3, <1>5, FS_EmptySet
<1> QED BY <1>2, <1>4, <1>6

\* Three distinct numbers have an order.
LEMMA InOrder ==
  ASSUME NEW S \in SUBSET Nat, NEW x \in S, NEW y \in S, NEW z \in S, x # y, y # z, x # z
  PROVE  \E a, b, c \in S : a < b /\ b < c
<1>1. x \in Nat /\ y \in Nat /\ z \in Nat
  OBVIOUS
<1>2. \/ x < y /\ y < z
      \/ x < z /\ z < y
      \/ y < x /\ x < z
      \/ y < z /\ z < x
      \/ z < x /\ x < y
      \/ z < y /\ y < x
  BY <1>1
<1> QED BY <1>2

\* What countBySender tells the tier: three instances are three rows
\* counted apart, each more than the window after the one before.
LEMMA InstancesAreBursts ==
  ASSUME TypeOK, IsFiniteSet(rows), ClaimInv, NEW p \in Pairs,
         IsBlockTier(InstanceCount(p))
  PROVE  ThreeBursts(p)
<1>1. RowsOf(p) \subseteq rows /\ rows \subseteq Updates
  BY DEF RowsOf, TypeOK
<1>2. IsFiniteSet(RowsOf(p))
  BY <1>1, FS_Subset
<1>3. ASSUME NEW u \in RowsOf(p), NEW v \in RowsOf(p), u # v
      PROVE  CountedApart(u, v)
  <2> SUFFICES ASSUME Message[u] = Message[v]
               PROVE  forgotten[Message[u]] > 0
    BY <1>3 DEF CountedApart
  <2> DEFINE R == {x \in rows : Message[x] = Message[u]}
  <2>1. Message[u] \in Keys /\ u \in R /\ v \in R
    BY <1>1 DEF Keys
  <2>2. /\ IsFiniteSet(R) /\ Cardinality(R) \in Nat
        /\ Cardinality(R) <= 1 + forgotten[Message[u]]
        /\ forgotten[Message[u]] \in Nat
    BY <2>1, RowsOfMessage, ClaimsType
  <2>3. IsFiniteSet({u}) /\ Cardinality({u}) = 1
    BY FS_Singleton
  <2>4. Cardinality({u} \cup {v}) = 2
    <3>1. v \notin {u}
      BY <1>3
    <3>2. Cardinality({u} \cup {v}) = Cardinality({u}) + 1
      BY <2>3, <3>1, FS_AddElement
    <3> QED BY <2>3, <3>2
  <2>5. Cardinality({u} \cup {v}) <= Cardinality(R)
    BY <2>1, <2>2, FS_Subset
  <2> HIDE DEF R
  <2> QED BY <2>2, <2>4, <2>5
<1>4. ASSUME NEW u \in RowsOf(p), NEW v \in RowsOf(p), NEW w \in RowsOf(p),
             u # v, v # w, u # w
      PROVE  CountedApart(u, v) /\ CountedApart(v, w) /\ CountedApart(u, w)
  BY <1>3, <1>4
<1>5. CASE Window = 0
  <2>1. Cardinality(RowsOf(p)) >= 3
    BY <1>5 DEF IsBlockTier, InstanceCount
  <2>2. PICK u, v, w \in RowsOf(p) : u # v /\ v # w /\ u # w
    BY <1>2, <2>1, ThreeElements
  <2>3. LaterBurst(u, v) /\ LaterBurst(v, w)
    BY <1>5 DEF LaterBurst
  <2> QED BY <1>4, <2>2, <2>3 DEF ThreeBursts
<1>6. CASE Window # 0
  <2> DEFINE times == {ReceivedAt[u] : u \in RowsOf(p)}
             starts == {t \in times : \A s \in times : s < t => t - s > Window}
  <2>1. Cardinality(starts) >= 3
    BY <1>6 DEF IsBlockTier, InstanceCount
  <2>2. times \subseteq Nat
    BY <1>1, ClockAssumption
  <2>3. IsFiniteSet(times)
    <3> DEFINE f == [u \in RowsOf(p) |-> ReceivedAt[u]]
    <3>1. f \in Surjection(RowsOf(p), times)
      BY DEF Surjection
    <3> QED BY <1>2, <3>1, FS_Surjection
  <2>4. starts \subseteq times
    OBVIOUS
  <2>5. IsFiniteSet(starts)
    BY <2>3, <2>4, FS_Subset
  <2>6. \E x, y, z \in starts : x # y /\ y # z /\ x # z
    BY <2>1, <2>5, ThreeElements
  <2>7. starts \in SUBSET Nat
    BY <2>2, <2>4
  <2>8. PICK a, b, c \in starts : a < b /\ b < c
    <3> HIDE DEF starts
    <3> QED BY <2>6, <2>7, InOrder
  <2>9. b - a > Window /\ c - b > Window /\ a \in Nat /\ b \in Nat /\ c \in Nat
    BY <2>7, <2>8
  <2>10. PICK u, v, w \in RowsOf(p) :
           ReceivedAt[u] = a /\ ReceivedAt[v] = b /\ ReceivedAt[w] = c
    BY <2>4
  <2>11. u # v /\ v # w /\ u # w
    BY <2>8, <2>9, <2>10
  <2>12. LaterBurst(u, v) /\ LaterBurst(v, w)
    BY <2>9, <2>10 DEF LaterBurst
  <2> QED BY <1>4, <2>11, <2>12 DEF ThreeBursts
<1> QED BY <1>5, <1>6

\* Rows are never deleted and a logged block is never taken back, so what
\* stood behind a block once stands behind it for ever.
LEMMA TablesGrow ==
  ASSUME TypeOK, [Next]_vars
  PROVE  /\ rows \subseteq rows'
         /\ IsFiniteSet(rows) => IsFiniteSet(rows')
         /\ \A u \in Updates : log[u]["block"] > 0 => log'[u]["block"] > 0
<1>1. ASSUME rows' = rows, log' = log
      PROVE  /\ rows \subseteq rows'
             /\ IsFiniteSet(rows) => IsFiniteSet(rows')
             /\ \A u \in Updates : log[u]["block"] > 0 => log'[u]["block"] > 0
  BY <1>1
<1>2. ASSUME NEW u \in Updates, SaveRow(u) \/ HandlerFails(u)
      PROVE  /\ rows \subseteq rows'
             /\ IsFiniteSet(rows) => IsFiniteSet(rows')
             /\ \A v \in Updates : log[v]["block"] > 0 => log'[v]["block"] > 0
  BY <1>2, FS_AddElement DEF SaveRow, HandlerFails
<1>3. ASSUME LogSettles, NEW u \in Updates, log[u]["block"] > 0
      PROVE  log'[u]["block"] > 0
  <2>1. "block" \in Decisions /\ log[u]["block"] \in Nat
    BY DEF Decisions, TypeOK
  <2> QED BY <1>3, <2>1, LogWritten
<1>4. CASE LogSettles
  <2>1. rows' = rows
    BY <1>4 DEF LogSettles
  <2> QED BY <1>3, <1>4, <2>1
<1>5. ASSUME NEW e, ExecutorStep(e)
      PROVE  rows' = rows /\ log' = log
  BY <1>5 DEF ExecutorStep, AskSession, Unblock, Block, SendNotice, Announce
<1>6. ASSUME NEW u, \/ Receive(u) \/ ReadPrior(u) \/ ReadOther(u)
                    \/ CountInstances(u) \/ SendWarning(u)
                    \/ PressButton(u) \/ OfferExpires(u) \/ ButtonReadsPrior(u)
      PROVE  rows' = rows /\ log' = log
  BY <1>6 DEF Receive, ReadPrior, ReadOther, CountInstances, SendWarning,
     PressButton, OfferExpires, ButtonReadsPrior
<1>7. CASE FallbackReads \/ FallbackWarns \/ RunnerContinues \/ Crash
  <2>1. rows' = rows /\ log' = log
    BY <1>7 DEF FallbackReads, FallbackWarns, RunnerContinues, Crash
  <2> QED BY <1>1, <2>1
<1>8. CASE UNCHANGED vars
  BY <1>1, <1>8 DEF vars
<1> QED BY <1>1, <1>2, <1>4, <1>5, <1>6, <1>7, <1>8 DEF Next, RunnerStep, HandlerStep

\* Forgetting is not undone.
LEMMA ForgottenGrows ==
  ASSUME TypeOK, [Next]_vars, NEW k \in Keys, forgotten[k] > 0
  PROVE  forgotten'[k] > 0
<1>1. forgotten[k] \in Nat
  BY ClaimsType
<1>2. ASSUME NEW keys, Forget(keys)
      PROVE  forgotten'[k] > 0
  BY <1>1, <1>2 DEF Forget
<1>3. ASSUME NEW e, ExecutorStep(e)
      PROVE  forgotten' = forgotten
  BY <1>3 DEF ExecutorStep, AskSession, Unblock, Block, SendNotice, Announce
<1>4. ASSUME NEW u, HandlerStep(u)
      PROVE  forgotten' = forgotten
  BY <1>4 DEF HandlerStep, SaveRow, HandlerFails, ReadPrior, ReadOther, CountInstances,
     SendWarning
<1>5. ASSUME NEW u, PressButton(u) \/ OfferExpires(u) \/ ButtonReadsPrior(u)
      PROVE  forgotten' = forgotten
  BY <1>5 DEF PressButton, OfferExpires, ButtonReadsPrior
<1>6. CASE FallbackReads \/ FallbackWarns \/ RunnerContinues \/ LogSettles
  BY <1>6 DEF FallbackReads, FallbackWarns, RunnerContinues, LogSettles
<1>7. ASSUME NEW u \in Updates, Receive(u)
      PROVE  forgotten'[k] > 0
  BY <1>2, <1>7 DEF Receive, Claim
<1>8. CASE Crash
  BY <1>2, <1>8 DEF Crash
<1> QED BY <1>3, <1>4, <1>5, <1>6, <1>7, <1>8 DEF Next, RunnerStep, vars

LEMMA ReasonsLast ==
  ASSUME TypeOK, [Next]_vars, NEW p
  PROVE  /\ LoggedElsewhere(p) => LoggedElsewhere(p)'
         /\ ThreeBursts(p) => ThreeBursts(p)'
<1>1. rows \subseteq rows' /\ rows \subseteq Updates
      /\ \A u \in Updates : log[u]["block"] > 0 => log'[u]["block"] > 0
  BY TablesGrow DEF TypeOK
<1>2. \A q : RowsOf(q) \subseteq RowsOf(q)' /\ RowsOf(q) \subseteq Updates
  BY <1>1 DEF RowsOf, Pair
<1>3. \A q : LoggedBlock(q) => LoggedBlock(q)'
  BY <1>1, <1>2 DEF LoggedBlock
<1>4. Pairs' = Pairs
  BY DEF Pairs, Pair
<1>5. LoggedElsewhere(p) => LoggedElsewhere(p)'
  BY <1>3, <1>4 DEF LoggedElsewhere
<1>6. \A u, v : LaterBurst(u, v)' = LaterBurst(u, v)
  BY DEF LaterBurst
<1>7. \A u, v \in Updates : CountedApart(u, v) => CountedApart(u, v)'
  <2> TAKE u, v \in Updates
  <2>1. Message[u] \in Keys
    BY DEF Keys
  <2> QED BY <2>1, ForgottenGrows DEF CountedApart
<1>8. ThreeBursts(p) => ThreeBursts(p)'
  <2> SUFFICES ASSUME ThreeBursts(p) PROVE ThreeBursts(p)'
    OBVIOUS
  <2>1. PICK u, v, w \in RowsOf(p) :
          /\ CountedApart(u, v) /\ CountedApart(v, w) /\ CountedApart(u, w)
          /\ LaterBurst(u, v) /\ LaterBurst(v, w)
    BY DEF ThreeBursts
  <2>2. u \in RowsOf(p)' /\ v \in RowsOf(p)' /\ w \in RowsOf(p)'
    BY <1>2
  <2>3. CountedApart(u, v)' /\ CountedApart(v, w)' /\ CountedApart(u, w)'
    BY <1>2, <1>7, <2>1
  <2> QED BY <1>6, <2>1, <2>2, <2>3 DEF ThreeBursts
<1> QED BY <1>5, <1>8

\* A step that queues, offers, starts and makes no block without its reason.
LEMMA ReasonsKept ==
  ASSUME TypeOK, [Next]_vars, StrikeInv,
         \A u \in Updates : other'[u] => other[u] \/ LoggedElsewhere(Pair(u)),
         \A u \in Updates : u \in offers' \/ exec'[u] # "idle" =>
                              u \in offers \/ exec[u] # "idle" \/ other[u],
         \A u \in Updates : Queued(u)' \/ running' = u =>
                              Queued(u) \/ running = u \/ ThreeBursts(Pair(u)),
         \A p \in blocked' : \/ p \in blocked
                             \/ \E u \in Updates : /\ Pair(u) = p
                                                   /\ exec[u] # "idle" \/ running = u
  PROVE  StrikeInv'
<1> SUFFICES /\ \A u \in Updates : other'[u] => LoggedElsewhere(Pair(u))'
             /\ \A u \in Updates :
                  u \in offers' \/ exec'[u] # "idle" => LoggedElsewhere(Pair(u))'
             /\ \A u \in Updates :
                  Queued(u)' \/ running' = u => ThreeBursts(Pair(u))'
             /\ \A p \in blocked' : LoggedElsewhere(p)' \/ ThreeBursts(p)'
  BY DEF StrikeInv
<1>1. \A u \in Updates : /\ LoggedElsewhere(Pair(u)) => LoggedElsewhere(Pair(u))'
                         /\ ThreeBursts(Pair(u)) => ThreeBursts(Pair(u))'
  <2> TAKE u \in Updates
  <2>1. Pair(u)' = Pair(u)
    BY DEF Pair
  <2>2. \A p : LoggedElsewhere(p) => LoggedElsewhere(p)'
    BY ReasonsLast
  <2>3. \A p : ThreeBursts(p) => ThreeBursts(p)'
    BY ReasonsLast
  <2> QED BY <2>1, <2>2, <2>3
<1> QED BY <1>1, ReasonsLast DEF StrikeInv

LEMMA HandlerReasons ==
  ASSUME TypeOK, ClaimInv, IsFiniteSet(rows), StrikeInv, NEW u \in Updates,
         Receive(u) \/ HandlerStep(u)
  PROVE  StrikeInv'
<1>1. [Next]_vars
  BY DEF Next
<1>2. /\ exec \in [Executors -> ExecPlaces] /\ other \in [Updates -> BOOLEAN]
      /\ queue \in Seq(Updates) /\ Pair(u) \in Pairs
      /\ \A v \in Updates : v \in Executors /\ v # Runner
  BY RunnerAssumption DEF TypeOK, Executors, Pairs
<1>3. blocked' = blocked
  BY DEF Receive, HandlerStep, SaveRow, HandlerFails, ReadPrior, ReadOther,
     CountInstances, SendWarning
<1>4. CASE Receive(u) \/ SaveRow(u) \/ HandlerFails(u) \/ ReadPrior(u) \/ SendWarning(u)
  <2>1. UNCHANGED <<other, queue, running, exec>>
    BY <1>4 DEF Receive, SaveRow, HandlerFails, ReadPrior, SendWarning
  <2>2. \A v \in Updates : v \in offers' => v \in offers \/ other[v]
    BY <1>4 DEF Receive, SaveRow, HandlerFails, ReadPrior, SendWarning, Warn, OfferBlock
  <2>3. \A v \in Updates : Queued(v)' => Queued(v)
    BY <2>1 DEF Queued
  <2> QED BY <1>1, <1>3, <2>1, <2>2, <2>3, ReasonsKept
<1>5. CASE ReadOther(u)
  <2>1. UNCHANGED <<queue, running, exec, offers>>
    BY <1>5 DEF ReadOther
  <2>2. \A v \in Updates : other'[v] => other[v] \/ LoggedElsewhere(Pair(v))
    BY <1>2, <1>5 DEF ReadOther
  <2>3. \A v \in Updates : Queued(v)' => Queued(v)
    BY <2>1 DEF Queued
  <2> QED BY <1>1, <1>3, <2>1, <2>2, <2>3, ReasonsKept
<1>6. CASE CountInstances(u)
  <2>1. UNCHANGED <<other, offers>>
    BY <1>6 DEF CountInstances
  <2>2. \A v \in Updates : exec'[v] = exec[v]
    BY <1>2, <1>6 DEF CountInstances, EnqueueBlock
  <2>3. \A v \in Updates : Queued(v)' \/ running' = v =>
          \/ Queued(v) \/ running = v
          \/ v = u /\ IsBlockTier(InstanceCount(Pair(u)))
    <3>1. CASE UNCHANGED <<queue, running>>
      BY <3>1 DEF Queued
    <3>2. CASE EnqueueBlock(u) /\ IsBlockTier(InstanceCount(Pair(u)))
      <4>1. CASE queue' = queue /\ running' = u
        BY <3>2, <4>1 DEF Queued
      <4>2. CASE queue' = Append(queue, u) /\ running' = running
        BY <1>2, <3>2, <4>2 DEF Queued
      <4> QED BY <3>2, <4>1, <4>2 DEF EnqueueBlock
    <3> QED BY <1>6, <3>1, <3>2 DEF CountInstances
  <2>4. IsBlockTier(InstanceCount(Pair(u))) => ThreeBursts(Pair(u))
    BY <1>2, InstancesAreBursts
  <2>5. \A v \in Updates : Queued(v)' \/ running' = v =>
          Queued(v) \/ running = v \/ ThreeBursts(Pair(v))
    BY <2>3, <2>4
  <2> QED BY <1>1, <1>3, <2>1, <2>2, <2>5, ReasonsKept
<1> QED BY <1>4, <1>5, <1>6 DEF HandlerStep

LEMMA ExecutorReasons ==
  ASSUME TypeOK, StrikeInv, [Next]_vars, NEW e \in Executors, ExecutorStep(e)
  PROVE  StrikeInv'
<1>1. /\ exec \in [Executors -> ExecPlaces]
      /\ \A v \in Updates : v # Runner /\ v \in Executors
      /\ exec[e] \notin {"idle", "between"}
  BY RunnerAssumption DEF TypeOK, Executors, ExecutorStep, AskSession, Unblock, Block, SendNotice,
     Announce
<1>2. UNCHANGED <<other, queue, offers, crashes>>
  BY DEF ExecutorStep, AskSession, Unblock, Block, SendNotice, Announce
<1>3. /\ \A v \in Updates : exec'[v] # "idle" => exec[v] # "idle"
      /\ running' = running \/ running' = Runner
  BY <1>1 DEF ExecutorStep, AskSession, Unblock, Block, SendNotice, Announce,
     ExecGoto, NotBlocked, EndTask
<1>4. blocked' \subseteq blocked \cup {Pair(Subject(e))}
  BY DEF ExecutorStep, AskSession, Unblock, Block, SendNotice, Announce
<1>5. \A v \in Updates : Queued(v)' => Queued(v)
  BY <1>2 DEF Queued
<1>6. Subject(e) \in Updates
  BY <1>1, SubjectType
<1>7. exec[Subject(e)] # "idle" \/ running = Subject(e)
  BY <1>1 DEF Subject
<1> QED BY <1>1, <1>2, <1>3, <1>4, <1>5, <1>6, <1>7, ReasonsKept

LEMMA ButtonReasons ==
  ASSUME TypeOK, StrikeInv, [Next]_vars, NEW u \in Updates,
         PressButton(u) \/ OfferExpires(u) \/ ButtonReadsPrior(u)
  PROVE  StrikeInv'
<1>1. /\ exec \in [Executors -> ExecPlaces] /\ u # Runner
      /\ \A v \in Updates : v \in Executors
  BY RunnerAssumption DEF TypeOK, Executors
<1>2. UNCHANGED <<other, queue, running, blocked, crashes>>
  BY <1>1 DEF PressButton, OfferExpires, ButtonReadsPrior, EndTask, ExecGoto
<1>3. \A v \in Updates : v \in offers' \/ exec'[v] # "idle" => v \in offers \/ exec[v] # "idle"
  BY <1>1 DEF PressButton, OfferExpires, ButtonReadsPrior, ConsumeOffer, EndTask, ExecGoto
<1>4. \A v \in Updates : Queued(v)' => Queued(v)
  BY <1>2 DEF Queued
<1> QED BY <1>2, <1>3, <1>4, ReasonsKept

LEMMA RunnerReasons ==
  ASSUME TypeOK, StrikeInv, [Next]_vars,
         FallbackReads \/ FallbackWarns \/ RunnerContinues \/ LogSettles \/ Crash
  PROVE  StrikeInv'
<1>1. /\ exec \in [Executors -> ExecPlaces]
      /\ \A v \in Updates : v # Runner /\ v \in Executors
      /\ queue \in Seq(Updates) /\ other \in [Updates -> BOOLEAN]
  BY RunnerAssumption DEF TypeOK, Executors
<1>2. blocked' = blocked
  BY DEF FallbackReads, FallbackWarns, RunnerContinues, LogSettles, Crash
<1>3. CASE FallbackReads
  <2>1. UNCHANGED <<queue, running, offers, crashes>> \/ (UNCHANGED <<queue, offers, crashes>> /\ running' = Runner)
    BY <1>3 DEF FallbackReads, ExecGoto, EndTask
  <2>2. \A v \in Updates : exec'[v] = exec[v]
    BY <1>1, <1>3 DEF FallbackReads, ExecGoto, EndTask
  <2>3. \A v \in Updates : other'[v] => other[v] \/ LoggedElsewhere(Pair(v))
    BY <1>1, <1>3 DEF FallbackReads
  <2>4. \A v \in Updates : Queued(v)' => Queued(v)
    BY <2>1 DEF Queued
  <2> QED BY <1>1, <1>2, <2>1, <2>2, <2>3, <2>4, ReasonsKept
<1>4. CASE FallbackWarns
  <2>1. UNCHANGED <<queue, other, crashes>> /\ running' = Runner
    BY <1>4 DEF FallbackWarns, EndTask
  <2>2. \A v \in Updates : exec'[v] = exec[v]
    BY <1>1, <1>4 DEF FallbackWarns, EndTask
  <2>3. \A v \in Updates : v \in offers' => v \in offers \/ other[v]
    BY <1>4 DEF FallbackWarns, Warn, OfferBlock
  <2>4. \A v \in Updates : Queued(v)' => Queued(v)
    BY <2>1 DEF Queued
  <2> QED BY <1>1, <1>2, <2>1, <2>2, <2>3, <2>4, ReasonsKept
<1>5. CASE RunnerContinues
  <2>1. UNCHANGED <<other, offers, crashes>>
    BY <1>5 DEF RunnerContinues
  <2>2. \A v \in Updates : exec'[v] = exec[v]
    BY <1>1, <1>5 DEF RunnerContinues
  <2>3. \A v \in Updates : Queued(v)' \/ running' = v => Queued(v) \/ running = v
    <3>1. CASE queue' = queue /\ running' = running
      BY <3>1 DEF Queued
    <3>2. CASE queue # <<>> /\ running' = Head(queue) /\ queue' = Tail(queue)
      <4>1. /\ Len(queue) \in Nat \ {0} /\ Len(queue') = Len(queue) - 1
            /\ \A i \in 1..Len(queue') : queue'[i] = queue[i + 1]
            /\ running' = queue[1]
        BY <1>1, <3>2
      <4> QED BY <4>1 DEF Queued
    <3> QED BY <1>5, <3>1, <3>2 DEF RunnerContinues
  <2> QED BY <1>2, <2>1, <2>2, <2>3, ReasonsKept
<1>6. CASE LogSettles
  <2>1. UNCHANGED <<other, offers, queue, running, exec, crashes>>
    BY <1>6 DEF LogSettles
  <2>2. \A v \in Updates : Queued(v)' => Queued(v)
    BY <2>1 DEF Queued
  <2> QED BY <1>2, <2>1, <2>2, ReasonsKept
<1>7. CASE Crash
  <2>1. other' = other /\ offers' = {} /\ running' = Runner /\ Len(queue') = 0
    BY <1>7 DEF Crash
  <2>2. \A v \in Updates : exec'[v] = "idle" /\ ~Queued(v)' /\ running' # v
    BY <1>1, <1>7, <2>1 DEF Crash, Queued
  <2> QED BY <1>2, <2>1, <2>2, ReasonsKept
<1> QED BY <1>3, <1>4, <1>5, <1>6, <1>7

LEMMA StrikeStep ==
  TypeOK /\ ClaimInv /\ IsFiniteSet(rows) /\ StrikeInv /\ [Next]_vars => StrikeInv'
<1> SUFFICES ASSUME TypeOK, ClaimInv, IsFiniteSet(rows), StrikeInv, [Next]_vars
             PROVE  StrikeInv'
  OBVIOUS
<1>1. CASE UNCHANGED vars
  <2>1. \A v \in Updates : Queued(v)' => Queued(v)
    BY <1>1 DEF Queued, vars
  <2> QED BY <1>1, <2>1, ReasonsKept DEF vars
<1>2. CASE Next
  <2>1. Runner \in Executors /\ \A u \in Updates : u \in Executors
    BY DEF Executors
  <2> QED BY <1>2, <2>1, HandlerReasons, ExecutorReasons, ButtonReasons, RunnerReasons
          DEF Next, RunnerStep
<1> QED BY <1>1, <1>2

LEMMA StrikeInit == Init => StrikeInv /\ IsFiniteSet(rows)
<1> SUFFICES ASSUME Init PROVE StrikeInv /\ IsFiniteSet(rows)
  OBVIOUS
<1>1. IsFiniteSet(rows)
  BY FS_EmptySet DEF Init
<1>2. Len(queue) = 0 /\ \A u \in Updates : running # u /\ u \in Executors
  BY RunnerAssumption DEF Init, Executors
<1> QED BY <1>1, <1>2 DEF Init, StrikeInv, Queued

\* Whoever is on a block list has three rows with that owner, each more than the
\* collapse window after the one before, of three messages or of one whose claim
\* was forgotten in between, or had been blocked by another owner: for any
\* clock, window, re-deliveries, crashes and interleaving of handlers
\* (block-tier-handler.ts, countBySender in message-repository.ts).
THEOREM ThreeStrikes == Spec => []BlockNeedsThreeBursts
<1>1. StrikeInv => BlockNeedsThreeBursts
  BY DEF StrikeInv, BlockNeedsThreeBursts, ThreeBursts
<1>2. TypeOK /\ IsFiniteSet(rows) /\ [Next]_vars => IsFiniteSet(rows)'
  BY TablesGrow
<1> QED
  BY <1>1, <1>2, TypeInit, TypeStep, ClaimInit, ClaimStep, StrikeInit, StrikeStep, PTL
     DEF Spec, SafeSpec

-----------------------------------------------------------------------------
(* No row is forgotten.                                                     *)

\* Every query and every log write succeeds in the end, the session service
\* answers, and no insert commits without an answer.
Answered == Faults \cap {"read", "throw", "log", "lost"} = {}

\* u has an entry, in the log or on its way.
Recorded(u) ==
  \E d \in Decisions : \/ log[u][d] > 0
                       \/ \E i \in 1..Len(logQueue) : logQueue[i] = <<u, d>>

InHands(u) == /\ handler[u] \notin {"new", "saving"}
              /\ Undecided(u) \/ Recorded(u)

RowsInHands == crashes = 0 => \A u \in rows : InHands(u)

LEMMA RecordedSaved ==
  ASSUME TypeOK, log' = log, NEW u \in Updates, NEW d \in Decisions, SaveDeferred(u, d),
         NEW v \in Updates, v = u \/ Recorded(v)
  PROVE  Recorded(v)'
<1>1. <<u, d>> \in Updates \X Decisions /\ logQueue \in Seq(Updates \X Decisions)
  BY DEF TypeOK
<1>2. /\ Len(logQueue) \in Nat /\ Len(logQueue') = Len(logQueue) + 1
      /\ logQueue'[Len(logQueue) + 1] = <<u, d>>
      /\ \A i \in 1..Len(logQueue) : logQueue'[i] = logQueue[i]
  BY <1>1 DEF SaveDeferred
<1>3. /\ Len(logQueue) + 1 \in 1..Len(logQueue')
      /\ \A i \in 1..Len(logQueue) : i \in 1..Len(logQueue')
  BY <1>2
<1>4. CASE v = u
  BY <1>2, <1>3, <1>4 DEF Recorded
<1>5. CASE Recorded(v)
  BY <1>2, <1>3, <1>5 DEF Recorded
<1> QED BY <1>4, <1>5

LEMMA RecordedKept ==
  ASSUME UNCHANGED <<log, logQueue>>, NEW v \in Updates, Recorded(v)
  PROVE  Recorded(v)'
BY DEF Recorded

LEMMA RecordedSettles ==
  ASSUME TypeOK, LogSettles, "log" \notin Faults, NEW v \in Updates, Recorded(v)
  PROVE  Recorded(v)'
<1>1. logQueue \in Seq(Updates \X Decisions) /\ logQueue # <<>>
      /\ log \in [Updates -> [Decisions -> Nat]]
  BY DEF TypeOK, LogSettles
<1>2. /\ logQueue' = Tail(logQueue) /\ Len(logQueue) \in Nat \ {0}
      /\ Head(logQueue) = logQueue[1] /\ Head(logQueue) \in Updates \X Decisions
  BY <1>1 DEF LogSettles
<1>3. PICK n \in 1..MaxWrites :
        log' = [log EXCEPT ![Head(logQueue)[1]][Head(logQueue)[2]] = @ + n]
  <2>1. PICK n \in 0..MaxWrites :
          n # 0 /\ log' = [log EXCEPT ![Head(logQueue)[1]][Head(logQueue)[2]] = @ + n]
    BY DEF LogSettles
  <2>2. n \in 1..MaxWrites
    BY <2>1, WritesAssumption
  <2> QED BY <2>1, <2>2
<1>4. n \in Nat /\ n > 0
  BY WritesAssumption
<1>5. PICK d \in Decisions : \/ log[v][d] > 0
                             \/ \E i \in 1..Len(logQueue) : logQueue[i] = <<v, d>>
  BY DEF Recorded
<1>6. /\ log[v][d] \in Nat
      /\ log'[v][d] = IF Head(logQueue) = <<v, d>> THEN log[v][d] + n ELSE log[v][d]
  <2> DEFINE u == Head(logQueue)[1]
             c == Head(logQueue)[2]
  <2>1. u \in Updates /\ c \in Decisions /\ Head(logQueue) = <<u, c>>
    BY <1>2
  <2>2. log' = [log EXCEPT ![u][c] = @ + n]
    BY <1>3
  <2>3. Head(logQueue) = <<v, d>> <=> v = u /\ d = c
    BY <2>1
  <2> HIDE DEF u, c
  <2>4. /\ log[v][d] \in Nat
        /\ log'[v][d] = IF v = u /\ d = c THEN log[v][d] + n ELSE log[v][d]
    BY <1>1, <2>1, <2>2
  <2> QED BY <2>3, <2>4
<1>7. CASE log[v][d] > 0 \/ Head(logQueue) = <<v, d>>
  BY <1>4, <1>6, <1>7 DEF Recorded
<1>8. ASSUME NEW i \in 1..Len(logQueue), logQueue[i] = <<v, d>>, i # 1
      PROVE  Recorded(v)'
  <2>1. /\ Len(Tail(logQueue)) = Len(logQueue) - 1 /\ i - 1 \in 1..(Len(logQueue) - 1)
        /\ \A j \in 1..(Len(logQueue) - 1) : Tail(logQueue)[j] = logQueue[j + 1]
    BY <1>1, <1>2, <1>8
  <2>2. i - 1 \in 1..Len(Tail(logQueue)) /\ Tail(logQueue)[i - 1] = logQueue[(i - 1) + 1]
        /\ (i - 1) + 1 = i
    BY <2>1, <1>8
  <2> QED BY <1>2, <1>8, <2>2 DEF Recorded
<1> QED BY <1>2, <1>5, <1>7, <1>8

\* Who owes v its decision still does, unless its handler or the runner moved.
LEMMA OwedStill ==
  ASSUME TypeOK, NEW v \in Updates, Undecided(v), handler'[v] = handler[v],
         queue' = queue, running' = running, exec'[Runner] = exec[Runner]
  PROVE  Undecided(v)'
BY DEF Undecided, Queued

LEMMA HandsSettle ==
  ASSUME TypeOK, Answered, NEW v \in Updates, InHands(v),
         LogSettles \/ UNCHANGED vars
  PROVE  InHands(v)'
<1>1. /\ handler' = handler /\ queue' = queue /\ running' = running /\ exec' = exec
      /\ Recorded(v) => Recorded(v)'
  BY RecordedSettles, RecordedKept DEF LogSettles, vars, Answered
<1> QED BY <1>1, OwedStill DEF InHands

LEMMA HandsButton ==
  ASSUME TypeOK, NEW v \in Updates, InHands(v), NEW u \in Updates,
         PressButton(u) \/ OfferExpires(u) \/ ButtonReadsPrior(u)
  PROVE  InHands(v)'
<1>1. /\ handler' = handler /\ queue' = queue /\ UNCHANGED <<log, logQueue>>
      /\ u # Runner /\ exec \in [Executors -> ExecPlaces] /\ Runner \in Executors
  BY RunnerAssumption DEF PressButton, OfferExpires, ButtonReadsPrior, TypeOK, Executors
<1>2. running' = running /\ exec'[Runner] = exec[Runner]
  BY <1>1 DEF PressButton, OfferExpires, ButtonReadsPrior, EndTask, ExecGoto
<1> QED BY <1>1, <1>2, OwedStill, RecordedKept DEF InHands

LEMMA HandsHandler ==
  ASSUME TypeOK, Answered, NEW v \in Updates, v \in rows => InHands(v), v \in rows',
         NEW u \in Updates, Receive(u) \/ HandlerStep(u)
  PROVE  InHands(v)'
<1>1. /\ handler \in [Updates -> HandlerPlaces] /\ v # Runner
      /\ exec \in [Executors -> ExecPlaces] /\ Runner \in Executors
      /\ queue \in Seq(Updates) /\ Len(queue) \in Nat
  BY RunnerAssumption DEF TypeOK, Executors
<1>2. CASE Receive(u) \/ HandlerFails(u)
  <2>1. v \in rows /\ handler[u] \in {"new", "saving"}
    BY <1>2 DEF Receive, HandlerFails, Answered
  <2>2. v # u /\ handler'[v] = handler[v]
    BY <1>1, <1>2, <2>1 DEF Receive, HandlerFails, InHands, Goto
  <2>3. UNCHANGED <<queue, running, exec, log, logQueue>>
    BY <1>2 DEF Receive, HandlerFails
  <2> QED BY <2>1, <2>2, <2>3, OwedStill, RecordedKept DEF InHands
<1>3. CASE SaveRow(u) \/ ReadOther(u)
  <2>1. UNCHANGED <<queue, running, exec, log, logQueue>>
        /\ handler'[u] \in {"prior", "count"} /\ \A x \in Updates \ {u} : handler'[x] = handler[x]
        /\ (v = u \/ v \in rows)
    BY <1>1, <1>3 DEF SaveRow, ReadOther, Goto
  <2>2. CASE v = u
    BY <2>1, <2>2 DEF InHands, Undecided
  <2>3. CASE v # u
    BY <2>1, <2>3, OwedStill, RecordedKept DEF InHands
  <2> QED BY <2>2, <2>3
<1>4. CASE CountInstances(u)
  <2>1. v \in rows /\ UNCHANGED <<log, logQueue>>
        /\ handler'[u] \in {"warning", "finished"}
        /\ \A x \in Updates \ {u} : handler'[x] = handler[x]
    BY <1>1, <1>4 DEF CountInstances, Goto
  <2>2. CASE UNCHANGED <<queue, running, exec>> /\ handler'[u] = "warning"
    <3>1. v = u => Undecided(v)'
      BY <2>2 DEF Undecided
    <3> QED BY <2>1, <2>2, <3>1, OwedStill, RecordedKept DEF InHands
  <2>3. CASE /\ exec[Runner] = "idle" /\ running' = u /\ UNCHANGED queue
             /\ exec' = [exec EXCEPT ![Runner] = "session"]
    <3>1. running = Runner
      BY <2>3 DEF TypeOK
    <3>2. v = u => Undecided(v)'
      BY <1>1, <2>3 DEF Undecided
    <3>3. v # u /\ Undecided(v) => Undecided(v)'
      BY <1>1, <2>1, <2>3, <3>1 DEF Undecided, Queued
    <3> QED BY <2>1, <3>2, <3>3, RecordedKept DEF InHands
  <2>4. CASE queue' = Append(queue, u) /\ UNCHANGED <<running, exec>>
    <3>1. /\ Len(queue') = Len(queue) + 1 /\ queue'[Len(queue) + 1] = u
          /\ \A i \in 1..Len(queue) : queue'[i] = queue[i] /\ i \in 1..Len(queue')
          /\ Len(queue) + 1 \in 1..Len(queue')
      BY <1>1, <2>4
    <3>2. Queued(u)' /\ (Queued(v) => Queued(v)')
      BY <3>1 DEF Queued
    <3> QED BY <2>1, <2>4, <3>2, RecordedKept DEF InHands, Undecided
  <2> QED BY <1>4, <2>1, <2>2, <2>3, <2>4, <1>1 DEF CountInstances, EnqueueBlock, Goto
<1>5. ASSUME NEW d \in Decisions, SaveDeferred(u, d), Goto(u, "finished"),
             UNCHANGED <<rows, queue, running, exec, log>>
      PROVE  InHands(v)'
  <2>1. v = u \/ Recorded(v) => Recorded(v)'
    BY <1>5, RecordedSaved
  <2>2. handler'[v] = IF v = u THEN "finished" ELSE handler[v]
    BY <1>1, <1>5 DEF Goto
  <2>3. v \in rows
    BY <1>5
  <2> QED BY <1>5, <2>1, <2>2, <2>3, OwedStill DEF InHands
<1>6. CASE ReadPrior(u) /\ UNCHANGED logQueue
  <2>1. UNCHANGED <<rows, queue, running, exec, log>>
        /\ handler'[u] \in {"other", "finished"}
        /\ \A x \in Updates \ {u} : handler'[x] = handler[x]
    BY <1>1, <1>6 DEF ReadPrior, Goto
  <2>2. handler'[u] = "other" \/ SaveDeferred(u, "ignore")
    BY <1>1, <1>6 DEF ReadPrior, Goto
  <2>3. CASE handler'[u] = "other"
    <3>1. v = u => Undecided(v)'
      BY <2>3 DEF Undecided
    <3> QED BY <1>6, <2>1, <2>3, <3>1, OwedStill, RecordedKept DEF InHands
  <2>4. CASE SaveDeferred(u, "ignore") /\ handler'[u] # "other"
    BY <1>1, <1>5, <1>6, <2>1, <2>4 DEF Decisions, ReadPrior, Goto
  <2> QED BY <2>2, <2>3, <2>4
<1>7. CASE ReadPrior(u) /\ SaveDeferred(u, "ignore") /\ Goto(u, "finished")
  BY <1>5, <1>7 DEF ReadPrior, Decisions
<1>8. CASE SendWarning(u)
  BY <1>5, <1>8 DEF SendWarning, Warn, Decisions
<1> QED BY <1>2, <1>3, <1>4, <1>6, <1>7, <1>8 DEF HandlerStep, ReadPrior

LEMMA HandsExecutor ==
  ASSUME TypeOK, Answered, NEW v \in Updates, InHands(v),
         NEW e \in Executors, ExecutorStep(e)
  PROVE  InHands(v)'
<1>1. /\ exec \in [Executors -> ExecPlaces] /\ Runner \in Executors /\ v # Runner
      /\ handler' = handler /\ queue' = queue /\ log' = log
  BY RunnerAssumption
     DEF ExecutorStep, AskSession, Unblock, Block, SendNotice, Announce, TypeOK, Executors
<1>2. Recorded(v) => Recorded(v)'
  <2>1. CASE SendNotice(e)
    <3>1. Subject(e) \in Updates /\ SaveDeferred(Subject(e), "block") /\ "block" \in Decisions
      BY <2>1, SubjectType DEF SendNotice, Decisions
    <3> QED BY <1>1, <3>1, RecordedSaved
  <2>2. CASE AskSession(e) \/ Unblock(e) \/ Block(e) \/ Announce(e)
    <3>1. UNCHANGED <<log, logQueue>>
      BY <2>2 DEF AskSession, Unblock, Block, Announce
    <3> QED BY <3>1, RecordedKept
  <2> QED BY <2>1, <2>2 DEF ExecutorStep
<1>3. CASE e # Runner
  <2>1. exec'[Runner] = exec[Runner] /\ running' = running
    BY <1>1, <1>3 DEF ExecutorStep, AskSession, Unblock, Block, SendNotice, Announce,
       EndTask, ExecGoto, NotBlocked
  <2> QED BY <1>1, <1>2, <2>1, OwedStill DEF InHands
<1>4. CASE e = Runner /\ running # v
  <2>1. running' = running \/ running' = Runner
    BY <1>4 DEF ExecutorStep, AskSession, Unblock, Block, SendNotice, Announce,
       EndTask, ExecGoto, NotBlocked
  <2> QED BY <1>1, <1>2, <1>4, <2>1 DEF InHands, Undecided, Queued
<1>5. CASE e = Runner /\ running = v
  <2>1. CASE AskSession(e) \/ Unblock(e) \/ Block(e)
    <3>1. running' = running /\ exec'[Runner] # "announce"
      BY <1>1, <1>5, <2>1 DEF AskSession, Unblock, Block, ExecGoto, NotBlocked, Answered
    <3> QED BY <1>1, <1>5, <3>1 DEF InHands, Undecided
  <2>2. CASE SendNotice(e)
    <3>1. Subject(e) = v /\ SaveDeferred(v, "block") /\ "block" \in Decisions
      BY <1>5, <2>2 DEF SendNotice, Subject, Decisions
    <3>2. Recorded(v)'
      BY <1>1, <3>1, RecordedSaved
    <3> QED BY <1>1, <3>2 DEF InHands
  <2>3. CASE Announce(e)
    <3>1. exec[Runner] = "announce"
      BY <1>5, <2>3 DEF Announce
    <3> QED BY <1>1, <1>2, <3>1 DEF InHands, Undecided, Queued
  <2> QED BY <2>1, <2>2, <2>3 DEF ExecutorStep
<1> QED BY <1>3, <1>4, <1>5

LEMMA HandsRunner ==
  ASSUME TypeOK, Answered, NEW v \in Updates, InHands(v),
         FallbackReads \/ FallbackWarns \/ RunnerContinues
  PROVE  InHands(v)'
<1>1. /\ exec \in [Executors -> ExecPlaces] /\ Runner \in Executors /\ v # Runner
      /\ handler' = handler /\ log' = log
  BY RunnerAssumption DEF FallbackReads, FallbackWarns, RunnerContinues, TypeOK, Executors
<1>2. CASE FallbackReads
  <2>1. /\ running' = running /\ queue' = queue /\ exec'[Runner] = "fallback"
        /\ UNCHANGED <<log, logQueue>>
    BY <1>1, <1>2 DEF FallbackReads, ExecGoto, Answered
  <2> QED BY <1>1, <2>1, RecordedKept DEF InHands, Undecided, Queued
<1>3. CASE FallbackWarns
  <2>1. /\ queue' = queue /\ running' = Runner /\ SaveDeferred(running, "warn")
        /\ running \in Updates /\ "warn" \in Decisions
    BY <1>3, <1>1, SubjectType DEF FallbackWarns, EndTask, Warn, Subject, Decisions
  <2>2. v = running \/ Recorded(v) => Recorded(v)'
    BY <1>1, <2>1, RecordedSaved
  <2> QED BY <1>1, <2>1, <2>2 DEF InHands, Undecided, Queued
<1>4. CASE RunnerContinues
  <2>1. running = Runner /\ UNCHANGED <<log, logQueue>> /\ queue \in Seq(Updates)
    BY <1>4 DEF RunnerContinues, TypeOK
  <2>2. CASE queue = <<>>
    <3>1. ~Queued(v)
      BY <2>2 DEF Queued
    <3> QED BY <1>1, <2>1, <3>1, RecordedKept DEF InHands, Undecided
  <2>3. CASE queue # <<>>
    <3>1. /\ running' = queue[1] /\ queue' = Tail(queue) /\ exec'[Runner] = "session"
          /\ Len(queue) \in Nat /\ Len(queue') = Len(queue) - 1
          /\ \A i \in 1..Len(queue') : queue'[i] = queue[i + 1]
      BY <1>1, <1>4, <2>1, <2>3 DEF RunnerContinues
    <3>2. Queued(v) => running' = v \/ Queued(v)'
      <4> SUFFICES ASSUME NEW i \in 1..Len(queue), queue[i] = v, i # 1
                   PROVE  Queued(v)'
        BY <3>1 DEF Queued
      <4>1. i - 1 \in 1..Len(queue') /\ (i - 1) + 1 = i
        BY <3>1
      <4> QED BY <3>1, <4>1 DEF Queued
    <3> QED BY <1>1, <2>1, <3>1, <3>2, RecordedKept DEF InHands, Undecided
  <2> QED BY <2>2, <2>3
<1> QED BY <1>2, <1>3, <1>4

LEMMA HandsStep ==
  ASSUME Answered
  PROVE  TypeOK /\ RowsInHands /\ [Next]_vars => RowsInHands'
<1> SUFFICES ASSUME TypeOK, RowsInHands, [Next]_vars, crashes' = 0, NEW v \in rows'
             PROVE  InHands(v)'
  BY DEF RowsInHands
<1>1. ~Crash
  BY DEF Crash, TypeOK
<1>2. crashes = 0 /\ v \in Updates
  <2>1. crashes' = crashes
    BY <1>1 DEF Next, vars, Receive, HandlerStep, SaveRow, HandlerFails, ReadPrior, ReadOther,
       CountInstances, SendWarning, PressButton, OfferExpires, ButtonReadsPrior,
       ExecutorStep, AskSession, Unblock, Block, SendNotice, Announce, RunnerStep,
       FallbackReads, FallbackWarns, RunnerContinues, LogSettles
  <2>2. rows' \subseteq Updates
    BY TypeStep DEF TypeOK
  <2> QED BY <2>1, <2>2
<1>3. v \in rows => InHands(v)
  BY <1>2 DEF RowsInHands
<1>4. CASE \E u \in Updates : Receive(u) \/ HandlerStep(u)
  BY <1>2, <1>3, <1>4, HandsHandler
<1>5. CASE ~\E u \in Updates : Receive(u) \/ HandlerStep(u)
  <2>1. \/ \E u \in Updates : PressButton(u) \/ OfferExpires(u) \/ ButtonReadsPrior(u)
        \/ \E e \in Executors : ExecutorStep(e)
        \/ FallbackReads \/ FallbackWarns \/ RunnerContinues
        \/ LogSettles \/ UNCHANGED vars
    BY <1>1, <1>5 DEF Next, RunnerStep, Executors
  <2>2. rows' = rows
    BY <2>1 DEF vars, PressButton, OfferExpires, ButtonReadsPrior, ExecutorStep, AskSession,
       Unblock, Block, SendNotice, Announce, FallbackReads, FallbackWarns,
       RunnerContinues, LogSettles
  <2> QED BY <1>2, <1>3, <2>1, <2>2, HandsButton, HandsExecutor, HandsRunner, HandsSettle
<1> QED BY <1>4, <1>5

\* "process-incoming-message.ts" loses no message it has saved: as long as the
\* process lives, no query or session service fails, no log entry is dead-lettered
\* and no insert of a row commits without its answer coming back, every row is with
\* its handler, waits for the runner or is executed by it, or has an entry, in the
\* log or on its way.  EveryRowDecided says that it does not stay where it is.
THEOREM NoRowForgotten ==
  ASSUME Faults \cap {"read", "throw", "log", "lost"} = {}
  PROVE  Spec => [](crashes = 0 => \A u \in rows : Undecided(u) \/ Recorded(u))
<1>1. Answered
  BY DEF Answered
<1>2. Init => RowsInHands
  BY DEF Init, RowsInHands
<1>3. TypeOK /\ RowsInHands /\ [Next]_vars => RowsInHands'
  BY <1>1, HandsStep
<1>4. RowsInHands => (crashes = 0 => \A u \in rows : Undecided(u) \/ Recorded(u))
  BY DEF RowsInHands, InHands
<1> QED BY <1>2, <1>3, <1>4, TypeInit, TypeStep, PTL DEF Spec, SafeSpec
=============================================================================
