------------------------------ MODULE WriteQueue ------------------------------
(***************************************************************************)
(* The deferred write queue of the store (lib/db/queue.ts): one runner     *)
(* takes writes from the head of a queue, retries a failing write with a   *)
(* backoff from the front of the queue, gives up after MaxRetries retries  *)
(* (the write is dead-lettered and its promise rejected), and pauses       *)
(* before the next write once BreakerThreshold writes in a row failed.     *)
(*                                                                         *)
(* Node runs the code between two awaits without interruption, so every    *)
(* action below is the code from one await of processLoop to the next.     *)
(* Times are abstract: a sleep ends at some later point, `paused` says     *)
(* that Date.now() has not yet reached pausedUntilMs.                      *)
(***************************************************************************)
EXTENDS Naturals, Sequences

CONSTANTS Tasks,             \* the writes handed over, each at most once
          MaxRetries,        \* constructor argument, 5 in the code
          BreakerThreshold,  \* constructor argument, 5 in the code
          NoTask             \* executeTask is not running

ASSUME MaxRetriesAssumption == MaxRetries \in Nat
ASSUME ThresholdAssumption == BreakerThreshold \in Nat \ {0}
ASSUME NoTaskAssumption == NoTask \notin Tasks

VARIABLES
  pending,              \* the writes waiting, next one first
  current,              \* the write executeTask holds, or NoTask
  pc,                   \* where the runner is suspended
  attempts,             \* failed runs of each write
  consecutiveFailures,  \* failed runs since the last successful one
  paused,               \* pausedUntilMs lies in the future
  outcome,              \* what the promise enqueue returned has done
  rows                  \* how often the database has applied each write

vars == <<pending, current, pc, attempts, consecutiveFailures, paused,
          outcome, rows>>

\* "idle": processing is false.  "cooling": the sleep before a shift.
\* "running"/"committed": task.run() awaits the database, which has not yet /
\* has applied the statement.  "backoff": the sleep before the retry.
\* "loop": executeTask has returned, processLoop resumes in a microtask.
Places == {"idle", "cooling", "running", "committed", "backoff", "loop"}

TypeOK ==
  /\ pending \in Seq(Tasks)
  /\ current \in Tasks \cup {NoTask}
  /\ pc \in Places
  /\ attempts \in [Tasks -> Nat]
  /\ consecutiveFailures \in Nat
  /\ paused \in BOOLEAN
  /\ outcome \in [Tasks -> {"new", "waiting", "written", "dead"}]
  /\ rows \in [Tasks -> Nat]

Init ==
  /\ pending = <<>>
  /\ current = NoTask
  /\ pc = "idle"
  /\ attempts = [t \in Tasks |-> 0]
  /\ consecutiveFailures = 0
  /\ paused = FALSE
  /\ outcome = [t \in Tasks |-> "new"]
  /\ rows = [t \in Tasks |-> 0]

\* The writes handed over and not settled, oldest first: the one executeTask
\* holds, then the pending ones.
Unsettled == IF current = NoTask THEN pending ELSE <<current>> \o pending

-----------------------------------------------------------------------------
\* pending.shift() and the synchronous start of task.run().
StartHead(q) ==
  /\ current' = Head(q)
  /\ pending' = Tail(q)
  /\ pc' = "running"

\* MUTANT of LoopTop: a paused loop returns instead of sleeping.
LoopTop_ReturnsWhenPaused(q) ==
  \/ (q = <<>> \/ paused) /\ pc' = "idle" /\ pending' = q /\ current' = NoTask
  \/ q # <<>> /\ ~paused /\ StartHead(q)

\* MUTANT of LoopTop: the wait is not checked before the shift.
LoopTop_IgnoresPause(q) ==
  \/ q = <<>> /\ pc' = "idle" /\ pending' = q /\ current' = NoTask
  \/ q # <<>> /\ StartHead(q)

\* processLoop from the while test to its next await, on the queue q.
LoopTop(q) ==
  \/ q = <<>> /\ pc' = "idle" /\ pending' = q /\ current' = NoTask
  \/ q # <<>> /\ paused /\ pc' = "cooling" /\ pending' = q /\ current' = NoTask
  \/ q # <<>> /\ ~paused /\ StartHead(q)

\* enqueue and kick: an idle runner takes the write in the same call, a busy
\* one (also one that sleeps) finds it later.
Enqueue(t) ==
  /\ outcome[t] = "new"
  /\ outcome' = [outcome EXCEPT ![t] = "waiting"]
  /\ \/ pc = "idle" /\ LoopTop(Append(pending, t))
     \/ /\ pc # "idle"
        /\ pending' = Append(pending, t)
        /\ UNCHANGED <<current, pc>>
  /\ UNCHANGED <<attempts, consecutiveFailures, paused, rows>>

\* The database applies the statement; the runner has not heard yet.
DatabaseCommits ==
  /\ pc = "running"
  /\ rows' = [rows EXCEPT ![current] = @ + 1]
  /\ pc' = "committed"
  /\ UNCHANGED <<pending, current, attempts, consecutiveFailures, paused,
                 outcome>>

\* MUTANT of RunResolves: task.run() is not awaited.
RunResolves_NotAwaited ==
  /\ pc \in {"running", "committed"}
  /\ consecutiveFailures' = 0
  /\ outcome' = [outcome EXCEPT ![current] = "written"]
  /\ pc' = "loop"
  /\ current' = NoTask
  /\ UNCHANGED <<pending, attempts, paused, rows>>

\* MUTANT of RunResolves: the write is looked at and not taken from the queue.
RunResolves_LeavesInQueue ==
  /\ pc = "committed"
  /\ consecutiveFailures' = 0
  /\ outcome' = [outcome EXCEPT ![current] = "written"]
  /\ pc' = "loop"
  /\ pending' = <<current>> \o pending
  /\ current' = NoTask
  /\ UNCHANGED <<attempts, paused, rows>>

\* task.run() resolves.
RunResolves ==
  /\ pc = "committed"
  /\ consecutiveFailures' = 0
  /\ outcome' = [outcome EXCEPT ![current] = "written"]
  /\ pc' = "loop"
  /\ current' = NoTask
  /\ UNCHANGED <<pending, attempts, paused, rows>>

\* MUTANTS of RetryLeft: one retry too many, one too few.
RetryLeft_OneMore == attempts[current] + 1 <= MaxRetries + 1
RetryLeft_OneLess == attempts[current] + 1 < MaxRetries

\* After the failure being handled, the write may run again.
RetryLeft == attempts[current] + 1 <= MaxRetries

\* The bookkeeping every failed run does first: attempts, the failure streak
\* and the breaker.
CountFailure ==
  /\ pc \in {"running", "committed"}
  /\ attempts' = [attempts EXCEPT ![current] = @ + 1]
  /\ consecutiveFailures' = consecutiveFailures + 1
  /\ paused' = (paused \/ consecutiveFailures + 1 >= BreakerThreshold)

\* task.run() rejects (before the database applied the statement, or after it
\* with the answer lost) and a retry is left.
RunRejects ==
  /\ CountFailure
  /\ RetryLeft
  /\ pc' = "backoff"
  /\ UNCHANGED <<pending, current, outcome, rows>>

\* The last retry rejects: into the dead-letter queue, promise rejected.
RunDies ==
  /\ CountFailure
  /\ ~RetryLeft
  /\ outcome' = [outcome EXCEPT ![current] = "dead"]
  /\ pc' = "loop"
  /\ current' = NoTask
  /\ UNCHANGED <<pending, rows>>

\* MUTANT of BackoffEnds: the retry goes to the back (push for unshift).
BackoffEnds_Pushes ==
  /\ pc = "backoff"
  /\ pending' = Append(pending, current)
  /\ current' = NoTask
  /\ pc' = "loop"
  /\ UNCHANGED <<attempts, consecutiveFailures, paused, outcome, rows>>

\* MUTANT of BackoffEnds: the write is dropped before it is put back.
BackoffEnds_ClearsFirst ==
  /\ pc = "backoff"
  /\ pending' = <<NoTask>> \o pending
  /\ current' = NoTask
  /\ pc' = "loop"
  /\ UNCHANGED <<attempts, consecutiveFailures, paused, outcome, rows>>

\* MUTANT of BackoffEnds: the write is never put back.
BackoffEnds_Forgets ==
  /\ pc = "backoff"
  /\ current' = NoTask
  /\ pc' = "loop"
  /\ UNCHANGED <<pending, attempts, consecutiveFailures, paused, outcome, rows>>

\* The backoff sleep is over: the write goes back to the front.
BackoffEnds ==
  /\ pc = "backoff"
  /\ pending' = <<current>> \o pending
  /\ current' = NoTask
  /\ pc' = "loop"
  /\ UNCHANGED <<attempts, consecutiveFailures, paused, outcome, rows>>

LoopResumes ==
  /\ pc = "loop"
  /\ LoopTop(pending)
  /\ UNCHANGED <<attempts, consecutiveFailures, paused, outcome, rows>>

\* The clock passes pausedUntilMs.
CooldownPasses ==
  /\ paused
  /\ paused' = FALSE
  /\ UNCHANGED <<pending, current, pc, attempts, consecutiveFailures, outcome,
                 rows>>

\* The breaker's sleep ends; the wait is not computed again.
CoolingEnds ==
  /\ pc = "cooling"
  /\ ~paused
  /\ StartHead(pending)
  /\ UNCHANGED <<attempts, consecutiveFailures, paused, outcome, rows>>

Next ==
  \/ \E t \in Tasks : Enqueue(t)
  \/ DatabaseCommits
  \/ RunResolves
  \/ RunRejects
  \/ RunDies
  \/ BackoffEnds
  \/ LoopResumes
  \/ CooldownPasses
  \/ CoolingEnds

\* Timers fire, microtasks run, and every statement sent to the database is
\* answered one way or the other.  Nothing makes a caller enqueue and nothing
\* makes the database commit.
Fairness ==
  /\ WF_vars(RunResolves \/ RunRejects \/ RunDies)
  /\ WF_vars(BackoffEnds)
  /\ WF_vars(LoopResumes)
  /\ WF_vars(CooldownPasses)
  /\ WF_vars(CoolingEnds)

SafeSpec == Init /\ [][Next]_vars

Spec == SafeSpec /\ Fairness

-----------------------------------------------------------------------------
(***************************************************************************)
(* Properties.                                                             *)
(***************************************************************************)

\* "await the returned promise to know persistence finished": a promise that
\* resolved stands for a row in the database, and one not yet handed over
\* has none.
AcknowledgedIsPersisted ==
  \A t \in Tasks : /\ outcome[t] = "written" => rows[t] > 0
                   /\ outcome[t] = "new" => rows[t] = 0

\* The queue retries inserts that are not idempotent, so a write whose answer
\* was lost is applied again.  It is never applied more than once per allowed
\* run, whatever mix of losses, failures, pauses and retries it went through.
RepeatsBounded == \A t \in Tasks : rows[t] <= MaxRetries + 1

\* A write is given up exactly when its last retry failed: no write is dead
\* early, none that failed that often is still owed an answer.
DeadOnlyAfterLastRetry ==
  \A t \in Tasks : outcome[t] = "dead" <=> attempts[t] = MaxRetries + 1

\* No lost wake-up: the runner is never asleep for good on a write.
NoLostWakeup == pc = "idle" => \A t \in Tasks : outcome[t] # "waiting"

\* Once the breaker has tripped, no write starts before the pause is over,
\* not even one enqueued meanwhile, nor the retry that comes back first.
BreakerHolds == [][pc # "running" /\ pc' = "running" => ~paused]_vars

\* A promise settles once and the database never hears again of its write.
SettledIsFinal ==
  [][\A t \in Tasks : outcome[t] \in {"written", "dead"} =>
        outcome'[t] = outcome[t] /\ rows'[t] = rows[t]]_vars

\* Every write handed over settles, one way or the other.
EverySettles ==
  \A t \in Tasks :
    outcome[t] = "waiting" ~> outcome[t] \in {"written", "dead"}

\* The queue keeps the promise of OrderedWrites, retries and pauses included:
\* one write at a time, in the order the callers handed them over.
Ordered == INSTANCE OrderedWrites WITH
             MaxAttempts <- MaxRetries + 1, queue <- Unsettled

ImplementsOrderedWrites == Ordered!Spec
=============================================================================
