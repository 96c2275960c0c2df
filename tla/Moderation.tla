------------------------------ MODULE Moderation ------------------------------
(***************************************************************************)
(* The moderation pipeline: from an inbound business message to its row,   *)
(* its decision, the warning or the block that follows, and the log entry  *)
(* the next message of the sender is judged by.                            *)
(*                                                                         *)
(* Actors: one handler per update (process-incoming-message.ts), which the *)
(* bot library runs concurrently; the block queue's runner                 *)
(* (action-queue-service.ts, block-tier-handler.ts); one handler per       *)
(* pressed "Block now" button (handle-owner-block-callback.ts); and the    *)
(* deferred write queue, used here through what OrderedWrites promises.    *)
(* Every action is the code between two awaits.  What only one process     *)
(* remembers (claims, queues, offers) is gone after a crash; the tables    *)
(* and Telegram's block list stay.                                         *)
(***************************************************************************)
EXTENDS Naturals, Sequences, FiniteSets

CONSTANTS
  Updates,     \* the updates Telegram delivers, re-deliveries included
  Owner,       \* update -> the account owner it was sent to
  Sender,      \* update -> who sent it
  Message,     \* update -> chatId:messageId, the key of the dedupe
  ReceivedAt,  \* update -> the clock when its handler builds the row
  Window,      \* MESSAGE_INSTANCE_COLLAPSE_SECONDS
  MaxInFlight, \* bound: handlers running at the same time
  MaxCrashes,  \* bound: crashes or shutdowns of the process
  MaxWrites,   \* how often the write queue may write one entry (RepeatsBounded)
  Faults,      \* which calls may fail, a subset of AllFaults
  Runner       \* the block queue's runner, next to the buttons' handlers

\* "forget": claims expire or are trimmed.  "save": the insert of the row is
\* refused.  "lost": it commits and its answer is lost.  "read": a query fails.
\* "session": there is no Telegram session.  "throw": the session service
\* throws.  "unblock", "block": TDLib refuses.  "log": a log entry is
\* dead-lettered.
AllFaults == {"forget", "save", "lost", "read", "session", "throw", "unblock",
              "block", "log"}

ASSUME FaultsAssumption == Faults \subseteq AllFaults
ASSUME BoundsAssumption == MaxInFlight \in Nat \ {0} /\ MaxCrashes \in Nat
ASSUME WritesAssumption == MaxWrites \in Nat \ {0}
ASSUME RunnerAssumption == Runner \notin Updates
ASSUME ClockAssumption == Window \in Nat /\ ReceivedAt \in [Updates -> Nat]

VARIABLES
  handler,   \* where the handler of each update is
  seen,      \* the keys this process has claimed (InboundMessageDedupe)
  forgotten, \* history: how often each key was claimed again, or its claim died
  rows,      \* incoming_messages: the updates whose row is there
  other,     \* each handler's priorBlockOtherAccount
  queue,     \* ActionQueueService: updates whose block waits
  running,   \* the update whose block the runner executes, or Runner
  exec,      \* where the runner and the buttons' handlers are
  offers,    \* PendingBlockOfferStore: updates with a live "Block now" token
  logQueue,  \* log entries handed to the deferred write queue
  log,       \* action_logs: how many entries of each kind a row has
  blocked,   \* Telegram: <<owner, sender>> on the owner's block list
  crashes

vars == <<handler, seen, forgotten, rows, other, queue, running, exec, offers,
          logQueue, log, blocked, crashes>>

Decisions == {"warn", "block", "ignore"}
Executors == Updates \cup {Runner}
Pair(u) == <<Owner[u], Sender[u]>>
Pairs == {Pair(u) : u \in Updates}
Keys == {Message[u] : u \in Updates}

HandlerPlaces == {"new", "saving", "prior", "other", "count", "warning",
                  "finished"}

\* "prior": a button's handler reads the log.  "session": getTdlibForOwner.
\* "unblock", "block": the two TDLib calls.  "notice": the block message.
\* "announce": the note to the owner.  "other", "fallback": the runner reads
\* the log and sends a warning instead.  "between": the runner's timer.
ExecPlaces == {"idle", "prior", "session", "unblock", "block", "notice",
               "announce", "other", "fallback", "between"}

TypeOK ==
  /\ handler \in [Updates -> HandlerPlaces]
  /\ seen \subseteq Keys
  /\ forgotten \in [Keys -> Nat]
  /\ rows \subseteq Updates
  /\ other \in [Updates -> BOOLEAN]
  /\ queue \in Seq(Updates)
  /\ running \in Executors
  /\ exec \in [Executors -> ExecPlaces]
  /\ offers \subseteq Updates
  /\ logQueue \in Seq(Updates \X Decisions)
  /\ log \in [Updates -> [Decisions -> Nat]]
  /\ blocked \subseteq Pairs
  /\ crashes \in 0..MaxCrashes
  /\ (running = Runner) <=> (exec[Runner] \in {"idle", "between"})

Init ==
  /\ handler = [u \in Updates |-> "new"]
  /\ seen = {}
  /\ forgotten = [k \in Keys |-> 0]
  /\ rows = {}
  /\ other = [u \in Updates |-> FALSE]
  /\ queue = <<>>
  /\ running = Runner
  /\ exec = [e \in Executors |-> "idle"]
  /\ offers = {}
  /\ logQueue = <<>>
  /\ log = [u \in Updates |-> [d \in Decisions |-> 0]]
  /\ blocked = {}
  /\ crashes = 0

-----------------------------------------------------------------------------
(* The queries.  They read the tables, so an entry still in the deferred    *)
(* write queue is not seen.                                                 *)

RowsOf(p) == {u \in rows : Pair(u) = p}

\* MUTANT of InstanceCount: a gap of exactly the window starts an instance.
InstanceCount_Inclusive(p) ==
  IF Window = 0 THEN Cardinality(RowsOf(p))
  ELSE LET times == {ReceivedAt[u] : u \in RowsOf(p)}
       IN  Cardinality({t \in times :
                          \A s \in times : s < t => t - s >= Window})

\* countBySender: with a window, a row starts an instance when no row of the
\* sender precedes it by at most the window.
InstanceCount(p) ==
  IF Window = 0 THEN Cardinality(RowsOf(p))
  ELSE LET times == {ReceivedAt[u] : u \in RowsOf(p)}
       IN  Cardinality({t \in times :
                          \A s \in times : s < t => t - s > Window})

LoggedBlock(p) == \E u \in RowsOf(p) : log[u]["block"] > 0

\* hasPriorBlockByOtherSession
LoggedElsewhere(p) == \E q \in Pairs : q[2] = p[2] /\ q[1] # p[1]
                                         /\ LoggedBlock(q)

\* moderationTierForCount
IsBlockTier(n) == n >= 3

\* saveDeferred
SaveDeferred(u, decision) == logQueue' = Append(logQueue, <<u, decision>>)

-----------------------------------------------------------------------------
(* The handler of an update.                                                *)

InFlight == {u \in Updates : handler[u] \notin {"new", "finished"}}

Goto(u, place) == handler' = [handler EXCEPT ![u] = place]

\* MUTANT of Claim: the key is compared and not remembered.
Claim_NotKept(u) == Message[u] \notin seen /\ UNCHANGED <<seen, forgotten>>

\* The claims of these keys are gone (once more).
Forget(keys) ==
  forgotten' =
    [k \in Keys |-> IF k \in keys THEN forgotten[k] + 1 ELSE forgotten[k]]

\* tryClaim, granted: the key was never claimed, or its claim is gone: over its
\* TTL, pruned or trimmed.  Which call removed it, and why, is InboundDedupe's
\* subject; nobody can tell before the key is claimed again.
Claim(u) ==
  /\ Message[u] \in seen => "forget" \in Faults
  /\ seen' = seen \cup {Message[u]}
  /\ Forget({Message[u]} \cap seen)

\* evaluate: the first delivery of a message goes on, a duplicate is skipped.
\* The row's timestamp is taken in this step: updates come in clock order.
Receive(u) ==
  /\ handler[u] = "new"
  /\ \A v \in Updates : handler[v] # "new" => ReceivedAt[v] <= ReceivedAt[u]
  /\ Cardinality(InFlight) < MaxInFlight
  /\ \/ Claim(u) /\ Goto(u, "saving")
     \/ /\ Message[u] \in seen
        /\ UNCHANGED <<seen, forgotten>>
        /\ Goto(u, "finished")
  /\ UNCHANGED <<rows, other, queue, running, exec, offers, logQueue, log,
                 blocked, crashes>>

SaveRow(u) ==
  /\ handler[u] = "saving"
  /\ rows' = rows \cup {u}
  /\ Goto(u, "prior")
  /\ UNCHANGED <<seen, forgotten, other, queue, running, exec, offers, logQueue,
                 log, blocked, crashes>>

\* An error ends the handler (the controller logs it); the claim stays.  An
\* insert that fails may have been committed: nobody then works on its row.
HandlerFails(u) ==
  /\ \/ handler[u] = "saving" /\ "save" \in Faults /\ UNCHANGED rows
     \/ handler[u] = "saving" /\ "lost" \in Faults /\ rows' = rows \cup {u}
     \/ /\ handler[u] \in {"prior", "other", "count"} /\ "read" \in Faults
        /\ UNCHANGED rows
  /\ Goto(u, "finished")
  /\ UNCHANGED <<seen, forgotten, other, queue, running, exec, offers, logQueue,
                 log, blocked, crashes>>

\* trySkip: a sender whose block is logged is ignored.
ReadPrior(u) ==
  /\ handler[u] = "prior"
  /\ \/ LoggedBlock(Pair(u)) /\ SaveDeferred(u, "ignore") /\ Goto(u, "finished")
     \/ ~LoggedBlock(Pair(u)) /\ UNCHANGED logQueue /\ Goto(u, "other")
  /\ UNCHANGED <<seen, forgotten, rows, other, queue, running, exec, offers,
                 log, blocked, crashes>>

ReadOther(u) ==
  /\ handler[u] = "other"
  /\ other' = [other EXCEPT ![u] = LoggedElsewhere(Pair(u))]
  /\ Goto(u, "count")
  /\ UNCHANGED <<seen, forgotten, rows, queue, running, exec, offers, logQueue,
                 log, blocked, crashes>>

\* MUTANT of EnqueueBlock: the runner is not started.
EnqueueBlock_NoStart(u) == queue' = Append(queue, u) /\ UNCHANGED <<running, exec>>

\* ActionQueueService.enqueue: an idle runner starts the task in this call.
EnqueueBlock(u) ==
  \/ /\ exec[Runner] = "idle"
     /\ running' = u
     /\ exec' = [exec EXCEPT ![Runner] = "session"]
     /\ UNCHANGED queue
  \/ /\ exec[Runner] # "idle"
     /\ queue' = Append(queue, u)
     /\ UNCHANGED <<running, exec>>

\* The tier, and dispatchTier up to its first await.
CountInstances(u) ==
  /\ handler[u] = "count"
  /\ \/ /\ IsBlockTier(InstanceCount(Pair(u)))
        /\ EnqueueBlock(u)
        /\ Goto(u, "finished")
     \/ /\ ~IsBlockTier(InstanceCount(Pair(u)))
        /\ Goto(u, "warning")
        /\ UNCHANGED <<queue, running, exec>>
  /\ UNCHANGED <<seen, forgotten, rows, other, offers, logQueue, log, blocked,
                 crashes>>

\* SendPriorBlockOwnerPromptUseCase: a token for the "Block now" button.
OfferBlock(u) == offers' = offers \cup {u}

\* WarningTierHandler.handle once the reply is out: the entry, and the offer
\* for the owner when another account blocked the sender.
Warn(u) ==
  /\ SaveDeferred(u, "warn")
  /\ \/ other[u] /\ OfferBlock(u)
     \/ ~other[u] /\ UNCHANGED offers

SendWarning(u) ==
  /\ handler[u] = "warning"
  /\ Warn(u)
  /\ Goto(u, "finished")
  /\ UNCHANGED <<seen, forgotten, rows, other, queue, running, exec, log,
                 blocked, crashes>>

-----------------------------------------------------------------------------
(* Executing a block: the runner for the head of the queue, a button's      *)
(* handler for its offer.                                                   *)

Subject(e) == IF e = Runner THEN running ELSE e

\* MUTANT of EndTask: the runner stays with its task.
EndTask_KeepsTask(e) ==
  /\ exec' = [exec EXCEPT ![e] = IF e = Runner THEN "between" ELSE "idle"]
  /\ UNCHANGED running

\* The task is over: the runner pauses, a button's handler is done.
EndTask(e) ==
  /\ exec' = [exec EXCEPT ![e] = IF e = Runner THEN "between" ELSE "idle"]
  /\ running' = IF e = Runner THEN Runner ELSE running

ExecGoto(e, place) ==
  exec' = [exec EXCEPT ![e] = place] /\ UNCHANGED running

\* The block was not made: the runner warns instead, the button answers that
\* a session is needed.
NotBlocked(e) == IF e = Runner THEN ExecGoto(e, "other") ELSE EndTask(e)

\* MUTANT of ConsumeOffer: the token is not deleted.
ConsumeOffer_Kept(u) == u \in offers /\ UNCHANGED offers

\* PendingBlockOfferStore.consume
ConsumeOffer(u) == u \in offers /\ offers' = offers \ {u}

PressButton(u) ==
  /\ exec[u] = "idle"
  /\ ConsumeOffer(u)
  /\ ExecGoto(u, "prior")
  /\ UNCHANGED <<handler, seen, forgotten, rows, other, queue, logQueue, log,
                 blocked, crashes>>

\* pruneExpired
OfferExpires(u) ==
  /\ u \in offers
  /\ offers' = offers \ {u}
  /\ UNCHANGED <<handler, seen, forgotten, rows, other, queue, running, exec,
                 logQueue, log, blocked, crashes>>

ButtonReadsPrior(u) ==
  /\ exec[u] = "prior"
  /\ \/ LoggedBlock(Pair(u)) /\ EndTask(u)
     \/ ~LoggedBlock(Pair(u)) /\ ExecGoto(u, "session")
     \/ "read" \in Faults /\ EndTask(u)
  /\ UNCHANGED <<handler, seen, forgotten, rows, other, queue, offers, logQueue,
                 log, blocked, crashes>>

\* executeBlockWithSession: a client, none (the block is left with the
\* onboarding coordinator), or an error that ends the task.
AskSession(e) ==
  /\ exec[e] = "session"
  /\ \/ ExecGoto(e, "unblock")
     \/ "session" \in Faults /\ NotBlocked(e)
     \/ "throw" \in Faults /\ EndTask(e)
  /\ UNCHANGED <<handler, seen, forgotten, rows, other, queue, offers, logQueue,
                 log, blocked, crashes>>

\* unblockContact: its errors are swallowed.
Unblock(e) ==
  /\ exec[e] = "unblock"
  /\ \/ blocked' = blocked \ {Pair(Subject(e))}
     \/ "unblock" \in Faults /\ UNCHANGED blocked
  /\ ExecGoto(e, "block")
  /\ UNCHANGED <<handler, seen, forgotten, rows, other, queue, offers, logQueue,
                 log, crashes>>

\* MUTANT of Block: sends block_list null, as unblockContact does.
Block_CopiedFromUnblock(e) ==
  /\ exec[e] = "block"
  /\ blocked' = blocked \ {Pair(Subject(e))}
  /\ ExecGoto(e, "notice")
  /\ UNCHANGED <<handler, seen, forgotten, rows, other, queue, offers, logQueue,
                 log, crashes>>

\* blockContact
Block(e) ==
  /\ exec[e] = "block"
  /\ \/ /\ blocked' = blocked \cup {Pair(Subject(e))}
        /\ ExecGoto(e, "notice")
     \/ /\ "block" \in Faults
        /\ NotBlocked(e)
        /\ UNCHANGED blocked
  /\ UNCHANGED <<handler, seen, forgotten, rows, other, queue, offers, logQueue,
                 log, crashes>>

\* The block message is out (or failed, which changes nothing): the block is
\* logged and the owner told.
SendNotice(e) ==
  /\ exec[e] = "notice"
  /\ SaveDeferred(Subject(e), "block")
  /\ ExecGoto(e, "announce")
  /\ UNCHANGED <<handler, seen, forgotten, rows, other, queue, offers, log,
                 blocked, crashes>>

Announce(e) ==
  /\ exec[e] = "announce"
  /\ EndTask(e)
  /\ UNCHANGED <<handler, seen, forgotten, rows, other, queue, offers, logQueue,
                 log, blocked, crashes>>

\* fallbackToWarning
FallbackReads ==
  /\ exec[Runner] = "other"
  /\ \/ /\ other' = [other EXCEPT ![running] = LoggedElsewhere(Pair(running))]
        /\ ExecGoto(Runner, "fallback")
     \/ "read" \in Faults /\ UNCHANGED other /\ EndTask(Runner)
  /\ UNCHANGED <<handler, seen, forgotten, rows, queue, offers, logQueue, log,
                 blocked, crashes>>

FallbackWarns ==
  /\ exec[Runner] = "fallback"
  /\ Warn(running)
  /\ EndTask(Runner)
  /\ UNCHANGED <<handler, seen, forgotten, rows, other, queue, log, blocked,
                 crashes>>

\* ActionQueueService.run after the pause between two tasks.
RunnerContinues ==
  /\ exec[Runner] = "between"
  /\ \/ /\ queue = <<>>
        /\ exec' = [exec EXCEPT ![Runner] = "idle"]
        /\ UNCHANGED <<running, queue>>
     \/ /\ queue # <<>>
        /\ running' = Head(queue)
        /\ queue' = Tail(queue)
        /\ exec' = [exec EXCEPT ![Runner] = "session"]
  /\ UNCHANGED <<handler, seen, forgotten, rows, other, offers, logQueue, log,
                 blocked, crashes>>

-----------------------------------------------------------------------------
\* The deferred write queue settles its oldest entry after n of its runs reached
\* the table: more than one when answers were lost (the insert is not
\* idempotent), perhaps none when it is dead-lettered.  Nobody waits for it, so
\* the copies are one step.
LogSettles ==
  /\ logQueue # <<>>
  /\ LET u == Head(logQueue)[1]
         d == Head(logQueue)[2]
     IN  \E n \in 0..MaxWrites : /\ n = 0 => "log" \in Faults
                                 /\ log' = [log EXCEPT ![u][d] = @ + n]
  /\ logQueue' = Tail(logQueue)
  /\ UNCHANGED <<handler, seen, forgotten, rows, other, queue, running, exec,
                 offers, blocked, crashes>>

\* The process dies or is shut down: nothing in memory is drained.
Crash ==
  /\ crashes < MaxCrashes
  /\ crashes' = crashes + 1
  /\ handler' = [u \in Updates |->
                   IF handler[u] = "new" THEN "new" ELSE "finished"]
  /\ seen' = {}
  /\ Forget(seen)
  /\ queue' = <<>>
  /\ running' = Runner
  /\ exec' = [e \in Executors |-> "idle"]
  /\ offers' = {}
  /\ logQueue' = <<>>
  /\ UNCHANGED <<rows, other, log, blocked>>

HandlerStep(u) ==
  \/ SaveRow(u) \/ HandlerFails(u) \/ ReadPrior(u) \/ ReadOther(u)
  \/ CountInstances(u) \/ SendWarning(u)

ExecutorStep(e) ==
  AskSession(e) \/ Unblock(e) \/ Block(e) \/ SendNotice(e) \/ Announce(e)

RunnerStep ==
  ExecutorStep(Runner) \/ FallbackReads \/ FallbackWarns \/ RunnerContinues

Next ==
  \/ \E u \in Updates : \/ Receive(u) \/ HandlerStep(u)
                        \/ PressButton(u) \/ OfferExpires(u)
                        \/ ButtonReadsPrior(u) \/ ExecutorStep(u)
  \/ RunnerStep
  \/ LogSettles
  \/ Crash

\* Every awaited call answers (a handler, the runner and the write queue take
\* their next step); nobody has to send an update or press a button.
Fairness ==
  /\ \A u \in Updates : /\ WF_vars(HandlerStep(u))
                        /\ WF_vars(ButtonReadsPrior(u) \/ ExecutorStep(u))
  /\ WF_vars(RunnerStep)
  /\ WF_vars(LogSettles)

SafeSpec == Init /\ [][Next]_vars

Spec == SafeSpec /\ Fairness

-----------------------------------------------------------------------------
(***************************************************************************)
(* Properties.                                                             *)
(***************************************************************************)

\* "Same Telegram message may appear only once": however often Telegram delivers
\* it and however its handlers interleave, a message has one row, and one more
\* for each time its claim was forgotten (by the TTL, a trim or a restart)
\* before that delivery.
OneRowPerMessage ==
  \A k \in Keys : Cardinality({u \in rows : Message[u] = k}) <= 1 + forgotten[k]

\* v was sent after u and, with a collapse window, in another burst.
LaterBurst(u, v) == Window > 0 => ReceivedAt[v] - ReceivedAt[u] > Window

\* The rows of two messages: or of one whose claim was forgotten in between,
\* which is the one way a message comes to be counted twice.
CountedApart(u, v) ==
  u # v /\ (Message[u] = Message[v] => forgotten[Message[u]] > 0)

\* Three strikes, "bursts within a collapse window count as one": whoever is
\* on a block list has three rows with that owner, of three bursts and of three
\* messages (or of one redelivered after its claim was forgotten), or had been
\* blocked by another owner before.
BlockNeedsThreeBursts ==
  \A p \in blocked :
    \/ LoggedElsewhere(p)
    \/ \E u, v, w \in RowsOf(p) :
         /\ CountedApart(u, v) /\ CountedApart(v, w) /\ CountedApart(u, w)
         /\ LaterBurst(u, v) /\ LaterBurst(v, w)

OnTheirWay(u, d) == Cardinality({i \in 1..Len(logQueue) : logQueue[i] = <<u, d>>})

\* How many entries of row u with decision d there can be once what is on its
\* way is written.
Entries(u, d) == log[u][d] + MaxWrites * OnTheirWay(u, d)

\* A row gets one decision from the pipeline, with one exception: a warned
\* message whose sender another owner had blocked may get a block as well, by
\* its "Block now" button.  A double press does not add a third: what is in the
\* log more than once is the work of the write queue.
OneDecisionPerRow ==
  \A u \in Updates :
    /\ \A d \in Decisions : Entries(u, d) <= MaxWrites
    /\ Entries(u, "ignore") > 0 => Entries(u, "warn") = 0 /\ Entries(u, "block") = 0
    /\ Entries(u, "warn") > 0 /\ Entries(u, "block") > 0 => other[u]

\* The log's promise to its readers, "Sender already blocked on this owner's
\* account", on which every later message is ignored.  Re-blocking takes the
\* sender off the list first, so the promise is about the states in which
\* nobody is between those two calls for that sender; a crash between them
\* breaks it, so it is about a process that has not crashed.
LoggedBlockHolds ==
  \A p \in Pairs :
    /\ crashes = 0
    /\ LoggedBlock(p)
    /\ \A e \in Executors : exec[e] = "block" => Pair(Subject(e)) # p
    => p \in blocked

\* Every counted message is decided: its row gets an entry, unless the process
\* goes down, which drops what is queued.
EveryRowDecided ==
  \A u \in Updates :
    u \in rows ~> (crashes > 0 \/ \E d \in Decisions : log[u][d] > 0)
=============================================================================
