# A TLA+ model of the Telegram Business moderation bot

The bot reads the private messages strangers send to the Business accounts of
its users (*owners*), warns a sender twice, blocks him at the third message,
and blocks through TDLib with a session that a *session provider* keeps. It is
one Node.js process in front of one Postgres database. This directory holds
TLA+ modules of its stateful parts, the TLC configurations that check them,
and TLAPS proofs about eight of them.

In this text `internal/` stands for `src/src/internal/`, `sdk` for
`src/sdk/src/`.

## 1. The system

### What makes it hard

There is one thread, so the code between two `await`s runs undisturbed. But the
bot library handles a batch of updates concurrently, every handler awaits the
database and Telegram several times, and much of what the handlers agree on
lives in Maps of the process: claims, caches, queues, offers, logins in flight.
So the bugs to look for are reads made before an `await` and used after it,
results applied in another order than they were asked for, retries of what was
already done, calls that fail halfway through a sequence, and restarts that
drop memory and keep tables. That is why **each action of the models is the
code between two suspension points**, and a handler's place is a variable.

### Components, their state and their operations

| Component | State | Operations | Correct when |
|---|---|---|---|
| Deferred write queue, `lib/db/queue.ts` | `pending`, `processing`, failures in a row, `pausedUntilMs` | `enqueue` (with or without waiting for the result), the processing loop, retry with backoff, breaker, dead letter | a caller hears of success only after a commit and of failure only after the last retry; writes take effect in order; no write is stranded |
| Store, `lib/db/root.ts`, `store-reads.ts`, `store-writes.ts` | the tables; the session cache; the query cache (never filled by the program) | `persist`, `readSessionByUserId`, the counting and prior-block queries | cache and table agree |
| Moderation toggle, `app/use-cases/toggle-moderation.ts` and the check of every message | none of its own | `/toggle`, `isEnabled` | each acknowledged toggle flips |
| Inbound pipeline, `moderation/process-incoming-message.ts` and its helpers | none of its own; rows in `incoming_messages` and `action_logs` | claim, save, prior-block skip, count, tier, warn or queue a block | three strikes per owner and sender, one decision per message |
| Inbound dedupe, `moderation/inbound-message-dedupe.ts` | a Map of claimed keys with expiry | `tryClaim`, prune, trim | refuses only what was claimed recently |
| Action queue and block execution, `action-queue-service.ts`, `block-tier-handler.ts`, `execute-moderation-action.ts` | FIFO of tasks, a running flag; Telegram's block lists | enqueue, run, unblock + block + notice, log, fallback warning | serial; a logged block is a block |
| Owner block offers, `pending-block-offer-store.ts`, `handle-owner-block-callback.ts` | tokens with expiry | offer, press, expiry | one press, one block |
| Block onboarding coordinator, `session/block-onboarding-coordinator.ts` | per owner: awaiting a phone, the blocks deferred until then | `executeBlockWithSession`, `requestSessionConnect`, `onPhoneSubmitted` | a deferred block is executed, once |
| Owner sessions, `session/owner-session-service.ts`, `owner-tdlib-connect.ts` | kept TDLib clients, logins in flight | `getTdlibForOwner`, `stop` | one client per account, every caller is answered, everything closed at exit |
| Owner onboarding, `owner-onboarding-service.ts`, `owner-onboarding-poller.ts` | the onboarding at the provider | begin, poll, deadline | ends, one way or the other |
| Session provider SDK, `sdk/index.ts` | a socket, requests pending by id | request, answer, close | every request is answered or rejected |
| Experiments, `moderation/experiments/` | manifests, loaded once | choose a variant by a hash | a sender keeps his variant from tier to tier |
| Notifications and replies, `notifications/`, `moderation-reply-service.ts` | none | send to a sender through the business connection, to an owner as HTML, as a plain copy, with a button | nobody is sent a text twice, a caller knows what arrived |
| Plain copies, `lib/telegram/html-to-plain-text/` | none | turn HTML into text | the words and links survive, the markup does not |
| Management bot and routes | none | write the sender's profile, then run the command | a command that was accepted is answered |
| Session files, configuration, telemetry, wiring | none | construct, log | - |

### How they interact

```
 update --> controller --> dedupe claim --> save row --> read log --> count --> tier
                |                              |             ^                 |
             toggle check                   Postgres <-- write queue <-- decision, "warn"
           (session cache)                                   ^                 | "block"
                                                             |            action queue
 owner's "Block now" button ------- offers <--- warning      |                 |
                |                                            |                 v
                +------------------> executeBlockWithSession (coordinator) ----+
                                             |        ^
                                   owner sessions   owner's phone number
                                             |
                              session provider (SDK), TDLib
```

All calls are calls within the process, except those to Postgres, the Bot API,
TDLib and the provider's socket. The write queue is the only way to the
tables besides the insert of `incoming_messages`.

## 2. The modules

| Module | Models | Actors |
|---|---|---|
| `OrderedWrites` | what the write queue promises: writes are applied in the order of their submission, some more than once, and each is settled, applied or not | callers, the queue |
| `WriteQueue` | the queue itself, loop, retries, breaker | callers, the loop, the database, timers |
| `Moderation` | the pipeline from update to logged decision, with dedupe, action queue, block execution and offers; it uses the write queue as `OrderedWrites` describes it, as a FIFO that settles its head | a handler per update, the runner, a handler per button, the write queue |
| `InboundDedupe` | the claim cache at its limits; `Moderation` uses it as a set | claims, the clock |
| `BlockOnboarding` | the coordinator, for one owner; the execution of a block is one step | blocks that want a session, phone submissions |
| `DeferredBlocks` | the coordinator composed with the execution of each block (unblock, block, notice) and with the log its callers write; it implements `BlockOnboarding` | the same, their executions interleaved |
| `OwnerClients` | clients and logins of one process, with `stop` | calls for a client, logins, shutdown |
| `ProviderCalls` | the provider's websocket with the requests pending on it, and the onboardings polled over it | onboardings, other requests, the socket, the provider, timers |
| `SessionCache` | one owner's record in cache and table, and the profile write in front of each command | toggles, message checks, the write queue |
| `Experiments` | loading a manifest and the choice of a variant, as operators | - |
| `HtmlToPlainText` | the seven passes that make a plain copy, as operators over tokens, and what a reader sees of an HTML text | - |
| `Replies` | what a warning, a block and a policy command send, composed with the two modules of operators | one handler at a time, the Bot API |

`MC*.tla` give the constants of each for TLC. `*_proofs.tla` hold the proofs.

### How state and actions correspond to the code

**WriteQueue.** `pending` is `pending`, `current` the task `processLoop` shifted
out, `pc` the place of the loop (idle, cooling down, at the database, in its
backoff, about to look at the queue again), `attempts` and
`consecutiveFailures` the counters of the same names, `paused` whether
`Date.now() < pausedUntilMs`, `outcome` what the promise given to the caller
has done, `rows` what the database has. `Enqueue` is `enqueue` with `kick` and what the loop does
synchronously after it; `RunResolves`, `RunRejects`, `RunDies` are
`executeTask` after its `await`; `BackoffEnds` is the `unshift` after the sleep
and the loop's next look at its `while`. `DatabaseCommits` is separate from the
answer: a connection that dies between them makes the queue repeat a committed
statement.

**Moderation.** A handler moves through `new, saving, prior, other, count,
warning, finished`: the names of the call it awaits. `exec` holds the same for
the runner and the handlers of pressed buttons. `Receive` is `evaluate` with
`tryClaim`; `CountInstances` takes the tier and, as the code does, starts an
idle runner in the same turn (`EnqueueBlock`). The two TDLib calls of
`executeBlock` are two actions since the process can be interrupted, and the
second can fail, between them. `LoggedBlock`, `LoggedElsewhere` and
`InstanceCount` are the SQL queries. `LogSettles` is the write queue done with its
oldest entry, which it may have written several times (`MaxWrites`): the insert
has no key to stop it, and a commit whose answer is lost is repeated. Nobody
waits for these writes, so the copies are one step. `Crash` empties everything in
memory. `seen` are the keys this process has claimed; any of them may be claimed
again (`Claim`), since a claim is over after its TTL or when the Map is trimmed
(`inbound-message-dedupe.ts:24`, 33-35): `InboundDedupe` has the clock and the size
that decide when, here it may happen at any time. `forgotten` counts, per key, the
claims granted again and those that died with a process. `HandlerFails` has both
outcomes of an insert that fails: no row, or a row whose answer was lost and that
nobody works on.

**BlockOnboarding.** `awaiting` and `queued` are the owner's entry; `copy` is
what `onPhoneSubmitted` read before its `await` and uses after it.

**DeferredBlocks** `EXTENDS BlockOnboarding` and gives every call and every
submission that executes a block a `step`: `execute` is `Unblock`, `Block` and
one of two answers, `CallAnswered` to a handler that logs it and
`DeferredAnswered` to the loop of `onPhoneSubmitted`, which drops it.
`AnswersAt` says after which steps `execute` answers true and false; the false
answers before the first step are its checks (no text, not by business
automation, and in `blockContact` the owner himself and an id that is not a
number). `execute` never throws: both calls to TDLib are in a `try`. `listed` is
the owner's block list at Telegram, `logged` the block decisions handed to
`saveDeferred`. With `step`, `listed` and `logged` forgotten every step is a
step of `BlockOnboarding` or none, so its theorems hold here too.

**OwnerClients.** `clients` and `connecting` are the Maps of the same names,
`pc` is where a call is, `round` whether it is at its first try or at the one
after a new login, `acct` the account of its session, `tdlib` what became of
the client of an attempt (a call, its round, an account), `phase` how far the
shutdown is. The end of a login wakes all its awaiters in one turn of
the event loop, hence one action. `stop` closes one client after the other
(`StopCloses`, `StopDeletes`); a close that rejects is caught neither there
(`owner-session-service.ts:64-68`) nor in the shutdown handler
(`start-app.ts:8-16`), so `StopFails` ends the process where it is. Closing the
provider's socket does not end its service: the next request connects again, so
calls may be served until the process exits (`Served`).

**ProviderCalls.** `socket` numbers the websockets the SDK has made, `ready` is the
`readyState` of the newest. `connectPromise` is unset exactly when `ready` is
"closed", unsettled when it is "connecting", and resolved when it is "open" or
"closing": only the close event resets it. `waiting` are the calls that await
it, `pending` gives the socket on which a caller's entry of the `pending` Map
was sent (0: no entry), and `wire` those whose request can still be answered:
`ws` drops what is sent on a closing socket and reports nothing. `authed` are the
sockets on which the provider has accepted credentials. `at` is where a caller
is, named for the request it awaits; `phase`, `last`, `late` are the `step`,
`lastPhase` and deadline of the poll loop. A notice to the owner arrives or goes
astray; the poller cannot tell, for `sendToClient` swallows the error
(`client-dm-notifier.ts:28-31`), and sets `lastPhase` (`owner-onboarding-poller.ts:27`).
`told` and `unheard` keep what became of the last one. The model begins after `start()`,
with an authenticated socket. An answer that is not an onboarding step ends the
call as an error does.

**SessionCache.** `cache` is the entry of the session cache, `table` the row,
`writes` the deferred queue. A handler that finds the cache warm goes on without
I/O and is one step; one that misses reads and writes the cache in two further
steps. `CommitsUnheard` lets the row change while the queue still holds the write,
because the answer is late or lost; what a read sees then, and what a restart or a
dead letter makes of it, is part of the model.

A command first hands over its sender's profile (`UpsertUser`) and looks at the
cache when that write is done; if it is dead-lettered `bot.catch` logs the error
and the command is never run (`AfterDeath`).

**InboundDedupe.** `seen` is the Map in insertion order, `until` its values,
`ops` the claim counter modulo the prune interval. `KeyOf` gives the key
`chatId:messageId` of a message, which two messages of different owners may
share.

**Replies.** `at` is the call a handler awaits: the `reply`, its `media`, the
owner's `prompt`, the `block message`, an `html` text, its `plain` copy. `mail`
is what arrived, `sent` what the last send returned. `Sends` has the three
outcomes of a call of the Bot API: it arrives and is answered, it is refused, it
arrives and the answer is lost; the notifiers turn the last two into the same
`catch`. Sends share no state, so handlers run one after the other. `body` is
the HTML text to send, a sequence of tokens. `hash` is what SHA-256 yields for the sender under each prefix, an
arbitrary function.

**HtmlToPlainText.** Each pass is one function of `transforms.ts`, given by what it
writes for each place of a text: a loop that holds a flag or jumps ahead becomes a
condition on the tokens before and behind the place. The reference, `Shown`,
says what a reader sees of the HTML and knows nothing of the passes: the words
and signs outside of tags, and behind each link its target. The line breaks, spaces,
bullets and brackets that the passes lay a text out with count on neither side
(`Words`). `WellFormed` are the texts the program writes: usernames are escaped
and have no ampersand, and no anchor stands in an anchor.

## 3. What is checked

| Run | Shows | Bounds, and why they are enough |
|---|---|---|
| `write_queue` | acknowledged writes are committed; a statement is committed at most one time more than its retries; dead letters only after the last retry; no stranded write; nothing starts while the breaker is open; what a caller was told is final; every write settles; `OrderedWrites` is implemented, its liveness included | 3 writes, 2 retries, breaker at 2: a retry with a write waiting behind it and another enqueued during the pause, the breaker tripping within one write and across two |
| `moderation_strikes` | a message has one row, and at most one more for each time its claim was forgotten; whoever is blocked has rows of three bursts, of three messages or of one whose claim was forgotten, or was blocked by another owner | 5 updates in 3 bursts, one of them a redelivery, one gap of exactly the window; 2 handlers at once beside the runner, 1 crash, claims forgotten at any time, every call may fail, log entries written once or not at all (no property of this run counts them). Two handlers see each other's rows between every two of their queries; `CountedOnce` and `ThreeStrikes` hold for any number of handlers and crashes |
| `moderation_decisions` | no row has two decisions of one kind, but for the copies the write queue makes of one, none next to an ignore, and a warning next to a block only if another owner had blocked the sender; while TDLib accepts the block call a logged block is a block; every saved row is decided, when no session is there and when TDLib refuses to unblock included | 2 owners, 4 updates in any order, 2 handlers at once beside the runner and the buttons, 1 crash; each entry written up to twice, so that a copy differs from a second decision |
| `moderation_unblocked` | finding, see below | the smallest world that shows it |
| `inbound_dedupe` | only recent claims of the same key refuse; a valid claim is dropped only when the cache is full | 4 messages, two of them under one key, room for 2, a claim lives 2 of 6 ticks, pruned at each third claim, so that expiry, periodic prune and trim all coincide |
| `onboarding` | a block that was queued before a submission began is not lost; only a block held by two submissions at once runs twice; a sender on the block list is logged, about to be, or was blocked by a deferred block; `BlockOnboarding` is implemented, so a failing block does not cost the next ones their turn | 3 blocks of 2 senders and 3 submissions, which may all overlap, each execution in up to three steps: one sender blocked twice, by a call and by a deferred block |
| `onboarding_forgotten` | finding | same, executions in one step |
| `clients` | one TDLib client per account; no caller waits for a login nobody is making; at exit all clients are closed but those whose login ended later, unless a close rejected; every call ends | a block and two phone submissions, the second for another account; each login may fail and be retried; shutdown at any moment |
| `provider` | the owner was told last of the code or password the provider waits for, or exactly that notice went astray; one poll may follow the deadline, never two; an onboarding's requests are without credentials only after a reconnect; every call ends, unless the socket is lost under it | 2 onboardings and a lookup, 2 losses: a socket lost with requests of several callers pending, and a reconnect that fails with several waiting |
| `toggle` | cache and table can differ, and an acknowledged toggle fail to flip, only after a read that overlapped another handler's; every handler ends, a command lost to its profile write included | 3 toggles and a message, 3 at once, one restart, writes may die |
| `toggle_stale` | finding | same, 2 at once |
| `replies` | the plain copy of a refused text has the words and links of the HTML in their order and none of its markup; nothing arrives twice and a return value tells what arrived, unless an answer was lost; a sender has the variant at the same place on the tiers whose weights are equal | 5 pairs of manifests (the shipped weights, equal and unequal totals, two that do not load), 2 values of the hash under each prefix, texts of up to two of six pieces (link, bold, blank lines, paragraph, list item, entities), 3 handlers: warned, blocked and warned again |

Bounds in the modules: `MaxInFlight`, `MaxCrashes` (`Moderation`), `MaxActive`,
`MaxRestarts` (`SessionCache`), `MaxLosses` (`ProviderCalls`), `MaxNow`
(`InboundDedupe`), `MaxHandlers` (`Replies`). They bound how many
actors are active or how often something external happens; none is a limit of
the code. `MaxRetries`, `MaxWrites` (one more than `MaxRetries`, by the
`RepeatsBounded` of the write queue), `BreakerThreshold`, `Window`, `Ttl`, `MaxKeys` and
`PruneEvery` are the code's own parameters with smaller values.

`MCReplies` also evaluates assumptions about the operators: the examples of
`html-to-plain-text.test.ts`, so that the passes give what the tests expect of the
code; and what a reader sees of each piece of a text, written down by hand, so
that `Shown` is not wrong in the same way as the passes.

Deadlock is not checked in runs whose actors are finitely many and all finish.
Symmetry is used only where no liveness property is checked and the permuted
constants occur nowhere else.

Variables without a counterpart in the code record history for a property and
guard nothing: `exposed` and `shared` in `BlockOnboarding`, `lost` and `picked`
in `Replies`, `raced` in `SessionCache`, `late` in `OwnerClients`, `claimed` in
`InboundDedupe`, `forgotten` in `Moderation`, `told`, `unheard`, `authOn` and
`overdue` in `ProviderCalls`.
`crashes` and `restarts` count up to their bounds.

### Fairness

Only weak fairness, and only of what the program or its environment must do by
itself: timers fire, microtasks run, the database answers or the connection
fails (`WriteQueue`, `SessionCache`); every awaited call of a handler, the
runner or the write queue answers (`Moderation`); the provider answers, logins
end (`OwnerClients`); a socket opens or fails, the provider answers what reaches
it, the poll loop's timers fire and its deadline comes (`ProviderCalls`). Nobody
has to send a message, press a button, type a number, lose a socket or stop the
process. That the provider answers `OwnerClients` is the weakest assumption, and
`ProviderCalls` says when it is justified: as long as its socket is not lost.
When it is, `sdk/index.ts:255` leaves the pending requests neither resolved nor
rejected, and the code above has no deadline of its own.
The safety theorems do not depend on any of this.

### Findings

Each is a run that TLC must end with the stated counterexample.

1. `onboarding_forgotten`. `onPhoneSubmitted` copies the deferred blocks, awaits
   the session, and then deletes the owner's entry. A block deferred meanwhile
   is in neither place and is never executed, although its owner was told
   "Queued block for ...".
2. `moderation_unblocked`. `executeBlock` unblocks before it blocks. If several
   blocks of one sender were queued before the first was logged and the later
   one fails at its second call, the log says the sender is blocked, the block
   list does not, and every later message is ignored.
3. `toggle_stale`. `readSessionByUserId` puts its answer into the cache after an
   `await`, over what a toggle put there meanwhile.

Other observations, made while modelling, without a run of their own:

* With `MESSAGE_INSTANCE_COLLAPSE_SECONDS = 0`, which `env-schema.ts:30` allows,
  three messages handled together are all saved before the first is counted
  (`process-incoming-message.ts:58` and 61); each counts three, and the sender is
  blocked without a warning, against "warning -> final warning -> block"
  (`src/README.md:5`). The shipped window (`.env.example:21`) hides this for
  bursts. `BlockNeedsThreeBursts` is what the code does keep.
* A block behind the owner's button fills `{{SESSION_USERNAME}}` only
  (`handle-owner-block-callback.ts:44`), while the shipped text
  `assets/messages/messages-block/variant-001.html` also has
  `{{SENDER_USERNAME}}` and `{{X_WARNING_NUMBER}}`: the sender reads the raw
  placeholders. On the other path a test expects none
  (`process-incoming-message.test.ts:216`).
* "Queued block for ..." (`block-onboarding-coordinator.ts:51`) sends a reference
  made for HTML as plain text, so the owner reads the anchor's markup.
* `docs/telemetry/analytics.md:160` lists a tier the program does not have, and
  equal totals, on which it relies, do not by themselves give equal variants: the weights
  must agree one by one, as `SameFlowSameVariant` says.
* `decodeHtmlEntities` decodes the ampersand before the other signs, so an
  escaped "&lt;" becomes "<" (`transforms.ts:146`). No text of the program has one.
* "Same Telegram message may appear only once" (`docs/interfaces/telegram-bot.md:55`)
  holds as long as the claim does: not after its TTL, not after a trim, and not
  after a restart. A message delivered again then is saved and counted again.
  `OneRowPerMessage` says that nothing else makes it.
* A rejected `client.close()` ends `stop()` and with it the process: the clients
  after it stay open, the provider and the store are not closed.
* The notice that asks an owner for a code or password is sent once. If it does not
  arrive the onboarding polls on until its deadline, and the owner knows nothing.
* `sendMediaWithFallback` sends the text instead of a medium that is refused, but
  its only caller passes no text.

One more divergence: a comment says of the credentials
"sent on every WebSocket request" (`sdk/index.ts:22`); `request` sends none and,
when it reconnects, does not authenticate. `OnlyReconnectsLoseCredentials`
says how far that goes: a poll or a lookup may reach the provider on a socket it
knows nothing of. What the provider then answers is not in this repository.

## 4. What is proved

The theorems hold for every value of the constants, under the named assumptions
of the modules (bounds, the window and the times of updates are natural numbers,
`NoTask` and `None` are no elements of the sets they are added to, every block has
a sender and every message a key, bodies are well-formed HTML texts). Two theorems, `LogTellsTheTruth` and
`NoRowForgotten`, have a hypothesis of their own.

* `WriteQueue_proofs`: type correctness, the four other safety invariants and the two
  action properties of the `write_queue` run, and that each step of the queue is
  a step of `OrderedWrites` or none (`WritesAreOrdered`, on the safety part).
  The inductive invariant adds three things to the type invariant. `Shape` ties
  the loop's place to `current` and `pending`: without it a wakeup could be lost in
  a state the code never reaches. `Queue` says that a write is waiting exactly
  if it is current or pending, once: without it a settled write could be run again.
  `Counts` bounds applied rows by failed runs, which is what `RepeatsBounded` and
  `DeadOnlyAfterLastRetry` need. The refinement rests on `Unsettled`, the current
  write in front of the pending ones: running, failing and backing off leave it
  as it is, settling takes its head.
* `Moderation_proofs`: type correctness and the four invariants of the two passing
  `Moderation` runs. `Decided` (`OneDecisionPerRow`) holds with any number of
  crashes. Its invariant, `DecisionInv`, says why the next entry of the log is no
  second one: a message is a block task at most once, and not before its handler
  has finished (`OneTask`); a message whose decision is still owed (`Undecided`)
  has no entry, no offer and nobody at work on it, and one that is open again
  because of a "Block now" (`Reopened`) has neither a block nor an ignored one
  (`RowInv`). It counts entries in units of `MaxWrites`, the copies one handed-over
  write can become. `CountedOnce` (`OneRowPerMessage`) and `ThreeStrikes`
  (`BlockNeedsThreeBursts`) hold with any number of crashes and forgotten claims.
  `ClaimInv` counts: whoever has written a row or may write one was granted a claim
  (`Claimants`), and the claims granted on a key are those forgotten and the one
  that is there (`Claims`). `StrikeInv`: behind every block that was made, queued or offered stand three
  bursts or another owner's block; rows only grow, and since they are finitely
  many the count of instances gives the bursts (`InstancesAreBursts`).
  `LogTellsTheTruth` (`LoggedBlockHolds`) assumes `"block" \notin Faults`, as the
  run does: without it `moderation_unblocked` is the counterexample. `BlockInv`:
  whoever was blocked, logged or not yet, is on the block list, or someone is
  between the unblock and the block of that sender. `NoRowForgotten` is the safety
  part of `EveryRowDecided`, for all faults but a failing query, a session service
  that throws, a dead log entry and an insert of a row that commits without its
  answer, each of which leaves a row undecided: a saved row is
  with its handler, waits for the runner, is executed by it, or has an entry in
  the log or on its way (`RowsInHands`), through every failure of TDLib, every
  button and every missing session.
* `SessionCache_proofs`: type correctness, `OnlyRacesDisagree` and
  `OnlyRacesRepeatAToggle`, for any number of toggles, checks and restarts.
  Neither is inductive: between two settled states the cache runs ahead of the
  table. `QueueInv` ties every queued statement to the one handler that waits for
  it. `ColdInv`: without a race whoever reads past a cold cache is alone, and the
  row it was answered is still the row. `CacheInv`: the cache says what the row
  will say when all queued writes are done (`Foretells`), which every action keeps
  and which is the property itself when the queue holds no flip. `CountInv` counts
  a toggle from the moment its write is queued (`Flipped`) and not from its
  answer; then the side the cache shows is ahead by at most one (`Balanced`). A
  restart keeps both because it either loses a queued flip, and then a toggle has
  failed, or leaves the table as the cache was. A commit the queue has not heard of
  changes nothing the cache foretells, since the statements are idempotent
  (`ForetellsCommit`); that is why the model needs no count of repeats here.
  `NobodyStranded`: whoever awaits a write has it in the queue.
* `DeferredBlocks_proofs`, first of the coordinator by itself: type correctness,
  and that a deferred block is executed, waiting or in a submission's copy unless
  it was deferred while a submission was awaiting the session. The invariant
  (`Kept`) says that of each deferred block where it is; one lemma per action.
  `DeferredBlocksRunOnce` needs more (`OnceInv`): no entry or copy holds a block
  twice, only deferred blocks are held, and an unshared one is in one copy at
  most, and in the entry only while it has not run and no copy under execution
  holds it. Then of the composition: `DeferredBlocks` implements `BlockOnboarding`
  (`Refinement`), and a sender on the block list is logged, about to be, or was
  blocked by a deferred block (`ListedIsLogged`). The refinement needs no
  invariant: an answer is the coordinator's step, the steps before it are
  stutters. It carries over the coordinator's invariants, which the second theorem
  uses: what a submission executes is a deferred block, so the one block that runs
  without a log entry is one blocked after a login.
* `OwnerClients_proofs`: type correctness, one client per account, logins and
  their waiters match, and only late clients are left open at exit. The
  invariant is a conjunction of small parts. `Held` and `Exclusive`: a client
  that is not closed is in one of the two Maps under its own account, and an
  account is never in both; `SingleClient` follows from these two. `Rounds` and
  `Unopened`: a call that is still asking for a session has not used the attempt
  it may make next, so a client cannot be opened twice. `Awaited`: a login and
  those who wait for it. `LateCovers` and `NoneKept`: what `stop` has walked
  past. A process that exits with a client still being closed is one whose `stop`
  was cut short, so the exception `CloseRejected` needs no variable of its own.
* `ProviderCalls_proofs`: type correctness, what the owner was told, the
  deadline and the credentials, that is, all safety invariants of the
  `provider` run. `Counted` ties the number of the newest socket to the losses,
  which keeps it in its type. `Entered` says that an onboarding past its
  authentication had it accepted on a socket no newer than the present one;
  with it `OnlyReconnectsLoseCredentials` is inductive. `Noticed`: the last notice, told or
  unheard, was of `last`, and that of a loop that pauses or polls of the phase it
  is in. `Overdue`: after the deadline a loop that is about to pause has made no
  poll, and one that made a poll will not pause again. `OnlyLossesStrand` is the safety
  part of `EveryCallEnds`: whoever awaits an answer waits for the socket, can still
  be answered, or is on a lost one. Its invariant (`Orphans`) adds that no request
  is pending on a socket younger than the newest, so a reconnect strands exactly
  those who were pending before it.
* `InboundDedupe_proofs`: type correctness (the Map keeps its bound and holds no
  key twice), a message is refused only on a recent claim of its key, and a recent
  claim is forgotten only for want of room (an action property). The invariant
  goes both ways: a key whose expiry is ahead was claimed with that expiry by one
  of the messages it stands for (`ExpiriesAreClaims`), and no claim outlasts its
  key's expiry (`RecentInv`). So what is left after pruning are recent keys, all
  different, and the Map is trimmed only if they are more than `MaxKeys`. What
  pruning leaves is defined by the ranks of the places that stay (`Picked`) and
  not by recursion, so that counting proves it (`RankIsOnto`); `MCInboundDedupe`
  evaluates that it is `SelectSeq`.
* `Replies_proofs`: one flow, one variant (`OneFlowOneVariant`), for all manifests
  and all hashes, since what was picked on a tier is always the variant its
  weights and the flow's hash give; `HonestAnswers`, whose invariant says of
  each place which messages can have arrived when the handler is there; and
  `CopiesKeepTheWords` (`FallbackKeepsTheWords`), for every well-formed text.
  The last has little to do with steps: an invariant (`CopyInv`) ties each plain
  message to the body it copies, and the rest is about the seven passes. For each
  there is a lemma that what a reader takes from the text before it is what he
  takes from the text after it, up to the pass whose output is the plain text;
  `PlainSaysWhatIsShown` joins them. What a pass or a reference writes is
  determined place by place, so `MappedFlatten` shows once, by induction over the
  places, that two texts written that way are read alike if they are at each
  place. The library's induction takes an operator, so `Induction` is derived
  for sets of numbers from the well-foundedness of `<`. The pass over anchors is the one
  that needs `WellFormed`: its lemma rests on one anchor being open at a time
  (`OneAnchorOpen`).

Only model-checked: the liveness properties (`EverySettles`, `EveryRowDecided`,
`EveryHandlerEnds`, the `EveryCallEnds` of two modules, the liveness part of
`OrderedWrites`), which the prover does not reach. For three of them a theorem gives the safety
part, that nothing is ever in a place from which it could not go on
(`NoRowForgotten`, `NobodyStranded`, `OnlyLossesStrand`), as `NoWakeupLost` does
for the write queue. Every safety property of a passing run, invariant or action
property, is stated by a theorem.

## 5. What is not modelled

* Analytics, logging, telemetry, configuration: no decision depends on them. The
  wording of texts and the filling of placeholders, but for what becomes of
  markup in a plain copy. There, a text is cut off at 65,536 characters, far
  above what Telegram takes. What is escaped twice would be decoded twice
  (`Decoded`), but does not occur: `formatSenderRefHtml` and `buildReplyHtml` escape
  usernames once, and a username has no ampersand.
* SHA-256, and the checks an experiment's files must pass: the hash is an
  arbitrary function, a file that is missing keeps the program from starting.
* A send before the bot is attached, or to a chat id that is not a number: the
  bot is attached before it takes an update, and ids come from updates.
* In `Moderation` the checks of `execute` that come before its first call (see
  `DeferredBlocks`): they end a task as a failed block does.
* In the runs of `Moderation` no two owners share a key: that is in
  `InboundDedupe`, and the theorems allow it.
* In `Moderation` a block that TDLib applies although it answers with an error, and
  an owner who unblocks a sender by hand in Telegram: `LoggedBlockHolds` is about
  the block list as the program changes it. `DeferredBlocks` too has a call that
  fails leave the list as it was.
* A call that never returns, but for those stranded in `ProviderCalls`: fairness
  takes the others to answer. The block queue has no deadline
  (`action-queue-service.ts:24`) and would wait for ever.
* A kept TDLib client that dies later: nothing in the code looks at it.
* A second shutdown signal; a call before `start()` has finished.
* In `Moderation` a block without a session ends as a failed one. What becomes of
  it later is in `DeferredBlocks`, which has the block list and the log of one
  owner but not the counting of messages.
* Launching the bot, and commands that only send a text.
* The query cache of the store: no caller gives it a lifetime, so it stays empty.
* In `OwnerClients` an onboarding is one step with three outcomes: no session,
  a session, an error. `ProviderCalls` has its inside.
* Pools, access callbacks, `createService` after a loss, and the interactive
  onboarding of the SDK: the bot does not use them, except `createService`, once, in
  `start()`.

## 6. Plan

Done, in the order of their weight: `WriteQueue` with `OrderedWrites` and its
proofs; `Moderation`; `BlockOnboarding` and `OwnerClients` with their proofs;
`SessionCache`; `InboundDedupe`; `ProviderCalls` with its proofs; then
`DeferredBlocks`, its refinement of `BlockOnboarding` and proofs; the profile
write in `SessionCache`; shared keys and a proof for `InboundDedupe`; `Replies`
with `Experiments` and `HtmlToPlainText`, and its proofs; the proofs of
`Moderation` and `SessionCache`, and the rest of those of `InboundDedupe`; the
passes of `HtmlToPlainText` by places, and the proof that a plain copy keeps the
words; writes that are committed and not acknowledged in `Moderation` and
`SessionCache`, with their proofs redone; the safety parts of the liveness
properties.

To extend the model:

1. An abstract request-reply specification that the socket implements as long as
   it is not lost, used by `OwnerClients` in place of its single steps, so that
   its fairness follows.
2. A provider that asks for credentials on each socket, to see which onboardings
   survive a reconnect.
3. Deferred blocks in `Moderation`: a sender who is counted as unblocked after
   his deferred block.

To prove: that the uses `Moderation` and `SessionCache` make of the write queue
are uses of `OrderedWrites`, each with a mapping of its own. It needs a history of
what each write came to, which neither module keeps, and an `OrderedWrites` whose
queue a restart may empty.
