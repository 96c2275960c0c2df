----------------------------- MODULE SessionCache -----------------------------
(***************************************************************************)
(* Whether moderation is on for an owner: the svc_users row, the store's   *)
(* session cache over it (lib/db/root.ts, store-reads.ts), and the         *)
(* handlers that read and flip it, /toggle (toggle-moderation.ts) and the  *)
(* check every inbound message makes (chat-automation-controller.ts).      *)
(* Before a command runs, the text route writes the sender's profile       *)
(* through the same write queue (routes/bot.ts) and waits for it.          *)
(*                                                                         *)
(* One owner: the cache and the table are keyed by the owner.  A read that *)
(* finds the cache filled costs no I/O, so the handler goes on before any  *)
(* other one; a read that does not find it suspends the handler.  A write  *)
(* changes the cache when it is handed over and the table when the write   *)
(* queue gets to it, in the order OrderedWrites promises.                  *)
(***************************************************************************)
EXTENDS Naturals, Sequences, FiniteSets

CONSTANTS Toggles,      \* /toggle commands of the owner
          Checks,       \* inbound messages of the owner's contacts
          MaxActive,    \* bound: handlers running at the same time
          MaxRestarts   \* bound: restarts of the process

ASSUME BoundsAssumption == MaxActive \in Nat \ {0} /\ MaxRestarts \in Nat
ASSUME DisjointAssumption == Toggles \cap Checks = {}

VARIABLES
  table,    \* the svc_users row: "none", "on" or "off"
  cache,    \* sessionByUserId: "absent", or the row it remembers
  writes,   \* the write queue: <<statement, handler>>, oldest first
  pc,       \* where each handler is
  answer,   \* what the database answered to a handler's read
  said,     \* what a handler told: the owner "on"/"off", a check its verdict
  restarts,
  raced     \* history: a handler ran while another one read past a cold cache

vars == <<table, cache, writes, pc, answer, said, restarts, raced>>

Handlers == Toggles \cup Checks
Records == {"none", "on", "off"}

\* "upserting": the route awaits the profile write of a command.
\* "reading": the select is on its way.  "answered": the database has read
\* the row, the handler has not.  "ensuring", "setting": awaits its write.
\* "lost": the profile write was dead-lettered, so the command was never run.
\* "dead": its own write was dead-lettered.  "failed": a restart ended it.
Ended == {"done", "lost", "dead", "failed"}
Working == {"reading", "answered", "ensuring", "setting"}
Places == {"new", "upserting"} \cup Working \cup Ended

TypeOK ==
  /\ table \in Records
  /\ cache \in Records \cup {"absent"}
  /\ writes \in Seq({"upsert", "ensure", "on", "off"} \X Handlers)
  /\ pc \in [Handlers -> Places]
  /\ answer \in [Handlers -> Records]
  /\ said \in [Handlers -> {"nothing", "on", "off"}]
  /\ restarts \in 0..MaxRestarts
  /\ raced \in BOOLEAN
  /\ \A i \in 1..Len(writes) :
       pc[writes[i][2]] \in {"upserting", "ensuring", "setting"}

Init ==
  /\ table \in Records
  /\ cache \in {table, "absent"}
  /\ writes = <<>>
  /\ pc = [h \in Handlers |-> "new"]
  /\ answer = [h \in Handlers |-> "none"]
  /\ said = [h \in Handlers |-> "nothing"]
  /\ restarts = 0
  /\ raced = FALSE

-----------------------------------------------------------------------------
Goto(h, place) == pc' = [pc EXCEPT ![h] = place]

Flip(record) == IF record = "on" THEN "off" ELSE "on"

Verdict(record) == IF record = "on" THEN "on" ELSE "off"

\* ensureUser after a read that found no row.  The cache remembers that there
\* is none, which counts as an entry, so it is not changed.  queue is what the
\* write queue holds when the handler runs.
EnsureUser(h, queue) ==
  /\ cache' = "none"
  /\ writes' = Append(queue, <<"ensure", h>>)
  /\ Goto(h, "ensuring")
  /\ UNCHANGED said

\* MUTANT of SetActive: the cache is left as it was read.
SetActive_TableOnly(h, active, queue) ==
  /\ cache' = Flip(active)
  /\ writes' = Append(queue, <<active, h>>)
  /\ Goto(h, "setting")
  /\ UNCHANGED said

\* MUTANT of SetActive: the owner is told before the write is done.
SetActive_NotAwaited(h, active, queue) ==
  /\ cache' = active
  /\ writes' = Append(queue, <<active, h>>)
  /\ Goto(h, "done")
  /\ said' = [said EXCEPT ![h] = active]

\* MUTANT of SetActive: the handler forgets to hand the write over.
SetActive_NoWrite(h, active, queue) ==
  /\ cache' = active
  /\ writes' = queue
  /\ Goto(h, "setting")
  /\ UNCHANGED said

\* setActive: the cache first, then the write.
SetActive(h, active, queue) ==
  /\ cache' = active
  /\ writes' = Append(queue, <<active, h>>)
  /\ Goto(h, "setting")
  /\ UNCHANGED said

\* What the handler does with the record it ends up with: /toggle sets the
\* opposite, a check takes its verdict (isEnabled, from the filled cache).
Decide(h, record, queue) ==
  \/ h \in Toggles /\ SetActive(h, Flip(record), queue)
  \/ /\ h \in Checks
     /\ said' = [said EXCEPT ![h] = Verdict(record)]
     /\ cache' = record
     /\ writes' = queue
     /\ Goto(h, "done")

\* The handler's code from its first findByUserId to its next await.
Continue(h, record, queue) ==
  \/ record = "none" /\ EnsureUser(h, queue)
  \/ record # "none" /\ Decide(h, record, queue)

Active == {h \in Handlers : pc[h] \notin {"new"} \cup Ended}

\* The handlers that have looked at the cache and are not done.
Busy == {h \in Handlers : pc[h] \in Working}

Race == \/ cache = "absent" /\ Busy # {}
        \/ \E g \in Busy : pc[g] \in {"reading", "answered"}

\* MUTANT of LookUp: the cache is not looked at.
LookUp_Uncached(h, queue) ==
  /\ Goto(h, "reading")
  /\ writes' = queue
  /\ UNCHANGED <<cache, said, raced>>

\* findByUserId: a filled cache answers at once.
LookUp(h, queue) ==
  /\ \/ cache # "absent" /\ Continue(h, cache, queue)
     \/ /\ cache = "absent"
        /\ Goto(h, "reading")
        /\ writes' = queue
        /\ UNCHANGED <<cache, said>>
  /\ raced' = (raced \/ Race)

Arrives(h) == pc[h] = "new" /\ Cardinality(Active) < MaxActive

\* HandleUserMiddleware.ensureUser, which waits for its write.
UpsertUser(t) ==
  /\ writes' = Append(writes, <<"upsert", t>>)
  /\ Goto(t, "upserting")

\* A command: the route awaits the profile write before it looks at the text.
Command(t) ==
  /\ Arrives(t)
  /\ UpsertUser(t)
  /\ UNCHANGED <<table, cache, answer, said, restarts, raced>>

\* An inbound message of a contact is checked at once.
Check(c) ==
  /\ Arrives(c)
  /\ LookUp(c, writes)
  /\ UNCHANGED <<table, answer, restarts>>

DatabaseReads(h) ==
  /\ pc[h] = "reading"
  /\ answer' = [answer EXCEPT ![h] = table]
  /\ Goto(h, "answered")
  /\ UNCHANGED <<table, cache, writes, said, restarts, raced>>

\* readSessionByUserId after its await: the answer goes into the cache,
\* whatever the cache holds by now, and the handler goes on with it.
ReadReturns(h) ==
  /\ pc[h] = "answered"
  /\ Continue(h, answer[h], writes)
  /\ UNCHANGED <<table, answer, restarts, raced>>

\* upsertUser writes another table.  ensureSvcUser (ON CONFLICT DO NOTHING) and
\* setSvcUserActive.
Applied(statement) ==
  IF statement = "upsert" THEN table
  ELSE IF statement = "ensure" THEN IF table = "none" THEN "off" ELSE table
  ELSE statement

\* The oldest write is persisted and its handler goes on: after the profile
\* write with the command, after ensureUser with what the cache holds now, after
\* setActive with the owner's message.
WriteSettles ==
  /\ writes # <<>>
  /\ LET statement == Head(writes)[1]
         h == Head(writes)[2]
     IN  /\ table' = Applied(statement)
         /\ \/ pc[h] = "upserting" /\ LookUp(h, Tail(writes))
            \/ /\ pc[h] = "ensuring"
               /\ Decide(h, cache, Tail(writes))
               /\ UNCHANGED raced
            \/ /\ pc[h] = "setting"
               /\ said' = [said EXCEPT ![h] = statement]
               /\ writes' = Tail(writes)
               /\ Goto(h, "done")
               /\ UNCHANGED <<cache, raced>>
  /\ UNCHANGED <<answer, restarts>>

\* The database applies the oldest write and the queue does not hear of it: the
\* answer is late, or lost, and then the write is repeated (which changes nothing
\* more), dead-lettered, or dropped by a restart.
CommitsUnheard ==
  /\ writes # <<>>
  /\ table' = Applied(Head(writes)[1])
  /\ UNCHANGED <<cache, writes, pc, answer, said, restarts, raced>>

\* Where a dead-lettered write leaves its handler.  A profile write: bot.catch
\* logs the error and the command is not run, nor its sender told.  Otherwise
\* "toggle failed", or the message is not moderated; the cache keeps what it was
\* given.
AfterDeath(place) == IF place = "upserting" THEN "lost" ELSE "dead"

WriteDies ==
  /\ writes # <<>>
  /\ writes' = Tail(writes)
  /\ Goto(Head(writes)[2], AfterDeath(pc[Head(writes)[2]]))
  /\ UNCHANGED <<table, cache, answer, said, restarts, raced>>

\* The process restarts: the row stays, the rest is gone.
Restart ==
  /\ restarts < MaxRestarts
  /\ restarts' = restarts + 1
  /\ cache' = "absent"
  /\ writes' = <<>>
  /\ pc' = [h \in Handlers |-> IF h \in Active \/ pc[h] = "dead" THEN "failed" ELSE pc[h]]
  /\ UNCHANGED <<table, answer, said, raced>>

HandlerStep(h) == DatabaseReads(h) \/ ReadReturns(h)

Next ==
  \/ \E t \in Toggles : Command(t)
  \/ \E c \in Checks : Check(c)
  \/ \E h \in Handlers : HandlerStep(h)
  \/ CommitsUnheard
  \/ WriteSettles
  \/ WriteDies
  \/ Restart

\* The database answers every statement; nobody has to send a command.
Fairness ==
  /\ \A h \in Handlers : WF_vars(HandlerStep(h))
  /\ WF_vars(WriteSettles \/ WriteDies)

SafeSpec == Init /\ [][Next]_vars

Spec == SafeSpec /\ Fairness

-----------------------------------------------------------------------------
(***************************************************************************)
(* Properties.                                                             *)
(***************************************************************************)

\* When no handler is at work (commands may wait for the profile write, and may
\* have been lost there) the cache, which decides whether messages are
\* moderated, agrees with the table: messages are moderated when the toggle
\* is active and only then, before and after a restart.  (A dead-lettered write
\* is reported as "toggle failed", and undone in the cache by no one.)
CacheAgreesWithTable ==
  Busy = {} /\ (\A h \in Handlers : pc[h] # "dead") /\ cache # "absent"
    => Verdict(cache) = Verdict(table)

\* The one way to a wrong cache is a handler that reads past a cold cache while
\* another one runs.  With a warm cache, or alone, any mix of toggles, first
\* messages and restarts leaves cache and table agreeing.
OnlyRacesDisagree == raced \/ CacheAgreesWithTable

Acknowledged(word) == Cardinality({t \in Toggles : said[t] = word})

\* "/toggle: flip svc_users.active": every acknowledged toggle flips, so the
\* owner hears ON and OFF in turn.  The same race is the one way to lose a flip.
OnlyRacesRepeatAToggle ==
  Busy = {} /\ (\A t \in Toggles : pc[t] \notin {"dead", "failed"}) /\ ~raced =>
    /\ Acknowledged("on") <= Acknowledged("off") + 1
    /\ Acknowledged("off") <= Acknowledged("on") + 1

\* Nobody waits for good: every command and every message gets its answer.
EveryHandlerEnds ==
  \A h \in Handlers : pc[h] \in Working \cup {"upserting"} ~> pc[h] \in Ended
=============================================================================
