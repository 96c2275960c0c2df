------------------------- MODULE SessionCache_proofs -------------------------
(***************************************************************************)
(* The session cache, for any toggles, checks and restarts: without a race *)
(* past a cold cache it agrees with the table, and the owner hears ON and  *)
(* OFF in turn.                                                            *)
(*                                                                         *)
(* Neither is inductive by itself.  The cache runs ahead of the table by   *)
(* the writes in the queue, so CacheInv says what the row will be once     *)
(* they are done, ColdInv that nobody fills the cache with an answer that  *)
(* is no longer true, and CountInv counts a flip from the moment its write *)
(* is queued.                                                              *)
(***************************************************************************)
EXTENDS SessionCache, FiniteSetTheorems, TLAPS

-----------------------------------------------------------------------------
(* The inductive invariants.                                                *)

Statements == {"upsert", "ensure", "on", "off"}

Words == {"on", "off"}

Queues == Seq(Statements \X Handlers)

\* Where the handler of a queued statement waits for it.
Waits(statement) ==
  IF statement = "upsert" THEN "upserting"
  ELSE IF statement = "ensure" THEN "ensuring" ELSE "setting"

\* The queue with one more write.
Joined(queue, statement, h) == Append(queue, <<statement, h>>)

\* Every queued write has its handler waiting for it, and for no other one.
Awaited(queue, places) ==
  /\ queue \in Queues
  /\ \A i \in 1..Len(queue) :
       /\ places[queue[i][2]] = Waits(queue[i][1])
       /\ queue[i][1] \in {"on", "off"} => queue[i][2] \in Toggles
  /\ \A i, j \in 1..Len(queue) : queue[i][2] = queue[j][2] => i = j

QueueInv ==
  /\ Awaited(writes, pc)
  /\ \A h \in Handlers : said[h] # "nothing" => pc[h] = "done"

Reads(h) == pc[h] \in {"reading", "answered"}

\* Without a race whoever reads past the cache is alone, so the row it was
\* answered is the row there is; and a cold cache stays cold until then.
ColdInv ==
  ~raced =>
    /\ \A h \in Handlers : Reads(h) => cache = "absent" /\ Busy = {h}
    /\ \A h \in Handlers : pc[h] = "answered" => answer[h] = table
    /\ cache = "absent" => \A h \in Busy : Reads(h)

Sets(queue, i) == queue[i][1] \in {"on", "off"}

\* record is what the row will say once every write of the queue is done.
Foretells(queue, record, row) ==
  /\ (\A i \in 1..Len(queue) : ~Sets(queue, i)) => Verdict(record) = Verdict(row)
  /\ \A i \in 1..Len(queue) :
       Sets(queue, i) /\ (\A j \in (i + 1)..Len(queue) : ~Sets(queue, j))
         => Verdict(record) = queue[i][1]

CacheInv ==
  ~raced /\ (\A t \in Toggles : pc[t] # "dead") /\ cache # "absent"
    => Foretells(writes, cache, table)

\* The toggles that set word: acknowledged, or with their write in the queue.
Flipped(queue, told, word) ==
  {t \in Toggles : told[t] = word \/ \E i \in 1..Len(queue) : queue[i] = <<word, t>>}

\* Who said last what record says is at most one ahead.
Balanced(queue, told, record) ==
  LET on == Cardinality(Flipped(queue, told, "on"))
      off == Cardinality(Flipped(queue, told, "off"))
  IN  /\ IsFiniteSet(Flipped(queue, told, "on")) /\ IsFiniteSet(Flipped(queue, told, "off"))
      /\ IF record = "on" THEN off <= on /\ on <= off + 1
                          ELSE on <= off /\ off <= on + 1

CountInv ==
  ~raced /\ (\A t \in Toggles : pc[t] \notin {"dead", "failed"}) =>
    Balanced(writes, said, IF cache = "absent" THEN table ELSE cache)

-----------------------------------------------------------------------------
(* The queue of writes.                                                     *)

\* A handler that goes on leaves the queue, or enters it with one write.
LEMMA AwaitedElsewhere ==
  ASSUME NEW queue, NEW places \in [Handlers -> Places], Awaited(queue, places),
         NEW h \in Handlers, \A i \in 1..Len(queue) : queue[i][2] # h, NEW place
  PROVE  Awaited(queue, [places EXCEPT ![h] = place])
<1>1. \A i \in 1..Len(queue) : queue[i] \in Statements \X Handlers
  BY DEF Awaited, Queues
<1>2. \A i \in 1..Len(queue) : queue[i][2] \in Handlers
  BY <1>1
<1> QED BY <1>2 DEF Awaited

LEMMA AwaitedAppend ==
  ASSUME NEW queue, NEW places \in [Handlers -> Places], Awaited(queue, places),
         NEW h \in Handlers, \A i \in 1..Len(queue) : queue[i][2] # h,
         NEW s \in Statements, s \in Words => h \in Toggles
  PROVE  Awaited(Joined(queue, s, h), [places EXCEPT ![h] = Waits(s)])
<1> DEFINE longer == Joined(queue, s, h)
           after == [places EXCEPT ![h] = Waits(s)]
<1>1. Awaited(queue, after)
  BY AwaitedElsewhere
<1>2. queue \in Seq(Statements \X Handlers) /\ <<s, h>> \in Statements \X Handlers
  BY DEF Awaited, Queues
<1>3. /\ longer \in Seq(Statements \X Handlers) /\ Len(longer) = Len(queue) + 1
      /\ Len(queue) \in Nat
      /\ longer[Len(queue) + 1] = <<s, h>>
      /\ \A i \in 1..Len(queue) : longer[i] = queue[i]
  BY <1>2 DEF Joined, Queues
<1>4. after[h] = Waits(s)
  OBVIOUS
<1> HIDE DEF longer, after
<1>5. \A i \in 1..Len(longer) : i \in 1..Len(queue) \/ i = Len(queue) + 1
  BY <1>3
<1>6. \A i \in 1..Len(longer) :
        /\ after[longer[i][2]] = Waits(longer[i][1])
        /\ longer[i][1] \in {"on", "off"} => longer[i][2] \in Toggles
  BY <1>1, <1>3, <1>4, <1>5 DEF Awaited, Words
<1>7. \A i, j \in 1..Len(longer) : longer[i][2] = longer[j][2] => i = j
  BY <1>1, <1>3, <1>5 DEF Awaited
<1> QED BY <1>3, <1>6, <1>7 DEF Awaited, Queues, longer, after

\* The oldest write leaves the queue: its handler has no other one in it.
LEMMA AwaitedTail ==
  ASSUME NEW queue, NEW places, Awaited(queue, places), queue # <<>>
  PROVE  /\ Awaited(Tail(queue), places)
         /\ Head(queue)[1] \in Statements /\ Head(queue)[2] \in Handlers
         /\ places[Head(queue)[2]] = Waits(Head(queue)[1])
         /\ Head(queue)[1] \in {"on", "off"} => Head(queue)[2] \in Toggles
         /\ \A i \in 1..Len(Tail(queue)) : Tail(queue)[i][2] # Head(queue)[2]
<1>1. queue \in Seq(Statements \X Handlers)
  BY DEF Awaited, Queues
<1>2. /\ Tail(queue) \in Seq(Statements \X Handlers)
      /\ Len(queue) \in Nat \ {0} /\ Len(Tail(queue)) = Len(queue) - 1
      /\ Head(queue) = queue[1] /\ Head(queue) \in Statements \X Handlers
      /\ \A i \in 1..Len(Tail(queue)) : Tail(queue)[i] = queue[i + 1]
  BY <1>1
<1>3. \A i \in 1..Len(Tail(queue)) : i + 1 \in 1..Len(queue) /\ i + 1 # 1
  BY <1>2
<1>4. 1 \in 1..Len(queue)
  BY <1>2
<1>5. Awaited(Tail(queue), places)
  <2>1. \A i, j \in 1..Len(Tail(queue)) : Tail(queue)[i][2] = Tail(queue)[j][2] => i = j
    <3> TAKE i, j \in 1..Len(Tail(queue))
    <3> HAVE Tail(queue)[i][2] = Tail(queue)[j][2]
    <3>1. i + 1 = j + 1
      BY <1>2, <1>3 DEF Awaited
    <3> QED BY <1>2, <3>1
  <2>2. \A i \in 1..Len(Tail(queue)) :
          /\ places[Tail(queue)[i][2]] = Waits(Tail(queue)[i][1])
          /\ Tail(queue)[i][1] \in {"on", "off"} => Tail(queue)[i][2] \in Toggles
    BY <1>2, <1>3 DEF Awaited
  <2> QED BY <1>2, <2>1, <2>2 DEF Awaited, Queues
<1>6. Head(queue)[1] \in Statements /\ Head(queue)[2] \in Handlers
  BY <1>2
<1>7. \A i \in 1..Len(Tail(queue)) : Tail(queue)[i][2] # Head(queue)[2]
  BY <1>2, <1>3, <1>4 DEF Awaited
<1>8. /\ places[Head(queue)[2]] = Waits(Head(queue)[1])
      /\ Head(queue)[1] \in {"on", "off"} => Head(queue)[2] \in Toggles
  BY <1>2, <1>4 DEF Awaited
<1> QED BY <1>5, <1>6, <1>7, <1>8

\* A handler that does not wait for a write has none in the queue.
LEMMA NotQueued ==
  ASSUME NEW queue, NEW places, Awaited(queue, places), NEW h \in Handlers,
         places[h] \notin {"upserting", "ensuring", "setting"}
  PROVE  \A i \in 1..Len(queue) : queue[i][2] # h
BY DEF Awaited, Waits

-----------------------------------------------------------------------------
(* What the queue will make of the row.                                     *)

LEMMA ForetellsSet ==
  ASSUME NEW queue \in Queues, NEW h \in Handlers,
         NEW word \in Words, NEW row
  PROVE  Foretells(Joined(queue, word, h), word, row)
<1> DEFINE longer == Joined(queue, word, h)
           n == Len(queue) + 1
<1>1. <<word, h>> \in Statements \X Handlers
  BY DEF Statements, Words
<1>2. n \in Nat /\ Len(longer) = n /\ longer[n] = <<word, h>>
  BY <1>1 DEF Joined, Queues
<1> HIDE DEF longer
<1>3. n \in 1..Len(longer) /\ Sets(longer, n)
  BY <1>2 DEF Sets, Words
<1>4. \A i \in 1..Len(longer) :
        (\A j \in (i + 1)..Len(longer) : ~Sets(longer, j)) => i = n
  BY <1>2, <1>3
<1>5. Verdict(word) = word
  BY DEF Verdict, Words
<1> QED BY <1>2, <1>3, <1>4, <1>5 DEF Foretells, longer

LEMMA ForetellsOther ==
  ASSUME NEW queue \in Queues, NEW h \in Handlers,
         NEW s \in Statements \ {"on", "off"}, NEW row,
         NEW record, NEW changed, Foretells(queue, record, row),
         Verdict(changed) = Verdict(record)
  PROVE  Foretells(Joined(queue, s, h), changed, row)
<1> DEFINE longer == Joined(queue, s, h)
           n == Len(queue)
<1>1. n \in Nat /\ Len(longer) = n + 1 /\ longer[n + 1] = <<s, h>>
      /\ \A i \in 1..n : longer[i] = queue[i]
  BY DEF Joined, Queues
<1> HIDE DEF longer
<1>2. ~Sets(longer, n + 1)
  BY <1>1 DEF Sets
<1>3. \A i \in 1..n : Sets(longer, i) <=> Sets(queue, i)
  BY <1>1 DEF Sets
<1>4. (\A i \in 1..Len(longer) : ~Sets(longer, i)) => Verdict(changed) = Verdict(row)
  BY <1>1, <1>3 DEF Foretells
<1>5. ASSUME NEW i \in 1..Len(longer), Sets(longer, i),
             \A j \in (i + 1)..Len(longer) : ~Sets(longer, j)
      PROVE  Verdict(changed) = longer[i][1]
  <2>1. i \in 1..n
    BY <1>1, <1>2, <1>5
  <2>2. \A j \in (i + 1)..n : ~Sets(queue, j)
    BY <1>1, <1>3, <1>5, <2>1
  <2> QED BY <1>1, <1>3, <1>5, <2>1, <2>2 DEF Foretells
<1> QED BY <1>4, <1>5 DEF Foretells, longer

LEMMA ForetellsSame ==
  ASSUME NEW queue, NEW row, NEW record, NEW changed, Foretells(queue, record, row),
         Verdict(changed) = Verdict(record)
  PROVE  Foretells(queue, changed, row)
BY DEF Foretells

LEMMA ForetellsNow ==
  ASSUME NEW queue, NEW row, NEW record, \A i \in 1..Len(queue) : ~Sets(queue, i),
         Verdict(record) = Verdict(row)
  PROVE  Foretells(queue, record, row)
BY DEF Foretells

\* The oldest write is done: the rest makes the same of the changed row.
LEMMA ForetellsTail ==
  ASSUME NEW queue \in Queues, queue # <<>>,
         NEW record, Foretells(queue, record, table)
  PROVE  /\ Foretells(Tail(queue), record, Applied(Head(queue)[1]))
         /\ ~Sets(queue, 1) => Foretells(Tail(queue), record, table)
<1> DEFINE rest == Tail(queue)
           n == Len(queue)
<1>1. /\ n \in Nat \ {0} /\ Len(rest) = n - 1 /\ Head(queue) = queue[1]
      /\ queue[1] \in Statements \X Handlers
      /\ \A i \in 1..(n - 1) : rest[i] = queue[i + 1]
  BY DEF Queues
<1> HIDE DEF rest
<1>2. queue[1][1] \in Statements
  BY <1>1
<1>3. \A i \in 1..(n - 1) : Sets(rest, i) <=> Sets(queue, i + 1)
  BY <1>1 DEF Sets
<1>4. ASSUME NEW i \in 1..Len(rest), Sets(rest, i),
             \A j \in (i + 1)..Len(rest) : ~Sets(rest, j)
      PROVE  Verdict(record) = rest[i][1]
  <2>1. i + 1 \in 1..n /\ Sets(queue, i + 1) /\ rest[i] = queue[i + 1]
    BY <1>1, <1>3, <1>4
  <2>2. ASSUME NEW j \in ((i + 1) + 1)..n PROVE ~Sets(queue, j)
    <3>1. j - 1 \in (i + 1)..Len(rest) /\ j - 1 \in 1..(n - 1) /\ (j - 1) + 1 = j
      BY <1>1, <2>1, <2>2
    <3>2. ~Sets(rest, j - 1) /\ (Sets(rest, j - 1) <=> Sets(queue, (j - 1) + 1))
      BY <1>3, <1>4, <3>1
    <3> QED BY <3>1, <3>2
  <2> QED BY <2>1, <2>2 DEF Foretells
<1>5. ASSUME \A i \in 1..Len(rest) : ~Sets(rest, i)
      PROVE  \A j \in (1 + 1)..n : ~Sets(queue, j)
  <2> TAKE j \in (1 + 1)..n
  <2>1. j - 1 \in 1..(n - 1) /\ (j - 1) + 1 = j
    BY <1>1
  <2>2. ~Sets(rest, j - 1) /\ (Sets(rest, j - 1) <=> Sets(queue, (j - 1) + 1))
    BY <1>1, <1>3, <1>5, <2>1
  <2> QED BY <2>1, <2>2
<1>6. ASSUME \A i \in 1..Len(rest) : ~Sets(rest, i)
      PROVE  /\ Verdict(record) = Verdict(Applied(queue[1][1]))
             /\ ~Sets(queue, 1) => Verdict(record) = Verdict(table)
  <2>1. \A j \in (1 + 1)..n : ~Sets(queue, j)
    BY <1>5, <1>6
  <2>2. CASE Sets(queue, 1)
    <3>1. 1 \in 1..n
      BY <1>1
    <3>2. Verdict(record) = queue[1][1]
      BY <2>1, <2>2, <3>1 DEF Foretells
    <3> QED BY <2>2, <3>2 DEF Sets, Applied, Verdict
  <2>3. CASE ~Sets(queue, 1)
    <3>1. \A j \in 1..n : j = 1 \/ j \in (1 + 1)..n
      BY <1>1
    <3>2. Verdict(record) = Verdict(table)
      BY <2>1, <2>3, <3>1 DEF Foretells
    <3>3. Verdict(Applied(queue[1][1])) = Verdict(table)
      BY <1>2, <2>3 DEF Sets, Statements, Applied, Verdict
    <3> QED BY <3>2, <3>3
  <2> QED BY <2>2, <2>3
<1> QED BY <1>1, <1>4, <1>6 DEF Foretells, rest

\* The oldest write is in the row but still in the queue, which makes the same
\* of the changed row.
LEMMA ForetellsCommit ==
  ASSUME NEW queue \in Queues, queue # <<>>,
         NEW record, Foretells(queue, record, table)
  PROVE  Foretells(queue, record, Applied(Head(queue)[1]))
<1>1. 1 \in 1..Len(queue) /\ Head(queue) = queue[1] /\ Head(queue)[1] \in Statements
  BY DEF Queues
<1>2. ~Sets(queue, 1) => Verdict(Applied(Head(queue)[1])) = Verdict(table)
  BY <1>1 DEF Sets, Statements, Applied, Verdict
<1> QED BY <1>1, <1>2 DEF Foretells

-----------------------------------------------------------------------------
(* Counting flips.                                                          *)

LEMMA FlippedOther ==
  ASSUME NEW told, NEW queue \in Queues, NEW h, NEW s \in Statements \ {"on", "off"},
         NEW word \in Words, h \in Handlers
  PROVE  Flipped(Joined(queue, s, h), told, word) = Flipped(queue, told, word)
<1> DEFINE longer == Joined(queue, s, h)
           n == Len(queue)
<1>1. n \in Nat /\ Len(longer) = n + 1 /\ longer[n + 1] = <<s, h>>
      /\ \A i \in 1..n : longer[i] = queue[i]
  BY DEF Joined, Queues
<1> HIDE DEF longer
<1>2. \A t : (\E i \in 1..Len(longer) : longer[i] = <<word, t>>)
               <=> (\E i \in 1..n : queue[i] = <<word, t>>)
  BY <1>1 DEF Words
<1> QED BY <1>2 DEF Flipped, longer

LEMMA FlippedAdds ==
  ASSUME NEW told, NEW queue \in Queues, NEW h \in Handlers, h \in Toggles,
         NEW word \in Words, NEW w \in Words
  PROVE  Flipped(Joined(queue, word, h), told, w)
           = IF w = word THEN Flipped(queue, told, w) \cup {h} ELSE Flipped(queue, told, w)
<1> DEFINE longer == Joined(queue, word, h)
           n == Len(queue)
<1>1. <<word, h>> \in Statements \X Handlers
  BY DEF Statements, Words
<1>2. n \in Nat /\ Len(longer) = n + 1 /\ longer[n + 1] = <<word, h>>
      /\ \A i \in 1..n : longer[i] = queue[i]
  BY <1>1 DEF Joined, Queues
<1> HIDE DEF longer
<1>3. \A t : longer[n + 1] = <<w, t>> <=> t = h /\ w = word
  BY <1>2
<1>4. \A i : i \in 1..Len(longer) <=> i \in 1..n \/ i = n + 1
  BY <1>2
<1>5. \A t : (\E i \in 1..Len(longer) : longer[i] = <<w, t>>)
               <=> (\E i \in 1..n : queue[i] = <<w, t>>) \/ (t = h /\ w = word)
  BY <1>2, <1>3, <1>4
<1> HIDE DEF n
<1>6. \A t : t \in Flipped(longer, told, w)
               <=> t \in Flipped(queue, told, w) \/ (t = h /\ w = word)
  BY <1>5 DEF Flipped, n
<1> QED BY <1>6 DEF longer

\* A toggle that sets the opposite of what was said last keeps the balance.
LEMMA FlipBalances ==
  ASSUME NEW told, NEW queue \in Queues, NEW h \in Handlers, h \in Toggles,
         told[h] = "nothing", \A i \in 1..Len(queue) : queue[i][2] # h,
         NEW record, Balanced(queue, told, record)
  PROVE  Balanced(Joined(queue, Flip(record), h), told, Flip(record))
<1> DEFINE longer == Joined(queue, Flip(record), h)
<1>1. /\ Flip(record) \in Words
      /\ Flip(record) = "on" <=> record # "on"
  BY DEF Flip, Words
<1>2. \A w \in Words :
        Flipped(longer, told, w) = IF w = Flip(record) THEN Flipped(queue, told, w) \cup {h}
                                                       ELSE Flipped(queue, told, w)
  <2>1. Flip(record) \in Words
    BY <1>1
  <2>2. \A w \in Words :
          Flipped(Joined(queue, Flip(record), h), told, w)
            = IF w = Flip(record) THEN Flipped(queue, told, w) \cup {h}
                                  ELSE Flipped(queue, told, w)
    BY <2>1, FlippedAdds
  <2> QED BY <2>2
<1> HIDE DEF longer
<1>3. ASSUME NEW w \in Words
      PROVE  /\ IsFiniteSet(Flipped(queue, told, w)) /\ IsFiniteSet(Flipped(longer, told, w))
             /\ Cardinality(Flipped(queue, told, w)) \in Nat
             /\ Cardinality(Flipped(longer, told, w))
                  = Cardinality(Flipped(queue, told, w)) + (IF w = Flip(record) THEN 1 ELSE 0)
  <2>1. IsFiniteSet(Flipped(queue, told, w)) /\ h \notin Flipped(queue, told, w)
    <3>1. IsFiniteSet(Flipped(queue, told, "on")) /\ IsFiniteSet(Flipped(queue, told, "off"))
      BY DEF Balanced
    <3>2. h \notin Flipped(queue, told, w)
      BY DEF Flipped, Words
    <3> QED BY <3>1, <3>2 DEF Words
  <2>2. Cardinality(Flipped(queue, told, w)) \in Nat
    BY <2>1, FS_CardinalityType
  <2>3. CASE w = Flip(record)
    <3>1. Flipped(longer, told, w) = Flipped(queue, told, w) \cup {h}
      BY <1>2, <2>3
    <3> QED BY <2>1, <2>2, <2>3, <3>1, FS_AddElement
  <2>4. CASE w # Flip(record)
    <3>1. Flipped(longer, told, w) = Flipped(queue, told, w)
      BY <1>2, <2>4
    <3> QED BY <2>1, <2>2, <2>4, <3>1
  <2> QED BY <2>3, <2>4
<1> QED BY <1>1, <1>3 DEF Balanced, longer, Words

\* The balance is a matter of the flips and of what a record says.
LEMMA SameBalance ==
  ASSUME NEW told, NEW queue, NEW longer, NEW record, NEW changed, Balanced(queue, told, record),
         \A word \in Words : Flipped(longer, told, word) = Flipped(queue, told, word),
         Verdict(changed) = Verdict(record)
  PROVE  Balanced(longer, told, changed)
<1>1. record = "on" <=> changed = "on"
  BY DEF Verdict
<1> QED BY <1>1 DEF Balanced, Words

-----------------------------------------------------------------------------
(* A handler goes on.                                                       *)

Invs == TypeOK /\ QueueInv /\ ColdInv /\ CacheInv /\ CountInv

\* What Decide and EnsureUser do.
LEMMA Outcomes ==
  ASSUME NEW h \in Handlers, NEW queue, NEW record,
         Decide(h, record, queue) \/ (record = "none" /\ EnsureUser(h, queue))
  PROVE  \/ /\ h \in Toggles /\ cache' = Flip(record) /\ said' = said
            /\ writes' = Joined(queue, Flip(record), h) /\ pc' = [pc EXCEPT ![h] = "setting"]
         \/ /\ h \in Checks /\ cache' = record /\ writes' = queue
            /\ said' = [said EXCEPT ![h] = Verdict(record)] /\ pc' = [pc EXCEPT ![h] = "done"]
         \/ /\ record = "none" /\ cache' = "none" /\ said' = said
            /\ writes' = Joined(queue, "ensure", h) /\ pc' = [pc EXCEPT ![h] = "ensuring"]
BY DEF Decide, SetActive, EnsureUser, Goto, Joined

\* A handler that goes on with a record that is true, before any other one
\* reads, leaves everything as it has to be.
LEMMA GoesOn ==
  ASSUME TypeOK, QueueInv, NEW h \in Handlers, NEW queue \in Queues,
         NEW record \in Records \cup {"absent"},
         Decide(h, record, queue) \/ (record = "none" /\ EnsureUser(h, queue)),
         Awaited(queue, pc), \A i \in 1..Len(queue) : queue[i][2] # h,
         pc[h] \notin {"done", "dead", "failed"},
         ~raced' => record # "absent" /\ \A g \in Handlers : Reads(g) => g = h,
         ~raced' /\ (\A t \in Toggles : pc[t] # "dead") => Foretells(queue, record, table'),
         ~raced' /\ (\A t \in Toggles : pc[t] \notin {"dead", "failed"})
           => Balanced(queue, said, record)
  PROVE  /\ QueueInv' /\ ColdInv' /\ CacheInv' /\ CountInv'
         /\ cache' \in Records \cup {"absent"} /\ pc' \in [Handlers -> Places]
         /\ said' \in [Handlers -> {"nothing", "on", "off"}]
<1> DEFINE A == /\ h \in Toggles /\ cache' = Flip(record) /\ said' = said
                /\ writes' = Joined(queue, Flip(record), h)
                /\ pc' = [pc EXCEPT ![h] = "setting"]
           B == /\ h \in Checks /\ cache' = record /\ writes' = queue
                /\ said' = [said EXCEPT ![h] = Verdict(record)]
                /\ pc' = [pc EXCEPT ![h] = "done"]
           C == /\ record = "none" /\ cache' = "none" /\ said' = said
                /\ writes' = Joined(queue, "ensure", h)
                /\ pc' = [pc EXCEPT ![h] = "ensuring"]
<1>1. A \/ B \/ C
  BY Outcomes
<1>2. /\ pc \in [Handlers -> Places] /\ said \in [Handlers -> {"nothing", "on", "off"}]
      /\ said[h] = "nothing"
  BY DEF TypeOK, QueueInv
<1>3. /\ Flip(record) \in Words /\ Flip(record) \in Statements /\ Flip(record) \in Records
      /\ Verdict(record) \in Words /\ "ensure" \in Statements /\ "ensure" \notin Words
      /\ Waits(Flip(record)) = "setting" /\ Waits("ensure") = "ensuring"
  BY DEF Flip, Words, Statements, Records, Verdict, Waits
<1>4. Awaited(writes', pc')
  <2>1. CASE A
    <3>1. Awaited(Joined(queue, Flip(record), h), [pc EXCEPT ![h] = Waits(Flip(record))])
      BY <1>2, <1>3, <2>1, AwaitedAppend
    <3> QED BY <1>3, <2>1, <3>1
  <2>2. CASE B
    BY <1>2, <2>2, AwaitedElsewhere
  <2>3. CASE C
    <3>1. Awaited(Joined(queue, "ensure", h), [pc EXCEPT ![h] = Waits("ensure")])
      BY <1>2, <1>3, AwaitedAppend
    <3> QED BY <1>3, <2>3, <3>1
  <2> QED BY <1>1, <2>1, <2>2, <2>3
<1>5. /\ cache' \in Records \cup {"absent"} /\ pc' \in [Handlers -> Places]
      /\ said' \in [Handlers -> {"nothing", "on", "off"}]
  BY <1>1, <1>2, <1>3 DEF Records, Places, Working, Ended, Words
<1>6. QueueInv'
  <2>1. \A g \in Handlers : said'[g] # "nothing" => pc'[g] = "done"
    BY <1>1, <1>2 DEF QueueInv
  <2> QED BY <1>4, <2>1 DEF QueueInv
<1>7. \A g \in Handlers : g # h => pc'[g] = pc[g]
  BY <1>1, <1>2
<1>8. pc'[h] \in {"setting", "done", "ensuring"} /\ (~raced' => cache' # "absent")
  BY <1>1, <1>2, <1>3 DEF Records
<1>9. ColdInv'
  <2>1. ~raced' => \A g \in Handlers : ~Reads(g)'
    BY <1>7, <1>8 DEF Reads
  <2> QED BY <1>8, <2>1 DEF ColdInv, Reads
<1>10. h \in Checks => h \notin Toggles
  BY DisjointAssumption
<1>11. CacheInv'
  <2> SUFFICES ASSUME ~raced', \A t \in Toggles : pc'[t] # "dead"
               PROVE  Foretells(writes', cache', table')
    BY DEF CacheInv
  <2>1. \A t \in Toggles : pc[t] # "dead"
    BY <1>7 DEF Handlers
  <2>2. Foretells(queue, record, table')
    BY <2>1
  <2>3. CASE A
    BY <1>3, <2>3, ForetellsSet
  <2>4. CASE B
    BY <2>2, <2>4
  <2>5. CASE C
    <3>1. "ensure" \in Statements \ {"on", "off"} /\ Verdict("none") = Verdict(record)
      BY <2>5 DEF Statements
    <3> QED BY <2>2, <2>5, <3>1, ForetellsOther
  <2> QED BY <1>1, <2>3, <2>4, <2>5
<1>12. CountInv'
  <2> SUFFICES ASSUME ~raced', \A t \in Toggles : pc'[t] \notin {"dead", "failed"}
               PROVE  Balanced(writes', said', cache')
    BY <1>8 DEF CountInv
  <2>1. \A t \in Toggles : pc[t] \notin {"dead", "failed"}
    BY <1>7 DEF Handlers
  <2>2. Balanced(queue, said, record)
    BY <2>1
  <2>3. CASE A
    BY <1>2, <2>2, <2>3, FlipBalances
  <2>4. CASE B
    <3>1. \A word : Flipped(queue, said', word) = Flipped(queue, said, word)
      BY <1>2, <1>10, <2>4 DEF Flipped, Handlers
    <3> QED BY <2>2, <2>4, <3>1 DEF Balanced
  <2>5. CASE C
    <3>1. \A word \in Words :
            Flipped(Joined(queue, "ensure", h), said, word) = Flipped(queue, said, word)
      <4>1. "ensure" \in Statements \ {"on", "off"}
        BY DEF Statements
      <4> QED BY <4>1, FlippedOther
    <3>2. "on" \in Words /\ "off" \in Words
      BY DEF Words
    <3> QED BY <2>2, <2>5, <3>1, <3>2 DEF Balanced
  <2> QED BY <1>1, <2>3, <2>4, <2>5
<1> QED BY <1>5, <1>6, <1>9, <1>11, <1>12

LEMMA TailFacts ==
  ASSUME NEW queue \in Queues, queue # <<>>
  PROVE  /\ Tail(queue) \in Queues /\ Len(queue) \in Nat \ {0}
         /\ Len(Tail(queue)) = Len(queue) - 1
         /\ Head(queue) = queue[1] /\ queue[1] = <<queue[1][1], queue[1][2]>>
         /\ \A i \in 1..Len(Tail(queue)) : Tail(queue)[i] = queue[i + 1]
BY DEF Queues

\* A statement that says neither ON nor OFF leaves the queue.
LEMMA FlippedTail ==
  ASSUME NEW queue \in Queues, queue # <<>>, Head(queue)[1] \notin Words,
         NEW told, NEW w \in Words
  PROVE  Flipped(Tail(queue), told, w) = Flipped(queue, told, w)
<1> DEFINE rest == Tail(queue)
           n == Len(queue)
<1>1. /\ n \in Nat \ {0} /\ Len(rest) = n - 1 /\ Head(queue) = queue[1]
      /\ \A i \in 1..Len(rest) : rest[i] = queue[i + 1]
  BY TailFacts
<1> HIDE DEF rest, n
<1>2. \A t : queue[1] # <<w, t>>
  BY <1>1
<1>3. ASSUME NEW t, NEW i \in 1..n, queue[i] = <<w, t>>
      PROVE  \E j \in 1..Len(rest) : rest[j] = <<w, t>>
  <2>1. i # 1
    BY <1>2, <1>3
  <2>2. i - 1 \in 1..Len(rest) /\ (i - 1) + 1 = i
    BY <1>1, <2>1
  <2> QED BY <1>1, <1>3, <2>2
<1>4. ASSUME NEW t, NEW j \in 1..Len(rest), rest[j] = <<w, t>>
      PROVE  \E i \in 1..n : queue[i] = <<w, t>>
  <2>1. j + 1 \in 1..n
    BY <1>1
  <2> QED BY <1>1, <1>4, <2>1
<1> QED BY <1>3, <1>4 DEF Flipped, rest, n

\* A flip is acknowledged: it stays counted.
LEMMA FlippedSettles ==
  ASSUME NEW queue \in Queues, queue # <<>>, NEW told \in [Handlers -> {"nothing", "on", "off"}],
         NEW h \in Toggles, NEW s \in Words, Head(queue)[1] = s, Head(queue)[2] = h,
         told[h] = "nothing", \A i \in 1..Len(Tail(queue)) : Tail(queue)[i][2] # h,
         NEW w \in Words
  PROVE  Flipped(Tail(queue), [told EXCEPT ![h] = s], w) = Flipped(queue, told, w)
<1> DEFINE rest == Tail(queue)
           n == Len(queue)
           after == [told EXCEPT ![h] = s]
<1>1. /\ n \in Nat \ {0} /\ Len(rest) = n - 1 /\ queue[1] = <<s, h>>
      /\ \A i \in 1..Len(rest) : rest[i] = queue[i + 1]
  BY TailFacts
<1>2. after[h] = s /\ \A t \in Toggles : t # h => after[t] = told[t]
  BY DEF Handlers
<1>3. \A i \in 1..Len(rest) : rest[i][2] # h
  OBVIOUS
<1> HIDE DEF rest, n, after
<1>4. told[h] # w
  BY DEF Words
<1>5. ASSUME NEW t \in Toggles, t # h
      PROVE  (\E i \in 1..n : queue[i] = <<w, t>>) <=> (\E j \in 1..Len(rest) : rest[j] = <<w, t>>)
  <2>1. ASSUME NEW i \in 1..n, queue[i] = <<w, t>>
        PROVE  \E j \in 1..Len(rest) : rest[j] = <<w, t>>
    <3>1. i # 1
      BY <1>1, <1>5, <2>1
    <3>2. i - 1 \in 1..Len(rest) /\ (i - 1) + 1 = i
      BY <1>1, <3>1
    <3> QED BY <1>1, <2>1, <3>2
  <2>2. ASSUME NEW j \in 1..Len(rest), rest[j] = <<w, t>>
        PROVE  \E i \in 1..n : queue[i] = <<w, t>>
    <3>1. j + 1 \in 1..n
      BY <1>1
    <3> QED BY <1>1, <2>2, <3>1
  <2> QED BY <2>1, <2>2
<1>6. ASSUME NEW t \in Toggles, t # h
      PROVE  t \in Flipped(rest, after, w) <=> t \in Flipped(queue, told, w)
  <2>1. after[t] = told[t]
    BY <1>2, <1>6
  <2>2. (\E i \in 1..n : queue[i] = <<w, t>>) <=> (\E j \in 1..Len(rest) : rest[j] = <<w, t>>)
    BY <1>5, <1>6
  <2>3. t \in Flipped(rest, after, w)
          <=> after[t] = w \/ \E j \in 1..Len(rest) : rest[j] = <<w, t>>
    BY DEF Flipped
  <2>4. t \in Flipped(queue, told, w) <=> told[t] = w \/ \E i \in 1..n : queue[i] = <<w, t>>
    BY DEF Flipped, n
  <2> QED BY <2>1, <2>2, <2>3, <2>4
<1>7. h \in Flipped(rest, after, w) <=> s = w
  BY <1>2, <1>3 DEF Flipped
<1>8. h \in Flipped(queue, told, w) <=> s = w
  <2>1. ASSUME NEW i \in 1..n, queue[i] = <<w, h>> PROVE s = w
    <3>1. CASE i = 1
      BY <1>1, <2>1, <3>1
    <3>2. CASE i # 1
      <4>1. i - 1 \in 1..Len(rest) /\ (i - 1) + 1 = i
        BY <1>1, <3>2
      <4>2. rest[i - 1] = <<w, h>>
        BY <1>1, <2>1, <4>1
      <4> QED BY <1>3, <4>1, <4>2
    <3> QED BY <3>1, <3>2
  <2>2. s = w => \E i \in 1..n : queue[i] = <<w, h>>
    <3>1. 1 \in 1..n
      BY <1>1
    <3> QED BY <1>1, <3>1
  <2>3. h \in Flipped(queue, told, w) <=> told[h] = w \/ \E i \in 1..n : queue[i] = <<w, h>>
    BY DEF Flipped, n
  <2> QED BY <1>4, <2>1, <2>2, <2>3
<1> QED BY <1>6, <1>7, <1>8 DEF Flipped, rest, n, after

\* Without a race whoever looks at the cache finds it true, or finds it cold
\* and is alone.
LEMMA LooksUp ==
  ASSUME TypeOK, QueueInv, ColdInv, NEW h \in Handlers, NEW queue \in Queues,
         LookUp(h, queue), table' = table, pc[h] \in {"new", "upserting"},
         Awaited(queue, pc), \A i \in 1..Len(queue) : queue[i][2] # h,
         ~raced /\ (\A t \in Toggles : pc[t] # "dead") /\ cache # "absent"
           => Foretells(queue, cache, table),
         ~raced /\ (\A t \in Toggles : pc[t] \notin {"dead", "failed"})
           => Balanced(queue, said, IF cache = "absent" THEN table ELSE cache)
  PROVE  /\ QueueInv' /\ ColdInv' /\ CacheInv' /\ CountInv'
         /\ cache' \in Records \cup {"absent"} /\ pc' \in [Handlers -> Places]
         /\ said' \in [Handlers -> {"nothing", "on", "off"}]
<1>1. ~raced' => /\ ~raced
                 /\ cache = "absent" => Busy = {}
                 /\ \A g \in Busy : pc[g] \notin {"reading", "answered"}
  BY DEF LookUp, Race
<1>2. \A g \in Handlers : Reads(g) => g \in Busy
  BY DEF Reads, Busy, Working
<1>3. cache \in Records \cup {"absent"} /\ pc \in [Handlers -> Places]
      /\ said \in [Handlers -> {"nothing", "on", "off"}]
  BY DEF TypeOK
<1>4. CASE cache # "absent" /\ Continue(h, cache, queue)
  <2>1. Decide(h, cache, queue) \/ (cache = "none" /\ EnsureUser(h, queue))
    BY <1>4 DEF Continue
  <2>2. ~raced' => \A g \in Handlers : Reads(g) => g = h
    BY <1>1, <1>2 DEF Reads
  <2> QED BY <1>1, <1>3, <1>4, <2>1, <2>2, GoesOn
<1>5. CASE cache = "absent" /\ ~(cache # "absent" /\ Continue(h, cache, queue))
  <2>1. /\ pc' = [pc EXCEPT ![h] = "reading"] /\ writes' = queue
        /\ cache' = "absent" /\ said' = said
    BY <1>5 DEF LookUp, Goto
  <2>2. /\ pc' \in [Handlers -> Places] /\ pc'[h] = "reading"
        /\ \A g \in Handlers : g # h => pc'[g] = pc[g]
    BY <1>3, <2>1 DEF Places, Working
  <2>3. QueueInv'
    <3>1. Awaited(queue, pc')
      BY <1>3, <2>1, AwaitedElsewhere
    <3>2. \A g \in Handlers : said'[g] # "nothing" => pc'[g] = "done"
      BY <2>1, <2>2 DEF QueueInv
    <3> QED BY <2>1, <3>1, <3>2 DEF QueueInv
  <2>4. ColdInv'
    <3> SUFFICES ASSUME ~raced'
                 PROVE  /\ \A g \in Handlers : Reads(g)' => cache' = "absent" /\ Busy' = {g}
                        /\ \A g \in Handlers : pc'[g] = "answered" => answer'[g] = table'
                        /\ cache' = "absent" => \A g \in Busy' : Reads(g)'
      BY DEF ColdInv
    <3>1. \A g \in Handlers : g # h => pc'[g] \notin Working
      BY <1>1, <1>5, <2>2 DEF Busy
    <3>2. Busy' = {h}
      BY <2>2, <3>1 DEF Busy, Working
    <3> QED BY <2>1, <2>2, <3>1, <3>2 DEF Reads, Working
  <2>5. CacheInv'
    BY <2>1 DEF CacheInv
  <2>6. CountInv'
    <3>1. (\A t \in Toggles : pc'[t] \notin {"dead", "failed"})
            => \A t \in Toggles : pc[t] \notin {"dead", "failed"}
      BY <2>2 DEF Handlers
    <3> QED BY <1>1, <1>5, <2>1, <3>1 DEF CountInv
  <2> QED BY <1>3, <2>1, <2>2, <2>3, <2>4, <2>5, <2>6
<1> QED BY <1>4, <1>5 DEF LookUp

-----------------------------------------------------------------------------
(* Every action keeps the invariants.                                       *)

LEMMA TypeFromParts ==
  ASSUME table' \in Records, cache' \in Records \cup {"absent"},
         pc' \in [Handlers -> Places], answer' \in [Handlers -> Records],
         said' \in [Handlers -> {"nothing", "on", "off"}],
         restarts' \in 0..MaxRestarts, raced' \in BOOLEAN, QueueInv'
  PROVE  TypeOK'
<1>1. Awaited(writes', pc')
  BY DEF QueueInv
<1>2. writes' \in Seq({"upsert", "ensure", "on", "off"} \X Handlers)
  BY <1>1 DEF Awaited, Queues, Statements
<1>3. \A i \in 1..Len(writes') : pc'[writes'[i][2]] \in {"upserting", "ensuring", "setting"}
  BY <1>1 DEF Awaited, Waits
<1> QED BY <1>2, <1>3 DEF TypeOK

\* With no handler setting anything the queue holds no flip.
LEMMA NothingSet ==
  ASSUME NEW queue, NEW places, Awaited(queue, places),
         \A t \in Toggles : places[t] # "setting"
  PROVE  /\ \A i \in 1..Len(queue) : ~Sets(queue, i)
         /\ \A told : \A w \in Words : Flipped(queue, told, w) = {t \in Toggles : told[t] = w}
<1>1. \A i \in 1..Len(queue) : ~Sets(queue, i)
  BY DEF Sets, Awaited, Waits
<1>2. \A i \in 1..Len(queue), w \in Words : \A t : queue[i] # <<w, t>>
  BY <1>1 DEF Sets, Words
<1> QED BY <1>1, <1>2 DEF Flipped

LEMMA InitInvs ==
  Init => Invs
<1> SUFFICES ASSUME Init PROVE Invs
  OBVIOUS
<1>1. TypeOK
  <2>1. /\ table \in Records /\ cache \in Records \cup {"absent"}
        /\ writes \in Seq({"upsert", "ensure", "on", "off"} \X Handlers)
        /\ Len(writes) = 0
    BY DEF Init
  <2>2. /\ pc \in [Handlers -> Places] /\ answer \in [Handlers -> Records]
        /\ said \in [Handlers -> {"nothing", "on", "off"}]
    BY DEF Init, Records, Places
  <2>3. restarts \in 0..MaxRestarts
    BY BoundsAssumption DEF Init
  <2>4. 1..Len(writes) = {}
    BY <2>1
  <2>5. raced \in BOOLEAN
    BY DEF Init
  <2> QED BY <2>1, <2>2, <2>3, <2>4, <2>5 DEF TypeOK
<1>2. Awaited(writes, pc) /\ \A t \in Toggles : pc[t] # "setting"
  BY DEF Init, Awaited, Queues, Handlers
<1>3. QueueInv
  BY <1>2 DEF Init, QueueInv
<1>4. ColdInv
  BY DEF Init, ColdInv, Reads, Busy, Working
<1>5. CacheInv
  <2>1. cache # "absent" => Verdict(cache) = Verdict(table)
    BY DEF Init
  <2> QED BY <1>2, <2>1, NothingSet, ForetellsNow DEF CacheInv
<1>6. CountInv
  <2>1. \A w \in Words : Flipped(writes, said, w) = {}
    BY <1>2, NothingSet DEF Init, Words, Handlers
  <2>2. Flipped(writes, said, "on") = {} /\ Flipped(writes, said, "off") = {}
    BY <2>1 DEF Words
  <2> QED BY <2>2, FS_EmptySet DEF CountInv, Balanced
<1> QED BY <1>1, <1>3, <1>4, <1>5, <1>6 DEF Invs

LEMMA CommandKeeps ==
  ASSUME Invs, NEW t \in Toggles, Command(t)
  PROVE  Invs'
<1>1. /\ pc[t] = "new" /\ writes' = Joined(writes, "upsert", t)
      /\ pc' = [pc EXCEPT ![t] = "upserting"]
      /\ UNCHANGED <<table, cache, answer, said, restarts, raced>>
  BY DEF Command, Arrives, UpsertUser, Goto, Joined
<1>2. t \in Handlers /\ "upsert" \in Statements \ {"on", "off"} /\ "upsert" \notin Words
      /\ Waits("upsert") = "upserting"
  BY DEF Handlers, Statements, Words, Waits
<1>3. TypeOK /\ Awaited(writes, pc) /\ writes \in Queues
      /\ pc \in [Handlers -> Places] /\ said \in [Handlers -> {"nothing", "on", "off"}]
  BY DEF Invs, TypeOK, QueueInv, Awaited
<1>4. /\ pc' \in [Handlers -> Places] /\ pc'[t] = "upserting"
      /\ \A h \in Handlers : h # t => pc'[h] = pc[h]
  BY <1>1, <1>2, <1>3 DEF Places
<1>5. QueueInv'
  <2>1. \A i \in 1..Len(writes) : writes[i][2] # t
    BY <1>1, <1>2, <1>3, NotQueued
  <2>2. Awaited(Joined(writes, "upsert", t), [pc EXCEPT ![t] = Waits("upsert")])
    BY <1>2, <1>3, <2>1, AwaitedAppend
  <2>3. \A h \in Handlers : said'[h] # "nothing" => pc'[h] = "done"
    BY <1>1, <1>4 DEF Invs, QueueInv
  <2> QED BY <1>1, <1>2, <2>2, <2>3 DEF QueueInv
<1>6. \A h \in Handlers : /\ Reads(h)' <=> Reads(h)
                          /\ h \in Busy' <=> h \in Busy
                          /\ pc'[h] = "answered" <=> pc[h] = "answered"
  BY <1>1, <1>4 DEF Reads, Busy, Working
<1>7. Busy' = Busy
  BY <1>6 DEF Busy
<1>8. ColdInv'
  <2>1. ColdInv
    BY DEF Invs
  <2> QED BY <1>1, <1>6, <1>7, <2>1 DEF ColdInv, Busy
<1>9. \A u \in Toggles : u \in Handlers
  BY DEF Handlers
<1>10. CacheInv'
  <2> SUFFICES ASSUME ~raced, \A u \in Toggles : pc'[u] # "dead", cache # "absent"
               PROVE  Foretells(writes', cache, table)
    BY <1>1 DEF CacheInv
  <2>1. \A u \in Toggles : pc[u] # "dead"
    BY <1>1, <1>4, <1>9
  <2>2. Foretells(writes, cache, table)
    BY <2>1 DEF Invs, CacheInv
  <2> QED BY <1>1, <1>2, <1>3, <2>2, ForetellsOther
<1>11. CountInv'
  <2> SUFFICES ASSUME ~raced, \A u \in Toggles : pc'[u] \notin {"dead", "failed"}
               PROVE  Balanced(writes', said, IF cache = "absent" THEN table ELSE cache)
    BY <1>1 DEF CountInv
  <2>1. \A u \in Toggles : pc[u] \notin {"dead", "failed"}
    BY <1>1, <1>4, <1>9
  <2>2. Balanced(writes, said, IF cache = "absent" THEN table ELSE cache)
    BY <2>1 DEF Invs, CountInv
  <2>3. \A w \in Words : Flipped(writes', said, w) = Flipped(writes, said, w)
    BY <1>1, <1>2, <1>3, FlippedOther
  <2> QED BY <2>2, <2>3, SameBalance
<1>12. TypeOK'
  BY <1>1, <1>3, <1>4, <1>5, TypeFromParts DEF TypeOK
<1> QED BY <1>5, <1>8, <1>10, <1>11, <1>12 DEF Invs

LEMMA CheckKeeps ==
  ASSUME Invs, NEW c \in Checks, Check(c)
  PROVE  Invs'
<1>1. pc[c] = "new" /\ LookUp(c, writes) /\ UNCHANGED <<table, answer, restarts>>
  BY DEF Check, Arrives
<1>2. c \in Handlers /\ Awaited(writes, pc) /\ writes \in Queues
  BY DEF Handlers, Invs, QueueInv, Awaited
<1>3. \A i \in 1..Len(writes) : writes[i][2] # c
  BY <1>1, <1>2, NotQueued
<1>4. TypeOK /\ QueueInv /\ ColdInv
      /\ (~raced /\ (\A t \in Toggles : pc[t] # "dead") /\ cache # "absent"
            => Foretells(writes, cache, table))
      /\ (~raced /\ (\A t \in Toggles : pc[t] \notin {"dead", "failed"})
            => Balanced(writes, said, IF cache = "absent" THEN table ELSE cache))
  BY DEF Invs, CacheInv, CountInv
<1>5. /\ QueueInv' /\ ColdInv' /\ CacheInv' /\ CountInv'
      /\ cache' \in Records \cup {"absent"} /\ pc' \in [Handlers -> Places]
      /\ said' \in [Handlers -> {"nothing", "on", "off"}]
  BY <1>1, <1>2, <1>3, <1>4, LooksUp
<1>6. raced' \in BOOLEAN
  BY <1>1 DEF LookUp
<1>7. TypeOK'
  BY <1>1, <1>4, <1>5, <1>6, TypeFromParts DEF TypeOK
<1> QED BY <1>5, <1>7 DEF Invs

LEMMA DatabaseReadsKeeps ==
  ASSUME Invs, NEW h \in Handlers, DatabaseReads(h)
  PROVE  Invs'
<1>1. /\ pc[h] = "reading" /\ pc' = [pc EXCEPT ![h] = "answered"]
      /\ answer' = [answer EXCEPT ![h] = table]
      /\ UNCHANGED <<table, cache, writes, said, restarts, raced>>
  BY DEF DatabaseReads, Goto
<1>2. TypeOK /\ Awaited(writes, pc) /\ pc \in [Handlers -> Places]
      /\ answer \in [Handlers -> Records] /\ table \in Records
  BY DEF Invs, TypeOK, QueueInv
<1>3. /\ pc' \in [Handlers -> Places] /\ pc'[h] = "answered"
      /\ \A g \in Handlers : g # h => pc'[g] = pc[g] /\ answer'[g] = answer[g]
      /\ answer' \in [Handlers -> Records] /\ answer'[h] = table
  BY <1>1, <1>2 DEF Places, Working
<1>4. QueueInv'
  <2>1. \A i \in 1..Len(writes) : writes[i][2] # h
    BY <1>1, <1>2, NotQueued
  <2>2. Awaited(writes, [pc EXCEPT ![h] = "answered"])
    BY <1>2, <2>1, AwaitedElsewhere
  <2>3. \A g \in Handlers : said'[g] # "nothing" => pc'[g] = "done"
    BY <1>1, <1>3 DEF Invs, QueueInv
  <2> QED BY <1>1, <2>2, <2>3 DEF QueueInv
<1>5. \A g \in Handlers : /\ Reads(g)' <=> Reads(g)
                          /\ pc'[g] \in Working <=> pc[g] \in Working
  BY <1>1, <1>3 DEF Reads, Working
<1>6. Busy' = Busy
  BY <1>5 DEF Busy
<1>7. ColdInv'
  <2>1. ColdInv
    BY DEF Invs
  <2> QED BY <1>1, <1>3, <1>5, <1>6, <2>1 DEF ColdInv, Busy
<1>8. \A u \in Toggles : /\ pc'[u] = "dead" <=> pc[u] = "dead"
                         /\ pc'[u] = "failed" <=> pc[u] = "failed"
  BY <1>1, <1>3 DEF Handlers
<1>9. CacheInv' /\ CountInv'
  <2>1. CacheInv /\ CountInv
    BY DEF Invs
  <2>2. CacheInv'
    BY <1>1, <1>8, <2>1 DEF CacheInv
  <2>3. CountInv'
    BY <1>1, <1>8, <2>1 DEF CountInv
  <2> QED BY <2>2, <2>3
<1>10. TypeOK'
  BY <1>1, <1>2, <1>3, <1>4, TypeFromParts DEF TypeOK
<1> QED BY <1>4, <1>7, <1>9, <1>10 DEF Invs

LEMMA ReadReturnsKeeps ==
  ASSUME Invs, NEW h \in Handlers, ReadReturns(h)
  PROVE  Invs'
<1>1. /\ pc[h] = "answered" /\ Continue(h, answer[h], writes)
      /\ UNCHANGED <<table, answer, restarts, raced>>
  BY DEF ReadReturns
<1>2. /\ TypeOK /\ QueueInv /\ Awaited(writes, pc) /\ writes \in Queues
      /\ answer[h] \in Records /\ answer[h] # "absent"
  BY DEF Invs, TypeOK, QueueInv, Awaited, Records
<1>3. Decide(h, answer[h], writes) \/ (answer[h] = "none" /\ EnsureUser(h, writes))
  BY <1>1 DEF Continue
<1>4. \A i \in 1..Len(writes) : writes[i][2] # h
  BY <1>1, <1>2, NotQueued
\* Alone, so no flip is queued and the row it read is the row there is.
<1>5. ASSUME ~raced
      PROVE  /\ cache = "absent" /\ Busy = {h} /\ answer[h] = table
             /\ \A g \in Handlers : Reads(g) => g = h
             /\ \A t \in Toggles : pc[t] # "setting"
  <2>1. cache = "absent" /\ Busy = {h} /\ answer[h] = table
    BY <1>1, <1>5 DEF Invs, ColdInv, Reads
  <2>2. \A g \in Handlers : pc[g] \in Working => g = h
    BY <2>1 DEF Busy
  <2> QED BY <1>1, <2>1, <2>2 DEF Reads, Working, Handlers
<1>6. ~raced => Foretells(writes, answer[h], table)
  BY <1>2, <1>5, NothingSet, ForetellsNow
<1>7. ~raced /\ (\A t \in Toggles : pc[t] \notin {"dead", "failed"})
        => Balanced(writes, said, answer[h])
  BY <1>5 DEF Invs, CountInv
<1>8. /\ QueueInv' /\ ColdInv' /\ CacheInv' /\ CountInv'
      /\ cache' \in Records \cup {"absent"} /\ pc' \in [Handlers -> Places]
      /\ said' \in [Handlers -> {"nothing", "on", "off"}]
  BY <1>1, <1>2, <1>3, <1>4, <1>5, <1>6, <1>7, GoesOn
<1>9. TypeOK'
  BY <1>1, <1>2, <1>8, TypeFromParts DEF TypeOK
<1> QED BY <1>8, <1>9 DEF Invs

LEMMA WriteSettlesKeeps ==
  ASSUME Invs, WriteSettles
  PROVE  Invs'
<1> DEFINE s == Head(writes)[1]
           h == Head(writes)[2]
           rest == Tail(writes)
<1>1. /\ TypeOK /\ QueueInv /\ ColdInv /\ CacheInv /\ CountInv
      /\ writes # <<>> /\ writes \in Queues /\ Awaited(writes, pc)
  BY DEF Invs, WriteSettles, QueueInv, Awaited
<1>2. /\ Awaited(rest, pc) /\ s \in Statements /\ h \in Handlers /\ pc[h] = Waits(s)
      /\ s \in Words => h \in Toggles
      /\ \A i \in 1..Len(rest) : rest[i][2] # h
  BY <1>1, AwaitedTail DEF Words
<1>3. rest \in Queues
  BY <1>2 DEF Awaited
<1>4. /\ ~raced /\ (\A t \in Toggles : pc[t] # "dead") /\ cache # "absent"
           => Foretells(rest, cache, Applied(s))
      /\ \A w \in Words : s \notin Words => Flipped(rest, said, w) = Flipped(writes, said, w)
  <2>1. ~raced /\ (\A t \in Toggles : pc[t] # "dead") /\ cache # "absent"
           => Foretells(rest, cache, Applied(s))
    BY <1>1, ForetellsTail DEF CacheInv
  <2>2. \A w \in Words : s \notin Words => Flipped(rest, said, w) = Flipped(writes, said, w)
    BY <1>1, FlippedTail
  <2> QED BY <2>1, <2>2
<1>5. /\ table' = Applied(s) /\ UNCHANGED <<answer, restarts>>
      /\ \/ pc[h] = "upserting" /\ LookUp(h, rest)
         \/ pc[h] = "ensuring" /\ Decide(h, cache, rest) /\ UNCHANGED raced
         \/ /\ pc[h] = "setting" /\ said' = [said EXCEPT ![h] = s] /\ writes' = rest
            /\ Goto(h, "done") /\ UNCHANGED <<cache, raced>>
  BY DEF WriteSettles
<1>6. /\ table \in Records /\ cache \in Records \cup {"absent"}
      /\ pc \in [Handlers -> Places] /\ answer \in [Handlers -> Records]
      /\ said \in [Handlers -> {"nothing", "on", "off"}]
      /\ restarts \in 0..MaxRestarts /\ raced \in BOOLEAN
  BY <1>1 DEF TypeOK
<1> HIDE DEF s, h, rest
<1>7. table' \in Records
  BY <1>2, <1>5, <1>6 DEF Applied, Statements, Records
<1>8. raced' \in BOOLEAN
  BY <1>5, <1>6 DEF LookUp
\* Whoever waits for a write of its own has seen the cache filled.
<1>9. ASSUME ~raced, pc[h] \in {"ensuring", "setting"}
      PROVE  cache # "absent" /\ \A g \in Handlers : ~Reads(g)
  <2>1. h \in Busy /\ ~Reads(h)
    BY <1>2, <1>9 DEF Busy, Working, Reads
  <2> QED BY <1>1, <1>9, <2>1 DEF ColdInv
<1>10. \A w \in Words : s \notin Words /\ ~raced
         /\ (\A t \in Toggles : pc[t] \notin {"dead", "failed"})
           => Balanced(rest, said, IF cache = "absent" THEN table ELSE cache)
  BY <1>1, <1>4, SameBalance DEF CountInv
<1>11. QueueInv' /\ ColdInv' /\ CacheInv' /\ CountInv'
       /\ cache' \in Records \cup {"absent"} /\ pc' \in [Handlers -> Places]
       /\ said' \in [Handlers -> {"nothing", "on", "off"}]
  <2>1. CASE pc[h] = "upserting" /\ LookUp(h, rest)
    <3>1. s = "upsert" /\ s \notin Words
      BY <1>2, <2>1 DEF Waits, Words
    <3>2. table' = table
      BY <1>5, <3>1 DEF Applied
    <3>3. ~raced /\ (\A t \in Toggles : pc[t] # "dead") /\ cache # "absent"
            => Foretells(rest, cache, table)
      BY <1>4, <1>5, <3>2
    <3>4. ~raced /\ (\A t \in Toggles : pc[t] \notin {"dead", "failed"})
            => Balanced(rest, said, IF cache = "absent" THEN table ELSE cache)
      BY <1>10, <3>1 DEF Words
    <3> QED BY <1>1, <1>2, <1>3, <2>1, <3>2, <3>3, <3>4, LooksUp
  <2>2. CASE pc[h] = "ensuring" /\ Decide(h, cache, rest) /\ UNCHANGED raced
    <3>1. s = "ensure" /\ s \notin Words
      BY <1>2, <2>2 DEF Waits, Words
    <3>2. ~raced' => cache # "absent" /\ \A g \in Handlers : Reads(g) => g = h
      BY <1>9, <2>2
    <3>3. ~raced' /\ (\A t \in Toggles : pc[t] # "dead") => Foretells(rest, cache, table')
      BY <1>4, <1>5, <2>2, <3>2
    <3>4. ~raced' /\ (\A t \in Toggles : pc[t] \notin {"dead", "failed"})
            => Balanced(rest, said, cache)
      BY <1>10, <2>2, <3>1, <3>2 DEF Words
    <3>5. pc[h] \notin {"done", "dead", "failed"}
      BY <2>2
    <3> QED BY <1>1, <1>2, <1>3, <1>6, <2>2, <3>2, <3>3, <3>4, <3>5, GoesOn
  <2>3. CASE /\ pc[h] = "setting" /\ said' = [said EXCEPT ![h] = s] /\ writes' = rest
             /\ Goto(h, "done") /\ UNCHANGED <<cache, raced>>
    <3>1. s \in Words /\ h \in Toggles
      BY <1>2, <2>3 DEF Waits, Words, Statements
    <3>2. /\ pc' \in [Handlers -> Places] /\ pc'[h] = "done"
          /\ \A g \in Handlers : g # h => pc'[g] = pc[g] /\ said'[g] = said[g]
          /\ said' \in [Handlers -> {"nothing", "on", "off"}]
      BY <1>2, <1>6, <2>3, <3>1 DEF Goto, Places, Ended, Words
    <3>3. QueueInv'
      <4>1. Awaited(rest, [pc EXCEPT ![h] = "done"])
        BY <1>2, <1>6, AwaitedElsewhere
      <4>2. \A g \in Handlers : said'[g] # "nothing" => pc'[g] = "done"
        BY <1>1, <3>2 DEF QueueInv
      <4> QED BY <2>3, <4>1, <4>2 DEF QueueInv, Goto
    <3>4. ~raced => cache # "absent" /\ \A g \in Handlers : ~Reads(g)'
      BY <1>9, <2>3, <3>2 DEF Reads
    <3>5. ColdInv'
      BY <2>3, <3>4 DEF ColdInv, Reads
    <3>6. \A t \in Toggles : /\ pc'[t] # "dead" => pc[t] # "dead"
                             /\ pc'[t] # "failed" => pc[t] # "failed"
      BY <2>3, <3>2 DEF Handlers
    <3>7. CacheInv'
      BY <1>4, <1>5, <2>3, <3>6 DEF CacheInv
    <3>8. CountInv'
      <4> SUFFICES ASSUME ~raced, \A t \in Toggles : pc'[t] \notin {"dead", "failed"}
                   PROVE  Balanced(rest, said', cache)
        BY <2>3, <3>4 DEF CountInv
      <4>1. \A t \in Toggles : pc[t] \notin {"dead", "failed"}
        BY <3>6
      <4>2. Balanced(writes, said, cache)
        BY <1>1, <3>4, <4>1 DEF CountInv
      <4>3. said[h] = "nothing"
        BY <1>1, <1>2, <2>3 DEF QueueInv
      <4>4. \A w \in Words : Flipped(rest, said', w) = Flipped(writes, said, w)
        BY <1>1, <1>2, <1>6, <2>3, <3>1, <4>3, FlippedSettles DEF rest, s, h
      <4>5. "on" \in Words /\ "off" \in Words
        BY DEF Words
      <4> QED BY <4>2, <4>4, <4>5 DEF Balanced
    <3> QED BY <1>6, <2>3, <3>2, <3>3, <3>5, <3>7, <3>8
  <2> QED BY <1>5, <2>1, <2>2, <2>3
<1>12. TypeOK'
  BY <1>5, <1>6, <1>7, <1>8, <1>11, TypeFromParts
<1> QED BY <1>11, <1>12 DEF Invs

LEMMA CommitsUnheardKeeps ==
  ASSUME Invs, CommitsUnheard
  PROVE  Invs'
<1> DEFINE s == Head(writes)[1]
           h == Head(writes)[2]
<1>1. /\ TypeOK /\ QueueInv /\ ColdInv /\ CacheInv /\ CountInv
      /\ writes # <<>> /\ writes \in Queues /\ Awaited(writes, pc)
  BY DEF Invs, CommitsUnheard, QueueInv, Awaited
<1>2. table' = Applied(s) /\ UNCHANGED <<cache, writes, pc, answer, said, restarts, raced>>
  BY DEF CommitsUnheard
<1>3. s \in Statements /\ h \in Handlers /\ pc[h] = Waits(s)
  BY <1>1, AwaitedTail
<1>4. ~raced /\ (\A t \in Toggles : pc[t] # "dead") /\ cache # "absent"
        => Foretells(writes, cache, Applied(s))
  BY <1>1, ForetellsCommit DEF CacheInv
<1> HIDE DEF s, h
\* While somebody reads past the cache, or could, no write in front of the row
\* changes it.
<1>5. ASSUME ~raced, cache = "absent" \/ \E g \in Handlers : Reads(g)
      PROVE  table' = table
  <2>1. cache = "absent" /\ \A g \in Busy : Reads(g)
    BY <1>1, <1>5 DEF ColdInv
  <2>2. s = "upsert"
    <3>1. pc[h] \in {"ensuring", "setting"} => h \in Busy /\ ~Reads(h)
      BY <1>3 DEF Busy, Working, Reads
    <3> QED BY <1>3, <2>1, <3>1 DEF Waits, Statements
  <2> QED BY <1>2, <2>2 DEF Applied
<1>6. TypeOK'
  <2>1. Applied(s) \in Records
    BY <1>1, <1>3 DEF Applied, Statements, Records, TypeOK
  <2> QED BY <1>1, <1>2, <2>1 DEF TypeOK
<1>7. QueueInv'
  BY <1>1, <1>2 DEF QueueInv, Awaited
<1>8. ColdInv'
  <2>1. \A g \in Handlers : pc[g] = "answered" => Reads(g)
    BY DEF Reads
  <2> QED BY <1>1, <1>2, <1>5, <2>1 DEF ColdInv, Busy, Reads
<1>9. CacheInv'
  BY <1>2, <1>4 DEF CacheInv
<1>10. CountInv'
  BY <1>1, <1>2, <1>5 DEF CountInv
<1> QED BY <1>6, <1>7, <1>8, <1>9, <1>10 DEF Invs

LEMMA WriteDiesKeeps ==
  ASSUME Invs, WriteDies
  PROVE  Invs'
<1> DEFINE s == Head(writes)[1]
           h == Head(writes)[2]
           rest == Tail(writes)
<1>1. /\ TypeOK /\ QueueInv /\ ColdInv /\ CacheInv /\ CountInv
      /\ writes # <<>> /\ writes \in Queues /\ Awaited(writes, pc)
      /\ pc \in [Handlers -> Places]
  BY DEF Invs, WriteDies, QueueInv, Awaited, TypeOK
<1>2. /\ Awaited(rest, pc) /\ s \in Statements /\ h \in Handlers /\ pc[h] = Waits(s)
      /\ s \in Words => h \in Toggles
      /\ \A i \in 1..Len(rest) : rest[i][2] # h
  BY <1>1, AwaitedTail DEF Words
<1>3. /\ writes' = rest /\ pc' = [pc EXCEPT ![h] = AfterDeath(pc[h])]
      /\ UNCHANGED <<table, cache, answer, said, restarts, raced>>
  BY DEF WriteDies, Goto
<1>4. s \notin Words /\ ~raced /\ (\A t \in Toggles : pc[t] # "dead") /\ cache # "absent"
        => Foretells(rest, cache, table)
  BY <1>1, ForetellsTail DEF CacheInv, Sets, Words, TailFacts, Queues
<1>5. s \notin Words => \A w \in Words : Flipped(rest, said, w) = Flipped(writes, said, w)
  BY <1>1, FlippedTail
<1> HIDE DEF s, h, rest
<1>6. /\ pc' \in [Handlers -> Places] /\ pc'[h] \in {"lost", "dead"}
      /\ \A g \in Handlers : g # h => pc'[g] = pc[g]
      /\ s \in Words => pc'[h] = "dead"
      /\ pc[h] \in {"upserting", "ensuring", "setting"}
  BY <1>1, <1>2, <1>3 DEF AfterDeath, Places, Ended, Waits, Words
<1>7. \A t \in Toggles : /\ pc'[t] # "dead" => pc[t] # "dead"
                         /\ pc'[t] # "failed" /\ pc'[t] # "dead" => pc[t] # "failed"
  BY <1>2, <1>6 DEF Handlers
<1>8. (\A t \in Toggles : pc'[t] # "dead") => s \notin Words
  BY <1>2, <1>6
<1>9. QueueInv'
  <2>1. Awaited(rest, [pc EXCEPT ![h] = AfterDeath(pc[h])])
    BY <1>1, <1>2, AwaitedElsewhere
  <2>2. \A g \in Handlers : said'[g] # "nothing" => pc'[g] = "done"
    BY <1>1, <1>3, <1>6 DEF QueueInv
  <2> QED BY <1>3, <2>1, <2>2 DEF QueueInv
<1>10. \A g \in Handlers : /\ Reads(g)' <=> Reads(g)
                           /\ g \in Busy' => g \in Busy
                           /\ Reads(g) => g \in Busy'
                           /\ pc'[g] = "answered" <=> pc[g] = "answered"
  BY <1>6 DEF Reads, Busy, Working
<1>11. ColdInv'
  <2>1. Busy' \subseteq Busy
    BY <1>10 DEF Busy
  <2> QED BY <1>1, <1>3, <1>10, <2>1 DEF ColdInv, Busy
<1>12. CacheInv'
  BY <1>3, <1>4, <1>7, <1>8 DEF CacheInv
<1>13. CountInv'
  <2> SUFFICES ASSUME ~raced, \A t \in Toggles : pc'[t] \notin {"dead", "failed"}
               PROVE  Balanced(rest, said, IF cache = "absent" THEN table ELSE cache)
    BY <1>3 DEF CountInv
  <2>1. (\A t \in Toggles : pc[t] \notin {"dead", "failed"}) /\ s \notin Words
    BY <1>7, <1>8
  <2> QED BY <1>1, <1>5, <2>1, SameBalance DEF CountInv
<1>14. TypeOK'
  BY <1>1, <1>3, <1>6, <1>9, TypeFromParts DEF TypeOK
<1> QED BY <1>9, <1>11, <1>12, <1>13, <1>14 DEF Invs

LEMMA RestartKeeps ==
  ASSUME Invs, Restart
  PROVE  Invs'
<1>1. /\ restarts' = restarts + 1 /\ restarts < MaxRestarts
      /\ cache' = "absent" /\ writes' = <<>>
      /\ pc' = [g \in Handlers |-> IF g \in Active \/ pc[g] = "dead" THEN "failed" ELSE pc[g]]
      /\ UNCHANGED <<table, answer, said, raced>>
  BY DEF Restart
<1>2. TypeOK /\ QueueInv /\ CacheInv /\ CountInv /\ pc \in [Handlers -> Places]
      /\ Awaited(writes, pc)
  BY DEF Invs, TypeOK, QueueInv
<1>3. \A g \in Handlers : /\ pc'[g] = "failed" \/ (pc'[g] = pc[g] /\ pc[g] \in {"new"} \cup Ended)
                          /\ pc[g] = "done" => pc'[g] = "done"
                          /\ pc[g] \in {"setting", "dead", "failed"} => pc'[g] = "failed"
                          /\ pc'[g] # "dead"
  BY <1>1, <1>2 DEF Active, Places, Working, Ended
<1>4. pc' \in [Handlers -> Places]
  BY <1>1, <1>2 DEF Places, Ended
<1>5. QueueInv'
  <2>1. Awaited(<<>>, pc')
    BY DEF Awaited, Queues
  <2>2. \A g \in Handlers : said'[g] # "nothing" => pc'[g] = "done"
    BY <1>1, <1>2, <1>3 DEF QueueInv
  <2> QED BY <1>1, <2>1, <2>2 DEF QueueInv
<1>6. ColdInv'
  BY <1>3 DEF ColdInv, Reads, Busy, Working, Ended
<1>7. CacheInv'
  BY <1>1 DEF CacheInv
<1>8. CountInv'
  <2> SUFFICES ASSUME ~raced, \A t \in Toggles : pc'[t] \notin {"dead", "failed"}
               PROVE  Balanced(<<>>, said, table)
    BY <1>1 DEF CountInv
  <2>1. \A t \in Toggles : pc[t] \notin {"setting", "dead", "failed"}
    BY <1>3 DEF Handlers
  <2>2. Balanced(writes, said, IF cache = "absent" THEN table ELSE cache)
    BY <1>2, <2>1 DEF CountInv
  <2>3. /\ \A i \in 1..Len(writes) : ~Sets(writes, i)
        /\ \A w \in Words : Flipped(writes, said, w) = {t \in Toggles : said[t] = w}
    BY <1>2, <2>1, NothingSet
  <2>4. cache # "absent" => Verdict(cache) = Verdict(table)
    BY <1>2, <2>1, <2>3 DEF CacheInv, Foretells
  <2>5. \A w \in Words : Flipped(<<>>, said, w) = Flipped(writes, said, w)
    BY <2>3 DEF Flipped
  <2>6. Verdict(table) = Verdict(IF cache = "absent" THEN table ELSE cache)
    BY <2>4
  <2> QED BY <2>2, <2>5, <2>6, SameBalance
<1>9. restarts' \in 0..MaxRestarts
  BY <1>1, <1>2, BoundsAssumption DEF TypeOK
<1>10. TypeOK'
  BY <1>1, <1>2, <1>4, <1>5, <1>9, TypeFromParts DEF TypeOK
<1> QED BY <1>5, <1>6, <1>7, <1>8, <1>10 DEF Invs

LEMMA StutterKeeps ==
  ASSUME Invs, UNCHANGED vars
  PROVE  Invs'
<1>1. TypeOK' /\ QueueInv'
  BY DEF Invs, vars, TypeOK, QueueInv, Awaited
<1>2. ColdInv'
  BY DEF Invs, vars, ColdInv, Reads, Busy
<1>3. CacheInv'
  BY DEF Invs, vars, CacheInv
<1>4. CountInv'
  BY DEF Invs, vars, CountInv
<1> QED BY <1>1, <1>2, <1>3, <1>4 DEF Invs

LEMMA StepKeeps ==
  Invs /\ [Next]_vars => Invs'
<1> SUFFICES ASSUME Invs, [Next]_vars PROVE Invs'
  OBVIOUS
<1>1. CASE \E t \in Toggles : Command(t)
  BY <1>1, CommandKeeps
<1>2. CASE \E c \in Checks : Check(c)
  BY <1>2, CheckKeeps
<1>3. CASE \E h \in Handlers : HandlerStep(h)
  BY <1>3, DatabaseReadsKeeps, ReadReturnsKeeps DEF HandlerStep
<1>4. CASE WriteSettles
  BY <1>4, WriteSettlesKeeps
<1>5. CASE WriteDies
  BY <1>5, WriteDiesKeeps
<1>6. CASE Restart
  BY <1>6, RestartKeeps
<1>7. CASE UNCHANGED vars
  BY <1>7, StutterKeeps
<1>8. CASE CommitsUnheard
  BY <1>8, CommitsUnheardKeeps
<1> QED BY <1>1, <1>2, <1>3, <1>4, <1>5, <1>6, <1>7, <1>8 DEF Next

\* The queue, the cold cache, what the cache foretells and the flips counted,
\* always and together.
THEOREM Inductive ==
  Spec => []Invs
BY InitInvs, StepKeeps, PTL DEF Spec, SafeSpec

-----------------------------------------------------------------------------
(* What the runs check.                                                     *)

\* Cache, row and queue keep their types, and every statement in the write
\* queue (lib/db/queue.ts) has a handler that is waiting for one.
THEOREM Typing ==
  Spec => []TypeOK
<1>1. Invs => TypeOK
  BY DEF Invs
<1> QED BY <1>1, Inductive, PTL

LEMMA QuietSetsNothing ==
  ASSUME Invs, Busy = {}
  PROVE  Awaited(writes, pc) /\ \A t \in Toggles : pc[t] # "setting"
BY DEF Invs, QueueInv, Busy, Working, Handlers

\* Whatever /toggle commands (toggle-moderation.ts) and message checks
\* (isEnabled) do together, with restarts and dead-lettered profile writes: when
\* none is at work, sessionByUserId (store-reads.ts) says of the owner what
\* the svc_users row says, unless a handler ran while another one read past the
\* cold cache or a toggle's own write was dead-lettered.
THEOREM CacheTellsTheRow ==
  Spec => []OnlyRacesDisagree
<1>1. Invs => OnlyRacesDisagree
  <2> SUFFICES ASSUME Invs, ~raced, Busy = {},
                      \A h \in Handlers : pc[h] # "dead", cache # "absent"
               PROVE  Verdict(cache) = Verdict(table)
    BY DEF OnlyRacesDisagree, CacheAgreesWithTable
  <2>1. \A i \in 1..Len(writes) : ~Sets(writes, i)
    BY QuietSetsNothing, NothingSet
  <2>2. Foretells(writes, cache, table)
    BY DEF Invs, CacheInv, Handlers
  <2> QED BY <2>1, <2>2 DEF Foretells
<1> QED BY <1>1, Inductive, PTL

\* "flip svc_users.active" (toggle-moderation.ts): however many toggles an owner
\* sends, the answers ON and OFF differ by at most one when none is at work, as
\* long as no toggle failed and nobody ran past a cold cache.
THEOREM TogglesAlternate ==
  Spec => []OnlyRacesRepeatAToggle
<1>1. Invs => OnlyRacesRepeatAToggle
  <2> SUFFICES ASSUME Invs, Busy = {}, ~raced,
                      \A t \in Toggles : pc[t] \notin {"dead", "failed"}
               PROVE  /\ Acknowledged("on") <= Acknowledged("off") + 1
                      /\ Acknowledged("off") <= Acknowledged("on") + 1
    BY DEF OnlyRacesRepeatAToggle
  <2>1. \A w \in Words : Flipped(writes, said, w) = {t \in Toggles : said[t] = w}
    BY QuietSetsNothing, NothingSet
  <2>2. \A w \in Words : Cardinality(Flipped(writes, said, w)) = Acknowledged(w)
    BY <2>1 DEF Acknowledged
  <2>3. \E record : Balanced(writes, said, record)
    BY DEF Invs, CountInv
  <2>4. PICK record : Balanced(writes, said, record)
    BY <2>3
  <2>5. /\ Cardinality(Flipped(writes, said, "on")) = Acknowledged("on")
        /\ Cardinality(Flipped(writes, said, "off")) = Acknowledged("off")
    BY <2>2 DEF Words
  <2>6. Acknowledged("on") \in Nat /\ Acknowledged("off") \in Nat
    BY <2>4, <2>5, FS_CardinalityType DEF Balanced
  <2> QED BY <2>4, <2>5, <2>6 DEF Balanced
<1> QED BY <1>1, Inductive, PTL

-----------------------------------------------------------------------------
(* Nobody waits for a write that is not queued.                             *)

Behind(queue, h) == \E i \in 1..Len(queue) : queue[i][2] = h

AtQueue == {"upserting", "ensuring", "setting"}

EveryWriteQueued == \A h \in Handlers : pc[h] \in AtQueue => Behind(writes, h)

LEMMA BehindJoined ==
  ASSUME NEW queue \in Queues, NEW s \in Statements, NEW h \in Handlers, NEW g \in Handlers,
         g = h \/ Behind(queue, g)
  PROVE  Behind(Joined(queue, s, h), g)
<1> DEFINE longer == Joined(queue, s, h)
<1>1. /\ Len(queue) \in Nat /\ Len(longer) = Len(queue) + 1
      /\ longer[Len(queue) + 1] = <<s, h>>
      /\ \A i \in 1..Len(queue) : longer[i] = queue[i]
  BY DEF Joined, Queues
<1> HIDE DEF longer
<1>2. Len(queue) + 1 \in 1..Len(longer) /\ \A i \in 1..Len(queue) : i \in 1..Len(longer)
  BY <1>1
<1>3. Behind(longer, g)
  BY <1>1, <1>2 DEF Behind
<1> QED BY <1>3 DEF longer

\* When the oldest write leaves the queue, the others stay.
LEMMA BehindTail ==
  ASSUME NEW queue \in Queues, queue # <<>>, NEW g \in Handlers, Behind(queue, g),
         g # Head(queue)[2]
  PROVE  Behind(Tail(queue), g)
<1>1. PICK i \in 1..Len(queue) : queue[i][2] = g
  BY DEF Behind
<1>2. /\ Len(queue) \in Nat \ {0} /\ Len(Tail(queue)) = Len(queue) - 1
      /\ Head(queue) = queue[1]
      /\ \A j \in 1..Len(Tail(queue)) : Tail(queue)[j] = queue[j + 1]
  BY TailFacts
<1>3. i - 1 \in 1..Len(Tail(queue)) /\ (i - 1) + 1 = i
  BY <1>1, <1>2
<1> QED BY <1>1, <1>2, <1>3 DEF Behind

\* A handler that goes on waits for what it hands over, or for no write.
LEMMA QueuesItsWrite ==
  ASSUME pc \in [Handlers -> Places], NEW queue \in Queues, NEW h \in Handlers,
         \A g \in Handlers \ {h} : pc[g] \in AtQueue => Behind(queue, g),
         \/ LookUp(h, queue)
         \/ \E record : Continue(h, record, queue) \/ Decide(h, record, queue)
  PROVE  EveryWriteQueued'
<1>1. \A place : Goto(h, place) =>
        pc'[h] = place /\ \A g \in Handlers \ {h} : pc'[g] = pc[g]
  BY DEF Goto
<1>2. CASE Goto(h, "ensuring") /\ writes' = Joined(queue, "ensure", h)
  <2>1. \A g \in Handlers : g = h \/ Behind(queue, g) => Behind(writes', g)
    BY <1>2, BehindJoined DEF Statements
  <2> QED BY <1>1, <1>2, <2>1 DEF EveryWriteQueued
<1>3. ASSUME NEW word \in Words, Goto(h, "setting"), writes' = Joined(queue, word, h)
      PROVE  EveryWriteQueued'
  <2>1. \A g \in Handlers : g = h \/ Behind(queue, g) => Behind(writes', g)
    BY <1>3, BehindJoined DEF Statements, Words
  <2> QED BY <1>1, <1>3, <2>1 DEF EveryWriteQueued
<1>4. CASE (Goto(h, "done") \/ Goto(h, "reading")) /\ writes' = queue
  BY <1>1, <1>4 DEF EveryWriteQueued, AtQueue
<1>5. \A record : Flip(record) \in Words
  BY DEF Flip, Words
<1> QED
  BY <1>2, <1>3, <1>4, <1>5 DEF LookUp, Continue, Decide, EnsureUser, SetActive, Joined

LEMMA WritesStayQueued ==
  Invs /\ EveryWriteQueued /\ [Next]_vars => EveryWriteQueued'
<1> SUFFICES ASSUME Invs, EveryWriteQueued, [Next]_vars PROVE EveryWriteQueued'
  OBVIOUS
<1>1. pc \in [Handlers -> Places] /\ writes \in Queues /\ Awaited(writes, pc)
  BY DEF Invs, TypeOK, QueueInv, Awaited
<1>2. ASSUME NEW t \in Toggles, Command(t)
      PROVE  EveryWriteQueued'
  <2>1. t \in Handlers /\ writes' = Joined(writes, "upsert", t)
        /\ \A g \in Handlers \ {t} : pc'[g] = pc[g]
    BY <1>1, <1>2 DEF Handlers, Command, UpsertUser, Goto, Joined
  <2>2. \A g \in Handlers : g = t \/ Behind(writes, g) => Behind(writes', g)
    BY <1>1, <2>1, BehindJoined DEF Statements
  <2> QED BY <2>1, <2>2 DEF EveryWriteQueued
<1>3. ASSUME NEW c \in Checks, Check(c)
      PROVE  EveryWriteQueued'
  BY <1>1, <1>3, QueuesItsWrite DEF Check, Handlers, EveryWriteQueued
<1>4. ASSUME NEW h \in Handlers, DatabaseReads(h)
      PROVE  EveryWriteQueued'
  BY <1>1, <1>4 DEF DatabaseReads, Goto, EveryWriteQueued, AtQueue
<1>5. ASSUME NEW h \in Handlers, ReadReturns(h)
      PROVE  EveryWriteQueued'
  BY <1>1, <1>5, QueuesItsWrite DEF ReadReturns, EveryWriteQueued
<1>6. ASSUME writes # <<>>
      PROVE  /\ Tail(writes) \in Queues /\ Head(writes)[2] \in Handlers
             /\ \A g \in Handlers \ {Head(writes)[2]} :
                  pc[g] \in AtQueue => Behind(Tail(writes), g)
  BY <1>1, <1>6, TailFacts, AwaitedTail, BehindTail DEF EveryWriteQueued
<1>7. CASE WriteSettles
  <2> DEFINE s == Head(writes)[1]
             h == Head(writes)[2]
  <2>1. \/ LookUp(h, Tail(writes)) \/ Decide(h, cache, Tail(writes))
        \/ Goto(h, "done") /\ writes' = Tail(writes)
    BY <1>7 DEF WriteSettles
  <2>2. CASE Goto(h, "done") /\ writes' = Tail(writes)
    BY <1>1, <1>6, <1>7, <2>2 DEF WriteSettles, Goto, EveryWriteQueued, AtQueue
  <2> QED BY <1>1, <1>6, <1>7, <2>1, <2>2, QueuesItsWrite DEF WriteSettles
<1>8. CASE WriteDies
  <2>1. AfterDeath(pc[Head(writes)[2]]) \notin AtQueue
    BY DEF AfterDeath, AtQueue
  <2> QED BY <1>1, <1>6, <1>8, <2>1 DEF WriteDies, Goto, EveryWriteQueued
<1>9. CASE Restart
  <2>1. \A g \in Handlers : pc'[g] \notin AtQueue
    BY <1>1, <1>9 DEF Restart, Active, Places, Working, Ended, AtQueue
  <2> QED BY <2>1 DEF EveryWriteQueued
<1>10. CASE CommitsUnheard \/ UNCHANGED vars
  BY <1>10 DEF CommitsUnheard, vars, EveryWriteQueued
<1> QED BY <1>2, <1>3, <1>4, <1>5, <1>7, <1>8, <1>9, <1>10 DEF Next, HandlerStep

\* Who awaits a write (ensureUser, ensureSvcUser or setActive) has it in
\* the write queue, through restarts and dead letters: with the queue's promise to
\* settle its oldest write (OrderedWrites), no command and no message check is
\* left waiting.
THEOREM NobodyStranded ==
  Spec => [](\A h \in Handlers :
               pc[h] \in {"upserting", "ensuring", "setting"}
                 => \E i \in 1..Len(writes) : writes[i][2] = h)
<1>1. Init => EveryWriteQueued
  BY DEF Init, EveryWriteQueued, AtQueue
<1>2. EveryWriteQueued =>
        \A h \in Handlers : pc[h] \in {"upserting", "ensuring", "setting"}
          => \E i \in 1..Len(writes) : writes[i][2] = h
  BY DEF EveryWriteQueued, AtQueue, Behind
<1> QED BY <1>1, <1>2, WritesStayQueued, Inductive, PTL DEF Spec, SafeSpec
=============================================================================
