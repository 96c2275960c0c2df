---------------------------- MODULE InboundDedupe ----------------------------
(***************************************************************************)
(* The memory of claimed messages (moderation/inbound-message-dedupe.ts):  *)
(* a Map from message keys to expiry times, pruned every PruneEvery claims *)
(* and when it outgrows MaxKeys, and then trimmed by a fifth.              *)
(*                                                                         *)
(* The Map keeps its keys in the order of their first insertion; a key     *)
(* that is set again while it is in the Map keeps its place.  The key is   *)
(* the chat's id and the message's: the owner whose account received the   *)
(* message is not in it, and message ids are counted per account.          *)
(***************************************************************************)
EXTENDS Naturals, Sequences, FiniteSets, SequencesExt

CONSTANTS Messages,    \* inbound messages of all owners
          Keys,
          KeyOf,       \* chatId:messageId of each message
          Ttl,         \* ttlMs, in ticks of the model's clock
          MaxKeys,     \* maxKeys
          PruneEvery,  \* 500 in the code
          MaxNow       \* bound: the clock

ASSUME BoundsAssumption ==
  Ttl \in Nat \ {0} /\ MaxKeys \in Nat \ {0} /\ PruneEvery \in Nat \ {0} /\ MaxNow \in Nat
ASSUME KeyAssumption == KeyOf \in [Messages -> Keys]

VARIABLES
  now,      \* Date.now()
  seen,     \* the Map's keys, oldest insertion first
  until,    \* their expiry times
  ops,      \* the claims counted, modulo PruneEvery
  claimed   \* observer: expiry of the last successful claim of a message, or 0

vars == <<now, seen, until, ops, claimed>>

TypeOK ==
  /\ now \in 0..MaxNow
  /\ seen \in UNION {[1..n -> Keys] : n \in 0..MaxKeys}
  /\ IsInjective(seen)
  /\ until \in [Keys -> 0..(MaxNow + Ttl)]
  /\ ops \in 0..(PruneEvery - 1)
  /\ claimed \in [Messages -> 0..(MaxNow + Ttl)]

Init ==
  /\ now = 0
  /\ seen = <<>>
  /\ until = [k \in Keys |-> 0]
  /\ ops = 0
  /\ claimed = [m \in Messages |-> 0]

\* Plausible bug: an expired claim still refuses.
Refused_Forever(k) == k \in ToSet(seen)

Refused(k) == k \in ToSet(seen) /\ until[k] > now

Inserted(k) == IF k \in ToSet(seen) THEN seen ELSE Append(seen, k)

Rank(places, i) == Cardinality({j \in places : j <= i})

\* What is left of a Map's keys, in their order, when those at all other places
\* are deleted.
Picked(order, places) ==
  [n \in 1..Cardinality(places) |-> order[CHOOSE i \in places : Rank(places, i) = n]]

\* Plausible bug: nothing is pruned before the cache is trimmed.
Unexpired_Nothing(order, expiry) == order

\* pruneExpired
Unexpired(order, expiry) ==
  Picked(order, {i \in 1..Len(order) : expiry[order[i]] > now})

\* Plausible bug: the trimmed keys are not deleted.
WithoutFirstFifth_KeepsThem(order) == order

\* trimArbitrary: the fifth of the keys that were inserted first, rounded up.
WithoutFirstFifth(order) == SubSeq(order, (Len(order) + 4) \div 5 + 1, Len(order))

\* tryClaim returns true.
Claim(m) ==
  LET k == KeyOf[m]
      expiry == [until EXCEPT ![k] = now + Ttl]
      count == (ops + 1) % PruneEvery
      inserted == Inserted(k)
      pruned == IF count = 0 \/ Len(inserted) > MaxKeys
                THEN Unexpired(inserted, expiry) ELSE inserted
  IN
  /\ ~Refused(k)
  /\ until' = expiry
  /\ ops' = count
  /\ seen' = IF Len(pruned) > MaxKeys THEN WithoutFirstFifth(pruned) ELSE pruned
  /\ claimed' = [claimed EXCEPT ![m] = now + Ttl]
  /\ UNCHANGED now

\* tryClaim returns false.
Refuse(m) == Refused(KeyOf[m]) /\ UNCHANGED vars

Tick ==
  /\ now < MaxNow
  /\ now' = now + 1
  /\ UNCHANGED <<seen, until, ops, claimed>>

Next == Tick \/ \E m \in Messages : Claim(m) \/ Refuse(m)

Spec == Init /\ [][Next]_vars

-----------------------------------------------------------------------------
\* The messages claimed within the last Ttl.
Recent == {m \in Messages : claimed[m] > now}

Twins(m) == {t \in Messages \ {m} : KeyOf[t] = KeyOf[m]}

\* A message is refused only within Ttl of a claim that succeeded: its own, or
\* that of a message of another owner with the same chat and message ids.  An
\* old claim or another key never costs a message its moderation.
RefusesOnlyRecent ==
  \A m \in Messages :
    Refused(KeyOf[m]) => m \in Recent \/ Twins(m) \cap Recent # {}

RecentKeys == {KeyOf[m] : m \in Recent}

\* A claim is forgotten before its time, so that a redelivery of its message
\* would be moderated again, only by a step that finds more than MaxKeys
\* keys claimed within the last Ttl.
ForgetsOnlyWhenFull ==
  [][(\E k \in RecentKeys' :
        /\ k \in ToSet(seen) \cup (RecentKeys' \ RecentKeys)
        /\ k \notin ToSet(seen'))
       => Cardinality(RecentKeys') > MaxKeys]_vars
=============================================================================
