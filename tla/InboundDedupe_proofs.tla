------------------------ MODULE InboundDedupe_proofs ------------------------
(***************************************************************************)
(* The claim cache, for any messages, keys, limits and lifetimes: it keeps *)
(* its bounds, refuses only on the word of a recent claim, and forgets a   *)
(* recent claim only when it has no room.                                  *)
(*                                                                         *)
(* The first needs what pruning leaves of the order of the keys, which is  *)
(* counting (RankIsOnto), not induction.  The last needs both directions   *)
(* between the Map and the claims: an expiry ahead was set by a claim      *)
(* (ExpiriesAreClaims), and the Map never expires a key before a claim of  *)
(* it does (RecentInv).                                                    *)
(***************************************************************************)
EXTENDS InboundDedupe, FiniteSetTheorems, SequenceTheorems, TLAPS

Times ==
  /\ now \in Nat
  /\ until \in [Keys -> Nat]
  /\ claimed \in [Messages -> Nat]

\* An expiry that is still ahead was set by a claim of a message with that key.
ExpiriesAreClaims ==
  \A k \in Keys :
    until[k] > now => \E m \in Messages : KeyOf[m] = k /\ claimed[m] = until[k]

ClaimInv == Times /\ ExpiriesAreClaims

\* What a claim does to the times, whatever happens to the order of the keys.
LEMMA ClaimSetsTimes ==
  ASSUME Times, NEW m \in Messages, Claim(m)
  PROVE  /\ now' = now
         /\ until' = [until EXCEPT ![KeyOf[m]] = now + Ttl]
         /\ claimed' = [claimed EXCEPT ![m] = now + Ttl]
BY DEF Claim

LEMMA ClaimKeepsInv ==
  ASSUME ClaimInv, NEW m \in Messages, Claim(m)
  PROVE  ClaimInv'
<1>1. /\ now' = now
      /\ until' = [until EXCEPT ![KeyOf[m]] = now + Ttl]
      /\ claimed' = [claimed EXCEPT ![m] = now + Ttl]
  BY ClaimSetsTimes DEF ClaimInv
<1>2. KeyOf[m] \in Keys /\ now + Ttl \in Nat
  BY KeyAssumption, BoundsAssumption DEF ClaimInv, Times
<1>3. Times'
  BY <1>1, <1>2 DEF ClaimInv, Times
<1>4. ASSUME NEW k \in Keys, until'[k] > now'
      PROVE  \E n \in Messages : KeyOf[n] = k /\ claimed'[n] = until'[k]
  <2>1. CASE k = KeyOf[m]
    BY <1>1, <1>2, <2>1 DEF ClaimInv, Times
  <2>2. CASE k # KeyOf[m]
    <3>1. until'[k] = until[k]
      BY <1>1, <2>2 DEF ClaimInv, Times
    <3>2. PICK n \in Messages : KeyOf[n] = k /\ claimed[n] = until[k]
      BY <1>1, <1>4, <3>1 DEF ClaimInv, ExpiriesAreClaims
    <3>3. claimed'[n] = claimed[n]
      BY <1>1, <2>2, <3>2 DEF ClaimInv, Times
    <3> QED BY <3>1, <3>2, <3>3
  <2> QED BY <2>1, <2>2
<1> QED BY <1>3, <1>4 DEF ClaimInv, ExpiriesAreClaims

LEMMA TickKeepsInv ==
  ASSUME ClaimInv, Tick
  PROVE  ClaimInv'
<1>1. now \in Nat /\ now' = now + 1 /\ until' = until /\ claimed' = claimed
  BY DEF Tick, ClaimInv, Times
<1>2. \A k \in Keys : until[k] \in Nat
  BY DEF ClaimInv, Times
<1>3. \A k \in Keys : until'[k] > now' => until[k] > now
  BY <1>1, <1>2
<1> QED BY <1>1, <1>3 DEF ClaimInv, Times, ExpiriesAreClaims

LEMMA InitClaims == Init => ClaimInv
BY DEF Init, ClaimInv, Times, ExpiriesAreClaims

LEMMA ClaimInvStep ==
  ASSUME ClaimInv, [Next]_vars
  PROVE  ClaimInv'
<1>1. CASE Tick
  BY <1>1, TickKeepsInv
<1>2. ASSUME NEW m \in Messages, Claim(m) PROVE ClaimInv'
  BY <1>2, ClaimKeepsInv
<1>3. CASE UNCHANGED vars \/ \E m \in Messages : Refuse(m)
  <2>1. UNCHANGED <<now, until, claimed>>
    BY <1>3 DEF Refuse, vars
  <2> QED BY <2>1 DEF ClaimInv, Times, ExpiriesAreClaims
<1> QED BY <1>1, <1>2, <1>3 DEF Next

\* A message is refused only within the lifetime of a claim, its own or that
\* of a message with the same key.
THEOREM RefusalsAreRecent == Spec => []RefusesOnlyRecent
<1>1. ClaimInv => RefusesOnlyRecent
  <2> SUFFICES ASSUME ClaimInv, NEW m \in Messages, Refused(KeyOf[m])
               PROVE  m \in Recent \/ Twins(m) \cap Recent # {}
    BY DEF RefusesOnlyRecent
  <2>1. KeyOf[m] \in Keys /\ until[KeyOf[m]] > now
    BY KeyAssumption DEF Refused
  <2>2. PICK n \in Messages : KeyOf[n] = KeyOf[m] /\ claimed[n] = until[KeyOf[m]]
    BY <2>1 DEF ClaimInv, ExpiriesAreClaims
  <2>3. n \in Recent
    BY <2>1, <2>2 DEF Recent
  <2> QED BY <2>2, <2>3 DEF Twins
<1> QED BY <1>1, InitClaims, ClaimInvStep, PTL DEF Spec

-----------------------------------------------------------------------------
(* What pruning leaves.                                                     *)

\* Every place up to the number of places is the rank of one of them.
LEMMA RankIsOnto ==
  ASSUME NEW n \in Nat, NEW places \in SUBSET (1..n)
  PROVE  /\ Cardinality(places) \in 0..n
         /\ \A i \in places : Rank(places, i) \in 1..Cardinality(places)
         /\ \A i, j \in places : Rank(places, i) = Rank(places, j) => i = j
         /\ \A k \in 1..Cardinality(places) : \E i \in places : Rank(places, i) = k
<1> DEFINE m == Cardinality(places)
           rank == [i \in places |-> Rank(places, i)]
<1>1. IsFiniteSet(1..n) /\ Cardinality(1..n) = n
  BY FS_Interval
<1>2. IsFiniteSet(places) /\ m \in Nat /\ m <= n
  BY <1>1, FS_Subset, FS_CardinalityType
<1> HIDE DEF m
<1>3. \A i \in places : i \in Nat
  OBVIOUS
<1>4. IsFiniteSet(1..m) /\ Cardinality(1..m) = m
  BY <1>2, FS_Interval
<1>5. ASSUME NEW i \in places
      PROVE  /\ IsFiniteSet({j \in places : j <= i})
             /\ Rank(places, i) = Cardinality({j \in places : j <= i})
             /\ Rank(places, i) \in 1..m
  <2> DEFINE upto == {j \in places : j <= i}
  <2>1. upto \in SUBSET places /\ i \in upto
    BY <1>3
  <2>2. IsFiniteSet(upto) /\ Cardinality(upto) <= m /\ Cardinality(upto) \in Nat
    BY <1>2, <2>1, FS_Subset, FS_CardinalityType DEF m
  <2>3. Cardinality(upto) # 0
    BY <2>1, <2>2, FS_EmptySet
  <2>4. Rank(places, i) = Cardinality(upto)
    BY DEF Rank
  <2> QED BY <1>2, <2>2, <2>3, <2>4
<1>6. ASSUME NEW i \in places, NEW j \in places, i < j
      PROVE  Rank(places, i) < Rank(places, j)
  <2> DEFINE small == {l \in places : l <= i}
             large == {l \in places : l <= j}
  <2>1. small \in SUBSET large /\ j \in large /\ j \notin small
    <3>1. i \in Nat /\ j \in Nat
      BY <1>3
    <3>2. \A l \in places : l <= i => l <= j
      BY <1>3, <1>6, <3>1
    <3>3. small \in SUBSET large
      BY <3>2
    <3>4. j <= j /\ ~(j <= i)
      BY <1>6, <3>1
    <3> QED BY <3>3, <3>4
  <2>2. IsFiniteSet(large) /\ Rank(places, i) = Cardinality(small)
        /\ Rank(places, j) = Cardinality(large)
    BY <1>5
  <2>3. Cardinality(small) <= Cardinality(large) /\ Cardinality(small) # Cardinality(large)
    BY <2>1, <2>2, FS_Subset
  <2>4. Rank(places, i) \in 1..m /\ Rank(places, j) \in 1..m
    BY <1>5
  <2> QED BY <2>2, <2>3, <2>4
<1>7. \A i, j \in places : Rank(places, i) = Rank(places, j) => i = j
  <2> TAKE i, j \in places
  <2> HAVE Rank(places, i) = Rank(places, j)
  <2>1. i \in Nat /\ j \in Nat
    BY <1>3
  <2>2. Rank(places, i) \in 1..m
    BY <1>5
  <2>3. ~(i < j) /\ ~(j < i)
    BY <1>2, <1>6, <2>1, <2>2
  <2> QED BY <2>1, <2>3
<1>8. rank \in Injection(places, 1..m)
  <2>1. rank \in [places -> 1..m]
    BY <1>5
  <2>2. ASSUME NEW i \in places, NEW j \in places, rank[i] = rank[j]
        PROVE  i = j
    BY <1>7, <2>2
  <2> QED BY <2>1, <2>2 DEF Injection, IsInjective
<1>9. rank \in Surjection(places, 1..m)
  BY <1>2, <1>4, <1>8, FS_Injection DEF m
<1>10. \A k \in 1..m : \E i \in places : rank[i] = k
  BY <1>9 DEF Surjection
<1>11. m \in 0..n
  BY <1>2
<1>12. \A i \in places : Rank(places, i) \in 1..m
  BY <1>5
<1> QED BY <1>7, <1>10, <1>11, <1>12 DEF m

LEMMA PickedFacts ==
  ASSUME NEW n \in Nat, NEW order \in [1..n -> Keys], IsInjective(order),
         NEW places \in SUBSET (1..n)
  PROVE  LET m == Cardinality(places)
         IN  /\ m \in 0..n
             /\ Picked(order, places) \in [1..m -> Keys]
             /\ IsInjective(Picked(order, places))
             /\ \A k : k \in ToSet(Picked(order, places)) <=> \E i \in places : k = order[i]
<1> DEFINE m == Cardinality(places)
           At(k) == CHOOSE i \in places : Rank(places, i) = k
           picked == Picked(order, places)
<1>1. /\ m \in 0..n
      /\ \A i \in places : Rank(places, i) \in 1..m
      /\ \A i, j \in places : Rank(places, i) = Rank(places, j) => i = j
      /\ \A k \in 1..m : \E i \in places : Rank(places, i) = k
  BY RankIsOnto
<1>2. \A k \in 1..m : At(k) \in places /\ Rank(places, At(k)) = k
  BY <1>1
<1>3. picked = [k \in 1..m |-> order[At(k)]]
  BY DEF Picked
<1> HIDE DEF At, picked
<1>4. picked \in [1..m -> Keys]
  BY <1>2, <1>3
<1>5. IsInjective(picked)
  <2> SUFFICES ASSUME NEW k \in 1..m, NEW l \in 1..m, picked[k] = picked[l]
               PROVE  k = l
    BY <1>4 DEF IsInjective
  <2>1. order[At(k)] = order[At(l)] /\ At(k) \in 1..n /\ At(l) \in 1..n
    BY <1>2, <1>3
  <2>2. At(k) = At(l)
    BY <2>1 DEF IsInjective
  <2> QED BY <1>2, <2>2
<1>6. ASSUME NEW i \in places PROVE order[i] \in ToSet(picked)
  <2>1. Rank(places, i) \in 1..m /\ \A j \in places : Rank(places, j) = Rank(places, i) => j = i
    BY <1>1
  <2>2. At(Rank(places, i)) = i
    BY <1>2, <2>1
  <2> QED BY <1>3, <2>1, <2>2 DEF ToSet
<1>7. ASSUME NEW k \in ToSet(picked) PROVE \E i \in places : k = order[i]
  BY <1>2, <1>3, <1>7 DEF ToSet
<1> QED BY <1>1, <1>4, <1>5, <1>6, <1>7 DEF picked

-----------------------------------------------------------------------------
(* The keys in the Map.                                                     *)

Maps == {order \in Seq(Keys) : IsInjective(order)}

\* The places pruneExpired keeps.
Alive(order, expiry) == {i \in 1..Len(order) : expiry[order[i]] > now}

LEMMA InsertedFacts ==
  ASSUME NEW k \in Keys, seen \in Maps
  PROVE  /\ Inserted(k) \in Maps
         /\ Len(Inserted(k)) \in Nat
         /\ Len(seen) <= Len(Inserted(k)) /\ Len(Inserted(k)) <= Len(seen) + 1
         /\ \A j : j \in ToSet(Inserted(k)) <=> j \in ToSet(seen) \/ j = k
<1>1. seen \in Seq(Keys) /\ Len(seen) \in Nat /\ IsInjective(seen)
  BY DEF Maps
<1>2. DOMAIN seen = 1..Len(seen)
  BY <1>1
<1>3. CASE k \in ToSet(seen)
  BY <1>1, <1>3 DEF Inserted, Maps
<1>4. CASE k \notin ToSet(seen)
  <2> DEFINE longer == Append(seen, k)
             n == Len(seen)
  <2>1. /\ longer \in Seq(Keys) /\ Len(longer) = n + 1 /\ longer[n + 1] = k
        /\ \A i \in 1..n : longer[i] = seen[i]
    BY <1>1
  <2>2. DOMAIN longer = 1..(n + 1)
    BY <2>1
  <2> HIDE DEF longer
  <2>3. \A i \in 1..(n + 1) : i \in 1..n \/ i = n + 1
    BY <1>1
  <2>4. \A i \in 1..n : seen[i] # k
    BY <1>2, <1>4 DEF ToSet
  <2>5. IsInjective(longer)
    <3>1. \A i, j \in 1..n : seen[i] = seen[j] => i = j
      BY <1>1, <1>2 DEF IsInjective
    <3> QED BY <2>1, <2>2, <2>3, <2>4, <3>1 DEF IsInjective
  <2>6. \A j : j \in ToSet(longer) <=> j \in ToSet(seen) \/ j = k
    <3>1. \A j : j \in ToSet(longer) <=> \E i \in 1..(n + 1) : j = longer[i]
      BY <2>2 DEF ToSet
    <3>2. \A j : j \in ToSet(seen) <=> \E i \in 1..n : j = seen[i]
      BY <1>2 DEF ToSet
    <3>3. n + 1 \in 1..(n + 1) /\ \A i \in 1..n : i \in 1..(n + 1)
      BY <1>1
    <3> QED BY <2>1, <2>3, <3>1, <3>2, <3>3
  <2>7. Inserted(k) = longer
    BY <1>4 DEF Inserted, longer
  <2> QED BY <1>1, <2>1, <2>5, <2>6, <2>7 DEF Maps
<1> QED BY <1>3, <1>4

LEMMA UnexpiredFacts ==
  ASSUME NEW order \in Maps, NEW expiry
  PROVE  /\ Unexpired(order, expiry) \in Maps
         /\ Len(Unexpired(order, expiry)) \in Nat
         /\ Len(Unexpired(order, expiry)) <= Len(order)
         /\ \A k : k \in ToSet(Unexpired(order, expiry))
                     <=> k \in ToSet(order) /\ expiry[k] > now
<1> DEFINE n == Len(order)
           m == Cardinality(Alive(order, expiry))
           left == Unexpired(order, expiry)
<1>1. n \in Nat /\ order \in [1..n -> Keys] /\ IsInjective(order) /\ DOMAIN order = 1..n
  BY DEF Maps
<1>2. Alive(order, expiry) \in SUBSET (1..n)
  BY DEF Alive
<1>3. left = Picked(order, Alive(order, expiry))
  BY DEF Unexpired, Alive
<1> HIDE DEF n, m, left
<1>4. /\ m \in 0..n /\ left \in [1..m -> Keys] /\ IsInjective(left)
      /\ \A k : k \in ToSet(left) <=> \E i \in Alive(order, expiry) : k = order[i]
  BY <1>1, <1>2, <1>3, PickedFacts DEF m
<1>5. m \in Nat /\ m <= n
  BY <1>1, <1>4
<1>6. left \in Seq(Keys) /\ Len(left) = m
  BY <1>4, <1>5
<1>7. \A k : (\E i \in Alive(order, expiry) : k = order[i])
               <=> k \in ToSet(order) /\ expiry[k] > now
  <2>1. \A k : k \in ToSet(order) <=> \E i \in 1..n : k = order[i]
    BY <1>1 DEF ToSet
  <2>2. \A i : i \in Alive(order, expiry) <=> i \in 1..n /\ expiry[order[i]] > now
    BY DEF Alive, n
  <2> QED BY <2>1, <2>2
<1> QED BY <1>4, <1>5, <1>6, <1>7 DEF Maps, n, left

LEMMA TrimmedFacts ==
  ASSUME NEW order \in Maps, Len(order) # 0
  PROVE  /\ WithoutFirstFifth(order) \in Maps
         /\ Len(WithoutFirstFifth(order)) \in 0..(Len(order) - 1)
<1> DEFINE n == Len(order)
           first == (n + 4) \div 5 + 1
           left == SubSeq(order, first, n)
<1>1. order \in Seq(Keys) /\ n \in Nat \ {0} /\ IsInjective(order) /\ DOMAIN order = 1..n
  BY DEF Maps
<1>2. first \in 2..(n + 1)
  BY <1>1
<1> HIDE DEF first
<1>3. /\ left \in Seq(Keys) /\ Len(left) = n + 1 - first
      /\ \A i \in 1..(n + 1 - first) : left[i] = order[first + i - 1]
  BY <1>1, <1>2, SubSeqProperties
<1>4. DOMAIN left = 1..(n + 1 - first)
  BY <1>3
<1> HIDE DEF left
<1>5. IsInjective(left)
  <2>1. ASSUME NEW i \in 1..(n + 1 - first), NEW j \in 1..(n + 1 - first), left[i] = left[j]
        PROVE  i = j
    <3>1. first + i - 1 \in 1..n /\ first + j - 1 \in 1..n
      BY <1>1, <1>2
    <3>2. first + i - 1 = first + j - 1
      BY <1>1, <1>3, <2>1, <3>1 DEF IsInjective
    <3> QED BY <1>2, <3>2
  <2> QED BY <1>4, <2>1 DEF IsInjective
<1>6. Len(left) \in 0..(n - 1)
  BY <1>1, <1>2, <1>3
<1> QED BY <1>3, <1>5, <1>6 DEF WithoutFirstFifth, Maps, left, first

-----------------------------------------------------------------------------
(* The Map keeps its bounds.                                                *)

LEMMA SeenIsMap ==
  TypeOK => seen \in Maps /\ Len(seen) \in 0..MaxKeys
<1> SUFFICES ASSUME TypeOK PROVE seen \in Maps /\ Len(seen) \in 0..MaxKeys
  OBVIOUS
<1>1. PICK n \in 0..MaxKeys : seen \in [1..n -> Keys]
  BY DEF TypeOK
<1>2. seen \in Seq(Keys) /\ Len(seen) = n
  BY <1>1, BoundsAssumption
<1> QED BY <1>2 DEF TypeOK, Maps

\* tryClaim, with what the Map holds before it is trimmed.
LEMMA ClaimPrunes ==
  ASSUME TypeOK, NEW m \in Messages, Claim(m)
  PROVE  \E pruned \in Maps :
           /\ Len(pruned) \in 0..(MaxKeys + 1)
           /\ seen' = IF Len(pruned) > MaxKeys THEN WithoutFirstFifth(pruned) ELSE pruned
           /\ \A k : k \in ToSet(pruned) => k \in ToSet(Inserted(KeyOf[m]))
           /\ \A k \in ToSet(Inserted(KeyOf[m])) : until'[k] > now => k \in ToSet(pruned)
           /\ Len(pruned) > MaxKeys => \A k \in ToSet(pruned) : until'[k] > now
<1> DEFINE k0 == KeyOf[m]
           expiry == [until EXCEPT ![k0] = now + Ttl]
           count == (ops + 1) % PruneEvery
           inserted == Inserted(k0)
           pruned == IF count = 0 \/ Len(inserted) > MaxKeys
                     THEN Unexpired(inserted, expiry) ELSE inserted
<1>1. /\ until' = expiry
      /\ seen' = IF Len(pruned) > MaxKeys THEN WithoutFirstFifth(pruned) ELSE pruned
  BY DEF Claim
<1>2. k0 \in Keys /\ MaxKeys \in Nat /\ seen \in Maps /\ Len(seen) \in 0..MaxKeys
  BY SeenIsMap, KeyAssumption, BoundsAssumption
<1>3. /\ inserted \in Maps /\ Len(inserted) \in Nat
      /\ Len(inserted) <= Len(seen) + 1
  BY <1>2, InsertedFacts
<1>4. Len(inserted) \in 0..(MaxKeys + 1)
  BY <1>2, <1>3
<1> HIDE DEF inserted, expiry, count
<1>5. /\ Unexpired(inserted, expiry) \in Maps
      /\ Len(Unexpired(inserted, expiry)) \in Nat
      /\ Len(Unexpired(inserted, expiry)) <= Len(inserted)
      /\ \A k : k \in ToSet(Unexpired(inserted, expiry))
                  <=> k \in ToSet(inserted) /\ expiry[k] > now
  BY <1>3, UnexpiredFacts
<1>6. pruned \in Maps /\ Len(pruned) \in 0..(MaxKeys + 1)
  BY <1>2, <1>3, <1>4, <1>5
<1>7. /\ \A k : k \in ToSet(pruned) => k \in ToSet(inserted)
      /\ \A k \in ToSet(inserted) : expiry[k] > now => k \in ToSet(pruned)
      /\ Len(pruned) > MaxKeys => \A k \in ToSet(pruned) : expiry[k] > now
  BY <1>5
<1> HIDE DEF pruned
<1> QED BY <1>1, <1>6, <1>7 DEF inserted

LEMMA TypeStep ==
  ASSUME TypeOK, [Next]_vars
  PROVE  TypeOK'
<1>1. ASSUME NEW m \in Messages, Claim(m) PROVE TypeOK'
  <2>1. PICK pruned \in Maps :
           /\ Len(pruned) \in 0..(MaxKeys + 1)
           /\ seen' = IF Len(pruned) > MaxKeys THEN WithoutFirstFifth(pruned) ELSE pruned
    BY <1>1, ClaimPrunes
  <2>2. MaxKeys \in Nat \ {0} /\ Ttl \in Nat \ {0} /\ PruneEvery \in Nat \ {0} /\ MaxNow \in Nat
        /\ KeyOf[m] \in Keys
    BY BoundsAssumption, KeyAssumption
  <2>3. seen' \in Maps /\ Len(seen') \in 0..MaxKeys
    <3>1. CASE Len(pruned) > MaxKeys
      <4>1. Len(pruned) = MaxKeys + 1 /\ Len(pruned) # 0
        BY <2>1, <2>2, <3>1
      <4>2. WithoutFirstFifth(pruned) \in Maps
            /\ Len(WithoutFirstFifth(pruned)) \in 0..(Len(pruned) - 1)
        BY <4>1, TrimmedFacts
      <4> QED BY <2>1, <2>2, <3>1, <4>1, <4>2
    <3>2. CASE ~(Len(pruned) > MaxKeys)
      BY <2>1, <2>2, <3>2
    <3> QED BY <3>1, <3>2
  <2>4. seen' \in UNION {[1..n -> Keys] : n \in 0..MaxKeys} /\ IsInjective(seen')
    BY <2>3 DEF Maps
  <2>5. /\ now' = now /\ until' = [until EXCEPT ![KeyOf[m]] = now + Ttl]
        /\ claimed' = [claimed EXCEPT ![m] = now + Ttl]
        /\ ops' = (ops + 1) % PruneEvery
    BY <1>1 DEF Claim
  <2>6. /\ now \in 0..MaxNow /\ ops \in Nat
        /\ until \in [Keys -> 0..(MaxNow + Ttl)] /\ claimed \in [Messages -> 0..(MaxNow + Ttl)]
    BY DEF TypeOK
  <2>7. now + Ttl \in 0..(MaxNow + Ttl)
    BY <2>2, <2>6
  <2>8. ops' \in 0..(PruneEvery - 1)
    BY <2>2, <2>5, <2>6
  <2> QED BY <2>2, <2>4, <2>5, <2>6, <2>7, <2>8 DEF TypeOK
<1>2. CASE Tick
  BY <1>2, BoundsAssumption DEF Tick, TypeOK
<1>3. CASE UNCHANGED vars \/ \E m \in Messages : Refuse(m)
  BY <1>3 DEF Refuse, vars, TypeOK
<1> QED BY <1>1, <1>2, <1>3 DEF Next

LEMMA InitTyped == Init => TypeOK
<1> SUFFICES ASSUME Init PROVE TypeOK
  OBVIOUS
<1>1. /\ now \in 0..MaxNow /\ ops \in 0..(PruneEvery - 1)
      /\ until \in [Keys -> 0..(MaxNow + Ttl)] /\ claimed \in [Messages -> 0..(MaxNow + Ttl)]
  BY BoundsAssumption DEF Init
<1>2. seen \in [1..0 -> Keys] /\ 0 \in 0..MaxKeys
  BY BoundsAssumption DEF Init
<1>3. IsInjective(seen)
  BY DEF Init, IsInjective
<1> QED BY <1>1, <1>2, <1>3 DEF TypeOK

\* The Map never holds more than maxKeys keys after a claim, and none of them
\* twice, whatever was pruned or trimmed (tryClaim, pruneExpired, trimArbitrary).
THEOREM Typing == Spec => []TypeOK
BY InitTyped, TypeStep, PTL DEF Spec

-----------------------------------------------------------------------------
(* Nothing is forgotten early but for want of room.                         *)

\* A key's expiry is never earlier than that of a claim of it, no claim lasts
\* longer than the lifetime, and only finitely many keys are claimed.
RecentInv ==
  /\ \A m \in Messages : claimed[m] <= until[KeyOf[m]] /\ claimed[m] <= now + Ttl
  /\ IsFiniteSet(RecentKeys)

Inv == TypeOK /\ ClaimInv /\ RecentInv

LEMMA TickForgetsNothing ==
  ASSUME Inv, Tick \/ UNCHANGED vars \/ \E m \in Messages : Refuse(m)
  PROVE  seen' = seen /\ RecentKeys' \subseteq RecentKeys
<1>1. /\ seen' = seen /\ claimed' = claimed
      /\ now \in Nat /\ (now' = now + 1 \/ now' = now)
  BY DEF Tick, Refuse, vars, Inv, ClaimInv, Times
<1>2. \A m \in Messages : claimed[m] \in Nat
  BY DEF Inv, ClaimInv, Times
<1>3. Recent' \subseteq Recent
  BY <1>1, <1>2 DEF Recent
<1> QED BY <1>1, <1>3 DEF RecentKeys

LEMMA ClaimRemembers ==
  ASSUME Inv, NEW m \in Messages, Claim(m)
  PROVE  RecentKeys' \subseteq RecentKeys \cup {KeyOf[m]}
<1>1. /\ now' = now /\ claimed' = [claimed EXCEPT ![m] = now + Ttl]
      /\ claimed \in [Messages -> Nat]
  BY DEF Claim, Inv, ClaimInv, Times
<1>2. Recent' \subseteq Recent \cup {m}
  BY <1>1 DEF Recent
<1> QED BY <1>2 DEF RecentKeys

LEMMA RecentStep ==
  ASSUME Inv, [Next]_vars
  PROVE  RecentInv'
<1>1. ASSUME NEW m \in Messages, Claim(m) PROVE RecentInv'
  <2>1. /\ now' = now
        /\ until' = [until EXCEPT ![KeyOf[m]] = now + Ttl]
        /\ claimed' = [claimed EXCEPT ![m] = now + Ttl]
        /\ Times
    BY <1>1 DEF Claim, Inv, ClaimInv
  <2>2. KeyOf[m] \in Keys /\ now \in Nat /\ now + Ttl \in Nat
    <3>1. KeyOf[m] \in Keys
      BY KeyAssumption
    <3>2. now \in Nat /\ Ttl \in Nat
      BY <2>1, BoundsAssumption DEF Times
    <3> QED BY <3>1, <3>2
  <2>3. ASSUME NEW n \in Messages PROVE claimed'[n] <= until'[KeyOf[n]] /\ claimed'[n] <= now' + Ttl
    <3>1. KeyOf[n] \in Keys /\ claimed[n] <= until[KeyOf[n]] /\ claimed[n] <= now + Ttl
          /\ claimed[n] \in Nat /\ until[KeyOf[n]] \in Nat
      BY <2>1, KeyAssumption DEF Inv, RecentInv, Times
    <3>2. CASE KeyOf[n] = KeyOf[m]
      <4>1. until'[KeyOf[n]] = now + Ttl
        BY <2>1, <3>1, <3>2 DEF Times
      <4>2. claimed'[n] = now + Ttl \/ claimed'[n] = claimed[n]
        BY <2>1 DEF Times
      <4> QED BY <2>1, <2>2, <3>1, <4>1, <4>2
    <3>3. CASE KeyOf[n] # KeyOf[m]
      BY <2>1, <3>1, <3>3 DEF Times
    <3> QED BY <3>2, <3>3
  <2>4. IsFiniteSet(RecentKeys')
    <3>1. IsFiniteSet(RecentKeys \cup {KeyOf[m]})
      BY FS_AddElement DEF Inv, RecentInv
    <3> QED BY <1>1, <3>1, ClaimRemembers, FS_Subset
  <2> QED BY <2>3, <2>4 DEF RecentInv
<1>2. CASE Tick \/ UNCHANGED vars \/ \E m \in Messages : Refuse(m)
  <2>1. until' = until /\ claimed' = claimed /\ (now' = now + 1 \/ now' = now)
    BY <1>2 DEF Tick, Refuse, vars
  <2>2. \A m \in Messages : claimed'[m] <= until'[KeyOf[m]] /\ claimed'[m] <= now' + Ttl
    BY <2>1, BoundsAssumption DEF Inv, RecentInv, ClaimInv, Times
  <2>3. IsFiniteSet(RecentKeys')
    BY <1>2, TickForgetsNothing, FS_Subset DEF Inv, RecentInv
  <2> QED BY <2>2, <2>3 DEF RecentInv
<1> QED BY <1>1, <1>2 DEF Next

LEMMA ClaimForgetsOnlyWhenFull ==
  ASSUME Inv, Inv', NEW m \in Messages, Claim(m), NEW k \in RecentKeys',
         k \in ToSet(seen) \cup (RecentKeys' \ RecentKeys), k \notin ToSet(seen')
  PROVE  Cardinality(RecentKeys') > MaxKeys
<1>1. PICK pruned \in Maps :
        /\ Len(pruned) \in 0..(MaxKeys + 1)
        /\ seen' = IF Len(pruned) > MaxKeys THEN WithoutFirstFifth(pruned) ELSE pruned
        /\ \A j \in ToSet(Inserted(KeyOf[m])) : until'[j] > now => j \in ToSet(pruned)
        /\ \A j : j \in ToSet(pruned) => j \in ToSet(Inserted(KeyOf[m]))
        /\ Len(pruned) > MaxKeys => \A j \in ToSet(pruned) : until'[j] > now
  BY ClaimPrunes DEF Inv
<1>2. now' = now /\ KeyOf[m] \in Keys /\ seen \in Maps
  BY KeyAssumption, SeenIsMap DEF Claim, Inv
<1>3. k \in ToSet(Inserted(KeyOf[m]))
  BY <1>2, ClaimRemembers, InsertedFacts
<1>4. until'[k] > now
  <2>1. PICK n \in Messages : k = KeyOf[n] /\ claimed'[n] > now'
    BY DEF RecentKeys, Recent
  <2>2. claimed'[n] <= until'[k] /\ claimed'[n] \in Nat /\ until'[k] \in Nat /\ now' \in Nat
    BY <2>1, KeyAssumption DEF Inv, RecentInv, ClaimInv, Times
  <2> QED BY <1>2, <2>1, <2>2
\* It was in the Map after pruning, so the Map was trimmed.
<1>5. k \in ToSet(pruned) /\ Len(pruned) > MaxKeys
  BY <1>1, <1>3, <1>4
<1>6. \A j \in ToSet(pruned) : j \in RecentKeys'
  <2> TAKE j \in ToSet(pruned)
  <2>1. until'[j] > now' /\ j \in Keys
    <3>1. j \in Keys
      BY <1>1 DEF Maps, ToSet
    <3> QED BY <1>1, <1>2, <1>5, <3>1
  <2>2. PICK n \in Messages : KeyOf[n] = j /\ claimed'[n] = until'[j]
    BY <2>1 DEF Inv, ClaimInv, ExpiriesAreClaims
  <2> QED BY <2>1, <2>2 DEF RecentKeys, Recent
<1> DEFINE n == Len(pruned)
<1>7. n \in Nat /\ DOMAIN pruned = 1..n /\ IsInjective(pruned)
      /\ pruned \in Seq(Keys) /\ pruned \in [1..n -> Keys]
  BY <1>1 DEF Maps
<1>8. \A i \in 1..n : pruned[i] \in RecentKeys'
  BY <1>6, <1>7 DEF ToSet
<1>9. pruned \in Injection(1..n, RecentKeys')
  BY <1>7, <1>8 DEF Injection
<1>10. IsFiniteSet(RecentKeys')
  BY DEF Inv, RecentInv
<1>11. Cardinality(1..n) = n /\ Cardinality(1..n) <= Cardinality(RecentKeys')
  BY <1>7, <1>9, <1>10, FS_Interval, FS_Injection
<1>12. Cardinality(RecentKeys') \in Nat
  BY <1>10, FS_CardinalityType
<1> QED BY <1>5, <1>7, <1>11, <1>12, BoundsAssumption

\* A message claimed within the last Ttl is dropped from the Map, so that its
\* redelivery would be moderated again, only by a claim that leaves more than
\* maxKeys recent keys: trimArbitrary runs only on a Map without expired keys.
THEOREM ForgettingNeedsAFullMap == Spec => ForgetsOnlyWhenFull
<1>1. Init => Inv
  <2> SUFFICES ASSUME Init PROVE Inv
    OBVIOUS
  <2>1. TypeOK /\ ClaimInv
    BY InitTyped, InitClaims
  <2>2. Recent = {} /\ \A m \in Messages : /\ claimed[m] <= until[KeyOf[m]]
                                          /\ claimed[m] <= now + Ttl
    BY KeyAssumption, BoundsAssumption DEF Init, Recent
  <2>3. RecentKeys = {}
    BY <2>2 DEF RecentKeys
  <2> QED BY <2>1, <2>2, <2>3, FS_EmptySet DEF Inv, RecentInv
<1>2. ASSUME Inv, [Next]_vars PROVE Inv'
  BY <1>2, TypeStep, ClaimInvStep, RecentStep DEF Inv
<1>3. ASSUME Inv, Inv', [Next]_vars
      PROVE  [(\E k \in RecentKeys' :
                 /\ k \in ToSet(seen) \cup (RecentKeys' \ RecentKeys)
                 /\ k \notin ToSet(seen'))
                => Cardinality(RecentKeys') > MaxKeys]_vars
  <2>1. ASSUME NEW m \in Messages, Claim(m),
               NEW k \in RecentKeys', k \in ToSet(seen) \cup (RecentKeys' \ RecentKeys),
               k \notin ToSet(seen')
        PROVE  Cardinality(RecentKeys') > MaxKeys
    BY <1>3, <2>1, ClaimForgetsOnlyWhenFull
  <2>2. CASE Tick \/ UNCHANGED vars \/ \E m \in Messages : Refuse(m)
    BY <1>3, <2>2, TickForgetsNothing
  <2> QED BY <1>3, <2>1, <2>2 DEF Next
<1> QED BY <1>1, <1>2, <1>3, PTL DEF Spec, ForgetsOnlyWhenFull
=============================================================================
