------------------------ MODULE DeferredBlocks_proofs ------------------------
(***************************************************************************)
(* For every set of blocks, senders and phone submissions.  First the      *)
(* coordinator by itself: its types, that only a block deferred while a    *)
(* submission was connecting can be forgotten, and that only a shared      *)
(* block is executed twice.  Then the coordinator with executions in       *)
(* steps: it is still the coordinator, and only a deferred block is on the *)
(* block list without a row in the log.                                    *)
(*                                                                         *)
(* Forgotten is not about one state alone: a block stays safe while it is  *)
(* in a copy being executed, or in the entry and in the copy of EVERY      *)
(* submission that is still connecting, because any one of those may be    *)
(* the one that deletes or overwrites the entry.  That is Kept below.      *)
(* Any block that is not shared is in one hand at a time: Once below.      *)
(***************************************************************************)
EXTENDS DeferredBlocks, TLAPS

-----------------------------------------------------------------------------
(* The coordinator.                                                         *)

BeingExecuted(b) ==
  \E p \in Phones : phone[p] = "executing" /\ InSeq(b, copy[p])

SafelyQueued(b) ==
  /\ InSeq(b, queued)
  /\ \A p \in Phones : phone[p] = "connecting" => InSeq(b, copy[p])

Kept ==
  \A b \in Blocks :
    caller[b] = "deferred" /\ b \notin exposed /\ runs[b] = 0
      => BeingExecuted(b) \/ SafelyQueued(b)

Inv == TypeOK /\ Kept

-----------------------------------------------------------------------------
(* Sequences.                                                               *)

\* Appending keeps what a sequence holds and adds the new element.
LEMMA InAppend ==
  ASSUME NEW S, NEW s \in Seq(S), NEW b, NEW x \in S
  PROVE  InSeq(x, Append(s, x)) /\ (InSeq(b, s) => InSeq(b, Append(s, x)))
<1>1. Len(Append(s, x)) = Len(s) + 1 /\ Len(s) \in Nat
  OBVIOUS
<1>2. Append(s, x)[Len(s) + 1] = x
  OBVIOUS
<1>3. \A i \in 1..Len(s) : Append(s, x)[i] = s[i]
  OBVIOUS
<1> QED
  BY <1>1, <1>2, <1>3 DEF InSeq

\* What a sequence holds is its head or in its tail.
LEMMA InTail ==
  ASSUME NEW S, NEW s \in Seq(S), NEW b, InSeq(b, s)
  PROVE  s # <<>> /\ (b = Head(s) \/ InSeq(b, Tail(s)))
<1>1. PICK i \in 1..Len(s) : s[i] = b
  BY DEF InSeq
<1>2. s # <<>> /\ Len(s) \in Nat /\ Len(Tail(s)) = Len(s) - 1
  BY <1>1
<1>3. CASE i = 1
  BY <1>1, <1>2, <1>3
<1>4. CASE i # 1
  <2>1. i - 1 \in 1..Len(Tail(s)) /\ Tail(s)[i - 1] = s[i]
    BY <1>2, <1>4
  <2> QED
    BY <1>1, <1>2, <2>1 DEF InSeq
<1> QED
  BY <1>3, <1>4

-----------------------------------------------------------------------------
(* Types.                                                                   *)

LEMMA TypeStep ==
  ASSUME TypeOK, [Next]_vars
  PROVE  TypeOK'
<1> USE DEF TypeOK, CallerPlaces, PhonePlaces
<1>1. ASSUME NEW b \in Blocks, CallBlock(b) PROVE TypeOK'
  BY <1>1 DEF CallBlock
<1>2. ASSUME NEW b \in Blocks, SessionFound(b) PROVE TypeOK'
  BY <1>2 DEF SessionFound
<1>3. ASSUME NEW b \in Blocks, ExecutionReturns(b) PROVE TypeOK'
  BY <1>3 DEF ExecutionReturns
<1>4. ASSUME NEW b \in Blocks, SessionThrows(b) PROVE TypeOK'
  BY <1>4 DEF SessionThrows
<1>5. ASSUME NEW b \in Blocks, SessionMissing(b) PROVE TypeOK'
  BY <1>5 DEF SessionMissing, RequestPhone
<1>6. ASSUME NEW p \in Phones, SubmitPhone(p) PROVE TypeOK'
  BY <1>6 DEF SubmitPhone
<1>7. ASSUME NEW p \in Phones, PhoneConnects(p) PROVE TypeOK'
  <2>1. copy' = copy /\ phone' \in [Phones -> PhonePlaces]
    BY <1>7 DEF PhoneConnects, ExecuteOrReturn
  <2>2. ASSUME NEW q \in Phones, phone'[q] = "executing" PROVE copy'[q] # <<>>
    BY <1>7, <2>2 DEF PhoneConnects, ExecuteOrReturn
  <2>3. <<>> \in Seq(Blocks)
    OBVIOUS
  <2> QED
    BY <1>7, <2>1, <2>2, <2>3 DEF PhoneConnects
<1>8. ASSUME NEW p \in Phones, PhoneRefused(p) PROVE TypeOK'
  BY <1>8 DEF PhoneRefused
<1>9. ASSUME NEW p \in Phones, PhoneThrows(p) PROVE TypeOK'
  BY <1>9 DEF PhoneThrows
<1>10. ASSUME NEW p \in Phones, DeferredBlockExecuted(p) PROVE TypeOK'
  <2>1. Head(copy[p]) \in Blocks /\ Tail(copy[p]) \in Seq(Blocks)
    BY <1>10 DEF DeferredBlockExecuted
  <2>2. copy' \in [Phones -> Seq(Blocks)] /\ phone' \in [Phones -> PhonePlaces]
    BY <1>10, <2>1 DEF DeferredBlockExecuted, ExecuteOrReturn
  <2>3. runs' \in [Blocks -> Nat]
    BY <1>10, <2>1 DEF DeferredBlockExecuted
  <2>4. ASSUME NEW q \in Phones, phone'[q] = "executing" PROVE copy'[q] # <<>>
    BY <1>10, <2>4 DEF DeferredBlockExecuted, ExecuteOrReturn
  <2> QED
    BY <1>10, <2>2, <2>3, <2>4 DEF DeferredBlockExecuted
<1>11. CASE ConnectCommand
  BY <1>11 DEF ConnectCommand
<1>12. CASE UNCHANGED vars
  BY <1>12 DEF vars
<1> QED
  BY <1>1, <1>2, <1>3, <1>4, <1>5, <1>6, <1>7, <1>8, <1>9, <1>10, <1>11, <1>12
  DEF Next, BlockStep, PhoneStep

-----------------------------------------------------------------------------
(* One case per action that can take a block out of safety.  The others     *)
(* leave the entry, the copies and the submissions alone.                   *)

\* A safe block stays safe when nothing it depends on is touched.
LEMMA KeptUntouched ==
  ASSUME Kept, UNCHANGED <<queued, phone, copy, runs>>,
         exposed \subseteq exposed',
         \A b \in Blocks : caller'[b] = "deferred" => caller[b] = "deferred"
  PROVE  Kept'
  BY DEF Kept, BeingExecuted, SafelyQueued

\* A newly deferred block is queued, and if it is not exposed no submission
\* is connecting; the blocks that were queued still are.
LEMMA KeptWhenDeferred ==
  ASSUME TypeOK, Kept, NEW b \in Blocks, SessionMissing(b)
  PROVE  Kept'
<1> SUFFICES ASSUME NEW c \in Blocks, caller'[c] = "deferred",
                    c \notin exposed', runs'[c] = 0
             PROVE  BeingExecuted(c)' \/ SafelyQueued(c)'
  BY DEF Kept
<1> queued \in Seq(Blocks) /\ caller \in [Blocks -> CallerPlaces]
  BY DEF TypeOK
<1>1. queued' = Append(queued, b) /\ UNCHANGED <<phone, copy, runs>>
  BY DEF SessionMissing, RequestPhone
<1>2. CASE c = b
  <2>1. ~Connecting
    BY <1>2 DEF SessionMissing
  <2>2. InSeq(b, queued')
    BY <1>1, InAppend
  <2> QED
    BY <1>1, <1>2, <2>1, <2>2 DEF SafelyQueued, Connecting
<1>3. CASE c # b
  <2>1. caller[c] = "deferred" /\ c \notin exposed /\ runs[c] = 0
    BY <1>1, <1>3 DEF SessionMissing
  <2>2. BeingExecuted(c) \/ SafelyQueued(c)
    BY <2>1 DEF Kept
  <2>3. CASE BeingExecuted(c)
    BY <1>1, <2>3 DEF BeingExecuted
  <2>4. CASE SafelyQueued(c)
    <3>1. InSeq(c, Append(queued, b))
      BY <2>4, InAppend DEF SafelyQueued
    <3> QED
      BY <1>1, <2>4, <3>1 DEF SafelyQueued
  <2> QED
    BY <2>2, <2>3, <2>4
<1> QED
  BY <1>2, <1>3

\* A submission copies every block that was safe in the entry.
LEMMA KeptWhenSubmitted ==
  ASSUME TypeOK, Kept, NEW p \in Phones, SubmitPhone(p)
  PROVE  Kept'
<1> SUFFICES ASSUME NEW c \in Blocks, caller'[c] = "deferred",
                    c \notin exposed', runs'[c] = 0
             PROVE  BeingExecuted(c)' \/ SafelyQueued(c)'
  BY DEF Kept
<1>1. BeingExecuted(c) \/ SafelyQueued(c)
  BY DEF Kept, SubmitPhone
<1> QED
  BY <1>1 DEF BeingExecuted, SafelyQueued, SubmitPhone, TypeOK

\* Connecting turns a safely queued block into one being executed: it is in
\* the copy of this submission too.
LEMMA KeptWhenConnected ==
  ASSUME TypeOK, Kept, NEW p \in Phones, PhoneConnects(p)
  PROVE  Kept'
<1> SUFFICES ASSUME NEW c \in Blocks, caller'[c] = "deferred",
                    c \notin exposed', runs'[c] = 0
             PROVE  BeingExecuted(c)' \/ SafelyQueued(c)'
  BY DEF Kept
<1>1. BeingExecuted(c) \/ SafelyQueued(c)
  BY DEF Kept, PhoneConnects
<1>2. CASE BeingExecuted(c)
  <2>1. PICK q \in Phones : phone[q] = "executing" /\ InSeq(c, copy[q])
    BY <1>2 DEF BeingExecuted
  <2>2. q # p
    BY <2>1 DEF PhoneConnects
  <2>3. phone'[q] = phone[q] /\ copy'[q] = copy[q]
    BY <2>2 DEF PhoneConnects, ExecuteOrReturn, TypeOK
  <2> QED
    BY <2>1, <2>3 DEF BeingExecuted
<1>3. CASE SafelyQueued(c)
  <2>1. InSeq(c, copy[p])
    BY <1>3 DEF SafelyQueued, PhoneConnects
  <2>2. copy[p] # <<>>
    BY <2>1 DEF InSeq
  <2>3. phone'[p] = "executing" /\ copy'[p] = copy[p]
    BY <2>2 DEF PhoneConnects, ExecuteOrReturn, TypeOK
  <2> QED
    BY <2>1, <2>3 DEF BeingExecuted
<1> QED
  BY <1>1, <1>2, <1>3

\* A refused submission writes its copy back; a block safe in the entry is in
\* that copy.
LEMMA KeptWhenRefused ==
  ASSUME TypeOK, Kept, NEW p \in Phones, PhoneRefused(p)
  PROVE  Kept'
<1> SUFFICES ASSUME NEW c \in Blocks, caller'[c] = "deferred",
                    c \notin exposed', runs'[c] = 0
             PROVE  BeingExecuted(c)' \/ SafelyQueued(c)'
  BY DEF Kept
<1>1. BeingExecuted(c) \/ SafelyQueued(c)
  BY DEF Kept, PhoneRefused
<1>2. \A q \in Phones : q # p => phone'[q] = phone[q] /\ copy'[q] = copy[q]
  BY DEF PhoneRefused, TypeOK
<1>3. phone[p] = "connecting" /\ phone'[p] = "done" /\ queued' = copy[p]
  BY DEF PhoneRefused, TypeOK
<1> QED
  BY <1>1, <1>2, <1>3 DEF BeingExecuted, SafelyQueued

\* A submission that throws leaves the entry alone.
LEMMA KeptWhenThrown ==
  ASSUME TypeOK, Kept, NEW p \in Phones, PhoneThrows(p)
  PROVE  Kept'
<1> SUFFICES ASSUME NEW c \in Blocks, caller'[c] = "deferred",
                    c \notin exposed', runs'[c] = 0
             PROVE  BeingExecuted(c)' \/ SafelyQueued(c)'
  BY DEF Kept
<1>1. BeingExecuted(c) \/ SafelyQueued(c)
  BY DEF Kept, PhoneThrows
<1>2. \A q \in Phones : q # p => phone'[q] = phone[q] /\ copy'[q] = copy[q]
  BY DEF PhoneThrows, TypeOK
<1>3. phone[p] = "connecting" /\ phone'[p] = "done" /\ queued' = queued
  BY DEF PhoneThrows, TypeOK
<1> QED
  BY <1>1, <1>2, <1>3 DEF BeingExecuted, SafelyQueued

\* Executing the head of a copy leaves the others where they are.
LEMMA KeptWhenExecuted ==
  ASSUME TypeOK, Kept, NEW p \in Phones, DeferredBlockExecuted(p)
  PROVE  Kept'
<1> SUFFICES ASSUME NEW c \in Blocks, caller'[c] = "deferred",
                    c \notin exposed', runs'[c] = 0
             PROVE  BeingExecuted(c)' \/ SafelyQueued(c)'
  BY DEF Kept
<1>1. copy[p] \in Seq(Blocks) /\ copy[p] # <<>> /\ Head(copy[p]) \in Blocks
  BY DEF DeferredBlockExecuted, TypeOK
<1>2. c # Head(copy[p]) /\ runs[c] = 0
  BY <1>1 DEF DeferredBlockExecuted, TypeOK
<1>3. BeingExecuted(c) \/ SafelyQueued(c)
  BY <1>2 DEF Kept, DeferredBlockExecuted
<1>4. \A q \in Phones : q # p => phone'[q] = phone[q] /\ copy'[q] = copy[q]
  BY DEF DeferredBlockExecuted, ExecuteOrReturn, TypeOK
<1>5. phone[p] = "executing" /\ phone'[p] # "connecting" /\ queued' = queued
  BY DEF DeferredBlockExecuted, ExecuteOrReturn, TypeOK
<1>6. CASE InSeq(c, copy[p])
  <2>1. InSeq(c, Tail(copy[p]))
    BY <1>1, <1>2, <1>6, InTail
  <2>2. Tail(copy[p]) # <<>>
    BY <2>1 DEF InSeq
  <2>3. phone'[p] = "executing" /\ copy'[p] = Tail(copy[p])
    BY <2>2 DEF DeferredBlockExecuted, ExecuteOrReturn, TypeOK
  <2> QED
    BY <2>1, <2>3 DEF BeingExecuted
<1>7. CASE ~InSeq(c, copy[p])
  BY <1>3, <1>4, <1>5, <1>7 DEF BeingExecuted, SafelyQueued
<1> QED
  BY <1>6, <1>7

LEMMA KeptStep ==
  ASSUME TypeOK, Kept, [Next]_vars
  PROVE  Kept'
<1>1. ASSUME NEW b \in Blocks,
             \/ CallBlock(b) \/ SessionFound(b)
             \/ ExecutionReturns(b) \/ SessionThrows(b)
      PROVE  Kept'
  <2>1. \A c \in Blocks : caller'[c] = "deferred" => caller[c] = "deferred"
    BY <1>1 DEF CallBlock, SessionFound, ExecutionReturns, SessionThrows, TypeOK
  <2> QED
    BY <1>1, <2>1, KeptUntouched
    DEF CallBlock, SessionFound, ExecutionReturns, SessionThrows
<1>2. ASSUME NEW b \in Blocks, SessionMissing(b) PROVE Kept'
  BY <1>2, KeptWhenDeferred
<1>3. ASSUME NEW p \in Phones, SubmitPhone(p) PROVE Kept'
  BY <1>3, KeptWhenSubmitted
<1>4. ASSUME NEW p \in Phones, PhoneConnects(p) PROVE Kept'
  BY <1>4, KeptWhenConnected
<1>5. ASSUME NEW p \in Phones, PhoneRefused(p) PROVE Kept'
  BY <1>5, KeptWhenRefused
<1>6. ASSUME NEW p \in Phones, PhoneThrows(p) PROVE Kept'
  BY <1>6, KeptWhenThrown
<1>7. ASSUME NEW p \in Phones, DeferredBlockExecuted(p) PROVE Kept'
  BY <1>7, KeptWhenExecuted
<1>8. CASE ConnectCommand
  <2>1. queued = <<>> /\ queued' = <<>>
    BY <1>8 DEF ConnectCommand, TypeOK
  <2> QED
    BY <1>8, <2>1, KeptUntouched DEF ConnectCommand
<1>9. CASE UNCHANGED vars
  BY <1>9, KeptUntouched DEF vars
<1> QED
  BY <1>1, <1>2, <1>3, <1>4, <1>5, <1>6, <1>7, <1>8, <1>9
  DEF Next, BlockStep, PhoneStep

-----------------------------------------------------------------------------
LEMMA Initially == Init => Inv
<1> SUFFICES ASSUME Init PROVE Inv
  OBVIOUS
<1>1. TypeOK
  <2>1. queued \in Seq(Blocks) /\ copy \in [Phones -> Seq(Blocks)]
    <3>1. <<>> \in Seq(Blocks)
      OBVIOUS
    <3> QED
      BY <3>1 DEF Init
  <2>2. \A p \in Phones : phone[p] # "executing"
    BY DEF Init
  <2> QED
    BY <2>1, <2>2 DEF Init, TypeOK, CallerPlaces, PhonePlaces
<1>2. Kept
  BY DEF Init, Kept
<1> QED
  BY <1>1, <1>2 DEF Inv

LEMMA Inductive == Inv /\ [Next]_vars => Inv'
  BY TypeStep, KeptStep DEF Inv

\* A safe block is not forgotten: it is in the entry, or in a copy.
LEMMA KeptSuffices == Inv => OnlyExposedBlocksAreForgotten
  BY DEF Inv, Kept, BeingExecuted, SafelyQueued, Forgotten,
         OnlyExposedBlocksAreForgotten

\* The coordinator's state keeps its types and its shape: no blocks without
\* an entry, and a submission that executes has a block left to execute.
THEOREM Typing == Spec => []TypeOK
<1>1. Inv => TypeOK
  BY DEF Inv
<1> QED
  BY <1>1, Initially, Inductive, PTL DEF Spec

\* Any number of blocks, submissions and /connect commands in any order: a
\* block that was deferred while no submission was connecting is executed or
\* still queued (onPhoneSubmitted, requestPhoneForBlock).
THEOREM QueuedBlocksSurvive == Spec => []OnlyExposedBlocksAreForgotten
  BY Initially, Inductive, KeptSuffices, PTL DEF Spec
-----------------------------------------------------------------------------
(* Executed once.  A block that no submission copied while another held it  *)
(* is in one hand only: in the entry, in one copy, or executed.             *)

\* A submission that is not under way holds no copy.
IdleHoldsNothing ==
  \A p \in Phones : phone[p] \in {"new", "done"} => copy[p] = <<>>

\* The coordinator holds or has executed only what was deferred.
HeldWasDeferred ==
  \A b \in Blocks :
    \/ InSeq(b, queued)
    \/ \E p \in Phones : InSeq(b, copy[p])
    \/ runs[b] > 0
    => caller[b] = "deferred"

NoRepeats(s) == \A i, j \in 1..Len(s) : s[i] = s[j] => i = j

Distinct == NoRepeats(queued) /\ \A p \in Phones : NoRepeats(copy[p])

\* In one copy at most, and in the entry only while neither executed nor in
\* the copy that is being executed.
InOneHand(b) ==
  /\ \A p, q \in Phones : InSeq(b, copy[p]) /\ InSeq(b, copy[q]) => p = q
  /\ \A p \in Phones :
       InSeq(b, copy[p]) =>
         runs[b] = 0 /\ (phone[p] = "executing" => ~InSeq(b, queued))
  /\ runs[b] > 0 => runs[b] = 1 /\ ~InSeq(b, queued)

Once == \A b \in Blocks \ shared : InOneHand(b)

OnceInv == TypeOK /\ IdleHoldsNothing /\ HeldWasDeferred /\ Distinct /\ Once

\* The converse of InAppend and InTail.
LEMMA OnlyAppended ==
  ASSUME NEW S, NEW s \in Seq(S), NEW x \in S, NEW b, InSeq(b, Append(s, x))
  PROVE  b = x \/ InSeq(b, s)
<1>1. PICK i \in 1..Len(Append(s, x)) : Append(s, x)[i] = b
  BY DEF InSeq
<1>2. Len(Append(s, x)) = Len(s) + 1 /\ Len(s) \in Nat
  OBVIOUS
<1>3. CASE i = Len(s) + 1
  BY <1>1, <1>3
<1>4. CASE i # Len(s) + 1
  <2>1. i \in 1..Len(s) /\ Append(s, x)[i] = s[i]
    BY <1>2, <1>4
  <2> QED
    BY <1>1, <2>1 DEF InSeq
<1> QED
  BY <1>3, <1>4

LEMMA TailWithin ==
  ASSUME NEW S, NEW s \in Seq(S), s # <<>>, NEW b, InSeq(b, Tail(s))
  PROVE  InSeq(b, s)
<1>1. PICK i \in 1..Len(Tail(s)) : Tail(s)[i] = b
  BY DEF InSeq
<1>2. i + 1 \in 1..Len(s) /\ s[i + 1] = Tail(s)[i]
  OBVIOUS
<1> QED
  BY <1>1, <1>2 DEF InSeq

LEMMA EmptyHoldsNothing == \A b : ~InSeq(b, <<>>)
  BY DEF InSeq

\* A new element keeps a sequence free of repeats.
LEMMA AppendDistinct ==
  ASSUME NEW S, NEW s \in Seq(S), NEW x \in S, NoRepeats(s), ~InSeq(x, s)
  PROVE  NoRepeats(Append(s, x))
<1>1. Len(Append(s, x)) = Len(s) + 1 /\ Len(s) \in Nat
  OBVIOUS
<1>2. \A i \in 1..Len(s) : Append(s, x)[i] = s[i]
  OBVIOUS
<1>3. Append(s, x)[Len(s) + 1] = x
  OBVIOUS
<1> QED
  BY <1>1, <1>2, <1>3 DEF NoRepeats, InSeq

\* The tail of a sequence without repeats has none, and not the head either.
LEMMA TailDistinct ==
  ASSUME NEW S, NEW s \in Seq(S), s # <<>>, NoRepeats(s)
  PROVE  NoRepeats(Tail(s)) /\ ~InSeq(Head(s), Tail(s)) /\ InSeq(Head(s), s)
<1>1. Len(Tail(s)) = Len(s) - 1 /\ Len(s) \in Nat /\ Len(s) >= 1
  OBVIOUS
<1>2. \A i \in 1..Len(Tail(s)) : Tail(s)[i] = s[i + 1]
  OBVIOUS
<1>3. Head(s) = s[1]
  OBVIOUS
<1> QED
  BY <1>1, <1>2, <1>3 DEF NoRepeats, InSeq

LEMMA IdleStep ==
  ASSUME TypeOK, IdleHoldsNothing, [Next]_vars
  PROVE  IdleHoldsNothing'
<1> USE DEF TypeOK, IdleHoldsNothing
<1>1. ASSUME NEW b \in Blocks, BlockStep(b) PROVE IdleHoldsNothing'
  BY <1>1 DEF BlockStep, CallBlock, SessionFound, ExecutionReturns,
              SessionThrows, SessionMissing
<1>2. ASSUME NEW p \in Phones, PhoneStep(p) PROVE IdleHoldsNothing'
  BY <1>2 DEF PhoneStep, SubmitPhone, PhoneConnects, PhoneRefused, PhoneThrows,
              DeferredBlockExecuted, ExecuteOrReturn
<1>3. CASE ConnectCommand
  BY <1>3 DEF ConnectCommand
<1>4. CASE UNCHANGED vars
  BY <1>4 DEF vars
<1> QED
  BY <1>1, <1>2, <1>3, <1>4 DEF Next

LEMMA HeldStep ==
  ASSUME TypeOK, HeldWasDeferred, [Next]_vars
  PROVE  HeldWasDeferred'
<1> SUFFICES ASSUME NEW c \in Blocks,
                    \/ InSeq(c, queued')
                    \/ \E p \in Phones : InSeq(c, copy'[p])
                    \/ runs'[c] > 0
             PROVE  caller'[c] = "deferred"
  BY DEF HeldWasDeferred
<1> USE DEF TypeOK
<1>1. ASSUME NEW b \in Blocks,
             \/ CallBlock(b) \/ SessionFound(b)
             \/ ExecutionReturns(b) \/ SessionThrows(b)
      PROVE  caller'[c] = "deferred"
  <2>1. caller[c] = "deferred"
    BY <1>1 DEF HeldWasDeferred, CallBlock, SessionFound, ExecutionReturns,
                SessionThrows
  <2> QED
    BY <1>1, <2>1 DEF CallBlock, SessionFound, ExecutionReturns, SessionThrows
<1>2. ASSUME NEW b \in Blocks, SessionMissing(b) PROVE caller'[c] = "deferred"
  <2>1. CASE c = b
    BY <1>2, <2>1 DEF SessionMissing
  <2>2. CASE c # b
    <3>1. InSeq(c, queued') => InSeq(c, queued)
      BY <1>2, <2>2, OnlyAppended DEF SessionMissing, RequestPhone
    <3>2. caller[c] = "deferred"
      BY <1>2, <3>1 DEF SessionMissing, HeldWasDeferred
    <3> QED
      BY <1>2, <2>2, <3>2 DEF SessionMissing
  <2> QED
    BY <2>1, <2>2
<1>3. ASSUME NEW p \in Phones,
             \/ SubmitPhone(p) \/ PhoneConnects(p)
             \/ PhoneRefused(p) \/ PhoneThrows(p)
      PROVE  caller'[c] = "deferred"
  <2>1. caller' = caller /\ runs' = runs
    BY <1>3 DEF SubmitPhone, PhoneConnects, PhoneRefused, PhoneThrows
  <2>2. InSeq(c, queued') => InSeq(c, queued) \/ InSeq(c, copy[p])
    BY <1>3, EmptyHoldsNothing
    DEF SubmitPhone, PhoneConnects, PhoneRefused, PhoneThrows
  <2>3. \A q \in Phones : InSeq(c, copy'[q]) => InSeq(c, queued) \/ InSeq(c, copy[q])
    BY <1>3, EmptyHoldsNothing
    DEF SubmitPhone, PhoneConnects, ExecuteOrReturn, PhoneRefused, PhoneThrows
  <2> QED
    BY <2>1, <2>2, <2>3 DEF HeldWasDeferred
<1>4. ASSUME NEW p \in Phones, DeferredBlockExecuted(p)
      PROVE  caller'[c] = "deferred"
  <2>1. copy[p] \in Seq(Blocks) /\ copy[p] # <<>> /\ InSeq(Head(copy[p]), copy[p])
    <3>1. copy[p] \in Seq(Blocks) /\ copy[p] # <<>>
      BY <1>4 DEF DeferredBlockExecuted
    <3>2. 1 \in 1..Len(copy[p]) /\ copy[p][1] = Head(copy[p])
      BY <3>1
    <3> QED
      BY <3>1, <3>2 DEF InSeq
  <2>2. runs'[c] > 0 => runs[c] > 0 \/ InSeq(c, copy[p])
    BY <1>4, <2>1 DEF DeferredBlockExecuted
  <2>3. \A q \in Phones : InSeq(c, copy'[q]) => InSeq(c, copy[q])
    BY <1>4, <2>1, TailWithin DEF DeferredBlockExecuted, ExecuteOrReturn
  <2> QED
    BY <1>4, <2>2, <2>3 DEF HeldWasDeferred, DeferredBlockExecuted
<1>5. CASE ConnectCommand
  BY <1>5, EmptyHoldsNothing DEF ConnectCommand, HeldWasDeferred
<1>6. CASE UNCHANGED vars
  BY <1>6 DEF vars, HeldWasDeferred
<1> QED
  BY <1>1, <1>2, <1>3, <1>4, <1>5, <1>6 DEF Next, BlockStep, PhoneStep

LEMMA DistinctStep ==
  ASSUME TypeOK, HeldWasDeferred, Distinct, [Next]_vars
  PROVE  Distinct'
<1> USE DEF TypeOK
<1>1. NoRepeats(<<>>)
  BY DEF NoRepeats
<1>2. ASSUME NEW b \in Blocks,
             \/ CallBlock(b) \/ SessionFound(b)
             \/ ExecutionReturns(b) \/ SessionThrows(b)
      PROVE  Distinct'
  BY <1>2 DEF Distinct, CallBlock, SessionFound, ExecutionReturns, SessionThrows
<1>3. ASSUME NEW b \in Blocks, SessionMissing(b) PROVE Distinct'
  <2>1. ~InSeq(b, queued)
    BY <1>3 DEF SessionMissing, HeldWasDeferred
  <2>2. NoRepeats(Append(queued, b))
    BY <2>1, AppendDistinct DEF Distinct
  <2> QED
    BY <1>3, <2>2 DEF SessionMissing, RequestPhone, Distinct
<1>4. ASSUME NEW p \in Phones, PhoneStep(p) PROVE Distinct'
  <2>1. CASE DeferredBlockExecuted(p)
    <3>1. copy[p] \in Seq(Blocks) /\ copy[p] # <<>>
      BY <2>1 DEF DeferredBlockExecuted
    <3>2. NoRepeats(Tail(copy[p]))
      BY <3>1, TailDistinct DEF Distinct
    <3> QED
      BY <2>1, <3>2 DEF DeferredBlockExecuted, ExecuteOrReturn, Distinct
  <2>2. CASE ~DeferredBlockExecuted(p)
    BY <1>1, <1>4, <2>2
    DEF PhoneStep, SubmitPhone, PhoneConnects, ExecuteOrReturn, PhoneRefused,
        PhoneThrows, Distinct
  <2> QED
    BY <2>1, <2>2
<1>5. CASE ConnectCommand
  BY <1>1, <1>5 DEF ConnectCommand, Distinct
<1>6. CASE UNCHANGED vars
  BY <1>6 DEF vars, Distinct
<1> QED
  BY <1>2, <1>3, <1>4, <1>5, <1>6 DEF Next, BlockStep

\* One step for one block that stays unshared.
LEMMA OneHandStep ==
  ASSUME OnceInv, Next, NEW c \in Blocks, c \notin shared', InOneHand(c)
  PROVE  InOneHand(c)'
<1> USE DEF OnceInv, TypeOK
<1>1. ASSUME NEW b \in Blocks,
             \/ CallBlock(b) \/ SessionFound(b)
             \/ ExecutionReturns(b) \/ SessionThrows(b)
      PROVE  InOneHand(c)'
  BY <1>1 DEF InOneHand, CallBlock, SessionFound, ExecutionReturns, SessionThrows
<1>2. ASSUME NEW b \in Blocks, SessionMissing(b) PROVE InOneHand(c)'
  <2>1. CASE c = b
    <3>1. ~(runs[c] > 0) /\ \A p \in Phones : ~InSeq(c, copy[p])
      BY <1>2, <2>1 DEF SessionMissing, HeldWasDeferred
    <3> QED
      BY <1>2, <3>1 DEF SessionMissing, InOneHand
  <2>2. CASE c # b
    <3>1. InSeq(c, queued') => InSeq(c, queued)
      BY <1>2, <2>2, OnlyAppended DEF SessionMissing, RequestPhone
    <3> QED
      BY <1>2, <3>1 DEF SessionMissing, InOneHand
  <2> QED
    BY <2>1, <2>2
<1>3. ASSUME NEW p \in Phones, SubmitPhone(p) PROVE InOneHand(c)'
  <2>1. UNCHANGED <<queued, runs>> /\ phone'[p] = "connecting" /\ copy'[p] = queued
    BY <1>3 DEF SubmitPhone
  <2>2. \A q \in Phones : q # p => phone'[q] = phone[q] /\ copy'[q] = copy[q]
    BY <1>3 DEF SubmitPhone
  <2>3. CASE InSeq(c, queued)
    <3>1. ~InConnectingCopy(c)
      BY <1>3, <2>3 DEF SubmitPhone
    <3>2. \A q \in Phones : q # p => ~InSeq(c, copy[q])
      <4> SUFFICES ASSUME NEW q \in Phones, InSeq(c, copy[q]) PROVE FALSE
        OBVIOUS
      <4>1. phone[q] \in {"connecting", "executing"}
        BY EmptyHoldsNothing DEF IdleHoldsNothing, PhonePlaces
      <4> QED
        BY <2>3, <3>1, <4>1 DEF InConnectingCopy, InOneHand
    <3>3. ~(runs[c] > 0) /\ runs[c] \in Nat
      BY <2>3 DEF InOneHand
    <3>4. \A q \in Phones : InSeq(c, copy'[q]) => q = p
      BY <2>2, <3>2
    <3>5. runs'[c] = 0 /\ phone'[p] # "executing"
      BY <2>1, <3>3
    <3> QED
      BY <3>4, <3>5 DEF InOneHand
  <2>4. CASE ~InSeq(c, queued)
    BY <2>1, <2>2, <2>4 DEF InOneHand
  <2> QED
    BY <2>3, <2>4
<1>4. ASSUME NEW p \in Phones, PhoneConnects(p) PROVE InOneHand(c)'
  <2>1. queued' = <<>> /\ runs' = runs /\ copy' = copy
    BY <1>4 DEF PhoneConnects, ExecuteOrReturn
  <2> QED
    BY <2>1, EmptyHoldsNothing DEF InOneHand
<1>5. ASSUME NEW p \in Phones, PhoneRefused(p) PROVE InOneHand(c)'
  <2>1. runs' = runs /\ queued' = copy[p] /\ copy'[p] = <<>> /\ phone'[p] = "done"
    BY <1>5 DEF PhoneRefused
  <2>2. \A q \in Phones : q # p => phone'[q] = phone[q] /\ copy'[q] = copy[q]
    BY <1>5 DEF PhoneRefused
  <2>3. \A q \in Phones : InSeq(c, copy'[q]) => q # p /\ InSeq(c, copy[q])
    BY <2>1, <2>2, EmptyHoldsNothing
  <2>4. CASE InSeq(c, copy[p])
    <3>1. \A q \in Phones : ~InSeq(c, copy'[q])
      BY <2>3, <2>4 DEF InOneHand
    <3>2. runs'[c] = 0
      BY <2>1, <2>4 DEF InOneHand
    <3> QED
      BY <3>1, <3>2 DEF InOneHand
  <2>5. CASE ~InSeq(c, copy[p])
    <3>1. ~InSeq(c, queued')
      BY <2>1, <2>5
    <3> QED
      BY <2>1, <2>3, <3>1 DEF InOneHand
  <2> QED
    BY <2>4, <2>5
<1>6. ASSUME NEW p \in Phones, PhoneThrows(p) PROVE InOneHand(c)'
  <2>1. runs' = runs /\ queued' = queued /\ copy'[p] = <<>> /\ phone'[p] = "done"
    BY <1>6 DEF PhoneThrows
  <2>2. \A q \in Phones : q # p => phone'[q] = phone[q] /\ copy'[q] = copy[q]
    BY <1>6 DEF PhoneThrows
  <2> QED
    BY <2>1, <2>2, EmptyHoldsNothing DEF InOneHand
<1>7. ASSUME NEW p \in Phones, DeferredBlockExecuted(p) PROVE InOneHand(c)'
  <2> DEFINE h == Head(copy[p])
  <2>1. /\ copy[p] \in Seq(Blocks) /\ copy[p] # <<>> /\ h \in Blocks
        /\ phone[p] = "executing"
    BY <1>7 DEF DeferredBlockExecuted
  <2>2. ~InSeq(h, Tail(copy[p])) /\ InSeq(h, copy[p])
    BY <2>1, TailDistinct DEF Distinct
  <2>3. copy'[p] = Tail(copy[p]) /\ phone'[p] \in {"executing", "done"}
    BY <1>7 DEF DeferredBlockExecuted, ExecuteOrReturn
  <2>4. \A q \in Phones : q # p => phone'[q] = phone[q] /\ copy'[q] = copy[q]
    BY <1>7 DEF DeferredBlockExecuted, ExecuteOrReturn
  <2>5. queued' = queued
    BY <1>7 DEF DeferredBlockExecuted
  <2>6. CASE c = h
    <3>1. \A q \in Phones : ~InSeq(c, copy'[q])
      BY <2>2, <2>3, <2>4, <2>6 DEF InOneHand
    <3>2. runs'[c] = 1
      BY <1>7, <2>2, <2>6 DEF DeferredBlockExecuted, InOneHand
    <3>3. ~InSeq(c, queued')
      BY <2>1, <2>2, <2>5, <2>6 DEF InOneHand
    <3> QED
      BY <3>1, <3>2, <3>3 DEF InOneHand
  <2>7. CASE c # h
    <3>1. runs'[c] = runs[c]
      BY <1>7, <2>1, <2>7 DEF DeferredBlockExecuted
    <3>2. InSeq(c, copy'[p]) => InSeq(c, copy[p])
      BY <2>1, <2>3, TailWithin
    <3> QED
      BY <2>1, <2>3, <2>4, <2>5, <3>1, <3>2 DEF InOneHand
  <2> QED
    BY <2>6, <2>7
<1>8. CASE ConnectCommand
  BY <1>8, EmptyHoldsNothing DEF ConnectCommand, InOneHand
<1> QED
  BY <1>1, <1>2, <1>3, <1>4, <1>5, <1>6, <1>7, <1>8 DEF Next, BlockStep, PhoneStep

LEMMA OnceStep ==
  ASSUME OnceInv, [Next]_vars
  PROVE  Once'
<1> SUFFICES ASSUME NEW c \in Blocks, c \notin shared' PROVE InOneHand(c)'
  BY DEF Once
<1>1. CASE Next
  <2>1. shared \subseteq shared'
    BY <1>1 DEF Next, BlockStep, PhoneStep, CallBlock, SessionFound,
                ExecutionReturns, SessionThrows, SessionMissing, SubmitPhone,
                PhoneConnects, PhoneRefused, PhoneThrows, DeferredBlockExecuted,
                ConnectCommand
  <2>2. InOneHand(c)
    BY <2>1 DEF OnceInv, Once
  <2> QED
    BY <1>1, <2>2, OneHandStep
<1>2. CASE UNCHANGED vars
  BY <1>2 DEF vars, OnceInv, Once, InOneHand
<1> QED
  BY <1>1, <1>2

LEMMA OnceInitially == Init => OnceInv
<1> SUFFICES ASSUME Init PROVE OnceInv
  OBVIOUS
<1>1. TypeOK
  BY Initially DEF Inv
<1>2. IdleHoldsNothing
  BY DEF Init, IdleHoldsNothing
<1>3. HeldWasDeferred
  BY EmptyHoldsNothing DEF Init, HeldWasDeferred
<1>4. Distinct
  BY DEF Init, Distinct, NoRepeats
<1>5. Once
  <2> SUFFICES ASSUME NEW c \in Blocks PROVE InOneHand(c)
    BY DEF Once
  <2>1. runs[c] = 0 /\ \A p \in Phones : ~InSeq(c, copy[p])
    BY EmptyHoldsNothing DEF Init
  <2> QED
    BY <2>1 DEF InOneHand
<1> QED
  BY <1>1, <1>2, <1>3, <1>4, <1>5 DEF OnceInv

LEMMA OnceInductive == OnceInv /\ [Next]_vars => OnceInv'
<1> SUFFICES ASSUME OnceInv, [Next]_vars PROVE OnceInv'
  OBVIOUS
<1> QED
  BY TypeStep, IdleStep, HeldStep, DistinctStep, OnceStep DEF OnceInv

LEMMA OnceSuffices == OnceInv => DeferredBlocksRunOnce
  BY DEF OnceInv, Once, InOneHand, DeferredBlocksRunOnce, TypeOK

\* However blocks and submissions overlap, fail and are repeated, a deferred
\* block is executed at most once unless a submission copied it while another
\* that had copied it was connecting (onPhoneSubmitted).
THEOREM SharedOnlyRepeats == Spec => []DeferredBlocksRunOnce
  BY OnceInitially, OnceInductive, OnceSuffices, PTL DEF Spec

-----------------------------------------------------------------------------
(* Refinement.                                                              *)

LEMMA InitImplements == ExecInit => Init
  BY DEF ExecInit

\* The steps within an execution stutter; every other one is a step of the
\* coordinator with something beside it.
LEMMA StepImplements == [ExecNext]_<<vars, execVars>> => [Next]_vars
<1> SUFFICES ASSUME [ExecNext]_<<vars, execVars>> PROVE [Next]_vars
  OBVIOUS
<1>1. ASSUME NEW b \in Blocks, ExecBlockStep(b) PROVE [Next]_vars
  BY <1>1 DEF ExecBlockStep, CallAnswered, Next, BlockStep
<1>2. ASSUME NEW p \in Phones, ExecPhoneStep(p) PROVE [Next]_vars
  BY <1>2 DEF ExecPhoneStep, DeferredAnswered, Next, PhoneStep
<1>3. ASSUME NEW e \in Executors, Unblock(e) \/ Block(e) PROVE [Next]_vars
  BY <1>3 DEF Unblock, Block
<1>4. CASE ConnectCommand
  BY <1>4 DEF Next
<1>5. CASE UNCHANGED <<vars, execVars>>
  BY <1>5
<1> QED
  BY <1>1, <1>2, <1>3, <1>4, <1>5 DEF ExecNext

\* Executions that take several steps, fail and overlap leave the coordinator
\* what it is: every deferred block of a copy gets its turn, whatever the blocks
\* before it came to (onPhoneSubmitted's loop).
THEOREM Refinement == ExecSpec => ImplementsCoordinator
  BY InitImplements, StepImplements, PTL DEF ExecSpec, ImplementsCoordinator, Spec

-----------------------------------------------------------------------------
(* The log.                                                                 *)

ListInv == ExecTypeOK /\ OnceInv /\ OnlyDeferredBlocksUnlogged

LEMMA ExecTypeStep ==
  ASSUME ExecTypeOK, [ExecNext]_<<vars, execVars>>
  PROVE  ExecTypeOK'
<1>1. TypeOK'
  BY StepImplements, TypeStep DEF ExecTypeOK
<1>2. ASSUME NEW e \in Executors, Executing(e) PROVE Target(e) \in Senders
  <2>1. CASE e \in Phones
    <3>1. copy[e] \in Seq(Blocks) /\ copy[e] # <<>>
      BY <1>2, <2>1 DEF Executing, ExecTypeOK, TypeOK
    <3>2. Head(copy[e]) \in Blocks
      BY <3>1
    <3> QED
      BY <2>1, <3>2, SenderAssumption DEF Target
  <2>2. CASE e \notin Phones
    BY <2>2, SenderAssumption DEF Target, Executors
  <2> QED
    BY <2>1, <2>2
<1>3. step' \in [Executors -> Steps] /\ listed' \subseteq Senders /\ logged' \subseteq Blocks
  <2> DEFINE Typed == /\ step' \in [Executors -> Steps]
                      /\ listed' \subseteq Senders
                      /\ logged' \subseteq Blocks
  <2> USE DEF ExecTypeOK, Steps
  <2>1. ASSUME NEW b \in Blocks, CallAnswered(b) PROVE Typed
    BY <2>1 DEF CallAnswered, Answers
  <2>2. ASSUME NEW p \in Phones, DeferredAnswered(p) PROVE Typed
    BY <2>2 DEF DeferredAnswered, Answers
  <2>3. ASSUME NEW e \in Executors, Unblock(e) \/ Block(e) PROVE Typed
    BY <1>2, <2>3 DEF Unblock, Block
  <2>4. CASE UNCHANGED execVars
    BY <2>4 DEF execVars
  <2> QED
    BY <2>1, <2>2, <2>3, <2>4 DEF ExecNext, ExecBlockStep, ExecPhoneStep
<1> QED
  BY <1>1, <1>3 DEF ExecTypeOK

\* While the executions, the log and the list stand still, whoever is about to
\* answer still is, and what ran after a login still did.
LEMMA UnloggedUntouched ==
  ASSUME TypeOK, OnlyDeferredBlocksUnlogged, UNCHANGED execVars,
         \A b \in Blocks : caller[b] = "deferred" => caller'[b] = "deferred",
         \A e \in Executors :
           Executing(e) => Executing(e)' /\ Target(e)' = Target(e),
         UNCHANGED runs
  PROVE  OnlyDeferredBlocksUnlogged'
<1> SUFFICES ASSUME NEW s \in listed
             PROVE  Logged(s)' \/ BlockedAfterLogin(s)' \/ AboutToAnswer(s)'
  BY DEF OnlyDeferredBlocksUnlogged, execVars
<1>1. CASE Logged(s)
  BY <1>1 DEF Logged, execVars
<1>2. CASE BlockedAfterLogin(s)
  BY <1>2 DEF BlockedAfterLogin
<1>3. CASE AboutToAnswer(s)
  BY <1>3 DEF AboutToAnswer, execVars
<1> QED
  BY <1>1, <1>2, <1>3 DEF OnlyDeferredBlocksUnlogged

\* An execution that unblocks takes the sender off the list or leaves it; one
\* that blocks is about to answer.
LEMMA UnloggedWhileExecuting ==
  ASSUME ExecTypeOK, OnlyDeferredBlocksUnlogged,
         NEW e \in Executors, Unblock(e) \/ Block(e)
  PROVE  OnlyDeferredBlocksUnlogged'
<1> SUFFICES ASSUME NEW s \in listed'
             PROVE  Logged(s)' \/ BlockedAfterLogin(s)' \/ AboutToAnswer(s)'
  BY DEF OnlyDeferredBlocksUnlogged
<1>1. UNCHANGED <<logged, vars>>
  BY DEF Unblock, Block
<1>2. \A f \in Executors : (Executing(f)' <=> Executing(f)) /\ Target(f)' = Target(f)
  BY <1>1 DEF Executing, Target, vars
<1>3. CASE Block(e) /\ s = Target(e)
  <2>1. Executing(e) /\ step'[e] = "notice"
    BY <1>3 DEF Block, ExecTypeOK
  <2> QED
    BY <1>2, <1>3, <2>1 DEF AboutToAnswer
<1>4. CASE ~(Block(e) /\ s = Target(e))
  <2>1. s \in listed
    BY <1>4 DEF Unblock, Block
  <2>2. CASE AboutToAnswer(s)
    <3>1. PICK f \in Executors : Executing(f) /\ step[f] = "notice" /\ Target(f) = s
      BY <2>2 DEF AboutToAnswer
    <3>2. step'[f] = "notice"
      BY <3>1 DEF Unblock, Block, ExecTypeOK
    <3> QED
      BY <1>2, <3>1, <3>2 DEF AboutToAnswer
  <2>3. CASE Logged(s)
    BY <1>1, <2>3 DEF Logged
  <2>4. CASE BlockedAfterLogin(s)
    BY <1>1, <2>4 DEF BlockedAfterLogin, vars
  <2> QED
    BY <2>1, <2>2, <2>3, <2>4 DEF OnlyDeferredBlocksUnlogged
<1> QED
  BY <1>3, <1>4

\* A call that answers true leaves a row.
LEMMA UnloggedWhenCallAnswers ==
  ASSUME ExecTypeOK, OnlyDeferredBlocksUnlogged, ExecutorsAssumption,
         NEW b \in Blocks, CallAnswered(b)
  PROVE  OnlyDeferredBlocksUnlogged'
<1> SUFFICES ASSUME NEW s \in listed
             PROVE  Logged(s)' \/ BlockedAfterLogin(s)' \/ AboutToAnswer(s)'
  BY DEF OnlyDeferredBlocksUnlogged, CallAnswered, Answers
<1>1. /\ logged \subseteq logged' /\ (step[b] = "notice" => b \in logged')
      /\ UNCHANGED <<runs, phone, copy>> /\ b \notin Phones
      /\ caller[b] = "executing" /\ caller' = [caller EXCEPT ![b] = "returned"]
      /\ step' = [step EXCEPT ![b] = "unblock"]
  BY ExecutorsAssumption DEF CallAnswered, Answers, AnswersAt, ExecutionReturns
<1>2. CASE AboutToAnswer(s)
  <2>1. PICK f \in Executors : Executing(f) /\ step[f] = "notice" /\ Target(f) = s
    BY <1>2 DEF AboutToAnswer
  <2>2. CASE f = b
    BY <1>1, <2>1, <2>2 DEF Logged, Target
  <2>3. CASE f # b
    <3>1. Executing(f)' /\ step'[f] = "notice" /\ Target(f)' = s
      BY <1>1, <2>1, <2>3
      DEF Executing, Target, ExecTypeOK, TypeOK, Executors
    <3> QED
      BY <3>1 DEF AboutToAnswer
  <2> QED
    BY <2>2, <2>3
<1>3. CASE Logged(s)
  BY <1>1, <1>3 DEF Logged
<1>4. CASE BlockedAfterLogin(s)
  BY <1>1, <1>4 DEF BlockedAfterLogin, ExecTypeOK, TypeOK
<1> QED
  BY <1>2, <1>3, <1>4 DEF OnlyDeferredBlocksUnlogged

\* A deferred block that answers true has run, and it was deferred.
LEMMA UnloggedWhenDeferredAnswers ==
  ASSUME ExecTypeOK, HeldWasDeferred, OnlyDeferredBlocksUnlogged,
         ExecutorsAssumption, NEW p \in Phones, DeferredAnswered(p)
  PROVE  OnlyDeferredBlocksUnlogged'
<1> SUFFICES ASSUME NEW s \in listed
             PROVE  Logged(s)' \/ BlockedAfterLogin(s)' \/ AboutToAnswer(s)'
  BY DEF OnlyDeferredBlocksUnlogged, DeferredAnswered, Answers
<1> DEFINE h == Head(copy[p])
<1>1. copy[p] \in Seq(Blocks) /\ copy[p] # <<>> /\ h \in Blocks
  BY DEF DeferredAnswered, DeferredBlockExecuted, ExecTypeOK, TypeOK
<1>2. InSeq(h, copy[p]) /\ caller[h] = "deferred"
  <2>1. 1 \in 1..Len(copy[p]) /\ copy[p][1] = h
    BY <1>1
  <2> QED
    BY <1>1, <2>1 DEF InSeq, HeldWasDeferred
<1>3. /\ UNCHANGED <<caller, logged>> /\ phone[p] = "executing"
      /\ runs' = [runs EXCEPT ![h] = @ + 1]
      /\ step' = [step EXCEPT ![p] = "unblock"]
  BY DEF DeferredAnswered, DeferredBlockExecuted, Answers
<1>4. \A q \in Phones : q # p => phone'[q] = phone[q] /\ copy'[q] = copy[q]
  BY DEF DeferredAnswered, DeferredBlockExecuted, ExecuteOrReturn, ExecTypeOK, TypeOK
<1>5. \A b \in Blocks : runs'[b] >= runs[b] /\ runs[b] \in Nat
  BY <1>1, <1>3 DEF ExecTypeOK, TypeOK
<1>6. CASE AboutToAnswer(s)
  <2>1. PICK f \in Executors : Executing(f) /\ step[f] = "notice" /\ Target(f) = s
    BY <1>6 DEF AboutToAnswer
  <2>2. CASE f = p
    <3>1. runs'[h] > 0
      BY <1>1, <1>3 DEF ExecTypeOK, TypeOK
    <3>2. SenderOf[h] = s
      BY <2>1, <2>2 DEF Target
    <3> QED
      BY <1>1, <1>2, <1>3, <3>1, <3>2 DEF BlockedAfterLogin
  <2>3. CASE f # p
    <3>1. Executing(f)' /\ step'[f] = "notice" /\ Target(f)' = s
      BY <1>3, <1>4, <2>1, <2>3 DEF Executing, Target, ExecTypeOK
    <3> QED
      BY <3>1 DEF AboutToAnswer
  <2> QED
    BY <2>2, <2>3
<1>7. CASE Logged(s)
  BY <1>3, <1>7 DEF Logged
<1>8. CASE BlockedAfterLogin(s)
  <2>1. PICK b \in Blocks : SenderOf[b] = s /\ caller[b] = "deferred" /\ runs[b] > 0
    BY <1>8 DEF BlockedAfterLogin
  <2>2. runs'[b] > 0
    BY <1>3, <1>5, <2>1 DEF ExecTypeOK, TypeOK
  <2> QED
    BY <1>3, <2>1, <2>2 DEF BlockedAfterLogin
<1> QED
  BY <1>6, <1>7, <1>8 DEF OnlyDeferredBlocksUnlogged

LEMMA UnloggedStep ==
  ASSUME ListInv, [ExecNext]_<<vars, execVars>>
  PROVE  OnlyDeferredBlocksUnlogged'
<1> USE ExecutorsAssumption DEF ListInv
<1> TypeOK /\ HeldWasDeferred
  BY DEF OnceInv
<1>1. ASSUME NEW b \in Blocks, UNCHANGED execVars,
             \/ CallBlock(b) \/ SessionFound(b)
             \/ SessionThrows(b) \/ SessionMissing(b)
      PROVE  OnlyDeferredBlocksUnlogged'
  <2>1. UNCHANGED <<phone, copy, runs>>
    BY <1>1 DEF CallBlock, SessionFound, SessionThrows, SessionMissing
  <2>2. /\ caller[b] \in {"new", "session"}
        /\ \A c \in Blocks : c # b => caller'[c] = caller[c]
    BY <1>1 DEF CallBlock, SessionFound, SessionThrows, SessionMissing, TypeOK
  <2>3. \A c \in Blocks : caller[c] = "deferred" => caller'[c] = "deferred"
    BY <2>2
  <2>4. \A e \in Executors :
           Executing(e) => Executing(e)' /\ Target(e)' = Target(e)
    BY <2>1, <2>2 DEF Executing, Target, Executors
  <2> QED
    BY <1>1, <2>1, <2>3, <2>4, UnloggedUntouched
<1>2. ASSUME NEW p \in Phones, UNCHANGED execVars,
             \/ SubmitPhone(p) \/ PhoneConnects(p)
             \/ PhoneRefused(p) \/ PhoneThrows(p)
      PROVE  OnlyDeferredBlocksUnlogged'
  <2>1. UNCHANGED <<caller, runs>> /\ phone[p] \in {"new", "connecting"}
    BY <1>2 DEF SubmitPhone, PhoneConnects, PhoneRefused, PhoneThrows
  <2>2. \A q \in Phones : q # p => phone'[q] = phone[q] /\ copy'[q] = copy[q]
    BY <1>2 DEF SubmitPhone, PhoneConnects, ExecuteOrReturn, PhoneRefused,
                PhoneThrows, TypeOK
  <2>3. \A e \in Executors :
           Executing(e) => Executing(e)' /\ Target(e)' = Target(e)
    BY <2>1, <2>2 DEF Executing, Target, Executors
  <2> QED
    BY <1>2, <2>1, <2>3, UnloggedUntouched
<1>3. CASE ConnectCommand /\ UNCHANGED execVars
  <2>1. UNCHANGED <<caller, phone, copy, runs>>
    BY <1>3 DEF ConnectCommand
  <2> QED
    BY <1>3, <2>1, UnloggedUntouched DEF Executing, Target
<1>4. CASE UNCHANGED <<vars, execVars>>
  <2>1. UNCHANGED <<caller, phone, copy, runs>> /\ UNCHANGED execVars
    BY <1>4 DEF vars
  <2> QED
    BY <2>1, UnloggedUntouched DEF Executing, Target
<1> QED
  BY <1>1, <1>2, <1>3, <1>4, UnloggedWhileExecuting, UnloggedWhenCallAnswers,
     UnloggedWhenDeferredAnswers
  DEF ExecNext, ExecBlockStep, ExecPhoneStep

LEMMA ListInitially == ExecInit => ListInv
<1> SUFFICES ASSUME ExecInit PROVE ListInv
  OBVIOUS
<1>1. OnceInv
  BY OnceInitially DEF ExecInit
<1>2. ExecTypeOK
  BY <1>1 DEF ExecInit, ExecTypeOK, Steps, OnceInv
<1>3. OnlyDeferredBlocksUnlogged
  BY DEF ExecInit, OnlyDeferredBlocksUnlogged
<1> QED
  BY <1>1, <1>2, <1>3 DEF ListInv

LEMMA ListInductive == ListInv /\ [ExecNext]_<<vars, execVars>> => ListInv'
<1> SUFFICES ASSUME ListInv, [ExecNext]_<<vars, execVars>> PROVE ListInv'
  OBVIOUS
<1>1. OnceInv'
  BY StepImplements, OnceInductive DEF ListInv
<1>2. ExecTypeOK'
  BY ExecTypeStep DEF ListInv
<1> QED
  BY <1>1, <1>2, UnloggedStep DEF ListInv

LEMMA ListSuffices == ListInv => OnlyDeferredBlocksUnlogged
  BY DEF ListInv

\* Whoever is on the block list has a row in the log, or one is about to be
\* written, or was blocked by the loop over the deferred blocks, which writes
\* none (executeBlock, recordSuccessfulBlock, onPhoneSubmitted).
THEOREM ListedIsLogged == ExecSpec => []OnlyDeferredBlocksUnlogged
  BY ListInitially, ListInductive, ListSuffices, PTL DEF ExecSpec
=============================================================================
