--------------------------- MODULE Replies_proofs ---------------------------
(***************************************************************************)
(* Three properties of the replies, for any manifests, hashes and bodies.  *)
(*                                                                         *)
(* The third is about what seven passes over a text leave of its words.    *)
(* Each pass writes a sequence for each place of the text (FlattenSeq), so *)
(* the passes are put together by one lemma, MappedFlatten: to replace the *)
(* tokens of what was written is to replace those written for each place.  *)
(* It and the unfolding of FlattenSeq need inductions on lengths; the      *)
(* statement about a length is then membership in a set (Induction).       *)
(***************************************************************************)
EXTENDS Replies, SequenceTheorems, WellFoundedInduction, TLAPS

\* The variants a sender was given are those he would be given now.
PickedNow ==
  /\ DOMAIN picked = Tiers
  /\ \A t \in Tiers : picked[t] \subseteq {Variant(t)}

\* A tier's variant depends on the weights of the tier's manifest and on
\* nothing else that differs between tiers.
LEMMA VariantOfWeights ==
  ASSUME NEW s \in Tiers, NEW t \in Tiers,
         Weights(manifests[s]) = Weights(manifests[t])
  PROVE  Variant(s) = Variant(t)
BY DEF Variant, AssignTier

LEMMA PickKeepsPicked ==
  ASSUME PickedNow, NEW t \in Tiers, Picks(t), UNCHANGED <<manifests, hash>>
  PROVE  PickedNow'
<1>1. DOMAIN picked' = Tiers
  BY DEF PickedNow, Picks
<1>2. \A u \in Tiers : Variant(u)' = Variant(u)
  BY DEF Variant
<1>3. ASSUME NEW u \in Tiers PROVE picked'[u] \subseteq {Variant(u)}
  <2>1. CASE u = t
    BY <2>1, picked'[t] = picked[t] \cup {Variant(t)} DEF PickedNow, Picks
  <2>2. CASE u # t
    BY <2>2, picked'[u] = picked[u] DEF PickedNow, Picks
  <2> QED BY <2>1, <2>2
<1> QED BY <1>1, <1>2, <1>3 DEF PickedNow

LEMMA SameKeepsPicked ==
  ASSUME PickedNow, UNCHANGED <<manifests, hash, picked>>
  PROVE  PickedNow'
BY DEF PickedNow, Variant

\* Every step picks for one tier or for none.
LEMMA StepPicks ==
  ASSUME [Next]_vars
  PROVE  /\ UNCHANGED <<manifests, hash>>
         /\ UNCHANGED picked \/ \E t \in Tiers : Picks(t)
<1> USE DEF Tiers
<1>1. CASE Load BY <1>1 DEF Load
<1>2. CASE BeginWarning BY <1>2 DEF BeginWarning, Begin
<1>3. CASE SendReply BY <1>3 DEF SendReply, Sends
<1>4. CASE SendMedia BY <1>4 DEF SendMedia, Sends
<1>5. CASE SendPrompt BY <1>5 DEF SendPrompt, Sends
<1>6. CASE BeginBlock BY <1>6 DEF BeginBlock, Begin
<1>7. CASE Block BY <1>7 DEF Block
<1>8. CASE SendBlockMessage BY <1>8 DEF SendBlockMessage, Sends
<1>9. CASE BeginPolicy BY <1>9 DEF BeginPolicy, Begin
<1>10. CASE SendHTML BY <1>10 DEF SendHTML, Sends
<1>11. CASE SendPlain BY <1>11 DEF SendPlain, Sends
<1>12. CASE UNCHANGED vars BY <1>12 DEF vars
<1> QED BY <1>1, <1>2, <1>3, <1>4, <1>5, <1>6, <1>7, <1>8, <1>9, <1>10,
          <1>11, <1>12 DEF Next

\* Two tiers with the same weights give a sender the same place, whatever the
\* hash function does: only their common key is hashed.
THEOREM OneFlowOneVariant == Spec => []SameFlowSameVariant
<1>1. Init => PickedNow
  BY DEF Init, PickedNow
<1>2. PickedNow /\ [Next]_vars => PickedNow'
  BY StepPicks, PickKeepsPicked, SameKeepsPicked
<1>3. PickedNow => SameFlowSameVariant
  <2> SUFFICES ASSUME PickedNow, NEW s \in Tiers, NEW t \in Tiers,
                      Weights(manifests[s]) = Weights(manifests[t]),
                      NEW i \in picked[s], NEW j \in picked[t]
               PROVE  i = j
    BY DEF SameFlowSameVariant
  <2> QED BY VariantOfWeights DEF PickedNow
<1> QED BY <1>1, <1>2, <1>3, PTL DEF Spec

-----------------------------------------------------------------------------
\* What a handler may still send from where it is.
Coming(place) ==
  CASE place = "block message" -> {"block", "text"}
    [] place \in {"html", "plain"} -> {"text"}
    [] place = "reply" -> {"warning", "medium", "prompt", "text"}
    [] place = "media" -> {"medium", "prompt", "text"}
    [] place = "prompt" -> {"prompt", "text"}
    [] OTHER -> {}

MailIsSeq == \E S : mail \in Seq(S)

NothingTwice ==
  \A i, j \in DOMAIN mail : i # j => mail[i].contents \cap mail[j].contents = {}

NothingThatComes ==
  \A i \in DOMAIN mail : mail[i].contents \cap Coming(at) = {}

\* A handler's sends while no answer was lost.  Before its last send nothing
\* it still has to send has arrived; after it, the answer is right.
Honest ==
  /\ NothingTwice
  /\ NothingThatComes
  /\ at \in {"loading", "block"} => mail = <<>> /\ ~sent
  /\ at = "idle" /\ (\A i \in DOMAIN mail : mail[i].contents = {"text"})
       => (sent <=> mail # <<>>)

HonestInv == MailIsSeq /\ (~lost => Honest)

\* Appending keeps the messages that are there.
LEMMA AppendOne ==
  ASSUME NEW S, NEW q \in Seq(S), NEW m
  PROVE  /\ \E T : Append(q, m) \in Seq(T)
         /\ Append(q, m) # <<>>
         /\ DOMAIN q = 1..Len(q) /\ Len(q) \in Nat
         /\ DOMAIN Append(q, m) = 1..(Len(q) + 1)
         /\ \A i \in 1..Len(q) : Append(q, m)[i] = q[i]
         /\ Append(q, m)[Len(q) + 1] = m
<1> DEFINE T == S \cup {m}
<1>1. q \in Seq(T)
  OBVIOUS
<1>2. m \in T
  OBVIOUS
<1>3. Append(q, m) \in Seq(T)
  BY <1>1, <1>2
<1> QED BY <1>1, <1>2, <1>3

\* A message that arrives while it was still to come, and does not come again.
LEMMA Arrival ==
  ASSUME MailIsSeq, NothingTwice, NothingThatComes,
         NEW m, mail' = Append(mail, m),
         m.contents \subseteq Coming(at),
         m.contents \cap Coming(at') = {},
         Coming(at') \subseteq Coming(at)
  PROVE  (MailIsSeq /\ NothingTwice /\ NothingThatComes)' /\ mail' # <<>>
<1>1. PICK S : mail \in Seq(S)
  BY DEF MailIsSeq
<1>2. /\ \E T : Append(mail, m) \in Seq(T)
      /\ Append(mail, m) # <<>>
      /\ DOMAIN mail = 1..Len(mail) /\ Len(mail) \in Nat
      /\ DOMAIN Append(mail, m) = 1..(Len(mail) + 1)
      /\ \A i \in 1..Len(mail) : Append(mail, m)[i] = mail[i]
      /\ Append(mail, m)[Len(mail) + 1] = m
  BY <1>1, AppendOne, Zenon
<1>3. MailIsSeq' /\ mail' # <<>>
  BY <1>2, Zenon DEF MailIsSeq
<1>4. ASSUME NEW i \in DOMAIN mail'
      PROVE  \/ i \in DOMAIN mail /\ mail'[i] = mail[i]
             \/ i = Len(mail) + 1 /\ mail'[i] = m
  <2>1. i \in 1..(Len(mail) + 1)
    BY <1>2, <1>4
  <2>2. i \in 1..Len(mail) \/ i = Len(mail) + 1
    BY <1>2, <2>1
  <2> QED BY <1>2, <2>2
<1>5. \A i \in DOMAIN mail : mail[i].contents \cap m.contents = {}
  BY DEF NothingThatComes
<1>6. NothingTwice'
  BY <1>4, <1>5 DEF NothingTwice
<1>7. NothingThatComes'
  BY <1>4 DEF NothingThatComes
<1> QED BY <1>3, <1>6, <1>7

\* A send leaves the handler honest when what it sends was to come and does
\* not come again once the send is answered.
LEMMA SendIsHonest ==
  ASSUME HonestInv, NEW m, NEW onSuccess, NEW onError,
         Sends(m, onSuccess, onError),
         m.contents \subseteq Coming(at),
         m.contents \cap Coming(onSuccess) = {},
         Coming(onSuccess) \subseteq Coming(at),
         Coming(onError) \subseteq Coming(at),
         "text" \in Coming(at),
         onSuccess \notin {"loading", "block"},
         onError \notin {"loading", "block"}
  PROVE  HonestInv'
<1>1. CASE lost'
  <2>1. PICK S : mail \in Seq(S)
    BY DEF HonestInv, MailIsSeq
  <2>2. mail' = mail \/ mail' = Append(mail, m)
    BY DEF Sends
  <2>3. \E T : Append(mail, m) \in Seq(T)
    BY <2>1, AppendOne, Zenon
  <2>4. MailIsSeq'
    BY <2>1, <2>2, <2>3, Zenon DEF MailIsSeq
  <2> QED BY <1>1, <2>4 DEF HonestInv
<1>2. CASE ~lost' /\ mail' = Append(mail, m) /\ sent' = TRUE /\ at' = onSuccess
  <2>1. ~lost /\ Honest
    BY <1>2 DEF Sends, HonestInv
  <2>2. (MailIsSeq /\ NothingTwice /\ NothingThatComes)' /\ mail' # <<>>
    BY <1>2, <2>1, Arrival DEF HonestInv, Honest
  <2> QED BY <1>2, <2>2 DEF HonestInv, Honest
<1>3. CASE ~lost' /\ mail' = mail /\ sent' = FALSE /\ at' = onError
  <2>1. ~lost /\ Honest
    BY <1>3 DEF Sends, HonestInv
  <2>2. MailIsSeq' /\ NothingTwice'
    BY <1>3, <2>1 DEF HonestInv, Honest, MailIsSeq, NothingTwice
  <2>3. NothingThatComes'
    BY <1>3, <2>1 DEF Honest, NothingThatComes
  <2>4. ASSUME \A i \in DOMAIN mail : mail[i].contents = {"text"}
        PROVE  mail = <<>>
    <3>1. DOMAIN mail = {}
      BY <2>1, <2>4 DEF Honest, NothingThatComes
    <3>2. PICK S : mail \in Seq(S)
      BY DEF HonestInv, MailIsSeq
    <3> QED BY <3>1, <3>2
  <2> QED BY <1>3, <2>2, <2>3, <2>4 DEF HonestInv, Honest
<1> QED BY <1>1, <1>2, <1>3 DEF Sends

\* A handler that begins has sent nothing.
LEMMA BeginIsHonest ==
  ASSUME NEW place, Begin(place) PROVE HonestInv'
<1>1. mail' \in Seq({}) /\ DOMAIN mail' = {} /\ mail' = <<>> /\ sent' = FALSE
  BY DEF Begin
<1> QED BY <1>1 DEF HonestInv, MailIsSeq, Honest, NothingTwice, NothingThatComes

LEMMA StepIsHonest ==
  ASSUME HonestInv, [Next]_vars PROVE HonestInv'
<1>1. CASE Load
  <2>1. UNCHANGED <<mail, lost, sent>> /\ at = "loading" /\ at' \in {"idle", "refused"}
    BY <1>1 DEF Load
  <2> QED BY <2>1 DEF HonestInv, MailIsSeq, Honest, NothingTwice,
                      NothingThatComes, Coming
<1>2. CASE BeginWarning
  BY <1>2, BeginIsHonest DEF BeginWarning
<1>3. CASE SendReply
  <2> DEFINE m == Message({"warning"}, "html", <<>>)
  <2>1. PICK next \in {"media", "prompt", "idle"} : Sends(m, next, next)
    BY <1>3 DEF SendReply, AfterReply
  <2>2. /\ m.contents \subseteq Coming(at)
        /\ m.contents \cap Coming(next) = {}
        /\ Coming(next) \subseteq Coming(at)
        /\ "text" \in Coming(at)
        /\ next \notin {"loading", "block"}
    BY <1>3 DEF SendReply, Coming, Message
  <2> HIDE DEF m
  <2> QED BY <2>1, <2>2, SendIsHonest
<1>4. CASE SendMedia
  <2> DEFINE m == Message({"medium"}, "media", <<>>)
  <2>1. PICK next \in {"prompt", "idle"} : Sends(m, next, next)
    BY <1>4 DEF SendMedia, AfterReply
  <2>2. /\ m.contents \subseteq Coming(at)
        /\ m.contents \cap Coming(next) = {}
        /\ Coming(next) \subseteq Coming(at)
        /\ "text" \in Coming(at)
        /\ next \notin {"loading", "block"}
    BY <1>4 DEF SendMedia, Coming, Message
  <2> HIDE DEF m
  <2> QED BY <2>1, <2>2, SendIsHonest
<1>5. CASE SendPrompt
  <2> DEFINE m == Message({"prompt"}, "html", <<>>)
  <2>1. Sends(m, "idle", "idle")
    BY <1>5 DEF SendPrompt
  <2>2. /\ m.contents \subseteq Coming(at)
        /\ m.contents \cap Coming("idle") = {}
        /\ Coming("idle") \subseteq Coming(at)
        /\ "text" \in Coming(at)
        /\ "idle" \notin {"loading", "block"}
    BY <1>5 DEF SendPrompt, Coming, Message
  <2> HIDE DEF m
  <2> QED BY <2>1, <2>2, SendIsHonest
<1>6. CASE BeginBlock
  BY <1>6, BeginIsHonest DEF BeginBlock
<1>7. CASE Block
  <2>1. UNCHANGED <<mail, lost, sent>> /\ at = "block"
        /\ at' \in {"block message", "reply"}
    BY <1>7 DEF Block
  <2>2. ~lost => mail = <<>>
    BY <2>1 DEF HonestInv, Honest
  <2>3. MailIsSeq'
    BY <2>1 DEF HonestInv, MailIsSeq
  <2>4. mail = <<>> => (NothingTwice /\ NothingThatComes)'
    <3>1. mail = <<>> => DOMAIN mail = {}
      OBVIOUS
    <3> QED BY <2>1, <3>1 DEF NothingTwice, NothingThatComes
  <2> QED BY <2>1, <2>2, <2>3, <2>4 DEF HonestInv, Honest
<1>8. CASE SendBlockMessage
  <2> DEFINE m == Message({"block"}, "html", <<>>)
  <2>1. Sends(m, "html", "html")
    BY <1>8 DEF SendBlockMessage
  <2>2. /\ m.contents \subseteq Coming(at)
        /\ m.contents \cap Coming("html") = {}
        /\ Coming("html") \subseteq Coming(at)
        /\ "text" \in Coming(at)
        /\ "html" \notin {"loading", "block"}
    BY <1>8 DEF SendBlockMessage, Coming, Message
  <2> HIDE DEF m
  <2> QED BY <2>1, <2>2, SendIsHonest
<1>9. CASE BeginPolicy
  BY <1>9, BeginIsHonest DEF BeginPolicy
<1>10. CASE SendHTML
  <2> DEFINE m == Message({"text"}, "html", body)
  <2>1. Sends(m, "idle", "plain")
    BY <1>10 DEF SendHTML
  <2>2. /\ m.contents \subseteq Coming(at)
        /\ m.contents \cap Coming("idle") = {}
        /\ Coming("idle") \subseteq Coming(at)
        /\ Coming("plain") \subseteq Coming(at)
        /\ "text" \in Coming(at)
        /\ "idle" \notin {"loading", "block"}
        /\ "plain" \notin {"loading", "block"}
    BY <1>10 DEF SendHTML, Coming, Message
  <2> HIDE DEF m
  <2> QED BY <2>1, <2>2, SendIsHonest
<1>11. CASE SendPlain
  <2> DEFINE m == Message({"text"}, "plain", HtmlToPlainText(body))
  <2>1. Sends(m, "idle", "idle")
    BY <1>11 DEF SendPlain
  <2>2. /\ m.contents \subseteq Coming(at)
        /\ m.contents \cap Coming("idle") = {}
        /\ Coming("idle") \subseteq Coming(at)
        /\ "text" \in Coming(at)
        /\ "idle" \notin {"loading", "block"}
    BY <1>11 DEF SendPlain, Coming, Message
  <2> HIDE DEF m
  <2> QED BY <2>1, <2>2, SendIsHonest
<1>12. CASE UNCHANGED vars
  BY <1>12 DEF vars, HonestInv, MailIsSeq, Honest, NothingTwice, NothingThatComes
<1> QED BY <1>1, <1>2, <1>3, <1>4, <1>5, <1>6, <1>7, <1>8, <1>9, <1>10,
          <1>11, <1>12 DEF Next

\* While no answer is lost nobody gets a text twice and an owner's text counts
\* as sent exactly if it arrived, for any manifests, hashes and bodies.
THEOREM HonestAnswers == Spec => []OnlyLostAnswersMislead
<1>1. Init => HonestInv
  <2> SUFFICES ASSUME Init PROVE HonestInv
    OBVIOUS
  <2>1. mail \in Seq({}) /\ DOMAIN mail = {} /\ mail = <<>> /\ sent = FALSE
    BY DEF Init
  <2> QED BY <2>1 DEF Init, HonestInv, MailIsSeq, Honest, NothingTwice,
                      NothingThatComes
<1>2. HonestInv /\ [Next]_vars => HonestInv'
  BY StepIsHonest
<1>3. HonestInv => OnlyLostAnswersMislead
  BY DEF HonestInv, Honest, NothingTwice, OnlyLostAnswersMislead
<1> QED BY <1>1, <1>2, <1>3, PTL DEF Spec

-----------------------------------------------------------------------------
(* FlattenSeq.                                                              *)

\* Induction, with the statement about a number as membership in a set.
LEMMA Induction ==
  ASSUME NEW S, 0 \in S, \A n \in Nat : n \in S => n + 1 \in S
  PROVE  \A n \in Nat : n \in S
<1> DEFINE T == Nat \ S
           R == OpToRel(<, Nat)
<1> SUFFICES ASSUME T # {} PROVE FALSE
  OBVIOUS
<1>1. IsWellFoundedOn(R, Nat)
  BY NatLessThanWellFounded, Zenon
<1>2. \A x, y \in Nat : x < y => <<x, y>> \in R
  BY DEF OpToRel
<1>3. T \subseteq Nat
  OBVIOUS
<1> HIDE DEF R, T
<1>4. PICK x \in T : \A y \in T : ~ (<<y, x>> \in R)
  BY <1>1, <1>3, WFMin
<1>5. x \in Nat /\ x \notin S /\ x # 0
  BY <1>3 DEF T
<1>6. x - 1 \in Nat /\ x - 1 < x /\ x = (x - 1) + 1
  BY <1>5
<1>7. x - 1 \notin S
  BY <1>5, <1>6
<1>8. x - 1 \in T
  BY <1>6, <1>7 DEF T
<1> QED BY <1>2, <1>4, <1>5, <1>6, <1>8

\* FlattenSeq of what is written for the places 1..n: the recursive function it
\* is defined by.
Flattens(g, e, n) ==
  \A i \in 1..n : g[i] = IF i = 1 THEN e[i] ELSE g[i - 1] \o e[i]

LEMMA FlattensAt ==
  ASSUME NEW g, NEW e, NEW n \in Nat, Flattens(g, e, n)
  PROVE  /\ n # 0 => g[1] = e[1]
         /\ \A i \in 1..n : i + 1 <= n => g[i + 1] = g[i] \o e[i + 1]
<1>1. n # 0 => 1 \in 1..n
  OBVIOUS
<1>2. ASSUME NEW i \in 1..n, i + 1 <= n PROVE g[i + 1] = g[i] \o e[i + 1]
  <2>1. i + 1 \in 1..n /\ i + 1 # 1 /\ (i + 1) - 1 = i
    BY <1>2
  <2>2. g[i + 1] = g[(i + 1) - 1] \o e[i + 1]
    BY <2>1 DEF Flattens
  <2> QED BY <2>1, <2>2
<1> QED BY <1>1, <1>2 DEF Flattens

LEMMA FlattensExists ==
  ASSUME NEW e, NEW m \in Nat
  PROVE  \E g : Flattens(g, e, m)
<1> DEFINE S == {n \in Nat : \E g : Flattens(g, e, n)}
<1>1. 0 \in S
  BY DEF Flattens
<1>2. ASSUME NEW n \in Nat, n \in S PROVE n + 1 \in S
  <2>1. PICK g : Flattens(g, e, n)
    BY <1>2
  <2> DEFINE x == IF n = 0 THEN e[1] ELSE g[n] \o e[n + 1]
             h == [i \in 1..(n + 1) |-> IF i = n + 1 THEN x ELSE g[i]]
  <2>2. ASSUME NEW i \in 1..(n + 1)
        PROVE  h[i] = IF i = 1 THEN e[i] ELSE h[i - 1] \o e[i]
    <3>1. CASE i = n + 1
      <4>1. h[i] = x
        BY <3>1
      <4>2. n # 0 => i - 1 = n /\ h[i - 1] = g[n]
        BY <3>1
      <4> QED BY <3>1, <4>1, <4>2
    <3>2. CASE i # n + 1
      <4>1. i \in 1..n /\ h[i] = g[i]
        BY <3>2
      <4>2. g[i] = IF i = 1 THEN e[i] ELSE g[i - 1] \o e[i]
        BY <2>1, <4>1 DEF Flattens
      <4>3. i # 1 => h[i - 1] = g[i - 1]
        BY <4>1
      <4> HIDE DEF h, x
      <4> QED BY <4>1, <4>2, <4>3
    <3> QED BY <3>1, <3>2
  <2> HIDE DEF h
  <2>3. Flattens(h, e, n + 1)
    BY <2>2 DEF Flattens
  <2> QED BY <2>3
<1> HIDE DEF S
<1>3. m \in S
  BY <1>1, <1>2, Induction
<1> QED BY <1>3 DEF S

\* Two such functions agree as far as what is written agrees.
LEMMA FlattensUnique ==
  ASSUME NEW e, NEW d, NEW g, NEW h, NEW n \in Nat, NEW m \in Nat, n <= m,
         Flattens(g, e, n), Flattens(h, d, m), \A i \in 1..n : e[i] = d[i]
  PROVE  \A i \in 1..n : g[i] = h[i]
<1> DEFINE S == {i \in Nat : i \in 1..n => g[i] = h[i]}
<1>1. 0 \in S
  OBVIOUS
<1>2. ASSUME NEW i \in Nat, i \in S PROVE i + 1 \in S
  <2> SUFFICES ASSUME i + 1 \in 1..n PROVE g[i + 1] = h[i + 1]
    OBVIOUS
  <2>1. CASE i = 0
    <3>1. n # 0 /\ m # 0 /\ 1 \in 1..n
      BY <2>1
    <3>2. g[1] = e[1]
      BY <3>1, FlattensAt, Zenon
    <3>3. h[1] = d[1]
      BY <3>1, FlattensAt, Zenon
    <3> QED BY <2>1, <3>1, <3>2, <3>3
  <2>2. CASE i # 0
    <3>1. i \in 1..n /\ i \in 1..m /\ i + 1 <= n /\ i + 1 <= m
      BY <2>2
    <3>2. g[i + 1] = g[i] \o e[i + 1]
      BY <3>1, FlattensAt
    <3>3. h[i + 1] = h[i] \o d[i + 1]
      BY <3>1, FlattensAt
    <3> QED BY <1>2, <3>1, <3>2, <3>3
  <2> QED BY <2>1, <2>2
<1> HIDE DEF S
<1>3. \A i \in Nat : i \in S
  BY <1>1, <1>2, Induction
<1> QED BY <1>3 DEF S

\* The first n places of what is written
Upto(e, n) == [i \in 1..n |-> e[i]]

LEMMA FlattenIs ==
  ASSUME NEW T, NEW n \in Nat \ {0}, NEW e \in [1..n -> T], NEW g, Flattens(g, e, n)
  PROVE  FlattenSeq(e) = g[n]
<1> DEFINE c == CHOOSE f : f = [i \in 1..Len(e) |->
                                  IF i = 1 THEN e[i] ELSE f[i - 1] \o e[i]]
<1>1. Len(e) = n
  OBVIOUS
<1>2. FlattenSeq(e) = c[Len(e)]
  BY <1>1 DEF FlattenSeq
<1>3. \E f : f = [i \in 1..Len(e) |-> IF i = 1 THEN e[i] ELSE f[i - 1] \o e[i]]
  <2> DEFINE f == [i \in 1..n |-> g[i]]
             f2 == [i \in 1..n |-> IF i = 1 THEN e[i] ELSE f[i - 1] \o e[i]]
  <2>1. ASSUME NEW i \in 1..n PROVE f[i] = f2[i]
    <3>1. i # 1 => i - 1 \in 1..n /\ f[i - 1] = g[i - 1]
      OBVIOUS
    <3> QED BY <3>1 DEF Flattens
  <2>2. f = f2
    BY <2>1
  <2> QED BY <1>1, <2>2
<1>4. c = [i \in 1..Len(e) |-> IF i = 1 THEN e[i] ELSE c[i - 1] \o e[i]]
  BY <1>3
<1> HIDE DEF c
<1>5. Flattens(c, e, n)
  BY <1>1, <1>4 DEF Flattens
<1>6. n \in Nat /\ n <= n /\ n \in 1..n
  OBVIOUS
<1>7. c[n] = g[n]
  BY <1>5, <1>6, FlattensUnique
<1> QED BY <1>1, <1>2, <1>7

LEMMA FlattenEmpty ==
  ASSUME NEW e, e = <<>> PROVE FlattenSeq(e) = <<>>
BY DEF FlattenSeq

LEMMA FlattenStep ==
  ASSUME NEW T, NEW n \in Nat, NEW e \in [1..(n + 1) -> Seq(T)],
         FlattenSeq(Upto(e, n)) \in Seq(T)
  PROVE  FlattenSeq(e) = FlattenSeq(Upto(e, n)) \o e[n + 1]
<1> DEFINE m == n + 1
<1>1. m \in Nat \ {0} /\ m \in Nat /\ n <= m
  OBVIOUS
<1>2. e \in [1..m -> Seq(T)]
  OBVIOUS
<1> HIDE DEF m
<1>3. PICK g : Flattens(g, e, m)
  BY <1>1, FlattensExists
<1>4. FlattenSeq(e) = g[m]
  BY <1>1, <1>2, <1>3, FlattenIs
<1>5. CASE n = 0
  <2>1. Upto(e, n) = <<>>
    BY <1>5 DEF Upto
  <2>2. FlattenSeq(Upto(e, n)) = <<>>
    BY <2>1, FlattenEmpty
  <2>3. g[m] = e[m]
    <3>1. m # 0 /\ m = 1
      BY <1>5 DEF m
    <3>2. g[1] = e[1]
      BY <1>1, <1>3, <3>1, FlattensAt, Zenon
    <3> QED BY <3>1, <3>2
  <2>4. e[m] \in Seq(T)
    BY DEF m
  <2> QED BY <1>4, <2>2, <2>3, <2>4, ConcatEmptySeq DEF m
<1>6. CASE n # 0
  <2>1. PICK h : Flattens(h, Upto(e, n), n)
    BY FlattensExists
  <2>2. Upto(e, n) \in [1..n -> Seq(T)]
    BY DEF Upto
  <2>3. FlattenSeq(Upto(e, n)) = h[n]
    BY <1>6, <2>1, <2>2, FlattenIs
  <2>4. \A i \in 1..n : Upto(e, n)[i] = e[i]
    BY DEF Upto
  <2>5. \A i \in 1..n : h[i] = g[i]
    BY <1>1, <1>3, <2>1, <2>4, FlattensUnique
  <2>6. n \in 1..m /\ n \in 1..n /\ n + 1 <= m
    BY <1>6 DEF m
  <2>7. g[n + 1] = g[n] \o e[n + 1]
    BY <1>1, <1>3, <2>6, FlattensAt
  <2> QED BY <1>4, <2>3, <2>5, <2>6, <2>7 DEF m
<1> QED BY <1>5, <1>6

LEMMA FlattenType ==
  ASSUME NEW T, NEW m \in Nat, NEW d \in [1..m -> Seq(T)]
  PROVE  FlattenSeq(d) \in Seq(T)
<1> DEFINE S == {n \in Nat : \A e \in [1..n -> Seq(T)] : FlattenSeq(e) \in Seq(T)}
<1>1. 0 \in S
  <2>1. ASSUME NEW e \in [1..0 -> Seq(T)] PROVE FlattenSeq(e) \in Seq(T)
    <3>1. e = <<>>
      OBVIOUS
    <3>2. FlattenSeq(e) = <<>>
      BY <3>1, FlattenEmpty
    <3> QED BY <3>2
  <2> QED BY <2>1
<1>2. ASSUME NEW n \in Nat, n \in S PROVE n + 1 \in S
  <2>1. ASSUME NEW e \in [1..(n + 1) -> Seq(T)] PROVE FlattenSeq(e) \in Seq(T)
    <3>1. Upto(e, n) \in [1..n -> Seq(T)]
      BY DEF Upto
    <3>2. FlattenSeq(Upto(e, n)) \in Seq(T)
      BY <1>2, <3>1
    <3>3. FlattenSeq(e) = FlattenSeq(Upto(e, n)) \o e[n + 1]
      BY <3>2, FlattenStep
    <3>4. e[n + 1] \in Seq(T)
      OBVIOUS
    <3> QED BY <3>2, <3>3, <3>4, ConcatProperties
  <2> QED BY <2>1
<1> HIDE DEF S
<1>3. m \in S
  BY <1>1, <1>2, Induction
<1> QED BY <1>3 DEF S

\* Concatenation under a name, which the provers then leave in one piece
Joined(a, b) == a \o b

LEMMA JoinedFacts ==
  ASSUME NEW T, NEW a \in Seq(T), NEW b \in Seq(T), NEW c \in Seq(T)
  PROVE  /\ Joined(a, b) \in Seq(T)
         /\ Joined(a, <<>>) = a
         /\ Joined(<<>>, a) = a
         /\ Joined(Joined(a, b), c) = Joined(a, Joined(b, c))
<1>1. a \o b \in Seq(T)
  OBVIOUS
<1>2. a \o <<>> = a /\ <<>> \o a = a
  OBVIOUS
<1>3. (a \o b) \o c = a \o (b \o c)
  OBVIOUS
<1> QED BY <1>1, <1>2, <1>3 DEF Joined

LEMMA FlattenOneMore ==
  ASSUME NEW T, NEW n \in Nat, NEW e \in [1..(n + 1) -> Seq(T)]
  PROVE  FlattenSeq(e) = Joined(FlattenSeq(Upto(e, n)), e[n + 1])
<1>1. Upto(e, n) \in [1..n -> Seq(T)]
  BY DEF Upto
<1> QED BY <1>1, FlattenType, FlattenStep DEF Joined

-----------------------------------------------------------------------------
(* Texts of which each token is replaced by a sequence.                     *)

Translations(T, U) == [T -> Seq(U)]

Mapped(f, text) == FlattenSeq([i \in DOMAIN text |-> f[text[i]]])

LEMMA MappedType ==
  ASSUME NEW T, NEW U, NEW f \in Translations(T, U), NEW text \in Seq(T)
  PROVE  Mapped(f, text) \in Seq(U)
<1>1. [i \in DOMAIN text |-> f[text[i]]] \in [1..Len(text) -> Seq(U)]
  BY DEF Translations
<1>2. Len(text) \in Nat
  OBVIOUS
<1> QED BY <1>1, <1>2, FlattenType DEF Mapped

LEMMA MappedEmpty ==
  ASSUME NEW f PROVE Mapped(f, <<>>) = <<>>
<1>1. [i \in DOMAIN <<>> |-> f[<<>>[i]]] = <<>>
  OBVIOUS
<1> QED BY <1>1, FlattenEmpty DEF Mapped

LEMMA MappedAppend ==
  ASSUME NEW T, NEW U, NEW f \in Translations(T, U), NEW text \in Seq(T), NEW t \in T
  PROVE  Mapped(f, Append(text, t)) = Joined(Mapped(f, text), f[t])
<1> DEFINE n == Len(text)
           longer == Append(text, t)
           e == [i \in DOMAIN longer |-> f[longer[i]]]
<1>1. /\ n \in Nat /\ DOMAIN text = 1..n /\ DOMAIN longer = 1..(n + 1)
      /\ longer[n + 1] = t /\ \A i \in 1..n : longer[i] = text[i]
      /\ longer \in Seq(T)
  OBVIOUS
<1> HIDE DEF n, longer
<1>2. e \in [1..(n + 1) -> Seq(U)]
  <2>1. \A i \in 1..(n + 1) : longer[i] \in T
    BY <1>1
  <2> QED BY <1>1, <2>1 DEF Translations
<1>3. Upto(e, n) = [i \in DOMAIN text |-> f[text[i]]]
  BY <1>1 DEF Upto
<1>4. e[n + 1] = f[t]
  BY <1>1
<1>5. FlattenSeq(e) = Joined(FlattenSeq(Upto(e, n)), e[n + 1])
  BY <1>1, <1>2, FlattenOneMore
<1> QED BY <1>3, <1>4, <1>5 DEF Mapped, longer

LEMMA MappedOne ==
  ASSUME NEW T, NEW U, NEW f \in Translations(T, U), NEW t \in T
  PROVE  Mapped(f, <<t>>) = f[t]
<1>1. <<t>> = Append(<<>>, t) /\ <<>> \in Seq(T)
  OBVIOUS
<1>2. Mapped(f, <<t>>) = Joined(<<>>, f[t])
  BY <1>1, MappedAppend, MappedEmpty
<1>3. f[t] \in Seq(U)
  BY DEF Translations
<1> QED BY <1>2, <1>3, JoinedFacts

LEMMA MappedConcat ==
  ASSUME NEW T, NEW U, NEW f \in Translations(T, U), NEW a \in Seq(T), NEW c \in Seq(T)
  PROVE  Mapped(f, Joined(a, c)) = Joined(Mapped(f, a), Mapped(f, c))
<1> DEFINE S == {n \in Nat : \A b \in Seq(T) : Len(b) = n =>
                   Mapped(f, Joined(a, b)) = Joined(Mapped(f, a), Mapped(f, b))}
<1>1. 0 \in S
  <2>1. ASSUME NEW b \in Seq(T), Len(b) = 0
        PROVE  Mapped(f, Joined(a, b)) = Joined(Mapped(f, a), Mapped(f, b))
    <3>1. b = <<>>
      BY <2>1
    <3>2. Joined(a, b) = a
      BY <3>1, JoinedFacts
    <3>3. Mapped(f, b) = <<>>
      BY <3>1, MappedEmpty
    <3>4. Mapped(f, a) \in Seq(U)
      BY MappedType
    <3>5. Joined(Mapped(f, a), <<>>) = Mapped(f, a)
      BY <3>4, JoinedFacts
    <3> QED BY <3>2, <3>3, <3>5
  <2> QED BY <2>1
<1>2. ASSUME NEW n \in Nat, n \in S PROVE n + 1 \in S
  <2>1. ASSUME NEW b \in Seq(T), Len(b) = n + 1
        PROVE  Mapped(f, Joined(a, b)) = Joined(Mapped(f, a), Mapped(f, b))
    <3> DEFINE t == b[n + 1]
               p == [i \in 1..n |-> b[i]]
    <3>1. t \in T /\ p \in Seq(T) /\ Len(p) = n
      BY <2>1
    <3>2. b = Append(p, t)
      BY <2>1
    <3> HIDE DEF t, p
    <3>3. Joined(a, p) \in Seq(T) /\ Joined(a, b) = Append(Joined(a, p), t)
      BY <3>1, <3>2 DEF Joined
    <3>4. Mapped(f, Joined(a, b)) = Joined(Mapped(f, Joined(a, p)), f[t])
      BY <3>1, <3>3, MappedAppend
    <3>5. Mapped(f, b) = Joined(Mapped(f, p), f[t])
      BY <3>1, <3>2, MappedAppend
    <3>6. Mapped(f, Joined(a, p)) = Joined(Mapped(f, a), Mapped(f, p))
      BY <1>2, <3>1
    <3>7. f[t] \in Seq(U) /\ Mapped(f, a) \in Seq(U) /\ Mapped(f, p) \in Seq(U)
      BY <3>1, MappedType DEF Translations
    <3>8. Joined(Joined(Mapped(f, a), Mapped(f, p)), f[t])
            = Joined(Mapped(f, a), Joined(Mapped(f, p), f[t]))
      <4> DEFINE x == Mapped(f, a)
                 y == Mapped(f, p)
                 z == f[t]
      <4>1. x \in Seq(U) /\ y \in Seq(U) /\ z \in Seq(U)
        BY <3>7
      <4> HIDE DEF x, y, z
      <4>2. Joined(Joined(x, y), z) = Joined(x, Joined(y, z))
        BY <4>1, JoinedFacts
      <4> QED BY <4>2 DEF x, y, z
    <3> QED BY <3>4, <3>5, <3>6, <3>8
  <2> QED BY <2>1
<1> HIDE DEF S
<1>3. Len(c) \in S
  BY <1>1, <1>2, Induction
<1> QED BY <1>3 DEF S

Each(f, n, e) == [i \in 1..n |-> Mapped(f, e[i])]

\* What is written for the places of a text can be replaced place by place.
LEMMA MappedFlatten ==
  ASSUME NEW T, NEW U, NEW f \in Translations(T, U),
         NEW m \in Nat, NEW d \in [1..m -> Seq(T)]
  PROVE  Mapped(f, FlattenSeq(d)) = FlattenSeq(Each(f, m, d))
<1> DEFINE S == {n \in Nat : \A e \in [1..n -> Seq(T)] :
                   Mapped(f, FlattenSeq(e)) = FlattenSeq(Each(f, n, e))}
<1>1. 0 \in S
  <2>1. ASSUME NEW e \in [1..0 -> Seq(T)]
        PROVE  Mapped(f, FlattenSeq(e)) = FlattenSeq(Each(f, 0, e))
    <3>1. e = <<>> /\ Each(f, 0, e) = <<>>
      BY DEF Each
    <3>2. FlattenSeq(e) = <<>> /\ FlattenSeq(Each(f, 0, e)) = <<>>
      BY <3>1, FlattenEmpty
    <3> QED BY <3>2, MappedEmpty
  <2> QED BY <2>1
<1>2. ASSUME NEW n \in Nat, n \in S PROVE n + 1 \in S
  <2>1. ASSUME NEW e \in [1..(n + 1) -> Seq(T)]
        PROVE  Mapped(f, FlattenSeq(e)) = FlattenSeq(Each(f, n + 1, e))
    <3>1. Upto(e, n) \in [1..n -> Seq(T)] /\ e[n + 1] \in Seq(T)
      BY DEF Upto
    <3>2. FlattenSeq(e) = Joined(FlattenSeq(Upto(e, n)), e[n + 1])
      BY FlattenOneMore
    <3>3. FlattenSeq(Upto(e, n)) \in Seq(T)
      BY <3>1, FlattenType
    <3>4. Mapped(f, FlattenSeq(e))
            = Joined(Mapped(f, FlattenSeq(Upto(e, n))), Mapped(f, e[n + 1]))
      <4> DEFINE x == FlattenSeq(Upto(e, n))
                 y == e[n + 1]
      <4>1. x \in Seq(T) /\ y \in Seq(T) /\ FlattenSeq(e) = Joined(x, y)
        BY <3>1, <3>2, <3>3
      <4> HIDE DEF x, y
      <4>2. Mapped(f, Joined(x, y)) = Joined(Mapped(f, x), Mapped(f, y))
        BY <4>1, MappedConcat
      <4> QED BY <4>1, <4>2 DEF x, y
    <3>5. Mapped(f, FlattenSeq(Upto(e, n))) = FlattenSeq(Each(f, n, Upto(e, n)))
      BY <1>2, <3>1
    <3>6. Each(f, n + 1, e) \in [1..(n + 1) -> Seq(U)]
      <4>1. \A i \in 1..(n + 1) : Mapped(f, e[i]) \in Seq(U)
        BY MappedType
      <4> QED BY <4>1 DEF Each
    <3>7. Upto(Each(f, n + 1, e), n) = Each(f, n, Upto(e, n))
      BY DEF Upto, Each
    <3>8. Each(f, n + 1, e)[n + 1] = Mapped(f, e[n + 1])
      BY DEF Each
    <3>9. FlattenSeq(Each(f, n + 1, e))
            = Joined(FlattenSeq(Upto(Each(f, n + 1, e), n)), Each(f, n + 1, e)[n + 1])
      BY <3>6, FlattenOneMore
    <3> QED BY <3>4, <3>5, <3>7, <3>8, <3>9
  <2> QED BY <2>1
<1> HIDE DEF S
<1>3. m \in S
  BY <1>1, <1>2, Induction
<1> QED BY <1>3 DEF S

-----------------------------------------------------------------------------
(* The passes of htmlToPlainText, by what they leave of the words.          *)

\* What the passes write, and the tokens of all texts: the prover is told
\* nothing of single strings.
Written == Layout \cup Tags \cup {"url", "&", "<", ">", "quote", "apostrophe"}
Token == STRING \cup Written

word == [t \in Token |-> IF t \in Layout THEN <<>> ELSE <<t>>]
plain == [t \in Token |-> word[Decoded(t)]]
seen == [t \in Token |-> IF t \in Tags \cup {"<", ">"} THEN <<>> ELSE plain[t]]

LEMMA DecodedType == \A t \in Token : Decoded(t) \in Token
<1> SUFFICES ASSUME NEW t \in Token PROVE Decoded(t) \in Token
  OBVIOUS
<1>1. Decoded(t) \in {Space, "&", "<", ">", "quote", "apostrophe", t}
  BY DEF Decoded
<1>2. {Space, "&", "<", ">", "quote", "apostrophe"} \subseteq Token
  BY DEF Token, Written, Layout
<1> QED BY <1>1, <1>2

LEMMA TokenFunctions ==
  /\ word \in Translations(Token, Token)
  /\ plain \in Translations(Token, Token)
  /\ seen \in Translations(Token, Token)
<1>1. word \in Translations(Token, Token)
  BY DEF word, Translations
<1>2. plain \in Translations(Token, Token)
  BY <1>1, DecodedType DEF plain, Translations
<1>3. seen \in Translations(Token, Token)
  BY <1>2 DEF seen, Translations
<1> QED BY <1>1, <1>2, <1>3

\* What is left when some places are dropped
LEMMA KeptType ==
  ASSUME NEW T, NEW text \in Seq(T), NEW P
  PROVE  Kept(text, P) \in Seq(T)
<1>1. [i \in DOMAIN text |-> IF i \in P THEN <<text[i]>> ELSE <<>>]
        \in [1..Len(text) -> Seq(T)]
  OBVIOUS
<1>2. Len(text) \in Nat
  OBVIOUS
<1> QED BY <1>1, <1>2, FlattenType DEF Kept

\* The function g stands for f where the places are dropped that are not in P.
DropsBut(P, f, g, text) ==
  \A i \in DOMAIN text : g[text[i]] = IF i \in P THEN f[text[i]] ELSE <<>>

LEMMA KeptMapped ==
  ASSUME NEW T, NEW U, NEW f \in Translations(T, U), NEW g \in Translations(T, U),
         NEW text \in Seq(T), NEW P, DropsBut(P, f, g, text)
  PROVE  Mapped(f, Kept(text, P)) = Mapped(g, text)
<1> DEFINE n == Len(text)
           e == [i \in DOMAIN text |-> IF i \in P THEN <<text[i]>> ELSE <<>>]
<1>1. n \in Nat /\ DOMAIN text = 1..n /\ \A i \in 1..n : text[i] \in T
  OBVIOUS
<1>2. e \in [1..n -> Seq(T)]
  BY <1>1
<1>3. \A i \in 1..n : e[i] = IF i \in P THEN <<text[i]>> ELSE <<>>
  BY <1>1
<1>4. Kept(text, P) = FlattenSeq(e)
  BY DEF Kept
<1> HIDE DEF n, e
<1>5. Mapped(f, FlattenSeq(e)) = FlattenSeq(Each(f, n, e))
  <2>1. n \in Nat
    BY <1>1
  <2> QED BY <2>1, <1>2, MappedFlatten
<1>6. ASSUME NEW i \in 1..n PROVE Mapped(f, e[i]) = g[text[i]]
  <2> USE DEF DropsBut
  <2>1. CASE i \in P
    <3>1. text[i] \in T
      BY <1>1
    <3> DEFINE t == text[i]
    <3> HIDE DEF t
    <3>2. t \in T
      BY <3>1 DEF t
    <3>4. Mapped(f, <<t>>) = f[t]
      BY <3>2, MappedOne
    <3>3. g[text[i]] = f[text[i]]
      BY <1>1, <2>1
    <3> QED BY <1>3, <2>1, <3>3, <3>4 DEF t
  <2>2. CASE i \notin P
    <3>1. g[text[i]] = <<>>
      BY <1>1, <2>2
    <3> QED BY <1>3, <2>2, <3>1, MappedEmpty
  <2> QED BY <2>1, <2>2
<1>7. Each(f, n, e) = [i \in DOMAIN text |-> g[text[i]]]
  BY <1>1, <1>6 DEF Each
<1> QED BY <1>4, <1>5, <1>7 DEF Mapped

LEMMA WordsMapped ==
  ASSUME NEW text \in Seq(Token)
  PROVE  Words(text) = Mapped(word, text)
<1> DEFINE P == {i \in DOMAIN text : text[i] \notin Layout}
<1>1. \A i \in DOMAIN text :
        word[text[i]] = IF i \in P THEN <<text[i]>> ELSE <<>>
  BY DEF word
<1>2. [i \in DOMAIN text |-> word[text[i]]]
        = [i \in DOMAIN text |-> IF i \in P THEN <<text[i]>> ELSE <<>>]
  BY <1>1
<1> QED BY <1>2 DEF Words, Kept, Mapped

\* Dropping layout changes no word.
LEMMA KeptWords ==
  ASSUME NEW text \in Seq(Token), NEW P,
         \A i \in DOMAIN text : i \notin P => text[i] \in Layout
  PROVE  Kept(text, P) \in Seq(Token) /\ Words(Kept(text, P)) = Words(text)
<1>1. Kept(text, P) \in Seq(Token)
  BY KeptType
<1>2. \A i \in DOMAIN text : text[i] \in Token
  OBVIOUS
<1>3. DropsBut(P, word, word, text)
  BY <1>2 DEF word, DropsBut
<1>4. Mapped(word, Kept(text, P)) = Mapped(word, text)
  <2>1. word \in Translations(Token, Token)
    BY TokenFunctions
  <2> QED BY <1>3, <2>1, KeptMapped
<1> QED BY <1>1, <1>4, WordsMapped

LEMMA TrimWords ==
  ASSUME NEW text \in Seq(Token)
  PROVE  Words(Trim(text)) = Words(text)
<1> DEFINE printed == {i \in DOMAIN text : text[i] \notin {Newline, Space}}
           P == {i \in DOMAIN text : \E j, k \in printed : j <= i /\ i <= k}
<1>1. ASSUME NEW i \in DOMAIN text, i \notin P PROVE text[i] \in Layout
  <2>1. i \in Nat
    OBVIOUS
  <2>2. i \notin printed
    BY <1>1, <2>1
  <2> QED BY <2>2 DEF Layout
<1>2. Trim(text) = Kept(text, P)
  BY DEF Trim
<1> HIDE DEF P
<1> QED BY <1>1, <1>2, KeptWords

LEMMA CollapseWords ==
  ASSUME NEW text \in Seq(Token)
  PROVE  /\ CollapseWhitespace(text) \in Seq(Token)
         /\ Words(CollapseWhitespace(text)) = Words(text)
<1> DEFINE At(i) == IF i \in DOMAIN text THEN text[i] ELSE "none"
           Dropped(i) == \/ text[i] = Space /\ At(i + 1) = Newline
                         \/ \A j \in (i - 2)..i : At(j) = Newline
           P == {i \in DOMAIN text : ~Dropped(i)}
<1>1. ASSUME NEW i \in DOMAIN text, i \notin P PROVE text[i] \in Layout
  <2>1. i \in Nat /\ i \in (i - 2)..i
    OBVIOUS
  <2>2. Dropped(i)
    BY <1>1
  <2>3. text[i] = Space \/ text[i] = Newline
    BY <2>1, <2>2
  <2> QED BY <2>3 DEF Layout
<1>2. CollapseWhitespace(text) = Kept(text, P)
  BY DEF CollapseWhitespace
<1> HIDE DEF P
<1> QED BY <1>1, <1>2, KeptWords

LEMMA DecodeWords ==
  ASSUME NEW text \in Seq(Token)
  PROVE  /\ DecodeHtmlEntities(text) \in Seq(Token)
         /\ Words(DecodeHtmlEntities(text)) = Mapped(plain, text)
<1> DEFINE d == DecodeHtmlEntities(text)
<1>1. DOMAIN text = 1..Len(text) /\ Len(text) \in Nat
      /\ \A i \in DOMAIN text : text[i] \in Token
  OBVIOUS
<1>2. DOMAIN d = DOMAIN text /\ \A i \in DOMAIN text : d[i] = Decoded(text[i])
  BY DEF DecodeHtmlEntities
<1>3. d \in Seq(Token)
  <2>1. d \in [1..Len(text) -> Token]
    BY <1>1, DecodedType DEF DecodeHtmlEntities
  <2> QED BY <1>1, <2>1
<1> HIDE DEF d
<1>4. [i \in DOMAIN d |-> word[d[i]]] = [i \in DOMAIN text |-> plain[text[i]]]
  BY <1>1, <1>2 DEF plain
<1>5. Mapped(word, d) = Mapped(plain, text)
  BY <1>4 DEF Mapped
<1> QED BY <1>3, <1>5, WordsMapped DEF d

\* Token by token, writing changes what is seen in no other way than `d` says.
LEMMA WrittenSeen ==
  ASSUME NEW T, NEW U, NEW f \in Translations(T, U), NEW text \in Seq(T),
         NEW d \in [1..Len(text) -> Seq(T)],
         \A i \in 1..Len(text) : Mapped(f, d[i]) = f[text[i]]
  PROVE  Mapped(f, FlattenSeq(d)) = Mapped(f, text)
<1> DEFINE n == Len(text)
<1>1. n \in Nat
  OBVIOUS
<1>2. Mapped(f, FlattenSeq(d)) = FlattenSeq(Each(f, n, d))
  BY <1>1, MappedFlatten
<1>3. Each(f, n, d) = [i \in DOMAIN text |-> f[text[i]]]
  BY DEF Each
<1> QED BY <1>2, <1>3 DEF Mapped

Unsigned == Token \ {"<"}

LEMMA UnsignedText ==
  ASSUME NEW text \in Seq(Unsigned)
  PROVE  /\ text \in Seq(Token)
         /\ Len(text) \in Nat
         /\ DOMAIN text = 1..Len(text)
         /\ \A i \in DOMAIN text : text[i] \in Token /\ text[i] # "<"
<1>1. Unsigned \subseteq Token
  BY DEF Unsigned
<1>2. text \in Seq(Token)
  BY <1>1, SeqMonotonic
<1>3. \A i \in DOMAIN text : text[i] \in Unsigned
  OBVIOUS
<1> QED BY <1>2, <1>3 DEF Unsigned

\* Without a "<" of its own a text loses its tags and nothing else.
LEMMA StripSeen ==
  ASSUME NEW text \in Seq(Unsigned)
  PROVE  /\ StripTags(text) \in Seq(Token)
         /\ Mapped(plain, StripTags(text)) = Mapped(seen, text)
<1> DEFINE InTag(i) == \E j \in 1..(i - 1) :
                         /\ text[j] = "<"
                         /\ \A k \in j..(i - 1) : text[k] \notin Tags \cup {">"}
           P == {i \in DOMAIN text : /\ text[i] \notin Tags \cup {"<", ">"}
                                     /\ ~InTag(i)}
<1>1. StripTags(text) = Kept(text, P)
  BY DEF StripTags
<1>2. \A i \in DOMAIN text : ~InTag(i)
  <2>1. ASSUME NEW i \in DOMAIN text, NEW j \in 1..(i - 1) PROVE text[j] # "<"
    <3>1. i \in 1..Len(text) /\ Len(text) \in Nat
      BY UnsignedText
    <3>2. j \in DOMAIN text
      BY <3>1, UnsignedText
    <3> QED BY <3>2, UnsignedText
  <2> QED BY <2>1
<1>3. DropsBut(P, plain, seen, text)
  <2>1. \A i \in DOMAIN text : i \in P <=> text[i] \notin Tags \cup {"<", ">"}
    BY <1>2
  <2>2. \A i \in DOMAIN text : text[i] \in Token
    BY UnsignedText
  <2> HIDE DEF P
  <2> QED BY <2>1, <2>2 DEF DropsBut, seen
<1> HIDE DEF P
<1>4. text \in Seq(Token)
  BY UnsignedText
<1>5. Mapped(plain, Kept(text, P)) = Mapped(seen, text)
  BY <1>3, <1>4, KeptMapped, TokenFunctions
<1> QED BY <1>1, <1>4, <1>5, KeptType

\* What is seen of a tag or of white space
LEMMA NothingSeen ==
  \A t \in Tags \cup Layout : t \in Token /\ seen[t] = <<>>
<1> SUFFICES ASSUME NEW t \in Tags \cup Layout
             PROVE  t \in Token /\ seen[t] = <<>>
  OBVIOUS
<1>1. t \in Token
  BY DEF Token, Written
<1>2. CASE t \in Tags
  BY <1>1, <1>2 DEF seen
<1>3. CASE t \in Layout /\ t \notin Tags
  <2>1. Decoded(t) = t
    BY <1>3 DEF Layout, Decoded, Newline, Space, Bullet
  <2> QED BY <1>1, <1>3, <2>1 DEF seen, plain, word
<1> QED BY <1>1, <1>2, <1>3

LEMMA StructureSeen ==
  ASSUME NEW text \in Seq(Unsigned)
  PROVE  /\ ApplyStructuralTags(text) \in Seq(Unsigned)
         /\ Mapped(seen, ApplyStructuralTags(text)) = Mapped(seen, text)
<1> DEFINE n == Len(text)
           d == [i \in DOMAIN text |-> Structured(text[i])]
<1>1. n \in Nat /\ DOMAIN text = 1..n
      /\ \A i \in 1..n : text[i] \in Token /\ text[i] # "<" /\ text[i] \in Unsigned
  BY UnsignedText DEF Unsigned
<1>2. Newline \in Unsigned /\ Bullet \in Unsigned
  BY DEF Unsigned, Token, Written, Layout, Newline, Bullet
<1>3. \A t \in Unsigned : Structured(t) \in Seq(Unsigned)
  <2> SUFFICES ASSUME NEW t \in Unsigned PROVE Structured(t) \in Seq(Unsigned)
    OBVIOUS
  <2>1. Structured(t) \in {<<Newline, t>>, <<Bullet, t>>, <<t>>}
    BY DEF Structured
  <2>2. \A a \in Unsigned : <<a>> \in Seq(Unsigned) /\ <<a, t>> \in Seq(Unsigned)
    OBVIOUS
  <2> QED BY <1>2, <2>1, <2>2
<1>4. d \in [1..n -> Seq(Unsigned)]
  BY <1>1, <1>3
<1>5. d \in [1..n -> Seq(Token)]
  <2>1. Seq(Unsigned) \subseteq Seq(Token)
    BY UnsignedText
  <2> QED BY <1>4, <2>1
<1>6. ASSUME NEW i \in 1..n PROVE Mapped(seen, d[i]) = seen[text[i]]
  <2> DEFINE t == text[i]
  <2>1. t \in Token /\ d[i] = Structured(t)
    BY <1>1
  <2> HIDE DEF t, d
  <2>2. Mapped(seen, <<t>>) = seen[t]
    BY <2>1, MappedOne, TokenFunctions
  <2>3. ASSUME NEW s \in {Newline, Bullet}
        PROVE  Mapped(seen, <<s, t>>) = seen[t]
    <3>1. s \in Token /\ seen[s] = <<>>
      BY NothingSeen DEF Layout
    <3>2. <<s>> \in Seq(Token) /\ <<s, t>> = Append(<<s>>, t)
      BY <2>1, <3>1
    <3>3. Mapped(seen, <<s>>) = <<>>
      BY <3>1, MappedOne, TokenFunctions
    <3>4. Mapped(seen, Append(<<s>>, t)) = Joined(Mapped(seen, <<s>>), seen[t])
      BY <2>1, <3>2, MappedAppend, TokenFunctions
    <3>5. seen[t] \in Seq(Token)
      BY <2>1, TokenFunctions DEF Translations
    <3>6. Joined(<<>>, seen[t]) = seen[t]
      BY <3>5, JoinedFacts
    <3> QED BY <3>2, <3>3, <3>4, <3>6
  <2>4. Structured(t) \in {<<Newline, t>>, <<Bullet, t>>, <<t>>}
    BY DEF Structured
  <2> QED BY <2>1, <2>2, <2>3, <2>4 DEF t
<1>7. ApplyStructuralTags(text) = FlattenSeq(d)
  BY DEF ApplyStructuralTags
<1> HIDE DEF d
<1>8. FlattenSeq(d) \in Seq(Unsigned)
  BY <1>1, <1>4, FlattenType
<1>9. Mapped(seen, FlattenSeq(d)) = Mapped(seen, text)
  BY <1>5, <1>6, UnsignedText, WrittenSeen, TokenFunctions
<1> QED BY <1>7, <1>8, <1>9

LEMMA BreakSeen ==
  ASSUME NEW text \in Seq(Unsigned)
  PROVE  /\ ReplaceBrTags(text) \in Seq(Unsigned)
         /\ Mapped(seen, ReplaceBrTags(text)) = Mapped(seen, text)
<1> DEFINE b == ReplaceBrTags(text)
<1>1. Len(text) \in Nat /\ DOMAIN text = 1..Len(text)
      /\ \A i \in DOMAIN text : text[i] \in Unsigned
  BY UnsignedText DEF Unsigned
<1>2. Newline \in Unsigned
  BY DEF Unsigned, Token, Written, Layout, Newline
<1>3. b \in [1..Len(text) -> Unsigned]
  BY <1>1, <1>2 DEF ReplaceBrTags
<1>4. b \in Seq(Unsigned) /\ DOMAIN b = DOMAIN text
  BY <1>1, <1>3
<1>5. \A i \in DOMAIN text : seen[b[i]] = seen[text[i]]
  <2>1. seen["<br>"] = <<>> /\ seen[Newline] = <<>>
    BY NothingSeen DEF Tags, Layout
  <2> QED BY <2>1 DEF ReplaceBrTags
<1> HIDE DEF b
<1>6. [i \in DOMAIN b |-> seen[b[i]]] = [i \in DOMAIN text |-> seen[text[i]]]
  BY <1>4, <1>5
<1> QED BY <1>4, <1>6 DEF b, Mapped

LEMMA UrlSeen ==
  /\ <<" (", "url", ")">> \in Seq(Unsigned)
  /\ Mapped(seen, <<" (", "url", ")">>) = <<"url">>
<1> DEFINE x == " ("
           y == "url"
           z == ")"
<1>1. {x, y, z} \subseteq Token /\ {x, y, z} \subseteq Unsigned
  BY DEF Token, Unsigned, Written, Layout
<1>2. seen[x] = <<>> /\ seen[z] = <<>>
  BY NothingSeen DEF Layout
<1>3. seen[y] = <<y>>
  <2>1. y \notin Tags \cup {"<", ">"} \cup Layout
    BY DEF Tags, BlockStart, BlockEnd, Anchors, Link, Layout, Newline, Space, Bullet
  <2>2. Decoded(y) = y
    BY DEF Decoded
  <2> QED BY <1>1, <2>1, <2>2 DEF seen, plain, word
<1> HIDE DEF x, y, z
<1>4. /\ <<x>> \in Seq(Token) /\ <<x, y>> = Append(<<x>>, y)
      /\ <<x, y>> \in Seq(Token) /\ <<x, y, z>> = Append(<<x, y>>, z)
      /\ <<x, y, z>> \in Seq(Unsigned)
  BY <1>1
<1>5. Mapped(seen, <<x>>) = <<>>
  BY <1>1, <1>2, MappedOne, TokenFunctions
<1>6. Mapped(seen, <<x, y>>) = Joined(<<>>, <<y>>)
  <2>1. Mapped(seen, Append(<<x>>, y)) = Joined(Mapped(seen, <<x>>), seen[y])
    BY <1>1, <1>4, MappedAppend, TokenFunctions
  <2> QED BY <1>3, <1>4, <1>5, <2>1
<1>7. Mapped(seen, <<x, y, z>>) = Joined(Mapped(seen, <<x, y>>), <<>>)
  BY <1>1, <1>2, <1>4, MappedAppend, TokenFunctions
<1>8. <<y>> \in Seq(Token)
  BY <1>1
<1>9. Joined(<<>>, <<y>>) = <<y>> /\ Joined(<<y>>, <<>>) = <<y>>
  BY <1>8, JoinedFacts
<1>10. Mapped(seen, <<x, y, z>>) = <<y>>
  BY <1>6, <1>7, <1>9
<1> QED BY <1>4, <1>10 DEF x, y, z

\* A token that is no tag is seen as it is shown.
LEMMA WordSeen ==
  ASSUME NEW t \in Token, t \notin Tags, t \notin {"<", ">"}
  PROVE  seen[t] = Words(<<Decoded(t)>>)
<1>1. Decoded(t) \in Token
  BY DecodedType
<1>2. seen[t] = word[Decoded(t)]
  BY DEF seen, plain
<1> DEFINE u == Decoded(t)
<1> HIDE DEF u
<1>3. u \in Token /\ <<u>> \in Seq(Token)
  BY <1>1 DEF u
<1>4. Words(<<u>>) = Mapped(word, <<u>>)
  BY <1>3, WordsMapped
<1>5. Mapped(word, <<u>>) = word[u]
  BY <1>3, MappedOne, TokenFunctions
<1> QED BY <1>2, <1>4, <1>5 DEF u

\* Where anchors are not nested at most one is open.
LEMMA OneAnchorOpen ==
  ASSUME NEW S, NEW html \in Seq(S), WellFormed(html),
         NEW i \in DOMAIN html, OpenBefore(html, i) # {}
  PROVE  \E j \in OpenBefore(html, i) : OpenBefore(html, i) = {j} /\ Min(OpenBefore(html, i)) = j
<1> DEFINE open == OpenBefore(html, i)
<1>1. i \in 1..Len(html) /\ Len(html) \in Nat /\ DOMAIN html = 1..Len(html)
  OBVIOUS
<1>2. ASSUME NEW j \in open, NEW k \in open, j < k PROVE FALSE
  <2>1. j \in 1..(i - 1) /\ k \in 1..(i - 1) /\ k \in DOMAIN html
    BY <1>1 DEF OpenBefore
  <2>2. html[k] \in Anchors
    BY DEF OpenBefore
  <2>3. j \in OpenBefore(html, k)
    <3>1. j \in 1..(k - 1)
      BY <1>2, <2>1
    <3>2. \A l \in j..(k - 1) : l \in j..(i - 1)
      BY <2>1
    <3> QED BY <3>1, <3>2 DEF OpenBefore
  <2> QED BY <2>1, <2>2, <2>3 DEF WellFormed
<1>3. PICK j \in open : TRUE
  OBVIOUS
<1>4. \A k \in open : k = j
  <2>1. \A k \in open : k \in Int
    BY DEF OpenBefore
  <2> HIDE DEF open
  <2> QED BY <1>2, <1>3, <2>1
<1>5. open = {j}
  BY <1>3, <1>4
<1>6. Min({j}) = j
  BY <1>5 DEF Min, OpenBefore
<1> QED BY <1>5, <1>6

LEMMA AnchorSeenAt ==
  ASSUME NEW html \in Seq(Unsigned), WellFormed(html), NEW i \in DOMAIN html
  PROVE  /\ ReplacedAnchor(html, i) \in Seq(Unsigned)
         /\ Mapped(seen, ReplacedAnchor(html, i)) = ShownAt(html, i)
<1> DEFINE t == html[i]
           open == OpenBefore(html, i)
           e == ReplacedAnchor(html, i)
<1>1. t \in Token /\ t \in Unsigned /\ t # ">"
  BY UnsignedText DEF Unsigned, WellFormed
<1>2. <<>> \in Seq(Unsigned) /\ Mapped(seen, <<>>) = <<>>
  BY MappedEmpty
<1>3. CASE t \in Anchors /\ e = <<>>
  <2>1. ShownAt(html, i) = <<>>
    BY <1>3 DEF ShownAt, Tags, Anchors, Link
  <2> QED BY <1>2, <1>3, <2>1
<1>4. CASE t = "</a>" /\ open # {}
  <2>1. PICK j \in open : open = {j} /\ Min(open) = j
    BY <1>4, OneAnchorOpen
  <2>2. e = UrlAfterLabel(html[j])
    BY <1>4, <2>1 DEF ReplacedAnchor, Anchors, Link
  <2>3. t \in Tags
    BY <1>4 DEF Tags
  <2>4. CASE html[j] = Link
    BY <1>4, <2>1, <2>2, <2>3, <2>4, UrlSeen DEF UrlAfterLabel, ShownAt
  <2>5. CASE html[j] # Link
    BY <1>2, <1>4, <2>1, <2>2, <2>3, <2>5 DEF UrlAfterLabel, ShownAt
  <2> QED BY <2>4, <2>5
<1>5. CASE e = <<t>> /\ ~(t = "</a>" /\ open # {})
  <2>1. <<t>> \in Seq(Unsigned)
    BY <1>1
  <2>2. Mapped(seen, <<t>>) = seen[t]
    BY <1>1, MappedOne, TokenFunctions
  <2>3. CASE t \in Tags
    BY <1>5, <2>1, <2>2, <2>3, NothingSeen DEF ShownAt
  <2>4. CASE t \notin Tags
    <3>1. seen[t] = Words(<<Decoded(t)>>)
      BY <1>1, <2>4, WordSeen DEF Unsigned
    <3> QED BY <1>5, <2>1, <2>2, <2>4, <3>1 DEF ShownAt
  <2> QED BY <2>3, <2>4
<1>6. \/ t \in Anchors /\ e = <<>>
      \/ t = "</a>" /\ open # {}
      \/ e = <<t>> /\ ~(t = "</a>" /\ open # {})
  BY DEF ReplacedAnchor
<1> QED BY <1>3, <1>4, <1>5, <1>6

LEMMA AnchorSeen ==
  ASSUME NEW html \in Seq(Unsigned), WellFormed(html)
  PROVE  /\ ReplaceAnchorTags(html) \in Seq(Unsigned)
         /\ Mapped(seen, ReplaceAnchorTags(html)) = Shown(html)
<1> DEFINE n == Len(html)
           d == [i \in DOMAIN html |-> ReplacedAnchor(html, i)]
<1>1. n \in Nat /\ DOMAIN html = 1..n
  OBVIOUS
<1>2. d \in [1..n -> Seq(Unsigned)]
  BY <1>1, AnchorSeenAt
<1>3. d \in [1..n -> Seq(Token)]
  <2>1. Seq(Unsigned) \subseteq Seq(Token)
    BY UnsignedText
  <2> QED BY <1>2, <2>1
<1>4. \A i \in 1..n : Mapped(seen, d[i]) = ShownAt(html, i)
  BY <1>1, AnchorSeenAt
<1>5. ReplaceAnchorTags(html) = FlattenSeq(d)
  BY DEF ReplaceAnchorTags
<1> HIDE DEF d, n
<1>6. Mapped(seen, FlattenSeq(d)) = FlattenSeq(Each(seen, n, d))
  BY <1>1, <1>3, MappedFlatten, TokenFunctions
<1>7. Each(seen, n, d) = [i \in DOMAIN html |-> ShownAt(html, i)]
  BY <1>1, <1>4 DEF Each
<1>8. FlattenSeq(d) \in Seq(Unsigned)
  BY <1>1, <1>2, FlattenType
<1> QED BY <1>5, <1>6, <1>7, <1>8 DEF Shown

LEMMA PlainSaysWhatIsShown ==
  ASSUME NEW html \in Seq(STRING), WellFormed(html)
  PROVE  Words(HtmlToPlainText(html)) = Shown(html)
<1>1. html \in Seq(Unsigned)
  <2>1. \A i \in 1..Len(html) : html[i] \in Unsigned
    <3> SUFFICES ASSUME NEW i \in 1..Len(html) PROVE html[i] \in Unsigned
      OBVIOUS
    <3>1. i \in DOMAIN html
      OBVIOUS
    <3>2. html[i] \notin {"<", ">", "&amp;lt;"}
      BY <3>1 DEF WellFormed
    <3>3. html[i] \in Token
      BY DEF Token
    <3> QED BY <3>2, <3>3 DEF Unsigned
  <2> QED BY <2>1
<1> DEFINE a == ReplaceAnchorTags(html)
           b == ReplaceBrTags(a)
           c == ApplyStructuralTags(b)
           d == StripTags(c)
           e == DecodeHtmlEntities(d)
           g == CollapseWhitespace(e)
<1>2. HtmlToPlainText(html) = Trim(g)
  BY DEF HtmlToPlainText
<1>3. a \in Seq(Unsigned) /\ Mapped(seen, a) = Shown(html)
  BY <1>1, AnchorSeen
<1> HIDE DEF a
<1>4. b \in Seq(Unsigned) /\ Mapped(seen, b) = Mapped(seen, a)
  BY <1>3, BreakSeen
<1> HIDE DEF b
<1>5. c \in Seq(Unsigned) /\ Mapped(seen, c) = Mapped(seen, b)
  BY <1>4, StructureSeen
<1> HIDE DEF c
<1>6. d \in Seq(Token) /\ Mapped(plain, d) = Mapped(seen, c)
  BY <1>5, StripSeen
<1> HIDE DEF d
<1>7. e \in Seq(Token) /\ Words(e) = Mapped(plain, d)
  BY <1>6, DecodeWords
<1> HIDE DEF e
<1>8. g \in Seq(Token) /\ Words(g) = Words(e)
  BY <1>7, CollapseWords
<1> HIDE DEF g
<1>9. Words(Trim(g)) = Words(g)
  BY <1>8, TrimWords
<1> QED BY <1>2, <1>3, <1>4, <1>5, <1>6, <1>7, <1>8, <1>9

-----------------------------------------------------------------------------
\* Every plain copy that has arrived is the copy of the handler's text.
PlainCopies ==
  /\ body \in Bodies \cup {<<>>}
  /\ \A i \in DOMAIN mail :
       mail[i].form = "plain" => mail[i].text = HtmlToPlainText(body)

CopyInv == MailIsSeq /\ PlainCopies

\* A send keeps that when it sends no plain copy, or this one.
LEMMA SendCopies ==
  ASSUME CopyInv, NEW contents, NEW form, NEW text, NEW onSuccess, NEW onError,
         Sends(Message(contents, form, text), onSuccess, onError),
         form = "plain" => text = HtmlToPlainText(body)
  PROVE  CopyInv'
<1> DEFINE m == Message(contents, form, text)
<1>1. m.form = form /\ m.text = text
  BY DEF Message
<1> HIDE DEF m
<1>2. body' = body /\ (mail' = mail \/ mail' = Append(mail, m))
  BY DEF Sends, m
<1>3. PICK S : mail \in Seq(S)
  BY DEF CopyInv, MailIsSeq
<1>4. CASE mail' = mail
  BY <1>2, <1>4 DEF CopyInv, MailIsSeq, PlainCopies
<1>5. CASE mail' = Append(mail, m)
  <2>1. /\ \E T : Append(mail, m) \in Seq(T)
        /\ DOMAIN mail = 1..Len(mail) /\ Len(mail) \in Nat
        /\ DOMAIN Append(mail, m) = 1..(Len(mail) + 1)
        /\ \A i \in 1..Len(mail) : Append(mail, m)[i] = mail[i]
        /\ Append(mail, m)[Len(mail) + 1] = m
    BY <1>3, AppendOne, Zenon
  <2>2. ASSUME NEW i \in DOMAIN mail'
        PROVE  \/ i \in DOMAIN mail /\ mail'[i] = mail[i]
               \/ mail'[i] = m
    <3>1. i \in 1..Len(mail) \/ i = Len(mail) + 1
      BY <1>5, <2>1
    <3> QED BY <1>5, <2>1, <3>1
  <2>3. MailIsSeq'
    BY <1>5, <2>1, Zenon DEF MailIsSeq
  <2>4. PlainCopies'
    BY <1>1, <1>2, <2>2 DEF CopyInv, PlainCopies
  <2> QED BY <2>3, <2>4 DEF CopyInv
<1> QED BY <1>2, <1>4, <1>5

\* A handler that begins has sent nothing, a copy or other.
LEMMA BeginCopies ==
  ASSUME NEW place, Begin(place), body' \in Bodies \cup {<<>>} PROVE CopyInv'
<1>1. mail' \in Seq({}) /\ DOMAIN mail' = {}
  BY DEF Begin
<1> QED BY <1>1 DEF CopyInv, MailIsSeq, PlainCopies

LEMMA StepCopies ==
  ASSUME CopyInv, [Next]_vars PROVE CopyInv'
<1>1. CASE Load
  BY <1>1 DEF Load, CopyInv, MailIsSeq, PlainCopies
<1>2. CASE BeginWarning
  BY <1>2, BeginCopies DEF BeginWarning
<1>3. CASE SendReply
  <2>1. PICK next : Sends(Message({"warning"}, "html", <<>>), next, next)
    BY <1>3 DEF SendReply
  <2> QED BY <2>1, SendCopies
<1>4. CASE SendMedia
  <2>1. PICK next : Sends(Message({"medium"}, "media", <<>>), next, next)
    BY <1>4 DEF SendMedia
  <2> QED BY <2>1, SendCopies
<1>5. CASE SendPrompt
  <2>1. Sends(Message({"prompt"}, "html", <<>>), "idle", "idle")
    BY <1>5 DEF SendPrompt
  <2> QED BY <2>1, SendCopies
<1>6. CASE BeginBlock
  BY <1>6, BeginCopies DEF BeginBlock
<1>7. CASE Block
  BY <1>7 DEF Block, CopyInv, MailIsSeq, PlainCopies
<1>8. CASE SendBlockMessage
  <2>1. Sends(Message({"block"}, "html", <<>>), "html", "html")
    BY <1>8 DEF SendBlockMessage
  <2> QED BY <2>1, SendCopies
<1>9. CASE BeginPolicy
  <2>1. body' \in Bodies \cup {<<>>}
    BY <1>9 DEF BeginPolicy, CopyInv, PlainCopies
  <2> QED BY <1>9, <2>1, BeginCopies DEF BeginPolicy
<1>10. CASE SendHTML
  <2>1. Sends(Message({"text"}, "html", body), "idle", "plain")
    BY <1>10 DEF SendHTML
  <2> QED BY <2>1, SendCopies
<1>11. CASE SendPlain
  BY <1>11, SendCopies DEF SendPlain
<1>12. CASE UNCHANGED vars
  BY <1>12 DEF vars, CopyInv, MailIsSeq, PlainCopies
<1> QED BY <1>1, <1>2, <1>3, <1>4, <1>5, <1>6, <1>7, <1>8, <1>9, <1>10,
          <1>11, <1>12 DEF Next

\* The plain copy of a refused text has the words, signs and link targets that
\* the text shows, in their order, whatever the text, its tags and its spaces.
THEOREM CopiesKeepTheWords == Spec => []FallbackKeepsTheWords
<1>1. Init => CopyInv
  <2> SUFFICES ASSUME Init PROVE CopyInv
    OBVIOUS
  <2>1. mail \in Seq({}) /\ DOMAIN mail = {} /\ body = <<>>
    BY DEF Init
  <2> QED BY <2>1 DEF CopyInv, MailIsSeq, PlainCopies
<1>2. CopyInv /\ [Next]_vars => CopyInv'
  BY StepCopies
<1>3. CopyInv => FallbackKeepsTheWords
  <2> SUFFICES ASSUME CopyInv, NEW i \in DOMAIN mail, mail[i].form = "plain"
               PROVE  Words(mail[i].text) = Shown(body)
    BY DEF FallbackKeepsTheWords
  <2>1. mail[i].text = HtmlToPlainText(body)
    BY DEF CopyInv, PlainCopies
  <2>2. body \in Seq(STRING) /\ WellFormed(body)
    <3>1. CASE body \in Bodies
      BY <3>1, BodiesAssumption
    <3>2. CASE body = <<>>
      BY <3>2 DEF WellFormed
    <3> QED BY <3>1, <3>2 DEF CopyInv, PlainCopies
  <2> QED BY <2>1, <2>2, PlainSaysWhatIsShown
<1> QED BY <1>1, <1>2, <1>3, PTL DEF Spec
=============================================================================
