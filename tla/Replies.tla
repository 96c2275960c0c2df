------------------------------ MODULE Replies ------------------------------
(***************************************************************************)
(* What the bot writes to people: the warning and the block message to a   *)
(* sender (moderation-reply-service.ts, business-automation-notifier.ts),  *)
(* the notices and prompts to an owner, and the policy texts               *)
(* (client-dm-notifier.ts), composed with the choice of a variant          *)
(* (Experiments) and the plain copy of a refused HTML text                 *)
(* (HtmlToPlainText).                                                      *)
(*                                                                         *)
(* A send is a call of the Bot API.  It arrives and is answered, it is     *)
(* refused, or it arrives and its answer is lost, which the caller cannot  *)
(* tell from a refusal.  Sends share no state, so the handlers of one      *)
(* sender's messages run one after the other here.                         *)
(***************************************************************************)
EXTENDS Naturals, Sequences, Experiments, HtmlToPlainText

CONSTANTS
  ManifestSets, \* the manifests there may be: Tiers -> sequence of variants
  Hashes,       \* the values of the hash
  Bodies,       \* the HTML texts an owner may be sent
  MaxHandlers   \* bound: handlers that run

Warning == "level1_message_warning"
Blocking == "level3_messages_block"
Tiers == {Warning, Blocking}
Keys == Tiers \cup {MODERATION_FLOW}

ASSUME ManifestsAssumption ==
  \A ms \in ManifestSets : DOMAIN ms = Tiers
ASSUME HashesAssumption == Hashes \subseteq Nat
ASSUME BodiesAssumption ==
  \A html \in Bodies : html \in Seq(STRING) /\ WellFormed(html)
ASSUME BoundAssumption == MaxHandlers \in Nat

VARIABLES
  manifests, \* the manifests on disk
  hash,      \* the sender's hash under each key
  picked,    \* tier -> the variants the sender was assigned so far
  at,        \* where the running handler is
  body,      \* the HTML text it sends to the owner
  mail,      \* what has arrived of the handler's sends
  lost,      \* history: the answer to one of them was lost
  sent,      \* what the last send returned
  handlers   \* handlers begun

vars == <<manifests, hash, picked, at, body, mail, lost, sent, handlers>>

Init ==
  /\ manifests \in ManifestSets
  /\ hash \in [Keys -> Hashes]
  /\ picked = [t \in Tiers |-> {}]
  /\ at = "loading"
  /\ body = <<>>
  /\ mail = <<>>
  /\ lost = FALSE
  /\ sent = FALSE
  /\ handlers = 0

\* ExperimentService: the program starts only if every experiment loads.
Load ==
  /\ at = "loading"
  /\ at' = IF \A t \in Tiers : Loads(manifests[t]) THEN "idle" ELSE "refused"
  /\ UNCHANGED <<manifests, hash, picked, body, mail, lost, sent, handlers>>

\* The variant a sender gets on a tier; its text and its medium go with it.
Variant(tier) == AssignTier(hash, tier, manifests[tier])

HasMedia(tier) == Enabled(manifests[tier])[Variant(tier)].media

\* What arrives: the contents, the form, and the text where it matters.
Message(contents, form, text) ==
  [contents |-> contents, form |-> form, text |-> text]

\* One call of the Bot API, and where the handler goes on when it returns and
\* when it throws.
Sends(message, onSuccess, onError) ==
  /\ \/ /\ mail' = Append(mail, message)
        /\ sent' = TRUE
        /\ at' = onSuccess
        /\ UNCHANGED lost
     \/ /\ mail' = Append(mail, message)
        /\ lost' = TRUE
        /\ sent' = FALSE
        /\ at' = onError
     \/ /\ sent' = FALSE
        /\ at' = onError
        /\ UNCHANGED <<mail, lost>>
  /\ UNCHANGED <<manifests, hash, picked, body, handlers>>

-----------------------------------------------------------------------------
(* The handlers.                                                            *)

Begin(place) ==
  /\ at = "idle"
  /\ handlers < MaxHandlers
  /\ handlers' = handlers + 1
  /\ mail' = <<>>
  /\ lost' = FALSE
  /\ sent' = FALSE
  /\ at' = place
  /\ UNCHANGED <<manifests, hash>>

Picks(tier) == picked' = [picked EXCEPT ![tier] = @ \cup {Variant(tier)}]

\* assignTierExperiment, and the handler of the tier up to its first await
BeginWarning ==
  /\ Begin("reply")
  /\ Picks(Warning)
  /\ body' = <<>>

\* The block's message is fixed when it is queued, the owner's notice with it.
BeginBlock ==
  /\ Begin("block")
  /\ Picks(Blocking)
  /\ body' \in Bodies

\* executeQueuedBlock: blocked, or the warning is sent instead.
Block ==
  /\ at = "block"
  /\ \/ at' = "block message" /\ UNCHANGED picked
     \/ at' = "reply" /\ Picks(Warning)
  /\ UNCHANGED <<manifests, hash, body, mail, lost, sent, handlers>>

\* sendBlockViaBusinessAutomation; recordSuccessfulBlock follows either way.
SendBlockMessage ==
  /\ at = "block message"
  /\ Sends(Message({"block"}, "html", <<>>), "html", "html")

\* WarningTierHandler.handle after the reply: the owner is prompted when
\* another account blocked the sender.
AfterReply == {"prompt", "idle"}

\* sendFirstMessageReply: whether the text arrived is logged and no more.
SendReply ==
  /\ at = "reply"
  /\ \E next \in IF HasMedia(Warning) THEN {"media"} ELSE AfterReply :
       Sends(Message({"warning"}, "html", <<>>), next, next)

\* MUTANT of SendMedia: the text goes along as the medium's caption.
SendMedia_Captioned ==
  /\ at = "media"
  /\ \E next \in AfterReply :
       Sends(Message({"medium", "warning"}, "html", <<>>), next, next)

\* sendMediaReply, called without a text: no caption, and nothing to send
\* instead of a medium that is refused.
SendMedia ==
  /\ at = "media"
  /\ \E next \in AfterReply :
       Sends(Message({"medium"}, "media", <<>>), next, next)

\* SendPriorBlockOwnerPromptUseCase: a button's text has no plain copy.
SendPrompt ==
  /\ at = "prompt"
  /\ Sends(Message({"prompt"}, "html", <<>>), "idle", "idle")

\* HandlePolicyUseCase, sendHTMLFile: a file that cannot be read is not sent.
BeginPolicy ==
  /\ \/ Begin("html") /\ body' \in Bodies
     \/ Begin("idle") /\ UNCHANGED body
  /\ UNCHANGED picked

\* sendHTML: any error is answered with the plain copy.
SendHTML ==
  /\ at = "html"
  /\ Sends(Message({"text"}, "html", body), "idle", "plain")

\* sendToClient with the plain copy
SendPlain ==
  /\ at = "plain"
  /\ Sends(Message({"text"}, "plain", HtmlToPlainText(body)), "idle", "idle")

Next ==
  \/ Load
  \/ BeginWarning \/ SendReply \/ SendMedia \/ SendPrompt
  \/ BeginBlock \/ Block \/ SendBlockMessage
  \/ BeginPolicy \/ SendHTML \/ SendPlain

Spec == Init /\ [][Next]_vars

-----------------------------------------------------------------------------
(***************************************************************************)
(* Properties.                                                             *)
(***************************************************************************)

\* The plain copy says what the HTML text shows: the same words and link
\* targets in the same order, signs decoded, and nothing of the markup.
FallbackKeepsTheWords ==
  \A i \in DOMAIN mail :
    mail[i].form = "plain" => Words(mail[i].text) = Shown(body)

\* Only a lost answer misleads: nobody gets one text twice in a handler's
\* sends, and an owner's text counts as sent exactly if it arrived, unless
\* Telegram's answer to a send that arrived was lost.
OnlyLostAnswersMislead ==
  ~lost =>
    /\ \A i, j \in DOMAIN mail :
         i # j => mail[i].contents \cap mail[j].contents = {}
    /\ at = "idle" /\ (\A i \in DOMAIN mail : mail[i].contents = {"text"})
         => (sent <=> mail # <<>>)

\* The tiers hash a sender under one prefix: those whose variants in use
\* have the same weights give a sender the variant in the same place, however
\* often and in whatever order he is warned and blocked.
SameFlowSameVariant ==
  \A s, t \in Tiers :
    Weights(manifests[s]) = Weights(manifests[t])
      => \A i \in picked[s], j \in picked[t] : i = j
=============================================================================
