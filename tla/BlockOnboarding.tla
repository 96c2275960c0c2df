--------------------------- MODULE BlockOnboarding ---------------------------
(***************************************************************************)
(* The block onboarding coordinator (session/block-onboarding-             *)
(* coordinator.ts) for one owner: its map has one entry per owner and no   *)
(* operation touches the entry of another.                                 *)
(*                                                                         *)
(* A block that finds no Telegram session is deferred: it is pushed onto   *)
(* the owner's entry and the owner is asked for a phone number.  A phone   *)
(* submission copies the entry's blocks, awaits the session service, then  *)
(* either deletes the entry and executes the copy, or writes the copy back.*)
(* Blocks and submissions are handlers of their own: at every await any of *)
(* the others may run.                                                     *)
(***************************************************************************)
EXTENDS Naturals, Sequences

CONSTANTS Blocks,    \* calls of executeBlockWithSession
          Phones     \* phone numbers the owner sends, answered or not

VARIABLES
  awaiting,  \* the owner has an entry (its stage is always awaiting_phone)
  queued,    \* the blocks of that entry
  caller,    \* where each executeBlockWithSession call is
  phone,     \* where each onPhoneSubmitted call is
  copy,      \* the blocks each onPhoneSubmitted call copied, still to execute
  runs,      \* how often each deferred block has been executed
  exposed,   \* history: blocks deferred while a submission was connecting
  shared     \* history: blocks copied while a connecting submission had them

vars == <<awaiting, queued, caller, phone, copy, runs, exposed, shared>>

InSeq(b, s) == \E i \in 1..Len(s) : s[i] = b

\* "session": awaits getTdlibForOwner without a phone.  "executing": awaits
\* execute.  "deferred": requestPhoneForBlock was called, the call returned
\* false.  "returned": the call returned execute's answer, or threw.
CallerPlaces == {"new", "session", "executing", "deferred", "returned"}

\* "connecting": awaits the notification and getTdlibForOwner with the phone.
\* "executing": awaits execute for the first block of the copy.
PhonePlaces == {"new", "connecting", "executing", "done"}

TypeOK ==
  /\ awaiting \in BOOLEAN
  /\ queued \in Seq(Blocks)
  /\ caller \in [Blocks -> CallerPlaces]
  /\ phone \in [Phones -> PhonePlaces]
  /\ copy \in [Phones -> Seq(Blocks)]
  /\ runs \in [Blocks -> Nat]
  /\ exposed \subseteq Blocks
  /\ shared \subseteq Blocks
  /\ ~awaiting => queued = <<>>
  /\ \A p \in Phones : phone[p] = "executing" => copy[p] # <<>>

Init ==
  /\ awaiting = FALSE
  /\ queued = <<>>
  /\ caller = [b \in Blocks |-> "new"]
  /\ phone = [p \in Phones |-> "new"]
  /\ copy = [p \in Phones |-> <<>>]
  /\ runs = [b \in Blocks |-> 0]
  /\ exposed = {}
  /\ shared = {}

Connecting == \E p \in Phones : phone[p] = "connecting"

InConnectingCopy(b) == \E p \in Phones : phone[p] = "connecting" /\ InSeq(b, copy[p])

-----------------------------------------------------------------------------
(* executeBlockWithSession, called by the block queue and by the owner's    *)
(* "Block now" button.                                                      *)

CallBlock(b) ==
  /\ caller[b] = "new"
  /\ caller' = [caller EXCEPT ![b] = "session"]
  /\ UNCHANGED <<awaiting, queued, phone, copy, runs, exposed, shared>>

\* A client is there: the block is executed at once.
SessionFound(b) ==
  /\ caller[b] = "session"
  /\ caller' = [caller EXCEPT ![b] = "executing"]
  /\ UNCHANGED <<awaiting, queued, phone, copy, runs, exposed, shared>>

ExecutionReturns(b) ==
  /\ caller[b] = "executing"
  /\ caller' = [caller EXCEPT ![b] = "returned"]
  /\ UNCHANGED <<awaiting, queued, phone, copy, runs, exposed, shared>>

\* The session service throws: the error reaches the caller.
SessionThrows(b) ==
  /\ caller[b] = "session"
  /\ caller' = [caller EXCEPT ![b] = "returned"]
  /\ UNCHANGED <<awaiting, queued, phone, copy, runs, exposed, shared>>

\* MUTANT of RequestPhone: the entry is always a new one.
RequestPhone_NewEntry(b) ==
  /\ awaiting' = TRUE
  /\ queued' = <<b>>

\* requestPhoneForBlock: onto the entry there is, or a new entry.
RequestPhone(b) ==
  /\ awaiting' = TRUE
  /\ queued' = Append(queued, b)

\* No client: requestPhoneForBlock, and false for the caller.
SessionMissing(b) ==
  /\ caller[b] = "session"
  /\ RequestPhone(b)
  /\ caller' = [caller EXCEPT ![b] = "deferred"]
  /\ exposed' = IF Connecting THEN exposed \cup {b} ELSE exposed
  /\ UNCHANGED <<phone, copy, runs, shared>>

-----------------------------------------------------------------------------
(* The owner's messages.                                                    *)

\* requestSessionConnect (/connect): an entry without blocks, unless the
\* owner is already awaited ("Still waiting for your phone number").
ConnectCommand ==
  /\ ~awaiting
  /\ awaiting' = TRUE
  /\ queued' = <<>>
  /\ UNCHANGED <<caller, phone, copy, runs, exposed, shared>>

\* onPhoneSubmitted up to its first await.  A text counts as a phone number
\* only while the owner is awaited.
SubmitPhone(p) ==
  /\ phone[p] = "new"
  /\ awaiting
  /\ phone' = [phone EXCEPT ![p] = "connecting"]
  /\ copy' = [copy EXCEPT ![p] = queued]
  /\ shared' = shared \cup {b \in Blocks : InSeq(b, queued) /\ InConnectingCopy(b)}
  /\ UNCHANGED <<awaiting, queued, caller, runs, exposed>>

\* The call executes the next block of s, or returns.
ExecuteOrReturn(p, s) ==
  /\ copy' = [copy EXCEPT ![p] = s]
  /\ phone' = [phone EXCEPT ![p] = IF s = <<>> THEN "done" ELSE "executing"]

\* MUTANT of PhoneConnects: the entry is kept.
PhoneConnects_KeepsEntry(p) ==
  /\ phone[p] = "connecting"
  /\ ExecuteOrReturn(p, copy[p])
  /\ UNCHANGED <<awaiting, queued, caller, runs, exposed, shared>>

\* MUTANT of PhoneConnects: the owner is no longer awaited, the blocks stay.
PhoneConnects_KeepsBlocks(p) ==
  /\ phone[p] = "connecting"
  /\ awaiting' = FALSE
  /\ ExecuteOrReturn(p, copy[p])
  /\ UNCHANGED <<queued, caller, runs, exposed, shared>>

\* getTdlibForOwner answered with a client: the entry goes, with whatever it
\* holds by now, and the copied blocks are executed.
PhoneConnects(p) ==
  /\ phone[p] = "connecting"
  /\ awaiting' = FALSE
  /\ queued' = <<>>
  /\ ExecuteOrReturn(p, copy[p])
  /\ UNCHANGED <<caller, runs, exposed, shared>>

\* MUTANT of PhoneRefused: the entry is written back without its blocks.
PhoneRefused_DropsBlocks(p) ==
  /\ phone[p] = "connecting"
  /\ awaiting' = TRUE
  /\ queued' = <<>>
  /\ phone' = [phone EXCEPT ![p] = "done"]
  /\ copy' = [copy EXCEPT ![p] = <<>>]
  /\ UNCHANGED <<caller, runs, exposed, shared>>

\* It answered without one: the copy becomes the owner's entry again.
PhoneRefused(p) ==
  /\ phone[p] = "connecting"
  /\ awaiting' = TRUE
  /\ queued' = copy[p]
  /\ phone' = [phone EXCEPT ![p] = "done"]
  /\ copy' = [copy EXCEPT ![p] = <<>>]
  /\ UNCHANGED <<caller, runs, exposed, shared>>

\* It threw: "Could not use that phone number", the entry is untouched.
PhoneThrows(p) ==
  /\ phone[p] = "connecting"
  /\ phone' = [phone EXCEPT ![p] = "done"]
  /\ copy' = [copy EXCEPT ![p] = <<>>]
  /\ UNCHANGED <<awaiting, queued, caller, runs, exposed, shared>>

\* execute has answered for the first block of the copy; its answer is not
\* looked at.
DeferredBlockExecuted(p) ==
  /\ phone[p] = "executing"
  /\ runs' = [runs EXCEPT ![Head(copy[p])] = @ + 1]
  /\ ExecuteOrReturn(p, Tail(copy[p]))
  /\ UNCHANGED <<awaiting, queued, caller, exposed, shared>>

BlockStep(b) ==
  \/ CallBlock(b)
  \/ SessionFound(b)
  \/ ExecutionReturns(b)
  \/ SessionThrows(b)
  \/ SessionMissing(b)

PhoneStep(p) ==
  \/ SubmitPhone(p)
  \/ PhoneConnects(p)
  \/ PhoneRefused(p)
  \/ PhoneThrows(p)
  \/ DeferredBlockExecuted(p)

Next ==
  \/ \E b \in Blocks : BlockStep(b)
  \/ \E p \in Phones : PhoneStep(p)
  \/ ConnectCommand

Spec == Init /\ [][Next]_vars

-----------------------------------------------------------------------------
(***************************************************************************)
(* Properties.                                                             *)
(***************************************************************************)

\* The owner was told "Queued block for ..." and nothing has happened to the
\* block since, nor will anything: it is in no entry and in no copy.
Forgotten(b) ==
  /\ caller[b] = "deferred"
  /\ runs[b] = 0
  /\ ~InSeq(b, queued)
  /\ \A p \in Phones : ~InSeq(b, copy[p])

\* A deferred block stays queued until it is executed.
NoDeferredBlockForgotten == \A b \in Blocks : ~Forgotten(b)

\* What the code does guarantee: only a block deferred in the window in which
\* a submission awaits the session service can be forgotten.  One that was
\* queued before survives any number of refused, failing and overlapping
\* submissions.
OnlyExposedBlocksAreForgotten == \A b \in Blocks : Forgotten(b) => b \in exposed

\* A deferred block is executed twice (unblocked, blocked and announced again)
\* only if the owner sent another number while a submission that had copied the
\* block was still connecting.
DeferredBlocksRunOnce == \A b \in Blocks : runs[b] > 1 => b \in shared
=============================================================================
