---------------------------- MODULE DeferredBlocks ----------------------------
(***************************************************************************)
(* The block onboarding coordinator composed with what it calls and with   *)
(* who calls it: execute (moderation/execute-moderation-action.ts), which  *)
(* changes the owner's block list in Telegram in steps of its own, and the *)
(* queue's and the button's handlers, which log a block when the call      *)
(* answers true.  Executions of calls and of deferred blocks overlap.      *)
(***************************************************************************)
EXTENDS BlockOnboarding

CONSTANTS Senders,
          SenderOf   \* the sender each block is about

ASSUME ExecutorsAssumption == Blocks \cap Phones = {}
ASSUME SenderAssumption == SenderOf \in [Blocks -> Senders]

VARIABLES
  step,    \* what the execution of each call and submission does next
  listed,  \* senders on the owner's block list in Telegram
  logged   \* blocks with a "block" row handed to the action log

execVars == <<step, listed, logged>>

Executors == Blocks \cup Phones

\* "unblock": the checks and the unblocking, also while nothing is executed.
\* "block": getMe and the blocking.  "notice": the notice to the sender.
Steps == {"unblock", "block", "notice"}

ExecTypeOK ==
  /\ TypeOK
  /\ step \in [Executors -> Steps]
  /\ listed \subseteq Senders
  /\ logged \subseteq Blocks

ExecInit ==
  /\ Init
  /\ step = [e \in Executors |-> "unblock"]
  /\ listed = {}
  /\ logged = {}

Executing(e) ==
  IF e \in Phones THEN phone[e] = "executing" ELSE caller[e] = "executing"

\* The sender the execution is about: a submission executes the first block of
\* its copy.
Target(e) == SenderOf[IF e \in Phones THEN Head(copy[e]) ELSE e]

-----------------------------------------------------------------------------
(* execute.                                                                 *)

\* unblockContact: an error is swallowed.
Unblock(e) ==
  /\ Executing(e)
  /\ step[e] = "unblock"
  /\ step' = [step EXCEPT ![e] = "block"]
  /\ listed' \in {listed, listed \ {Target(e)}}
  /\ UNCHANGED <<logged, vars>>

\* blockContact succeeds; the notice is sent next.
Block(e) ==
  /\ Executing(e)
  /\ step[e] = "block"
  /\ step' = [step EXCEPT ![e] = "notice"]
  /\ listed' = listed \cup {Target(e)}
  /\ UNCHANGED <<logged, vars>>

\* MUTANT of AnswersAt: a notice that cannot be sent makes it false.
AnswersAt_NoticeCounts(answer) ==
  IF answer THEN {"notice"} ELSE Steps

\* execute is true once the sender is blocked, whether or not he gets the
\* notice.  It is false without a text, when the message did not come by
\* business automation, when the sender is the owner, and when Telegram refuses.
AnswersAt(answer) ==
  IF answer THEN {"notice"} ELSE {"unblock", "block"}

Answers(e, answer) ==
  /\ step[e] \in AnswersAt(answer)
  /\ step' = [step EXCEPT ![e] = "unblock"]
  /\ UNCHANGED listed

\* execute answers the queue or the button: a row for the block, if it is true.
CallAnswered(b) ==
  \E answer \in BOOLEAN :
    /\ Answers(b, answer)
    /\ ExecutionReturns(b)
    /\ logged' = IF answer THEN logged \cup {b} ELSE logged

\* MUTANT of DeferredAnswered: a block that fails ends the loop.
DeferredAnswered_StopsOnFailure(p) ==
  \E answer \in BOOLEAN :
    /\ Answers(p, answer)
    /\ phone[p] = "executing"
    /\ runs' = [runs EXCEPT ![Head(copy[p])] = @ + 1]
    /\ ExecuteOrReturn(p, IF answer THEN Tail(copy[p]) ELSE <<>>)
    /\ UNCHANGED <<awaiting, queued, caller, exposed, shared, logged>>

\* execute answers the loop over the deferred blocks, which drops the answer.
DeferredAnswered(p) ==
  /\ \E answer \in BOOLEAN : Answers(p, answer)
  /\ DeferredBlockExecuted(p)
  /\ UNCHANGED logged

-----------------------------------------------------------------------------
ExecBlockStep(b) ==
  \/ CallBlock(b) /\ UNCHANGED execVars
  \/ SessionFound(b) /\ UNCHANGED execVars
  \/ SessionThrows(b) /\ UNCHANGED execVars
  \/ SessionMissing(b) /\ UNCHANGED execVars
  \/ CallAnswered(b)

ExecPhoneStep(p) ==
  \/ SubmitPhone(p) /\ UNCHANGED execVars
  \/ PhoneConnects(p) /\ UNCHANGED execVars
  \/ PhoneRefused(p) /\ UNCHANGED execVars
  \/ PhoneThrows(p) /\ UNCHANGED execVars
  \/ DeferredAnswered(p)

ExecNext ==
  \/ \E b \in Blocks : ExecBlockStep(b)
  \/ \E p \in Phones : ExecPhoneStep(p)
  \/ \E e \in Executors : Unblock(e) \/ Block(e)
  \/ ConnectCommand /\ UNCHANGED execVars

ExecSpec == ExecInit /\ [][ExecNext]_<<vars, execVars>>

-----------------------------------------------------------------------------
(***************************************************************************)
(* Properties.                                                             *)
(***************************************************************************)

\* What the coordinator promises by itself it keeps with executions that take
\* several steps, fail and overlap: a failing block does not cost the blocks
\* behind it their turn.
ImplementsCoordinator == Spec

Logged(s) == \E b \in logged : SenderOf[b] = s

BlockedAfterLogin(s) ==
  \E b \in Blocks : SenderOf[b] = s /\ caller[b] = "deferred" /\ runs[b] > 0

AboutToAnswer(s) ==
  \E e \in Executors : Executing(e) /\ step[e] = "notice" /\ Target(e) = s

\* The log is what tells other owners of a block, and this owner's next message
\* handler that there was one.  A sender on the block list is in it, but for the
\* moment the execution still sends its notice, and but for a block executed
\* after a login: that one is never logged.
OnlyDeferredBlocksUnlogged ==
  \A s \in listed : Logged(s) \/ BlockedAfterLogin(s) \/ AboutToAnswer(s)
=============================================================================
