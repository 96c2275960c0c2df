----------------------------- MODULE ProviderCalls -----------------------------
(***************************************************************************)
(* Calls of the session provider over its one websocket (sdk/src/index.ts) *)
(* and the longest of them, the onboarding of an owner with its poll loop  *)
(* (owner-onboarding-service.ts, owner-onboarding-poller.ts).              *)
(*                                                                         *)
(* A request waits for the socket, is put into the Map `pending` under an  *)
(* id of its own and sent; the answer with that id settles it and the      *)
(* caller goes on in the same turn.  connect() opens a socket when there   *)
(* is none; the close event makes it forget the socket, and nothing else:  *)
(* what is pending stays pending.  The model starts after                  *)
(* OwnerSessionService.start(), which the program awaits: the first socket *)
(* is open and the provider knows whose it is.                             *)
(***************************************************************************)
EXTENDS Naturals

CONSTANTS Onboardings,  \* calls of runOnboarding
          Lookups,      \* calls that make one request, like Service.lookup
          MaxLosses     \* bound: sockets that close or do not open

ASSUME LossesAssumption == MaxLosses \in Nat
ASSUME DisjointAssumption == Onboardings \cap Lookups = {}

Callers == Onboardings \cup Lookups

VARIABLES
  socket,   \* number of the newest socket, this.ws
  ready,    \* its readyState; connectPromise is resolved while it is open or closing
  waiting,  \* the callers that await connectPromise
  pending,  \* caller -> the socket its pending request was sent on, or 0
  wire,     \* the callers whose request or answer is under way
  authed,   \* the sockets the provider has accepted credentials on
  at,       \* what a caller awaits, or how it ended
  phase,    \* the poller's current.step
  last,     \* the poller's lastPhase
  late,     \* the poller's deadline lies in the past
  losses,
  told,     \* history: the phase the last notice told the owner of, if it arrived
  unheard,  \* history: the phase of the last notice, if it did not arrive
  authOn,   \* history: the socket on which a call's own auth was accepted, or 0
  overdue   \* history: status requests a call has made after its deadline

vars == <<socket, ready, waiting, pending, wire, authed, at, phase, last, late,
          losses, told, unheard, authOn, overdue>>
poller == <<phase, last, late, told, unheard, authOn, overdue>>

\* "auth", "start", "status", "lookup": awaits that request.  "notifying",
\* "greeting": awaits a message to the owner.  "sleeping": the poll's pause.
Asking == {"auth", "start", "status", "lookup"}
Ended == {"complete", "timedOut", "failed"}
Places == Asking \cup Ended \cup {"idle", "notifying", "sleeping", "greeting"}
Phases == {"code", "password"}
Sockets == 1..(MaxLosses + 1)

TypeOK ==
  /\ socket \in Sockets
  /\ ready \in {"connecting", "open", "closing", "closed"}
  /\ waiting \subseteq Callers
  /\ pending \in [Callers -> {0} \cup Sockets]
  /\ wire \subseteq Callers
  /\ authed \subseteq Sockets
  /\ at \in [Callers -> Places]
  /\ phase \in [Onboardings -> Phases \cup {"none"}]
  /\ last \in [Onboardings -> Phases \cup {"none"}]
  /\ late \in [Onboardings -> BOOLEAN]
  /\ losses \in 0..MaxLosses
  /\ told \in [Onboardings -> Phases \cup {"none"}]
  /\ unheard \in [Onboardings -> Phases \cup {"none"}]
  /\ authOn \in [Onboardings -> {0} \cup Sockets]
  /\ overdue \in [Onboardings -> Nat]
  /\ waiting # {} => ready = "connecting"
  /\ \A c \in waiting : pending[c] = 0
  /\ \A c \in wire : pending[c] = socket /\ ready \in {"open", "closing"}
  /\ \A c \in Callers : at[c] \in Asking <=> (c \in waiting \/ pending[c] # 0)

Init ==
  /\ socket = 1
  /\ ready = "open"
  /\ waiting = {}
  /\ pending = [c \in Callers |-> 0]
  /\ wire = {}
  /\ authed = {1}
  /\ at = [c \in Callers |-> "idle"]
  /\ phase = [o \in Onboardings |-> "none"]
  /\ last = [o \in Onboardings |-> "none"]
  /\ late = [o \in Onboardings |-> FALSE]
  /\ losses = 0
  /\ told = [o \in Onboardings |-> "none"]
  /\ unheard = [o \in Onboardings |-> "none"]
  /\ authOn = [o \in Onboardings |-> 0]
  /\ overdue = [o \in Onboardings |-> 0]

-----------------------------------------------------------------------------
(* The socket.                                                              *)

Goto(c, place) == at' = [at EXCEPT ![c] = place]

\* connect() and request() up to the next await.  What is sent on a closing
\* socket is dropped without an error.
Request(c, type) ==
  /\ Goto(c, type)
  /\ \/ /\ ready = "closed"
        /\ socket' = socket + 1
        /\ ready' = "connecting"
        /\ waiting' = {c}
        /\ UNCHANGED <<pending, wire>>
     \/ /\ ready = "connecting"
        /\ waiting' = waiting \cup {c}
        /\ UNCHANGED <<socket, ready, pending, wire>>
     \/ /\ ready \in {"open", "closing"}
        /\ pending' = [pending EXCEPT ![c] = socket]
        /\ wire' = IF ready = "open" THEN wire \cup {c} ELSE wire \ {c}
        /\ UNCHANGED <<socket, ready, waiting>>

\* The caller's request is settled and it makes no other.
NoRequest(c, place) ==
  /\ Goto(c, place)
  /\ pending' = [pending EXCEPT ![c] = 0]
  /\ wire' = wire \ {c}
  /\ UNCHANGED <<socket, ready, waiting>>

\* The open event: everyone who awaits the socket sends.
Opens ==
  /\ ready = "connecting"
  /\ ready' = "open"
  /\ pending' = [c \in Callers |-> IF c \in waiting THEN socket ELSE pending[c]]
  /\ wire' = wire \cup waiting
  /\ waiting' = {}
  /\ UNCHANGED <<socket, authed, at, losses, poller>>

\* MUTANT of ConnectFails: the error event does not reject the promise.
ConnectFails_NoReject ==
  /\ ready = "connecting"
  /\ losses < MaxLosses
  /\ losses' = losses + 1
  /\ ready' = "closed"
  /\ UNCHANGED <<socket, waiting, pending, wire, authed, at, poller>>

\* The error event, and the close event that follows it at once.
ConnectFails ==
  /\ ready = "connecting"
  /\ losses < MaxLosses
  /\ losses' = losses + 1
  /\ ready' = "closed"
  /\ at' = [c \in Callers |-> IF c \in waiting THEN "failed" ELSE at[c]]
  /\ waiting' = {}
  /\ UNCHANGED <<socket, pending, wire, authed, poller>>

\* The other side closes the socket, or stop() does.
Closing ==
  /\ ready = "open"
  /\ losses < MaxLosses
  /\ losses' = losses + 1
  /\ ready' = "closing"
  /\ UNCHANGED <<socket, waiting, pending, wire, authed, at, poller>>

\* The close event: connectPromise is reset, `pending` is not looked at.
Closed ==
  /\ ready = "closing"
  /\ ready' = "closed"
  /\ wire' = {}
  /\ UNCHANGED <<socket, waiting, pending, authed, at, losses, poller>>

-----------------------------------------------------------------------------
(* The calls.                                                               *)

StartLookup(l) ==
  /\ at[l] = "idle"
  /\ Request(l, "lookup")
  /\ UNCHANGED <<authed, losses, poller>>

LookupAnswered(l) ==
  /\ l \in wire
  /\ NoRequest(l, "complete")
  /\ UNCHANGED <<authed, losses, poller>>

\* An answer of type "error" rejects the request; nobody up to the caller of
\* the call catches it.
ErrorAnswered(c) ==
  /\ c \in wire
  /\ NoRequest(c, "failed")
  /\ UNCHANGED <<authed, losses, poller>>

\* MUTANT of Begin: startOnboarding does not authenticate.
Begin_NoAuth(o) ==
  /\ at[o] = "idle"
  /\ Request(o, "start")
  /\ UNCHANGED <<authed, losses, poller>>

\* startOnboarding: auth() first.
Begin(o) ==
  /\ at[o] = "idle"
  /\ Request(o, "auth")
  /\ UNCHANGED <<authed, losses, poller>>

AuthAnswered(o) ==
  /\ at[o] = "auth"
  /\ o \in wire
  /\ authed' = authed \cup {socket}
  /\ authOn' = [authOn EXCEPT ![o] = socket]
  /\ Request(o, "start")
  /\ UNCHANGED <<losses, phase, last, late, told, unheard, overdue>>

\* MUTANT of DeadlineOver: the loop has no deadline.
DeadlineOver_Never(o) == FALSE

DeadlineOver(o) == late[o]

\* MUTANT of NewPhase: only the first phase is notified.
NewPhase_First(o, step) == last[o] = "none"

NewPhase(o, step) == step # last[o]

\* The end of a turn of the poll loop: time out, or sleep.
TimeOutOrSleep(o) ==
  IF DeadlineOver(o) THEN NoRequest(o, "timedOut") ELSE NoRequest(o, "sleeping")

\* The poll loop with a step that is not complete, up to its next await.
LoopWith(o, step) ==
  /\ phase' = [phase EXCEPT ![o] = step]
  /\ \/ NewPhase(o, step) /\ NoRequest(o, "notifying")
     \/ ~NewPhase(o, step) /\ TimeOutOrSleep(o)

\* onboard.start: the account is already known, or a code or password is asked
\* for and the loop begins with a deadline that is to come.
StartAnswered(o) ==
  /\ at[o] = "start"
  /\ o \in wire
  /\ \/ NoRequest(o, "complete") /\ UNCHANGED phase
     \/ \E step \in Phases : LoopWith(o, step)
  /\ UNCHANGED <<authed, losses, last, late, told, unheard, authOn, overdue>>

\* onboard.status: a completed login is taken even after the deadline.
StatusAnswered(o) ==
  /\ at[o] = "status"
  /\ o \in wire
  /\ \/ NoRequest(o, "greeting") /\ UNCHANGED phase
     \/ \E step \in Phases : LoopWith(o, step)
  /\ UNCHANGED <<authed, losses, last, late, told, unheard, authOn, overdue>>

Arrives(o) ==
  /\ told' = [told EXCEPT ![o] = phase[o]]
  /\ unheard' = [unheard EXCEPT ![o] = "none"]

GoesAstray(o) ==
  /\ told' = [told EXCEPT ![o] = "none"]
  /\ unheard' = [unheard EXCEPT ![o] = phase[o]]

\* The message to the owner arrives or does not: sendToClient swallows the error
\* and the poller sets lastPhase in either case.  A step that waits has a link to
\* send, by its type.
Notified(o) ==
  /\ at[o] = "notifying"
  /\ Arrives(o) \/ GoesAstray(o)
  /\ last' = [last EXCEPT ![o] = phase[o]]
  /\ TimeOutOrSleep(o)
  /\ UNCHANGED <<authed, losses, phase, late, authOn, overdue>>

Polls(o) ==
  /\ at[o] = "sleeping"
  /\ Request(o, "status")
  /\ overdue' = IF late[o] THEN [overdue EXCEPT ![o] = @ + 1] ELSE overdue
  /\ UNCHANGED <<authed, losses, phase, last, late, told, unheard, authOn>>

Greeted(o) ==
  /\ at[o] = "greeting"
  /\ NoRequest(o, "complete")
  /\ UNCHANGED <<authed, losses, poller>>

\* Fifteen minutes after the loop began.
DeadlinePasses(o) ==
  /\ phase[o] # "none"
  /\ ~late[o]
  /\ at[o] \notin Ended
  /\ late' = [late EXCEPT ![o] = TRUE]
  /\ UNCHANGED <<socket, ready, waiting, pending, wire, authed, at, phase, last,
                 losses, told, unheard, authOn, overdue>>

Answered(c) ==
  \/ c \in Lookups /\ LookupAnswered(c)
  \/ c \in Onboardings /\ (AuthAnswered(c) \/ StartAnswered(c) \/ StatusAnswered(c))
  \/ ErrorAnswered(c)

Continues(o) == Notified(o) \/ Polls(o) \/ Greeted(o)

Next ==
  \/ Opens \/ ConnectFails \/ Closing \/ Closed
  \/ \E l \in Lookups : StartLookup(l)
  \/ \E o \in Onboardings : Begin(o) \/ Continues(o) \/ DeadlinePasses(o)
  \/ \E c \in Callers : Answered(c)

\* A socket opens or fails, a closing one closes, the provider answers what
\* reaches it, the Bot API answers, timers fire and time passes.  Nobody has to
\* make a call, and no socket has to close.
Fairness ==
  /\ WF_vars(Opens \/ ConnectFails)
  /\ WF_vars(Closed)
  /\ \A c \in Callers : WF_vars(Answered(c))
  /\ \A o \in Onboardings : WF_vars(Continues(o)) /\ WF_vars(DeadlinePasses(o))

SafeSpec == Init /\ [][Next]_vars

Spec == SafeSpec /\ Fairness

-----------------------------------------------------------------------------
(***************************************************************************)
(* Properties.                                                             *)
(***************************************************************************)

\* While the bot waits for a code or a password, the last thing the owner was
\* told of is the one the provider asks for now, however the provider changes its
\* mind; or the notice of exactly that one went astray, which nothing repeats.
OwnerIsAsked ==
  \A o \in Onboardings :
    at[o] \in {"sleeping", "status"} => phase[o] \in {told[o], unheard[o]}

\* The loop looks at its deadline before its pause and not after it: one
\* status request may follow the deadline, never a second.
OnePollAfterDeadline == \A o \in Onboardings : overdue[o] <= 1

\* An onboarding's requests travel over a socket on which the provider has
\* accepted credentials, unless the socket of its own auth was lost since:
\* request() reconnects and does not authenticate again.
OnlyReconnectsLoseCredentials ==
  \A o \in Onboardings :
    at[o] \in {"start", "status"} /\ pending[o] # 0 =>
      pending[o] \in authed \/ (authOn[o] # 0 /\ authOn[o] < pending[o])

\* The socket that a caller's request was sent on is gone or going.
Stranded(c) ==
  pending[c] # 0 /\ (pending[c] < socket \/ ready \in {"closing", "closed"})

\* Every call ends, unless the socket is lost while it awaits an answer: then
\* it may wait for ever.  A socket that does not open strands nobody.
EveryCallEnds ==
  \A c \in Callers : at[c] # "idle" ~> at[c] \in Ended \/ Stranded(c)
=============================================================================
