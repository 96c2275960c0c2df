----------------------------- MODULE OwnerClients -----------------------------
(***************************************************************************)
(* The TDLib clients of the owners' accounts                               *)
(* (session/owner-session-service.ts with owner-tdlib-connect.ts and       *)
(* owner-onboarding-service.ts): every block asks getTdlibForOwner for the *)
(* owner's client, and calls for one account overlap.                      *)
(*                                                                         *)
(* A step is the code between two awaits.  When a login ends, everybody    *)
(* who awaits its promise goes on in the same turn of the event loop, so   *)
(* the end of a login is one action for all of them.  The phone number an  *)
(* owner gives need not be that of the account the provider knows him by.  *)
(***************************************************************************)
EXTENDS Naturals

CONSTANTS Calls,      \* calls of getTdlibForOwner
          Phoned,     \* the calls that bring a phone number
          Accounts,   \* session-provider accounts
          AccountOf,  \* the account the session provider knows the owner of a call by
          PhoneOf,    \* the account that has the phone number of a call
          None        \* no attempt

\* An attempt to open a client: the call that makes it, its first or second one,
\* and the account.
Attempts == Calls \X {1, 2} \X Accounts

ASSUME CallsAssumption ==
  Phoned \subseteq Calls /\ AccountOf \in [Calls -> Accounts] /\ PhoneOf \in [Phoned -> Accounts]
ASSUME NoneAssumption == None \notin Attempts

VARIABLES
  pc,          \* where a call is
  round,       \* 2 once a call has asked for a new login of the account
  acct,        \* accountId of the session a call works with
  connecting,  \* the login in flight of an account
  clients,     \* the client kept for an account
  tdlib,       \* what TDLib has of an attempt
  phase,       \* of the process: stop() walks the clients while "stopping"
  late         \* observer: attempts that were not open when stop() began

vars == <<pc, round, acct, connecting, clients, tdlib, phase, late>>

Ended == {"client", "nothing", "threw"}
Asking == {"lookup", "onboarding", "granting", "reonboarding", "regranting"}

TypeOK ==
  /\ pc \in [Calls -> {"idle", "joined"} \cup Asking \cup Ended]
  /\ round \in [Calls -> {1, 2}]
  /\ acct \in [Calls -> Accounts]
  /\ connecting \in [Accounts -> Attempts \cup {None}]
  /\ clients \in [Accounts -> Attempts \cup {None}]
  /\ tdlib \in [Attempts -> {"unused", "loggingIn", "failed", "open", "stopping", "closed"}]
  /\ phase \in {"running", "stopping", "closing", "exited"}
  /\ late \in SUBSET Attempts
  /\ \A k \in Accounts :
       /\ connecting[k] # None => connecting[k][3] = k /\ tdlib[connecting[k]] \in {"loggingIn", "failed"}
       /\ clients[k] # None => clients[k][3] = k /\ tdlib[clients[k]] \in {"open", "stopping"}

Init ==
  /\ pc = [c \in Calls |-> "idle"]
  /\ round = [c \in Calls |-> 1]
  /\ acct = AccountOf
  /\ connecting = [k \in Accounts |-> None]
  /\ clients = [k \in Accounts |-> None]
  /\ tdlib = [a \in Attempts |-> "unused"]
  /\ phase = "running"
  /\ late = {}

\* A request to the session provider can be answered.  When stop() has closed the
\* socket, the next request connects again: only the end of the process is final.
Served == phase # "exited"
Waiting(k) == {c \in Calls : pc[c] = "joined" /\ acct[c] = k}

Goto(c, place) == pc' = [pc EXCEPT ![c] = place]

-----------------------------------------------------------------------------
(* ensureOwnerSession and the onboarding it may need *)

Start(c) ==
  /\ pc[c] = "idle"
  /\ phase # "exited"
  /\ Goto(c, "lookup")
  /\ UNCHANGED <<round, acct, connecting, clients, tdlib, phase, late>>

\* The account is known; or it is not, and only a phone number helps; or the
\* lookup fails.
LookupAnswers(c) ==
  /\ pc[c] = "lookup"
  /\ Served
  /\ \/ Goto(c, "granting")
     \/ c \in Phoned /\ Goto(c, "onboarding")
     \/ Goto(c, "nothing")
  /\ UNCHANGED <<round, acct, connecting, clients, tdlib, phase, late>>

\* The owner completes the login of the account with that number; or the
\* deadline passes; or the session provider throws.
OnboardingEnds(c) ==
  /\ pc[c] = "onboarding"
  /\ Served
  /\ \/ Goto(c, "granting") /\ acct' = [acct EXCEPT ![c] = PhoneOf[c]]
     \/ \E end \in {"nothing", "threw"} : Goto(c, end) /\ UNCHANGED acct
  /\ UNCHANGED <<round, connecting, clients, tdlib, phase, late>>

\* No session: access waits for the owner's approval, or the provider throws.
GrantRefused(c) ==
  /\ pc[c] \in {"granting", "regranting"}
  /\ Served
  /\ \E end \in {"nothing", "threw"} : Goto(c, end)
  /\ UNCHANGED <<round, acct, connecting, clients, tdlib, phase, late>>

-----------------------------------------------------------------------------
(* connectTdlib *)

TakeCached(c) ==
  /\ clients[acct[c]] # None
  /\ Goto(c, "client")
  /\ UNCHANGED <<connecting, tdlib>>

\* Plausible bug: connectTdlib does not look for a login in flight.
JoinInFlight_OpensAnother(c) ==
  LET a == <<c, round[c], acct[c]>> IN
  /\ clients[acct[c]] = None
  /\ connecting[acct[c]] # None
  /\ Goto(c, "joined")
  /\ connecting' = [connecting EXCEPT ![acct[c]] = a]
  /\ tdlib' = [tdlib EXCEPT ![a] = "loggingIn"]

JoinInFlight(c) ==
  /\ clients[acct[c]] = None
  /\ connecting[acct[c]] # None
  /\ Goto(c, "joined")
  /\ UNCHANGED <<connecting, tdlib>>

\* createTdlibClient returns a client; its login is awaited.
ClientCreated(c) ==
  LET a == <<c, round[c], acct[c]>> IN
  /\ Goto(c, "joined")
  /\ connecting' = [connecting EXCEPT ![acct[c]] = a]
  /\ tdlib' = [tdlib EXCEPT ![a] = "loggingIn"]

\* An empty session path, or a directory or file that cannot be written, before
\* there is a client.
FilesNotWritten(c) ==
  /\ Goto(c, "threw")
  /\ UNCHANGED <<connecting, tdlib>>

Open(c) ==
  /\ clients[acct[c]] = None
  /\ connecting[acct[c]] = None
  /\ ClientCreated(c) \/ FilesNotWritten(c)

Granted(c) ==
  /\ pc[c] \in {"granting", "regranting"}
  /\ Served
  /\ TakeCached(c) \/ JoinInFlight(c) \/ Open(c)
  /\ UNCHANGED <<round, acct, clients, phase, late>>

\* Plausible bug: only the call that opened the client goes on.
LoginSucceeds_WakesOpener(k) ==
  /\ phase # "exited"
  /\ connecting[k] # None
  /\ tdlib[connecting[k]] = "loggingIn"
  /\ tdlib' = [tdlib EXCEPT ![connecting[k]] = "open"]
  /\ clients' = [clients EXCEPT ![k] = connecting[k]]
  /\ connecting' = [connecting EXCEPT ![k] = None]
  /\ pc' = [pc EXCEPT ![connecting[k][1]] = "client"]
  /\ UNCHANGED <<round, acct, phase, late>>

\* openTdlib keeps the client, connectTdlib forgets the login, the callers return.
LoginSucceeds(k) ==
  /\ phase # "exited"
  /\ connecting[k] # None
  /\ tdlib[connecting[k]] = "loggingIn"
  /\ tdlib' = [tdlib EXCEPT ![connecting[k]] = "open"]
  /\ clients' = [clients EXCEPT ![k] = connecting[k]]
  /\ connecting' = [connecting EXCEPT ![k] = None]
  /\ pc' = [c \in Calls |-> IF c \in Waiting(k) THEN "client" ELSE pc[c]]
  /\ UNCHANGED <<round, acct, phase, late>>

\* connectOwnerTdlib closes the client it could not log in.
LoginFails(k) ==
  /\ phase # "exited"
  /\ connecting[k] # None
  /\ tdlib[connecting[k]] = "loggingIn"
  /\ tdlib' = [tdlib EXCEPT ![connecting[k]] = "failed"]
  /\ UNCHANGED <<pc, round, acct, connecting, clients, phase, late>>

Retry(k) == {c \in Waiting(k) : c \in Phoned /\ round[c] = 1}

\* Plausible bug: the finally clause is forgotten: a login that failed stays in connecting.
FailedClientCloses_KeepsLogin(k) ==
  /\ connecting[k] # None
  /\ tdlib[connecting[k]] = "failed"
  /\ tdlib' = [tdlib EXCEPT ![connecting[k]] = "closed"]
  /\ pc' = [c \in Calls |-> IF c \in Retry(k) THEN "reonboarding"
                            ELSE IF c \in Waiting(k) THEN "nothing" ELSE pc[c]]
  /\ round' = [c \in Calls |-> IF c \in Retry(k) THEN 2 ELSE round[c]]
  /\ UNCHANGED <<acct, connecting, clients, phase, late>>

\* The callers with a phone number ask for a new login, the others return nothing.
FailedClientCloses(k) ==
  /\ phase # "exited"
  /\ connecting[k] # None
  /\ tdlib[connecting[k]] = "failed"
  /\ tdlib' = [tdlib EXCEPT ![connecting[k]] = "closed"]
  /\ connecting' = [connecting EXCEPT ![k] = None]
  /\ clients' = IF Retry(k) = {} THEN clients ELSE [clients EXCEPT ![k] = None]
  /\ pc' = [c \in Calls |-> IF c \in Retry(k) THEN "reonboarding"
                            ELSE IF c \in Waiting(k) THEN "nothing" ELSE pc[c]]
  /\ round' = [c \in Calls |-> IF c \in Retry(k) THEN 2 ELSE round[c]]
  /\ UNCHANGED <<acct, phase, late>>

Reonboarded(c) ==
  /\ pc[c] = "reonboarding"
  /\ Served
  /\ \/ Goto(c, "regranting") /\ acct' = [acct EXCEPT ![c] = PhoneOf[c]]
     \/ \E end \in {"nothing", "threw"} : Goto(c, end) /\ UNCHANGED acct
  /\ UNCHANGED <<round, connecting, clients, tdlib, phase, late>>

-----------------------------------------------------------------------------
(* stop: the clients one after the other, then the provider's socket *)

StopBegins ==
  /\ phase = "running"
  /\ phase' = "stopping"
  /\ late' = {a \in Attempts : tdlib[a] \in {"unused", "loggingIn"}}
  /\ UNCHANGED <<pc, round, acct, connecting, clients, tdlib>>

\* Plausible bug: stop() forgets the clients without closing them.
StopCloses_Forgets(k) ==
  /\ phase = "stopping"
  /\ clients[k] # None
  /\ clients' = [clients EXCEPT ![k] = None]
  /\ UNCHANGED <<pc, round, acct, connecting, tdlib, phase, late>>

StopCloses(k) ==
  /\ phase = "stopping"
  /\ \A a \in Attempts : tdlib[a] # "stopping"
  /\ clients[k] # None
  /\ tdlib' = [tdlib EXCEPT ![clients[k]] = "stopping"]
  /\ UNCHANGED <<pc, round, acct, connecting, clients, phase, late>>

StopDeletes(k) ==
  /\ phase = "stopping"
  /\ clients[k] # None
  /\ tdlib[clients[k]] = "stopping"
  /\ tdlib' = [tdlib EXCEPT ![clients[k]] = "closed"]
  /\ clients' = [clients EXCEPT ![k] = None]
  /\ UNCHANGED <<pc, round, acct, connecting, phase, late>>

\* client.close() rejects and nothing catches it: the walk ends, the other clients
\* and the provider's socket stay as they are, and Node ends the process.
StopFails(k) ==
  /\ phase = "stopping"
  /\ clients[k] # None
  /\ tdlib[clients[k]] = "stopping"
  /\ phase' = "exited"
  /\ UNCHANGED <<pc, round, acct, connecting, clients, tdlib, late>>

StopEnds ==
  /\ phase = "stopping"
  /\ \A k \in Accounts : clients[k] = None
  /\ phase' = "closing"
  /\ UNCHANGED <<pc, round, acct, connecting, clients, tdlib, late>>

Exit ==
  /\ phase = "closing"
  /\ phase' = "exited"
  /\ UNCHANGED <<pc, round, acct, connecting, clients, tdlib, late>>

-----------------------------------------------------------------------------
Call(c) ==
  \/ Start(c) \/ LookupAnswers(c) \/ OnboardingEnds(c) \/ GrantRefused(c)
  \/ Granted(c) \/ Reonboarded(c)

Login(k) == LoginSucceeds(k) \/ LoginFails(k) \/ FailedClientCloses(k)

Stop ==
  \/ StopBegins \/ StopEnds \/ Exit
  \/ \E k \in Accounts : StopCloses(k) \/ StopDeletes(k) \/ StopFails(k)

Next == (\E c \in Calls : Call(c)) \/ (\E k \in Accounts : Login(k)) \/ Stop

Spec == Init /\ [][Next]_vars

\* The session provider answers every request and a login ends.
FairSpec ==
  /\ Spec
  /\ \A c \in Calls : WF_vars(Call(c))
  /\ \A k \in Accounts : WF_vars(Login(k))

-----------------------------------------------------------------------------
Live(a) == tdlib[a] \in {"loggingIn", "failed", "open", "stopping"}

\* TDLib locks an account's database directory: there is never more than one
\* client of an account that is not closed yet, whether it is kept in clients,
\* logging in, or being closed after a failed login.
OneClientPerAccount ==
  \A a, b \in Attempts : Live(a) /\ Live(b) /\ a[3] = b[3] => a = b

\* A login is in flight exactly as long as somebody awaits it.  No caller waits
\* for a promise that connectTdlib has forgotten, and a login that failed does
\* not stay behind for the next call to join, not even for the second attempt
\* of the call that made it.
LoginsAreAwaited == \A k \in Accounts : connecting[k] # None <=> Waiting(k) # {}

\* A close that was asked for and never answered.
CloseRejected == \E a \in Attempts : tdlib[a] = "stopping"

\* When the process exits every client is closed, except one whose login was
\* not over when stop() began; a close that rejects is the only thing that
\* leaves others open, for it ends the walk.
OnlyLateClientsLeftOpen ==
  phase = "exited" => CloseRejected \/ \A a \in Attempts : tdlib[a] = "open" => a \in late

\* Every call returns or throws, unless the process is shut down.
EveryCallEnds ==
  \A c \in Calls : pc[c] = "lookup" ~> pc[c] \in Ended \/ phase # "running"
=============================================================================
