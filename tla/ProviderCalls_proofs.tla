------------------------- MODULE ProviderCalls_proofs -------------------------
(***************************************************************************)
(* Proofs about ProviderCalls, for any sets of callers and any bound on    *)
(* the sockets that are lost.                                              *)
(*                                                                         *)
(* Counted relates the sockets to the losses.  Entered says that whoever   *)
(* is past its auth has been accepted on a socket, Noticed what the poller *)
(* knows of the owner, and Overdue that a request made after the deadline  *)
(* is the last one.                                                        *)
(***************************************************************************)
EXTENDS ProviderCalls, TLAPS

\* Every socket but the newest is lost, and that one when it closes.
Counted ==
  /\ ready \in {"connecting", "open"} => socket = losses + 1
  /\ ready \in {"closing", "closed"} => socket = losses

Entered ==
  \A o \in Onboardings :
    at[o] \in {"start", "status", "notifying", "sleeping", "greeting"} =>
      authOn[o] # 0 /\ authOn[o] \in authed /\ authOn[o] <= socket

Noticed ==
  \A o \in Onboardings :
    /\ last[o] # "none" => last[o] \in {told[o], unheard[o]}
    /\ at[o] \in {"sleeping", "status"} => phase[o] \in {told[o], unheard[o]}
    /\ at[o] = "notifying" => phase[o] \in Phases

Overdue ==
  \A o \in Onboardings :
    overdue[o] # 0 => overdue[o] = 1 /\ late[o] /\ at[o] # "sleeping"

Inv ==
  /\ TypeOK
  /\ Counted
  /\ Entered
  /\ OnlyReconnectsLoseCredentials
  /\ Noticed
  /\ Overdue

\* What TypeOK says of the variables Request and NoRequest change.
SocketTyped ==
  /\ socket \in Sockets
  /\ ready \in {"connecting", "open", "closing", "closed"}
  /\ waiting \subseteq Callers
  /\ pending \in [Callers -> {0} \cup Sockets]
  /\ wire \subseteq Callers
  /\ at \in [Callers -> Places]
  /\ waiting # {} => ready = "connecting"
  /\ \A c \in waiting : pending[c] = 0
  /\ \A c \in wire : pending[c] = socket /\ ready \in {"open", "closing"}
  /\ \A c \in Callers : at[c] \in Asking <=> (c \in waiting \/ pending[c] # 0)

\* The other variables of TypeOK.
PollerTyped ==
  /\ authed \subseteq Sockets
  /\ phase \in [Onboardings -> Phases \cup {"none"}]
  /\ last \in [Onboardings -> Phases \cup {"none"}]
  /\ late \in [Onboardings -> BOOLEAN]
  /\ losses \in 0..MaxLosses
  /\ told \in [Onboardings -> Phases \cup {"none"}]
  /\ unheard \in [Onboardings -> Phases \cup {"none"}]
  /\ authOn \in [Onboardings -> {0} \cup Sockets]
  /\ overdue \in [Onboardings -> Nat]

LEMMA TypeParts == TypeOK <=> SocketTyped /\ PollerTyped
BY DEF TypeOK, SocketTyped, PollerTyped

\* A caller that is answered, or that awaits no request, may make the next one;
\* a new socket is opened only after the newest one was lost.
LEMMA RequestTyped ==
  ASSUME SocketTyped, Counted, losses \in 0..MaxLosses,
         NEW c \in Callers, c \in wire \/ at[c] \notin Asking, NEW type \in Asking, Request(c, type)
  PROVE  SocketTyped'
<1>. USE LossesAssumption
<1>1. at' \in [Callers -> Places] /\ at'[c] = type
         /\ \A d \in Callers \ {c} : at'[d] = at[d]
  BY DEF Request, Goto, SocketTyped, Places
<1>2. CASE ready = "closed"
  <2>1. /\ socket' = socket + 1 /\ ready' = "connecting" /\ waiting' = {c}
        /\ pending' = pending /\ wire' = wire
    BY <1>2 DEF Request
  <2>2. socket' \in Sockets
    BY <1>2, <2>1 DEF SocketTyped, Counted, Sockets
  <2>3. wire = {} /\ waiting = {}
    BY <1>2 DEF SocketTyped
  <2>4. pending[c] = 0 \/ pending[c] # 0
    OBVIOUS
  <2>5. QED
    BY <1>1, <2>1, <2>2, <2>3 DEF SocketTyped
<1>3. CASE ready = "connecting"
  <2>1. /\ socket' = socket /\ ready' = ready /\ waiting' = waiting \cup {c}
        /\ pending' = pending /\ wire' = wire
    BY <1>3 DEF Request
  <2>2. QED
    BY <1>1, <1>3, <2>1 DEF SocketTyped
<1>4. CASE ready \in {"open", "closing"}
  <2>1. /\ socket' = socket /\ ready' = ready /\ waiting' = waiting
        /\ pending' = [pending EXCEPT ![c] = socket]
        /\ wire' \subseteq wire \cup {c}
    BY <1>4 DEF Request
  <2>2. /\ pending' \in [Callers -> {0} \cup Sockets] /\ pending'[c] = socket
        /\ \A d \in Callers \ {c} : pending'[d] = pending[d]
    BY <2>1 DEF SocketTyped
  <2>3. socket # 0
    BY DEF SocketTyped, Sockets
  <2>4. QED
    BY <1>1, <1>4, <2>1, <2>2, <2>3 DEF SocketTyped
<1>5. QED
  BY <1>2, <1>3, <1>4 DEF SocketTyped

LEMMA NoRequestTyped ==
  ASSUME SocketTyped, NEW c \in Callers, c \in wire \/ at[c] \notin Asking,
         NEW place \in Places \ Asking, NoRequest(c, place)
  PROVE  SocketTyped'
<1>1. at' \in [Callers -> Places] /\ at'[c] = place
         /\ \A d \in Callers \ {c} : at'[d] = at[d]
  BY DEF NoRequest, Goto, SocketTyped, Places
<1>2. /\ socket' = socket /\ ready' = ready /\ waiting' = waiting
      /\ wire' = wire \ {c}
      /\ pending' \in [Callers -> {0} \cup Sockets] /\ pending'[c] = 0
      /\ \A d \in Callers \ {c} : pending'[d] = pending[d]
  BY DEF NoRequest, SocketTyped
<1>3. QED
  BY <1>1, <1>2 DEF SocketTyped

-----------------------------------------------------------------------------
(* The variables keep their types.                                          *)

LEMMA TypeStep ==
  ASSUME Inv, [Next]_vars
  PROVE  TypeOK'
<1>. USE LossesAssumption
<1>0. /\ SocketTyped /\ PollerTyped /\ Counted /\ losses \in 0..MaxLosses
      /\ Onboardings \subseteq Callers /\ Lookups \subseteq Callers
  BY TypeParts DEF Inv, PollerTyped, Callers
<1>1. CASE Opens
  <2>1. /\ ready = "connecting" /\ ready' = "open" /\ waiting' = {}
        /\ socket' = socket /\ at' = at /\ wire' = wire \cup waiting
        /\ pending' = [c \in Callers |-> IF c \in waiting THEN socket ELSE pending[c]]
    BY <1>1 DEF Opens
  <2>2. wire = {} /\ socket # 0
    BY <1>0, <2>1 DEF SocketTyped, Sockets
  <2>3. SocketTyped'
    BY <1>0, <2>1, <2>2 DEF SocketTyped
  <2>4. PollerTyped'
    BY <1>0, <1>1 DEF Opens, PollerTyped, poller
  <2>5. QED
    BY <2>3, <2>4, TypeParts DEF TypeOK, SocketTyped, PollerTyped
<1>2. CASE ConnectFails
  <2>1. /\ ready = "connecting" /\ ready' = "closed" /\ waiting' = {}
        /\ socket' = socket /\ pending' = pending /\ wire' = wire
        /\ at' = [c \in Callers |-> IF c \in waiting THEN "failed" ELSE at[c]]
        /\ losses' = losses + 1 /\ losses < MaxLosses
    BY <1>2 DEF ConnectFails
  <2>2. wire = {} /\ "failed" \in Places \ Asking
    BY <1>0, <2>1 DEF SocketTyped, Places, Ended, Asking
  <2>3. SocketTyped'
    BY <1>0, <2>1, <2>2 DEF SocketTyped
  <2>4. PollerTyped'
    BY <1>0, <1>2, <2>1 DEF ConnectFails, PollerTyped, poller
  <2>5. QED
    BY <2>3, <2>4 DEF TypeOK, SocketTyped, PollerTyped
<1>3. CASE Closing
  <2>1. SocketTyped'
    BY <1>0, <1>3 DEF Closing, SocketTyped
  <2>2. PollerTyped'
    BY <1>0, <1>3 DEF Closing, PollerTyped, poller
  <2>3. QED
    BY <2>1, <2>2 DEF TypeOK, SocketTyped, PollerTyped
<1>4. CASE Closed
  <2>1. SocketTyped'
    BY <1>0, <1>4 DEF Closed, SocketTyped
  <2>2. PollerTyped'
    BY <1>0, <1>4 DEF Closed, PollerTyped, poller
  <2>3. QED
    BY <2>1, <2>2 DEF TypeOK, SocketTyped, PollerTyped
<1>5. ASSUME NEW l \in Lookups, StartLookup(l)
      PROVE  TypeOK'
  <2>1. l \in Callers /\ at[l] \notin Asking /\ "lookup" \in Asking
    BY <1>0, <1>5 DEF StartLookup, Asking
  <2>2. SocketTyped'
    BY <1>0, <1>5, <2>1, RequestTyped DEF StartLookup
  <2>3. PollerTyped'
    BY <1>0, <1>5 DEF StartLookup, PollerTyped, poller
  <2>4. QED
    BY <2>2, <2>3 DEF TypeOK, SocketTyped, PollerTyped
<1>6. ASSUME NEW o \in Onboardings, Begin(o)
      PROVE  TypeOK'
  <2>1. o \in Callers /\ at[o] \notin Asking /\ "auth" \in Asking
    BY <1>0, <1>6 DEF Begin, Asking
  <2>2. SocketTyped'
    BY <1>0, <1>6, <2>1, RequestTyped DEF Begin
  <2>3. PollerTyped'
    BY <1>0, <1>6 DEF Begin, PollerTyped, poller
  <2>4. QED
    BY <2>2, <2>3 DEF TypeOK, SocketTyped, PollerTyped
<1>7. ASSUME NEW o \in Onboardings, Notified(o)
      PROVE  TypeOK'
  <2>1. /\ o \in Callers /\ at[o] \notin Asking
        /\ {"timedOut", "sleeping"} \subseteq Places \ Asking
    BY <1>0, <1>7 DEF Notified, Asking, Places, Ended
  <2>2. NoRequest(o, "timedOut") \/ NoRequest(o, "sleeping")
    BY <1>7 DEF Notified, TimeOutOrSleep
  <2>3. SocketTyped'
    BY <1>0, <2>1, <2>2, NoRequestTyped
  <2>4. PollerTyped'
    BY <1>0, <1>7 DEF Notified, Arrives, GoesAstray, PollerTyped
  <2>5. QED
    BY <2>3, <2>4 DEF TypeOK, SocketTyped, PollerTyped
<1>8. ASSUME NEW o \in Onboardings, Polls(o)
      PROVE  TypeOK'
  <2>1. o \in Callers /\ at[o] \notin Asking /\ "status" \in Asking
    BY <1>0, <1>8 DEF Polls, Asking
  <2>2. SocketTyped'
    BY <1>0, <1>8, <2>1, RequestTyped DEF Polls
  <2>3. PollerTyped'
    BY <1>0, <1>8 DEF Polls, PollerTyped
  <2>4. QED
    BY <2>2, <2>3 DEF TypeOK, SocketTyped, PollerTyped
<1>9. ASSUME NEW o \in Onboardings, Greeted(o)
      PROVE  TypeOK'
  <2>1. o \in Callers /\ at[o] \notin Asking /\ "complete" \in Places \ Asking
    BY <1>0, <1>9 DEF Greeted, Asking, Places, Ended
  <2>2. SocketTyped'
    BY <1>0, <1>9, <2>1, NoRequestTyped DEF Greeted
  <2>3. PollerTyped'
    BY <1>0, <1>9 DEF Greeted, PollerTyped, poller
  <2>4. QED
    BY <2>2, <2>3 DEF TypeOK, SocketTyped, PollerTyped
<1>10. ASSUME NEW o \in Onboardings, DeadlinePasses(o)
       PROVE  TypeOK'
  <2>1. SocketTyped'
    BY <1>0, <1>10 DEF DeadlinePasses, SocketTyped
  <2>2. PollerTyped'
    BY <1>0, <1>10 DEF DeadlinePasses, PollerTyped
  <2>3. QED
    BY <2>1, <2>2 DEF TypeOK, SocketTyped, PollerTyped
<1>11. ASSUME NEW c \in Callers, LookupAnswered(c) \/ ErrorAnswered(c)
       PROVE  TypeOK'
  <2>1. /\ {"complete", "failed"} \subseteq Places \ Asking
        /\ c \in wire
        /\ NoRequest(c, "complete") \/ NoRequest(c, "failed")
    BY <1>11 DEF LookupAnswered, ErrorAnswered, Asking, Places, Ended
  <2>2. SocketTyped'
    BY <1>0, <2>1, NoRequestTyped
  <2>3. PollerTyped'
    BY <1>0, <1>11 DEF LookupAnswered, ErrorAnswered, PollerTyped, poller
  <2>4. QED
    BY <2>2, <2>3 DEF TypeOK, SocketTyped, PollerTyped
<1>12. ASSUME NEW o \in Onboardings, AuthAnswered(o)
       PROVE  TypeOK'
  <2>1. o \in Callers /\ o \in wire /\ "start" \in Asking /\ socket \in Sockets
    BY <1>0, <1>12 DEF AuthAnswered, Asking, SocketTyped
  <2>2. SocketTyped'
    BY <1>0, <1>12, <2>1, RequestTyped DEF AuthAnswered
  <2>3. PollerTyped'
    BY <1>0, <1>12, <2>1 DEF AuthAnswered, PollerTyped
  <2>4. QED
    BY <2>2, <2>3 DEF TypeOK, SocketTyped, PollerTyped
<1>13. ASSUME NEW o \in Onboardings, StartAnswered(o) \/ StatusAnswered(o)
       PROVE  TypeOK'
  <2>1. /\ o \in Callers /\ o \in wire
        /\ {"complete", "greeting", "notifying", "timedOut", "sleeping"}
             \subseteq Places \ Asking
    BY <1>0, <1>13 DEF StartAnswered, StatusAnswered, Asking, Places, Ended
  <2>2. /\ \E place \in {"complete", "greeting", "notifying", "timedOut", "sleeping"} :
              NoRequest(o, place)
        /\ phase' = phase \/ \E step \in Phases : phase' = [phase EXCEPT ![o] = step]
    BY <1>13 DEF StartAnswered, StatusAnswered, LoopWith, TimeOutOrSleep
  <2>3. SocketTyped'
    BY <1>0, <2>1, <2>2, NoRequestTyped
  <2>4. PollerTyped'
    BY <1>0, <1>13, <2>2 DEF StartAnswered, StatusAnswered, PollerTyped
  <2>5. QED
    BY <2>3, <2>4 DEF TypeOK, SocketTyped, PollerTyped
<1>14. CASE UNCHANGED vars
  BY <1>0, <1>14 DEF Inv, TypeOK, vars
<1>15. QED
  BY <1>1, <1>2, <1>3, <1>4, <1>5, <1>6, <1>7, <1>8, <1>9, <1>10, <1>11, <1>12,
     <1>13, <1>14, <1>0 DEF Next, Answered, Continues

-----------------------------------------------------------------------------
(* The other parts.                                                         *)

\* What a request, and a settled one, may change.
LEMMA RequestMoves ==
  ASSUME NEW c, NEW type, Request(c, type), SocketTyped
  PROVE  /\ at' = [at EXCEPT ![c] = type]
         /\ \A d \in Callers \ {c} : pending'[d] = pending[d]
         /\ \/ ready = "closed" /\ ready' = "connecting" /\ socket' = socket + 1
            \/ ready' = ready /\ socket' = socket
         /\ pending' = pending \/ pending' = [pending EXCEPT ![c] = socket]
         /\ ready \in {"open", "closing"} => pending' = [pending EXCEPT ![c] = socket]
BY DEF Request, Goto, SocketTyped

LEMMA NoRequestMoves ==
  ASSUME NEW c, NEW place, NoRequest(c, place), SocketTyped
  PROVE  /\ at' = [at EXCEPT ![c] = place]
         /\ pending' = [pending EXCEPT ![c] = 0]
         /\ ready' = ready /\ socket' = socket
BY DEF NoRequest, Goto, SocketTyped

\* Each step but those of the socket is a request or the end of one.
LEMMA CallsMove ==
  ASSUME Inv, NEW c \in Callers,
         \/ c \in Lookups /\ StartLookup(c)
         \/ c \in Onboardings /\ (Begin(c) \/ Continues(c))
         \/ Answered(c)
  PROVE  /\ losses' = losses
         /\ \/ \E type \in Asking : Request(c, type)
            \/ \E place \in Places \ Asking : NoRequest(c, place)
BY DEF StartLookup, Begin, Continues, Notified, Polls, Greeted, Answered,
       LookupAnswered, AuthAnswered, StartAnswered, StatusAnswered,
       ErrorAnswered, LoopWith, TimeOutOrSleep, Asking, Places, Ended

LEMMA CountedStep ==
  ASSUME Inv, [Next]_vars
  PROVE  Counted'
<1>0. SocketTyped /\ Counted /\ socket \in Nat /\ losses \in Nat
  BY TypeParts, LossesAssumption DEF Inv, SocketTyped, PollerTyped, Sockets
<1>1. ASSUME NEW c \in Callers,
             \/ c \in Lookups /\ StartLookup(c)
             \/ c \in Onboardings /\ (Begin(c) \/ Continues(c))
             \/ Answered(c)
      PROVE  Counted'
  BY <1>0, <1>1, CallsMove, RequestMoves, NoRequestMoves DEF Counted
<1>2. CASE Opens
  BY <1>0, <1>2 DEF Opens, Counted
<1>3. CASE ConnectFails
  BY <1>0, <1>3 DEF ConnectFails, Counted
<1>4. CASE Closing
  BY <1>0, <1>4 DEF Closing, Counted
<1>5. CASE Closed
  BY <1>0, <1>5 DEF Closed, Counted
<1>6. CASE \E o \in Onboardings : DeadlinePasses(o)
  BY <1>0, <1>6 DEF DeadlinePasses, Counted
<1>7. CASE UNCHANGED vars
  BY <1>0, <1>7 DEF vars, Counted
<1>8. QED
  BY <1>1, <1>2, <1>3, <1>4, <1>5, <1>6, <1>7 DEF Next, Callers

Inside == {"start", "status", "notifying", "sleeping", "greeting"}

\* The credentials of one onboarding.
EnteredAt(o) ==
  at[o] \in Inside => authOn[o] # 0 /\ authOn[o] \in authed /\ authOn[o] <= socket

CoveredAt(o) ==
  at[o] \in {"start", "status"} /\ pending[o] # 0 =>
    pending[o] \in authed \/ (authOn[o] # 0 /\ authOn[o] < pending[o])

\* They stay as they are in a step that neither moves the onboarding nor sends
\* a request of its own.
LEMMA CredentialsKept ==
  ASSUME NEW o, EnteredAt(o), CoveredAt(o), socket \in Nat, socket' \in Nat,
         authOn[o] \in Nat, socket <= socket', authed \subseteq authed',
         authOn'[o] = authOn[o], pending'[o] \in {0, pending[o]},
         at'[o] = at[o] \/ at'[o] \notin Inside
  PROVE  EnteredAt(o)' /\ CoveredAt(o)'
<1>1. at[o] \in {"start", "status"} => at[o] \in Inside
  BY DEF Inside
<1>2. at'[o] \in {"start", "status"} => at'[o] \in Inside
  BY DEF Inside
<1>3. EnteredAt(o)'
  BY DEF EnteredAt
<1>4. CoveredAt(o)'
  BY <1>2 DEF CoveredAt
<1>5. QED
  BY <1>3, <1>4

LEMMA CredentialsStep ==
  ASSUME Inv, [Next]_vars, NEW o \in Onboardings
  PROVE  EnteredAt(o)' /\ CoveredAt(o)'
<1>0. /\ TypeOK /\ SocketTyped /\ EnteredAt(o) /\ CoveredAt(o)
      /\ socket \in Nat /\ socket # 0 /\ authOn[o] \in Nat /\ o \in Callers
  BY TypeParts DEF Inv, Entered, EnteredAt, Inside, OnlyReconnectsLoseCredentials,
     CoveredAt, SocketTyped, PollerTyped, Sockets, Callers
<1>1. socket' \in Nat
  BY TypeStep DEF TypeOK, Sockets
<1>2. CASE Opens
  <2>1. /\ socket' = socket /\ at' = at /\ authed' = authed /\ authOn' = authOn
        /\ pending'[o] = IF o \in waiting THEN socket ELSE pending[o]
    BY <1>0, <1>2 DEF Opens, poller
  <2>2. at[o] \in {"start", "status"} => at[o] \in Inside
    BY DEF Inside
  <2>3. QED
    BY <1>0, <2>1, <2>2 DEF EnteredAt, CoveredAt
<1>3. CASE ConnectFails
  <2>1. "failed" \notin Inside /\ at'[o] \in {at[o], "failed"}
    BY <1>0, <1>3 DEF ConnectFails, Inside
  <2>2. QED
    BY <1>0, <1>1, <1>3, <2>1, CredentialsKept DEF ConnectFails, poller
<1>4. CASE Closing \/ Closed
  BY <1>0, <1>1, <1>4, CredentialsKept DEF Closing, Closed, poller
<1>5. ASSUME NEW c \in Callers, c # o,
             \/ c \in Lookups /\ StartLookup(c)
             \/ c \in Onboardings /\ (Begin(c) \/ Continues(c))
             \/ Answered(c)
      PROVE  EnteredAt(o)' /\ CoveredAt(o)'
  <2>1. authed \subseteq authed' /\ authOn'[o] = authOn[o]
    BY <1>0, <1>5 DEF TypeOK, StartLookup, Begin, Continues, Notified, Polls, Greeted,
       Answered, LookupAnswered, AuthAnswered, StartAnswered, StatusAnswered,
       ErrorAnswered, poller
  <2>2. at'[o] = at[o] /\ pending'[o] = pending[o] /\ socket <= socket'
    BY <1>0, <1>5, CallsMove, RequestMoves, NoRequestMoves DEF TypeOK
  <2>3. QED
    BY <1>0, <1>1, <2>1, <2>2, CredentialsKept
<1>6. CASE Begin(o)
  <2>1. at'[o] = "auth" /\ "auth" \notin Inside
    BY <1>0, <1>6, RequestMoves DEF Begin, TypeOK, Inside
  <2>2. QED
    BY <2>1 DEF EnteredAt, CoveredAt, Inside
<1>7. CASE AuthAnswered(o)
  <2>1. ready \in {"open", "closing"} /\ pending[o] = socket
    BY <1>0, <1>7 DEF AuthAnswered, SocketTyped
  <2>2. socket' = socket /\ pending'[o] = socket
    BY <1>0, <1>7, <2>1, RequestMoves DEF AuthAnswered, SocketTyped
  <2>3. authOn'[o] = socket /\ socket \in authed'
    BY <1>0, <1>7 DEF AuthAnswered, TypeOK
  <2>4. QED
    BY <1>0, <2>2, <2>3 DEF EnteredAt, CoveredAt
<1>8. CASE Polls(o)
  <2>1. /\ at[o] = "sleeping" /\ at'[o] = "status" /\ authed' = authed
        /\ authOn' = authOn /\ authOn[o] # 0 /\ authOn[o] \in authed
        /\ authOn[o] <= socket
    BY <1>0, <1>8, RequestMoves DEF Polls, TypeOK, EnteredAt, Inside
  <2>2. pending[o] = 0
    BY <1>0, <2>1 DEF TypeOK, Asking
  <2>3. pending'[o] \in {0, socket} /\ socket <= socket'
    BY <1>0, <1>8, <2>2, RequestMoves DEF Polls, SocketTyped
  <2>4. QED
    BY <1>0, <1>1, <2>1, <2>3 DEF EnteredAt, CoveredAt
<1>9. CASE Notified(o) \/ Greeted(o) \/ StartAnswered(o) \/ StatusAnswered(o)
  <2>1. at[o] \in Inside
    BY <1>9 DEF Notified, Greeted, StartAnswered, StatusAnswered, Inside
  <2>2. PICK place \in Places \ Asking : NoRequest(o, place)
    BY <1>0, <1>9 DEF Notified, Greeted, StartAnswered, StatusAnswered, LoopWith,
       TimeOutOrSleep, Places, Asking, Ended
  <2>3. at'[o] = place /\ pending'[o] = 0 /\ socket' = socket
    BY <1>0, <2>2, NoRequestMoves DEF TypeOK
  <2>4. authed' = authed /\ authOn' = authOn
    BY <1>9 DEF Notified, Greeted, StartAnswered, StatusAnswered, poller
  <2>5. QED
    BY <1>0, <2>1, <2>3, <2>4 DEF EnteredAt, CoveredAt
<1>10. CASE ErrorAnswered(o) \/ LookupAnswered(o)
  <2>1. at'[o] \in {"failed", "complete"}
    BY <1>0, <1>10, NoRequestMoves DEF ErrorAnswered, LookupAnswered, TypeOK
  <2>2. QED
    BY <2>1 DEF EnteredAt, CoveredAt, Inside
<1>11. CASE \E x \in Onboardings : DeadlinePasses(x)
  BY <1>0, <1>1, <1>11, CredentialsKept DEF DeadlinePasses
<1>12. CASE UNCHANGED vars
  BY <1>0, <1>1, <1>12, CredentialsKept DEF vars
<1>13. ASSUME NEW c \in Callers,
              \/ c \in Lookups /\ StartLookup(c)
              \/ c \in Onboardings /\ (Begin(c) \/ Continues(c))
              \/ Answered(c)
       PROVE  EnteredAt(o)' /\ CoveredAt(o)'
  <2>1. CASE c # o
    BY <1>5, <1>13, <2>1
  <2>2. CASE c = o
    <3>1. o \notin Lookups
      BY DisjointAssumption
    <3>2. QED
      BY <1>6, <1>7, <1>8, <1>9, <1>10, <1>13, <2>2, <3>1 DEF Answered, Continues
  <2>3. QED
    BY <2>1, <2>2
<1>14. QED
  BY <1>2, <1>3, <1>4, <1>11, <1>12, <1>13 DEF Next, Callers

\* What the poller of one onboarding remembers.
NoticedAt(o) ==
  /\ last[o] # "none" => last[o] \in {told[o], unheard[o]}
  /\ at[o] \in {"sleeping", "status"} => phase[o] \in {told[o], unheard[o]}
  /\ at[o] = "notifying" => phase[o] \in Phases

OverdueAt(o) == overdue[o] # 0 => overdue[o] = 1 /\ late[o] /\ at[o] # "sleeping"

PollerAt(o) == <<phase[o], last[o], late[o], told[o], unheard[o], overdue[o]>>

\* A step of the socket or of another caller ends an onboarding at most.
LEMMA OthersKeep ==
  ASSUME Inv, NEW o \in Onboardings,
         \/ Opens \/ ConnectFails \/ Closing \/ Closed
         \/ \E c \in Callers \ {o} :
              \/ c \in Lookups /\ StartLookup(c)
              \/ c \in Onboardings /\ (Begin(c) \/ Continues(c) \/ DeadlinePasses(c))
              \/ Answered(c)
         \/ UNCHANGED vars
  PROVE  PollerAt(o)' = PollerAt(o) /\ at'[o] \in {at[o], "failed"}
<1>0. TypeOK /\ SocketTyped /\ o \in Callers
  BY TypeParts DEF Inv, Callers
<1>1. CASE Opens \/ ConnectFails \/ Closing \/ Closed \/ UNCHANGED vars
  BY <1>0, <1>1 DEF Opens, ConnectFails, Closing, Closed, vars, poller, PollerAt
<1>2. ASSUME NEW c \in Callers \ {o},
             \/ c \in Lookups /\ StartLookup(c)
             \/ c \in Onboardings /\ (Begin(c) \/ Continues(c))
             \/ Answered(c)
      PROVE  PollerAt(o)' = PollerAt(o) /\ at'[o] \in {at[o], "failed"}
  <2>1. at'[o] = at[o]
    BY <1>0, <1>2, CallsMove, RequestMoves, NoRequestMoves DEF TypeOK
  <2>2. PollerAt(o)' = PollerAt(o)
    BY <1>0, <1>2 DEF TypeOK, PollerAt, StartLookup, Begin, Continues, Notified,
       Arrives, GoesAstray, Polls, Greeted, Answered, LookupAnswered, AuthAnswered, StartAnswered, StatusAnswered,
       ErrorAnswered, LoopWith, poller
  <2>3. QED
    BY <2>1, <2>2
<1>3. ASSUME NEW c \in Onboardings \ {o}, DeadlinePasses(c)
      PROVE  PollerAt(o)' = PollerAt(o) /\ at'[o] \in {at[o], "failed"}
  BY <1>0, <1>3 DEF DeadlinePasses, TypeOK, PollerAt
<1>4. QED
  BY <1>1, <1>2, <1>3

LEMMA PollerStep ==
  ASSUME Inv, [Next]_vars, NEW o \in Onboardings
  PROVE  NoticedAt(o)' /\ OverdueAt(o)'
<1>0. TypeOK /\ SocketTyped /\ NoticedAt(o) /\ OverdueAt(o) /\ o \in Callers
  BY TypeParts DEF Inv, Noticed, Overdue, NoticedAt, OverdueAt, Callers
<1>1. CASE \/ Opens \/ ConnectFails \/ Closing \/ Closed \/ UNCHANGED vars
           \/ \E c \in Callers \ {o} :
                \/ c \in Lookups /\ StartLookup(c)
                \/ c \in Onboardings /\ (Begin(c) \/ Continues(c) \/ DeadlinePasses(c))
                \/ Answered(c)
  <2>1. PollerAt(o)' = PollerAt(o) /\ at'[o] \in {at[o], "failed"}
    BY <1>1, OthersKeep
  <2>2. QED
    BY <1>0, <2>1 DEF PollerAt, NoticedAt, OverdueAt
<1>2. CASE Begin(o) \/ AuthAnswered(o)
  <2>1. at'[o] \in {"auth", "start"}
    BY <1>0, <1>2, RequestMoves DEF Begin, AuthAnswered, TypeOK
  <2>2. PollerAt(o)' = PollerAt(o)
    BY <1>2 DEF Begin, AuthAnswered, poller, PollerAt
  <2>3. QED
    BY <1>0, <2>1, <2>2 DEF PollerAt, NoticedAt, OverdueAt
<1>3. CASE ErrorAnswered(o) \/ Greeted(o) \/ LookupAnswered(o)
  <2>1. at'[o] \in {"failed", "complete"}
    BY <1>0, <1>3, NoRequestMoves DEF ErrorAnswered, Greeted, LookupAnswered, TypeOK
  <2>2. PollerAt(o)' = PollerAt(o)
    BY <1>3 DEF ErrorAnswered, Greeted, LookupAnswered, poller, PollerAt
  <2>3. QED
    BY <1>0, <2>1, <2>2 DEF PollerAt, NoticedAt, OverdueAt
<1>4. CASE StartAnswered(o) \/ StatusAnswered(o)
  <2>1. /\ last' = last /\ told' = told /\ unheard' = unheard
        /\ late' = late /\ overdue' = overdue
    BY <1>4 DEF StartAnswered, StatusAnswered
  <2>2. CASE NoRequest(o, "complete") \/ NoRequest(o, "greeting")
    <3>1. at'[o] \in {"complete", "greeting"}
      BY <1>0, <2>2, NoRequestMoves DEF TypeOK
    <3>2. QED
      BY <1>0, <2>1, <3>1 DEF NoticedAt, OverdueAt
  <2>3. ASSUME NEW step \in Phases, LoopWith(o, step)
        PROVE  NoticedAt(o)' /\ OverdueAt(o)'
    <3>1. phase'[o] = step
      BY <1>0, <2>3 DEF LoopWith, TypeOK
    <3>2. CASE NoRequest(o, "notifying") \/ NoRequest(o, "timedOut")
      <4>1. at'[o] \in {"notifying", "timedOut"}
        BY <1>0, <3>2, NoRequestMoves DEF TypeOK
      <4>2. QED
        BY <1>0, <2>1, <2>3, <3>1, <4>1 DEF NoticedAt, OverdueAt
    <3>3. CASE NoRequest(o, "sleeping") /\ step = last[o] /\ ~late[o]
      BY <1>0, <2>1, <3>1, <3>3 DEF NoticedAt, OverdueAt, Phases
    <3>4. QED
      BY <2>3, <3>2, <3>3 DEF LoopWith, NewPhase, TimeOutOrSleep, DeadlineOver
  <2>4. QED
    BY <1>4, <2>2, <2>3 DEF StartAnswered, StatusAnswered
<1>5. CASE Notified(o)
  <2>1. /\ phase[o] \in {told'[o], unheard'[o]} /\ last'[o] = phase[o] /\ phase' = phase
        /\ late' = late /\ overdue' = overdue
    BY <1>0, <1>5 DEF Notified, Arrives, GoesAstray, TypeOK
  <2>2. \/ at'[o] = "timedOut"
        \/ at'[o] = "sleeping" /\ ~late[o]
    BY <1>0, <1>5, NoRequestMoves DEF Notified, TimeOutOrSleep, DeadlineOver, TypeOK
  <2>3. QED
    BY <1>0, <2>1, <2>2 DEF NoticedAt, OverdueAt
<1>6. CASE Polls(o)
  <2>1. /\ phase' = phase /\ last' = last /\ told' = told /\ unheard' = unheard
        /\ late' = late
        /\ at[o] = "sleeping" /\ at'[o] = "status"
    BY <1>0, <1>6, RequestMoves DEF Polls, TypeOK
  <2>2. overdue'[o] = IF late[o] THEN overdue[o] + 1 ELSE overdue[o]
    BY <1>0, <1>6 DEF Polls, TypeOK
  <2>3. overdue[o] = 0
    BY <1>0, <2>1 DEF OverdueAt
  <2>4. QED
    BY <1>0, <2>1, <2>2, <2>3 DEF NoticedAt, OverdueAt
<1>7. CASE DeadlinePasses(o)
  BY <1>0, <1>7 DEF DeadlinePasses, TypeOK, NoticedAt, OverdueAt
<1>8. QED
  <2>1. CASE \E c \in Callers :
               \/ c \in Lookups /\ StartLookup(c)
               \/ c \in Onboardings /\ (Begin(c) \/ Continues(c) \/ DeadlinePasses(c))
               \/ Answered(c)
    <3>1. PICK c \in Callers :
               \/ c \in Lookups /\ StartLookup(c)
               \/ c \in Onboardings /\ (Begin(c) \/ Continues(c) \/ DeadlinePasses(c))
               \/ Answered(c)
      BY <2>1
    <3>2. CASE c # o
      BY <1>1, <3>1, <3>2
    <3>3. CASE c = o
      <4>1. o \notin Lookups
        BY DisjointAssumption
      <4>2. QED
        BY <1>2, <1>3, <1>4, <1>5, <1>6, <1>7, <3>1, <3>3, <4>1 DEF Answered, Continues
    <3>4. QED
      BY <3>2, <3>3
  <2>2. QED
    BY <1>1, <2>1 DEF Next, Callers

-----------------------------------------------------------------------------
(* The theorems.                                                            *)

LEMMA Initially == Init => Inv
<1>. USE LossesAssumption
<1>1. ASSUME Init PROVE TypeOK
  BY <1>1 DEF Init, TypeOK, Sockets, Places, Asking, Ended
<1>2. ASSUME Init PROVE Counted
  BY <1>2 DEF Init, Counted
<1>3. ASSUME Init PROVE Entered /\ OnlyReconnectsLoseCredentials /\ Noticed /\ Overdue
  BY <1>3 DEF Init, Entered, OnlyReconnectsLoseCredentials, Noticed, Overdue, Callers
<1>4. QED
  BY <1>1, <1>2, <1>3 DEF Inv

LEMMA Inductive == Inv /\ [Next]_vars => Inv'
<1>1. SUFFICES ASSUME Inv, [Next]_vars PROVE Inv'
  OBVIOUS
<1>2. TypeOK' /\ Counted'
  BY <1>1, TypeStep, CountedStep
<1>3. Entered' /\ OnlyReconnectsLoseCredentials'
  BY <1>1, CredentialsStep
     DEF Entered, OnlyReconnectsLoseCredentials, EnteredAt, CoveredAt, Inside
<1>4. Noticed' /\ Overdue'
  BY <1>1, PollerStep DEF Noticed, Overdue, NoticedAt, OverdueAt
<1>5. QED
  BY <1>2, <1>3, <1>4 DEF Inv

LEMMA Invariance == SafeSpec => []Inv
BY Initially, Inductive, PTL DEF SafeSpec

\* Requests, sockets and pollers are where their types put them; in particular a
\* caller awaits a request exactly if it waits for a socket or is in `pending`.
THEOREM Typing == SafeSpec => []TypeOK
<1>1. Inv => TypeOK
  BY DEF Inv
<1>2. QED
  BY <1>1, Invariance, PTL

\* While it waits for a code or a password the owner was told last of that one,
\* or the one notice of it did not arrive (notifyOnboardingStep and lastPhase of
\* the poll loop).
THEOREM OwnerHasBeenAsked == SafeSpec => []OwnerIsAsked
<1>1. Inv => OwnerIsAsked
  BY DEF Inv, Noticed, OwnerIsAsked
<1>2. QED
  BY <1>1, Invariance, PTL

\* The poll loop makes one request after its deadline at most.
THEOREM DeadlineHolds == SafeSpec => []OnePollAfterDeadline
<1>1. Inv => OnePollAfterDeadline
  <2>1. SUFFICES ASSUME Inv, NEW o \in Onboardings PROVE overdue[o] <= 1
    BY DEF OnePollAfterDeadline
  <2>2. overdue[o] = 0 \/ overdue[o] = 1
    BY <2>1 DEF Inv, Overdue
  <2>3. QED
    BY <2>2
<1>2. QED
  BY <1>1, Invariance, PTL

\* Only a reconnect takes an onboarding to a socket without credentials.
THEOREM CredentialsCome == SafeSpec => []OnlyReconnectsLoseCredentials
<1>1. Inv => OnlyReconnectsLoseCredentials
  BY DEF Inv
<1>2. QED
  BY <1>1, Invariance, PTL

-----------------------------------------------------------------------------
(* Who waits for ever.                                                      *)

\* No request went over a socket that is not made yet, and one that cannot be
\* answered went over a lost one.
Orphans ==
  \A c \in Callers :
    /\ pending[c] <= socket
    /\ pending[c] # 0 /\ c \notin wire => Stranded(c)

\* A new socket strands whoever is pending already; on a closing one a request
\* is stranded from the start.
LEMMA RequestOrphans ==
  ASSUME SocketTyped, Orphans, NEW c \in Callers, NEW type, Request(c, type)
  PROVE  Orphans'
<1>0. /\ socket \in Nat /\ socket # 0
      /\ \A d \in Callers : pending[d] \in Nat
  BY DEF SocketTyped, Sockets
<1>1. CASE ready = "closed"
  <2>1. socket' = socket + 1 /\ pending' = pending
    BY <1>1 DEF Request
  <2>2. \A d \in Callers : pending[d] < socket + 1
    BY <1>0 DEF Orphans
  <2>3. QED
    BY <1>0, <2>1, <2>2 DEF Orphans, Stranded
<1>2. CASE ready = "connecting"
  <2>1. /\ socket' = socket /\ ready' = ready /\ pending' = pending /\ wire' = wire
    BY <1>2 DEF Request
  <2>2. QED
    BY <2>1 DEF Orphans, Stranded
<1>3. CASE ready \in {"open", "closing"}
  <2>1. /\ socket' = socket /\ ready' = ready
        /\ pending' = [pending EXCEPT ![c] = socket]
        /\ wire' = IF ready = "open" THEN wire \cup {c} ELSE wire \ {c}
    BY <1>3 DEF Request
  <2>2. /\ pending'[c] = socket
        /\ \A d \in Callers \ {c} : pending'[d] = pending[d] /\ (d \in wire' <=> d \in wire)
    BY <2>1 DEF SocketTyped
  <2>3. c \in wire' \/ ready' = "closing"
    BY <1>3, <2>1
  <2>4. QED
    BY <1>0, <2>1, <2>2, <2>3 DEF Orphans, Stranded
<1>4. QED
  BY <1>1, <1>2, <1>3 DEF SocketTyped

LEMMA NoRequestOrphans ==
  ASSUME SocketTyped, Orphans, NEW c \in Callers, NEW place, NoRequest(c, place)
  PROVE  Orphans'
<1>1. /\ socket' = socket /\ ready' = ready /\ wire' = wire \ {c} /\ pending'[c] = 0
      /\ \A d \in Callers \ {c} : pending'[d] = pending[d]
  BY DEF NoRequest, SocketTyped
<1>2. socket \in Nat
  BY DEF SocketTyped, Sockets
<1>3. QED
  BY <1>1, <1>2 DEF Orphans, Stranded

LEMMA OrphansStep ==
  ASSUME Inv, Orphans, [Next]_vars
  PROVE  Orphans'
<1>0. /\ SocketTyped /\ socket \in Nat
      /\ \A d \in Callers : pending[d] \in Nat
  BY TypeParts DEF Inv, SocketTyped, Sockets
<1>1. ASSUME NEW c \in Callers,
             \/ c \in Lookups /\ StartLookup(c)
             \/ c \in Onboardings /\ (Begin(c) \/ Continues(c))
             \/ Answered(c)
      PROVE  Orphans'
  BY <1>0, <1>1, CallsMove, RequestOrphans, NoRequestOrphans
<1>2. CASE Opens
  <2>1. /\ socket' = socket /\ ready = "connecting" /\ wire' = wire \cup waiting
        /\ pending' = [c \in Callers |-> IF c \in waiting THEN socket ELSE pending[c]]
    BY <1>2 DEF Opens
  <2>2. QED
    BY <1>0, <2>1 DEF Orphans, Stranded
<1>3. CASE ConnectFails
  BY <1>0, <1>3 DEF ConnectFails, Orphans, Stranded
<1>4. CASE Closing
  BY <1>0, <1>4 DEF Closing, Orphans, Stranded
<1>5. CASE Closed
  BY <1>0, <1>5 DEF Closed, Orphans, Stranded
<1>6. CASE (\E o \in Onboardings : DeadlinePasses(o)) \/ UNCHANGED vars
  <2>1. socket' = socket /\ ready' = ready /\ pending' = pending /\ wire' = wire
    BY <1>6 DEF DeadlinePasses, vars
  <2>2. QED
    BY <2>1 DEF Orphans, Stranded
<1>7. QED
  BY <1>1, <1>2, <1>3, <1>4, <1>5, <1>6 DEF Next, Callers

\* A call that awaits an answer waits for the socket to open, can be answered, or
\* is stranded: nothing but a lost socket leaves it without an answer to come.
\* EveryCallEnds adds that what can come does.
THEOREM OnlyLossesStrand ==
  SafeSpec => [](\A c \in Callers :
                   at[c] \in Asking => c \in waiting \/ c \in wire \/ Stranded(c))
<1>1. Init => Orphans
  BY DEF Init, Orphans
<1>2. Inv /\ Orphans /\ [Next]_vars => Orphans'
  BY OrphansStep
<1>3. Inv /\ Orphans =>
        \A c \in Callers : at[c] \in Asking => c \in waiting \/ c \in wire \/ Stranded(c)
  BY DEF Inv, TypeOK, Orphans
<1>4. QED
  BY <1>1, <1>2, <1>3, Invariance, PTL DEF SafeSpec
=============================================================================
