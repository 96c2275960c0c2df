------------------------- MODULE OwnerClients_proofs -------------------------
(***************************************************************************)
(* Proofs about OwnerClients, for any sets of calls and accounts.          *)
(*                                                                         *)
(* Every client that is not closed is in one of two places of its own      *)
(* account, connecting or clients, and an account never uses both: that    *)
(* is Held and Exclusive.  Unopened says that a call that is still asking  *)
(* for a session has not used the attempt it may make next, which keeps a  *)
(* client that was open when stop() began from being opened again.         *)
(***************************************************************************)
EXTENDS OwnerClients, TLAPS

Held ==
  \A a \in Attempts : Live(a) => connecting[a[3]] = a \/ clients[a[3]] = a

Exclusive == \A k \in Accounts : connecting[k] = None \/ clients[k] = None

Rounds ==
  \A c \in Calls :
    /\ pc[c] \in {"idle", "lookup", "onboarding", "granting"} => round[c] = 1
    /\ pc[c] \in {"reonboarding", "regranting"} => round[c] = 2
    /\ pc[c] \in {"onboarding", "reonboarding"} => c \in Phoned

\* The call of an attempt is past the point where it makes that attempt.
Made(a) ==
  /\ pc[a[1]] \notin {"idle", "lookup", "onboarding", "granting"}
  /\ a[2] = 2 => round[a[1]] = 2 /\ pc[a[1]] \notin {"reonboarding", "regranting"}

Unopened == \A a \in Attempts : tdlib[a] # "unused" => Made(a)

\* Whoever waits has a login to wait for, and the call that opened it waits.
Awaited ==
  /\ \A c \in Calls : pc[c] = "joined" => connecting[acct[c]] # None
  /\ \A k \in Accounts : connecting[k] # None =>
       pc[connecting[k][1]] = "joined" /\ acct[connecting[k][1]] = k

LateCovers ==
  phase # "running" => \A a \in Attempts : tdlib[a] \in {"unused", "loggingIn"} => a \in late

NoneKept ==
  /\ phase = "closing" => \A a \in Attempts : tdlib[a] = "open" => a \in late
  /\ OnlyLateClientsLeftOpen

Inv ==
  /\ TypeOK
  /\ Held
  /\ Exclusive
  /\ Awaited
  /\ Rounds
  /\ Unopened
  /\ LateCovers
  /\ NoneKept

-----------------------------------------------------------------------------
\* An attempt is a call, a round and an account.
LEMMA AttemptFacts ==
  /\ \A c \in Calls, r \in {1, 2}, k \in Accounts : <<c, r, k>> \in Attempts
  /\ \A a \in Attempts : a[1] \in Calls /\ a[2] \in {1, 2} /\ a[3] \in Accounts
  /\ None \notin Attempts
BY NoneAssumption DEF Attempts

\* In the initial states nothing is open and nobody waits.
LEMMA InitInv == Init => Inv
<1>1. SUFFICES ASSUME Init PROVE Inv
  OBVIOUS
<1>2. TypeOK
  BY <1>1, AttemptFacts, CallsAssumption DEF Init, TypeOK, Asking, Ended
<1>3. Held /\ Exclusive /\ LateCovers /\ NoneKept
  BY <1>1 DEF Init, Held, Exclusive, LateCovers, NoneKept, Live, OnlyLateClientsLeftOpen
<1>4. Awaited
  BY <1>1 DEF Init, Awaited
<1>5. Rounds /\ Unopened
  BY <1>1, AttemptFacts DEF Init, Rounds, Unopened
<1>6. QED
  BY <1>2, <1>3, <1>4, <1>5 DEF Inv

\* A call starts.
LEMMA StartInv ==
  ASSUME Inv, NEW c \in Calls, Start(c)
  PROVE  Inv'
<1> USE AttemptFacts, CallsAssumption DEF Inv
<1>1. TypeOK'
  BY DEF Start, Goto, TypeOK, Asking, Ended
<1>2. Held'
  BY DEF Start, Goto, Held, Live, TypeOK
<1>3. Exclusive'
  BY DEF Start, Goto, Exclusive, TypeOK
<1>4. Awaited'
  BY DEF Start, Goto, Awaited, TypeOK
<1>5. Rounds'
  BY DEF Start, Goto, Rounds, TypeOK, Ended, Asking
<1>6. Unopened'
  BY DEF Start, Goto, Unopened, Made, TypeOK, Rounds
<1>7. LateCovers'
  BY DEF Start, Goto, LateCovers, TypeOK
<1>8. NoneKept'
  BY DEF Start, Goto, NoneKept, TypeOK, LateCovers, Held, Exclusive, Live,
         OnlyLateClientsLeftOpen, CloseRejected
<1>9. QED
  BY <1>1, <1>2, <1>3, <1>4, <1>5, <1>6, <1>7, <1>8

\* The provider's lookup answers.
LEMMA LookupInv ==
  ASSUME Inv, NEW c \in Calls, LookupAnswers(c)
  PROVE  Inv'
<1> USE AttemptFacts, CallsAssumption DEF Inv
<1>1. TypeOK'
  BY DEF LookupAnswers, Goto, TypeOK, Asking, Ended
<1>2. Held'
  BY DEF LookupAnswers, Goto, Held, Live, TypeOK
<1>3. Exclusive'
  BY DEF LookupAnswers, Goto, Exclusive, TypeOK
<1>4. Awaited'
  BY DEF LookupAnswers, Goto, Awaited, TypeOK
<1>5. Rounds'
  BY DEF LookupAnswers, Goto, Rounds, TypeOK, Ended, Asking
<1>6. Unopened'
  BY DEF LookupAnswers, Goto, Unopened, Made, TypeOK, Rounds
<1>7. LateCovers'
  BY DEF LookupAnswers, Goto, LateCovers, TypeOK
<1>8. NoneKept'
  BY DEF LookupAnswers, Goto, Served, NoneKept, TypeOK, LateCovers, Held, Exclusive, Live,
         OnlyLateClientsLeftOpen, CloseRejected
<1>9. QED
  BY <1>1, <1>2, <1>3, <1>4, <1>5, <1>6, <1>7, <1>8

\* The onboarding ends.
LEMMA OnboardingInv ==
  ASSUME Inv, NEW c \in Calls, OnboardingEnds(c)
  PROVE  Inv'
<1> USE AttemptFacts, CallsAssumption DEF Inv
<1>1. TypeOK'
  BY DEF OnboardingEnds, Goto, TypeOK, Rounds, Asking, Ended
<1>2. Held'
  BY DEF OnboardingEnds, Goto, Held, Live, TypeOK
<1>3. Exclusive'
  BY DEF OnboardingEnds, Goto, Exclusive, TypeOK
<1>4. Awaited'
  BY DEF OnboardingEnds, Goto, Awaited, TypeOK
<1>5. Rounds'
  BY DEF OnboardingEnds, Goto, Rounds, TypeOK, Ended, Asking
<1>6. Unopened'
  BY DEF OnboardingEnds, Goto, Unopened, Made, TypeOK, Rounds
<1>7. LateCovers'
  BY DEF OnboardingEnds, Goto, LateCovers, TypeOK
<1>8. NoneKept'
  BY DEF OnboardingEnds, Goto, Served, NoneKept, TypeOK, LateCovers, Held, Exclusive, Live,
         OnlyLateClientsLeftOpen, CloseRejected
<1>9. QED
  BY <1>1, <1>2, <1>3, <1>4, <1>5, <1>6, <1>7, <1>8

\* No session is granted.
LEMMA RefusedInv ==
  ASSUME Inv, NEW c \in Calls, GrantRefused(c)
  PROVE  Inv'
<1> USE AttemptFacts, CallsAssumption DEF Inv
<1>1. TypeOK'
  BY DEF GrantRefused, Goto, TypeOK, Asking, Ended
<1>2. Held'
  BY DEF GrantRefused, Goto, Held, Live, TypeOK
<1>3. Exclusive'
  BY DEF GrantRefused, Goto, Exclusive, TypeOK
<1>4. Awaited'
  BY DEF GrantRefused, Goto, Awaited, TypeOK
<1>5. Rounds'
  BY DEF GrantRefused, Goto, Rounds, TypeOK, Ended, Asking
<1>6. Unopened'
  BY DEF GrantRefused, Goto, Unopened, Made, TypeOK, Rounds
<1>7. LateCovers'
  BY DEF GrantRefused, Goto, LateCovers, TypeOK
<1>8. NoneKept'
  BY DEF GrantRefused, Goto, Served, NoneKept, TypeOK, LateCovers, Held, Exclusive, Live,
         OnlyLateClientsLeftOpen, CloseRejected
<1>9. QED
  BY <1>1, <1>2, <1>3, <1>4, <1>5, <1>6, <1>7, <1>8

\* A session is granted and the account has a client.
LEMMA CachedInv ==
  ASSUME Inv, NEW c \in Calls, Granted(c), TakeCached(c)
  PROVE  Inv'
<1> USE AttemptFacts, CallsAssumption DEF Inv
<1>1. TypeOK'
  BY DEF Granted, TakeCached, Goto, TypeOK, Asking, Ended
<1>2. Held'
  BY DEF Granted, TakeCached, Goto, Held, Live, TypeOK
<1>3. Exclusive'
  BY DEF Granted, TakeCached, Goto, Exclusive, TypeOK
<1>4. Awaited'
  BY DEF Granted, TakeCached, Goto, Awaited, TypeOK
<1>5. Rounds'
  BY DEF Granted, TakeCached, Goto, Rounds, TypeOK, Ended, Asking
<1>6. Unopened'
  BY DEF Granted, TakeCached, Goto, Unopened, Made, TypeOK, Rounds
<1>7. LateCovers'
  BY DEF Granted, TakeCached, Goto, LateCovers, TypeOK
<1>8. NoneKept'
  BY DEF Granted, TakeCached, Goto, Served, NoneKept, TypeOK, LateCovers, Held, Exclusive, Live,
         OnlyLateClientsLeftOpen, CloseRejected
<1>9. QED
  BY <1>1, <1>2, <1>3, <1>4, <1>5, <1>6, <1>7, <1>8

\* A session is granted and the account has a login in flight.
LEMMA JoinInv ==
  ASSUME Inv, NEW c \in Calls, Granted(c), JoinInFlight(c)
  PROVE  Inv'
<1> USE AttemptFacts, CallsAssumption DEF Inv
<1>1. TypeOK'
  BY DEF Granted, JoinInFlight, Goto, TypeOK, Asking, Ended
<1>2. Held'
  BY DEF Granted, JoinInFlight, Goto, Held, Live, TypeOK
<1>3. Exclusive'
  BY DEF Granted, JoinInFlight, Goto, Exclusive, TypeOK
<1>4. Awaited'
  BY DEF Granted, JoinInFlight, Goto, Awaited, TypeOK
<1>5. Rounds'
  BY DEF Granted, JoinInFlight, Goto, Rounds, TypeOK, Ended, Asking
<1>6. Unopened'
  BY DEF Granted, JoinInFlight, Goto, Unopened, Made, TypeOK, Rounds
<1>7. LateCovers'
  BY DEF Granted, JoinInFlight, Goto, LateCovers, TypeOK
<1>8. NoneKept'
  BY DEF Granted, JoinInFlight, Goto, Served, NoneKept, TypeOK, LateCovers, Held, Exclusive, Live,
         OnlyLateClientsLeftOpen, CloseRejected
<1>9. QED
  BY <1>1, <1>2, <1>3, <1>4, <1>5, <1>6, <1>7, <1>8

\* A session is granted and the account has neither: a client is opened.
LEMMA OpenInv ==
  ASSUME Inv, NEW c \in Calls, Granted(c), Open(c)
  PROVE  Inv'
<1> USE AttemptFacts, CallsAssumption DEF Inv
<1> DEFINE a == <<c, round[c], acct[c]>>
<1>a. a \in Attempts /\ a[1] = c /\ a[2] = round[c] /\ a[3] = acct[c]
  BY DEF TypeOK
<1>b. tdlib[a] = "unused"
  BY <1>a DEF Granted, TypeOK, Rounds, Unopened, Made
<1>c. \/ /\ connecting' = [connecting EXCEPT ![acct[c]] = a]
         /\ tdlib' = [tdlib EXCEPT ![a] = "loggingIn"]
         /\ pc' = [pc EXCEPT ![c] = "joined"]
      \/ UNCHANGED <<connecting, tdlib>> /\ pc' = [pc EXCEPT ![c] = "threw"]
  BY DEF Open, ClientCreated, FilesNotWritten, Goto
<1>d. UNCHANGED <<round, acct, clients, phase, late>> /\ acct[c] \in Accounts
      /\ phase # "exited"
      /\ clients[acct[c]] = None /\ connecting[acct[c]] = None
  BY DEF Granted, Open, Served, TypeOK
<1> HIDE DEF a
<1>1. TypeOK'
  BY <1>a, <1>c, <1>d DEF TypeOK, Asking, Ended
<1>2. Held'
  BY <1>a, <1>c, <1>d DEF Held, Live, TypeOK
<1>3. Exclusive'
  BY <1>a, <1>c, <1>d DEF Exclusive, TypeOK
<1>4. Awaited'
  BY <1>a, <1>c, <1>d DEF Awaited, TypeOK
<1>5. Rounds'
  BY <1>c, <1>d DEF Rounds, TypeOK
<1>6. Unopened'
  BY <1>a, <1>c, <1>d DEF Granted, Unopened, Made, TypeOK, Rounds
<1>7. LateCovers'
  BY <1>a, <1>b, <1>c, <1>d DEF LateCovers, TypeOK
<1>8. NoneKept'
  BY <1>a, <1>c, <1>d DEF NoneKept, OnlyLateClientsLeftOpen, TypeOK
<1>9. QED
  BY <1>1, <1>2, <1>3, <1>4, <1>5, <1>6, <1>7, <1>8

\* A login succeeds.
LEMMA SucceedsInv ==
  ASSUME Inv, NEW k \in Accounts, LoginSucceeds(k)
  PROVE  Inv'
<1> USE AttemptFacts, CallsAssumption DEF Inv
<1>1. TypeOK'
  BY DEF LoginSucceeds, Waiting, TypeOK, Asking, Ended
<1>2. Held'
  <2>1. SUFFICES ASSUME NEW a \in Attempts, Live(a)'
                 PROVE  (connecting[a[3]] = a \/ clients[a[3]] = a)'
    BY DEF Held
  <2>2. CASE a = connecting[k]
    BY <2>2 DEF LoginSucceeds, TypeOK
  <2>3. CASE a # connecting[k]
    <3>1. Live(a)
      BY <2>1, <2>3 DEF LoginSucceeds, TypeOK, Live
    <3>2. CASE a[3] = k
      BY <2>3, <3>1, <3>2 DEF LoginSucceeds, TypeOK, Held, Exclusive
    <3>3. CASE a[3] # k
      BY <3>1, <3>3 DEF LoginSucceeds, TypeOK, Held
    <3>4. QED
      BY <3>2, <3>3
  <2>4. QED
    BY <2>2, <2>3
<1>3. Exclusive'
  BY DEF LoginSucceeds, Waiting, Exclusive, TypeOK
<1>4. Awaited'
  BY DEF LoginSucceeds, Waiting, Awaited, TypeOK
<1>5. Rounds'
  BY DEF LoginSucceeds, Waiting, Rounds, TypeOK, Ended, Asking
<1>6. Unopened'
  BY DEF LoginSucceeds, Waiting, Unopened, Made, TypeOK, Rounds
<1>7. LateCovers'
  BY DEF LoginSucceeds, Waiting, LateCovers, TypeOK
<1>8. NoneKept'
  BY DEF LoginSucceeds, Waiting, NoneKept, TypeOK, LateCovers, Held, Exclusive, Live,
         OnlyLateClientsLeftOpen, CloseRejected
<1>9. QED
  BY <1>1, <1>2, <1>3, <1>4, <1>5, <1>6, <1>7, <1>8

\* A login fails.
LEMMA FailsInv ==
  ASSUME Inv, NEW k \in Accounts, LoginFails(k)
  PROVE  Inv'
<1> USE AttemptFacts, CallsAssumption DEF Inv
<1>1. TypeOK'
  BY DEF LoginFails, TypeOK, Asking, Ended
<1>2. Held'
  BY DEF LoginFails, Held, Live, TypeOK
<1>3. Exclusive'
  BY DEF LoginFails, Exclusive, TypeOK
<1>4. Awaited'
  BY DEF LoginFails, Awaited, TypeOK
<1>5. Rounds'
  BY DEF LoginFails, Rounds, TypeOK, Ended, Asking
<1>6. Unopened'
  BY DEF LoginFails, Unopened, Made, TypeOK, Rounds
<1>7. LateCovers'
  BY DEF LoginFails, LateCovers, TypeOK
<1>8. NoneKept'
  BY DEF LoginFails, NoneKept, TypeOK, LateCovers, Held, Exclusive, Live,
         OnlyLateClientsLeftOpen, CloseRejected
<1>9. QED
  BY <1>1, <1>2, <1>3, <1>4, <1>5, <1>6, <1>7, <1>8

\* The client of a failed login is closed.
LEMMA FailedClosesInv ==
  ASSUME Inv, NEW k \in Accounts, FailedClientCloses(k)
  PROVE  Inv'
<1> USE AttemptFacts, CallsAssumption DEF Inv
<1>1. TypeOK'
  BY DEF FailedClientCloses, Waiting, Retry, TypeOK, Asking, Ended
<1>2. Held'
  <2>1. SUFFICES ASSUME NEW a \in Attempts, Live(a)'
                 PROVE  (connecting[a[3]] = a \/ clients[a[3]] = a)'
    BY DEF Held
  <2>2. a # connecting[k] /\ Live(a)
    BY <2>1 DEF FailedClientCloses, TypeOK, Live
  <2>3. clients' = clients
    BY DEF FailedClientCloses, TypeOK, Exclusive
  <2>4. CASE a[3] = k
    BY <2>2, <2>3, <2>4 DEF FailedClientCloses, Held
  <2>5. CASE a[3] # k
    BY <2>2, <2>3, <2>5 DEF FailedClientCloses, TypeOK, Held
  <2>6. QED
    BY <2>4, <2>5
<1>3. Exclusive'
  BY DEF FailedClientCloses, Waiting, Retry, Exclusive, TypeOK
<1>4. Awaited'
  BY DEF FailedClientCloses, Waiting, Retry, Awaited, TypeOK
<1>5. Rounds'
  BY DEF FailedClientCloses, Waiting, Retry, Rounds, TypeOK, Ended, Asking
<1>6. Unopened'
  BY DEF FailedClientCloses, Waiting, Retry, Unopened, Made, TypeOK, Rounds
<1>7. LateCovers'
  BY DEF FailedClientCloses, Waiting, Retry, LateCovers, TypeOK
<1>8. NoneKept'
  BY DEF FailedClientCloses, Waiting, Retry, NoneKept, TypeOK, LateCovers, Held, Exclusive, Live,
         OnlyLateClientsLeftOpen, CloseRejected
<1>9. QED
  BY <1>1, <1>2, <1>3, <1>4, <1>5, <1>6, <1>7, <1>8

\* The owner has logged in again, or has not.
LEMMA ReonboardedInv ==
  ASSUME Inv, NEW c \in Calls, Reonboarded(c)
  PROVE  Inv'
<1> USE AttemptFacts, CallsAssumption DEF Inv
<1>1. TypeOK'
  BY DEF Reonboarded, Goto, TypeOK, Rounds, Asking, Ended
<1>2. Held'
  BY DEF Reonboarded, Goto, Held, Live, TypeOK
<1>3. Exclusive'
  BY DEF Reonboarded, Goto, Exclusive, TypeOK
<1>4. Awaited'
  BY DEF Reonboarded, Goto, Awaited, TypeOK
<1>5. Rounds'
  BY DEF Reonboarded, Goto, Rounds, TypeOK, Ended, Asking
<1>6. Unopened'
  BY DEF Reonboarded, Goto, Unopened, Made, TypeOK, Rounds
<1>7. LateCovers'
  BY DEF Reonboarded, Goto, LateCovers, TypeOK
<1>8. NoneKept'
  BY DEF Reonboarded, Goto, Served, NoneKept, TypeOK, LateCovers, Held, Exclusive, Live,
         OnlyLateClientsLeftOpen, CloseRejected
<1>9. QED
  BY <1>1, <1>2, <1>3, <1>4, <1>5, <1>6, <1>7, <1>8

\* stop() begins.
LEMMA StopBeginsInv ==
  ASSUME Inv, StopBegins
  PROVE  Inv'
<1> USE AttemptFacts, CallsAssumption DEF Inv
<1>1. TypeOK'
  BY DEF StopBegins, TypeOK, Asking, Ended
<1>2. Held'
  BY DEF StopBegins, Held, Live, TypeOK
<1>3. Exclusive'
  BY DEF StopBegins, Exclusive, TypeOK
<1>4. Awaited'
  BY DEF StopBegins, Awaited, TypeOK
<1>5. Rounds'
  BY DEF StopBegins, Rounds, TypeOK, Ended, Asking
<1>6. Unopened'
  BY DEF StopBegins, Unopened, Made, TypeOK, Rounds
<1>7. LateCovers'
  BY DEF StopBegins, LateCovers, TypeOK
<1>8. NoneKept'
  BY DEF StopBegins, NoneKept, TypeOK, LateCovers, Held, Exclusive, Live,
         OnlyLateClientsLeftOpen, CloseRejected
<1>9. QED
  BY <1>1, <1>2, <1>3, <1>4, <1>5, <1>6, <1>7, <1>8

\* stop() starts to close a client.
LEMMA StopClosesInv ==
  ASSUME Inv, NEW k \in Accounts, StopCloses(k)
  PROVE  Inv'
<1> USE AttemptFacts, CallsAssumption DEF Inv
<1>1. TypeOK'
  BY DEF StopCloses, TypeOK, Asking, Ended
<1>2. Held'
  BY DEF StopCloses, Held, Live, TypeOK
<1>3. Exclusive'
  BY DEF StopCloses, Exclusive, TypeOK
<1>4. Awaited'
  BY DEF StopCloses, Awaited, TypeOK
<1>5. Rounds'
  BY DEF StopCloses, Rounds, TypeOK, Ended, Asking
<1>6. Unopened'
  BY DEF StopCloses, Unopened, Made, TypeOK, Rounds
<1>7. LateCovers'
  BY DEF StopCloses, LateCovers, TypeOK
<1>8. NoneKept'
  BY DEF StopCloses, NoneKept, TypeOK, LateCovers, Held, Exclusive, Live,
         OnlyLateClientsLeftOpen, CloseRejected
<1>9. QED
  BY <1>1, <1>2, <1>3, <1>4, <1>5, <1>6, <1>7, <1>8

\* stop() has closed a client.
LEMMA StopDeletesInv ==
  ASSUME Inv, NEW k \in Accounts, StopDeletes(k)
  PROVE  Inv'
<1> USE AttemptFacts, CallsAssumption DEF Inv
<1>1. TypeOK'
  BY DEF StopDeletes, TypeOK, Asking, Ended
<1>2. Held'
  BY DEF StopDeletes, Held, Live, TypeOK
<1>3. Exclusive'
  BY DEF StopDeletes, Exclusive, TypeOK
<1>4. Awaited'
  BY DEF StopDeletes, Awaited, TypeOK
<1>5. Rounds'
  BY DEF StopDeletes, Rounds, TypeOK, Ended, Asking
<1>6. Unopened'
  BY DEF StopDeletes, Unopened, Made, TypeOK, Rounds
<1>7. LateCovers'
  BY DEF StopDeletes, LateCovers, TypeOK
<1>8. NoneKept'
  BY DEF StopDeletes, NoneKept, TypeOK, LateCovers, Held, Exclusive, Live,
         OnlyLateClientsLeftOpen, CloseRejected
<1>9. QED
  BY <1>1, <1>2, <1>3, <1>4, <1>5, <1>6, <1>7, <1>8

\* A client does not let itself be closed.
LEMMA StopFailsInv ==
  ASSUME Inv, NEW k \in Accounts, StopFails(k)
  PROVE  Inv'
<1> USE AttemptFacts, CallsAssumption DEF Inv
<1>1. TypeOK'
  BY DEF StopFails, TypeOK, Asking, Ended
<1>2. Held'
  BY DEF StopFails, Held, Live, TypeOK
<1>3. Exclusive'
  BY DEF StopFails, Exclusive, TypeOK
<1>4. Awaited'
  BY DEF StopFails, Awaited, TypeOK
<1>5. Rounds'
  BY DEF StopFails, Rounds, TypeOK, Ended, Asking
<1>6. Unopened'
  BY DEF StopFails, Unopened, Made, TypeOK, Rounds
<1>7. LateCovers'
  BY DEF StopFails, LateCovers, TypeOK
<1>8. NoneKept'
  BY DEF StopFails, NoneKept, TypeOK, LateCovers, Held, Exclusive, Live,
         OnlyLateClientsLeftOpen, CloseRejected
<1>9. QED
  BY <1>1, <1>2, <1>3, <1>4, <1>5, <1>6, <1>7, <1>8

\* stop() has closed all clients.
LEMMA StopEndsInv ==
  ASSUME Inv, StopEnds
  PROVE  Inv'
<1> USE AttemptFacts, CallsAssumption DEF Inv
<1>1. TypeOK'
  BY DEF StopEnds, TypeOK, Asking, Ended
<1>2. Held'
  BY DEF StopEnds, Held, Live, TypeOK
<1>3. Exclusive'
  BY DEF StopEnds, Exclusive, TypeOK
<1>4. Awaited'
  BY DEF StopEnds, Awaited, TypeOK
<1>5. Rounds'
  BY DEF StopEnds, Rounds, TypeOK, Ended, Asking
<1>6. Unopened'
  BY DEF StopEnds, Unopened, Made, TypeOK, Rounds
<1>7. LateCovers'
  BY DEF StopEnds, LateCovers, TypeOK
<1>8. NoneKept'
  BY DEF StopEnds, NoneKept, TypeOK, LateCovers, Held, Exclusive, Live,
         OnlyLateClientsLeftOpen, CloseRejected
<1>9. QED
  BY <1>1, <1>2, <1>3, <1>4, <1>5, <1>6, <1>7, <1>8

\* The process exits.
LEMMA ExitInv ==
  ASSUME Inv, Exit
  PROVE  Inv'
<1> USE AttemptFacts, CallsAssumption DEF Inv
<1>1. TypeOK'
  BY DEF Exit, TypeOK, Asking, Ended
<1>2. Held'
  BY DEF Exit, Held, Live, TypeOK
<1>3. Exclusive'
  BY DEF Exit, Exclusive, TypeOK
<1>4. Awaited'
  BY DEF Exit, Awaited, TypeOK
<1>5. Rounds'
  BY DEF Exit, Rounds, TypeOK, Ended, Asking
<1>6. Unopened'
  BY DEF Exit, Unopened, Made, TypeOK, Rounds
<1>7. LateCovers'
  BY DEF Exit, LateCovers, TypeOK
<1>8. NoneKept'
  BY DEF Exit, NoneKept, TypeOK, LateCovers, Held, Exclusive, Live,
         OnlyLateClientsLeftOpen, CloseRejected
<1>9. QED
  BY <1>1, <1>2, <1>3, <1>4, <1>5, <1>6, <1>7, <1>8

\* Nothing happens.
LEMMA StutterInv ==
  ASSUME Inv, UNCHANGED vars
  PROVE  Inv'
BY DEF vars, Inv, TypeOK, Held, Exclusive, Awaited, Rounds, Unopened, Made,
       LateCovers, NoneKept, Live, OnlyLateClientsLeftOpen, CloseRejected

\* Every step keeps the invariant.
LEMMA NextInv == Inv /\ [Next]_vars => Inv'
<1>1. SUFFICES ASSUME Inv, [Next]_vars PROVE Inv'
  OBVIOUS
<1>2. CASE \E c \in Calls : Call(c)
  BY <1>1, <1>2, StartInv, LookupInv, OnboardingInv, RefusedInv, CachedInv, JoinInv, OpenInv,
         ReonboardedInv
     DEF Call, Granted
<1>3. CASE \E k \in Accounts : Login(k)
  BY <1>1, <1>3, SucceedsInv, FailsInv, FailedClosesInv DEF Login
<1>4. CASE Stop
  BY <1>1, <1>4, StopBeginsInv, StopClosesInv, StopDeletesInv, StopFailsInv, StopEndsInv,
         ExitInv
     DEF Stop
<1>5. CASE UNCHANGED vars
  BY <1>1, <1>5, StutterInv
<1>6. QED
  BY <1>1, <1>2, <1>3, <1>4, <1>5 DEF Next

LEMMA Invariance == Spec => []Inv
BY InitInv, NextInv, PTL DEF Spec

-----------------------------------------------------------------------------
\* The state keeps its shape: a login in flight is one of the account it is
\* filed under and is still going on, and a kept client is open or being closed
\* by stop(), never one that failed.
THEOREM Typing == Spec => []TypeOK
BY Invariance, PTL DEF Inv

\* Whatever calls overlap, whichever logins fail and are tried again, and when
\* ever the process is stopped, connectTdlib never has two clients on the files
\* of one account.
THEOREM SingleClient == Spec => []OneClientPerAccount
<1>1. Inv => OneClientPerAccount
  <2>1. SUFFICES ASSUME Inv, NEW a \in Attempts, NEW b \in Attempts,
                        Live(a), Live(b), a[3] = b[3]
                 PROVE  a = b
    BY DEF OneClientPerAccount
  <2>2. a \in {connecting[a[3]], clients[a[3]]} /\ b \in {connecting[a[3]], clients[a[3]]}
    BY <2>1 DEF Inv, Held
  <2>3. connecting[a[3]] = None \/ clients[a[3]] = None
    BY <2>1, AttemptFacts DEF Inv, Exclusive
  <2>4. QED
    BY <2>2, <2>3, AttemptFacts
<1>2. QED
  BY <1>1, Invariance, PTL

\* A login in flight has somebody who awaits it, and whoever waits has one.
THEOREM LoginsAndWaiters == Spec => []LoginsAreAwaited
<1>1. Inv => LoginsAreAwaited
  BY AttemptFacts DEF Inv, TypeOK, Awaited, LoginsAreAwaited, Waiting
<1>2. QED
  BY <1>1, Invariance, PTL

\* stop() closes every client, but for those whose login was not over when it
\* began, unless a close rejects: the client that did not let itself be closed
\* is then still in the state it was in.
THEOREM ClosedAtExit == Spec => []OnlyLateClientsLeftOpen
<1>1. Inv => OnlyLateClientsLeftOpen
  BY DEF Inv, NoneKept
<1>2. QED
  BY <1>1, Invariance, PTL
=============================================================================
