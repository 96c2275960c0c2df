---------------------------- MODULE OrderedWrites ----------------------------
(***************************************************************************)
(* What the deferred write queue promises its callers, without the runner, *)
(* the retries and the breaker that keep the promise: writes reach the     *)
(* database one at a time and in the order they were handed over, the      *)
(* promise of the oldest write settles before the next write starts, and a *)
(* promise resolves only once the database holds the write.                *)
(***************************************************************************)
EXTENDS Naturals, Sequences

CONSTANTS Tasks,        \* the writes callers may hand over
          MaxAttempts   \* how often one write may reach the database

VARIABLES queue,    \* writes handed over and not settled, oldest first
          outcome,  \* per write, what its caller's promise has done
          rows      \* per write, how often the database has applied it

vars == <<queue, outcome, rows>>

Init ==
  /\ queue = <<>>
  /\ outcome = [t \in Tasks |-> "new"]
  /\ rows = [t \in Tasks |-> 0]

Submit(t) ==
  /\ outcome[t] = "new"
  /\ queue' = Append(queue, t)
  /\ outcome' = [outcome EXCEPT ![t] = "waiting"]
  /\ UNCHANGED rows

\* Only the oldest write is ever sent to the database.
Apply ==
  /\ queue # <<>>
  /\ rows[Head(queue)] < MaxAttempts
  /\ rows' = [rows EXCEPT ![Head(queue)] = @ + 1]
  /\ UNCHANGED <<queue, outcome>>

Settle(result) ==
  /\ queue # <<>>
  /\ result = "written" => rows[Head(queue)] > 0
  /\ outcome' = [outcome EXCEPT ![Head(queue)] = result]
  /\ queue' = Tail(queue)
  /\ UNCHANGED rows

SettleOldest == \E result \in {"written", "dead"} : Settle(result)

Next == \/ \E t \in Tasks : Submit(t)
        \/ Apply
        \/ SettleOldest

SafeSpec == Init /\ [][Next]_vars

Spec == SafeSpec /\ WF_vars(SettleOldest)
=============================================================================
