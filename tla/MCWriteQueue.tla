---------------------------- MODULE MCWriteQueue ----------------------------
(* The write queue with three writes, two retries and a breaker that trips  *)
(* at the second failure in a row: dead letters, retries of retries and     *)
(* pauses all occur, alone and on top of each other.                        *)
EXTENDS WriteQueue

CONSTANTS t1, t2, t3

MCTasks == {t1, t2, t3}
=============================================================================
