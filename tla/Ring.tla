-------------------------------- MODULE Ring --------------------------------
(***************************************************************************)
(* stats.ringCounter (internal/stats/ring.go): a window of N one-second    *)
(* buckets behind the queries-per-second figure.  Its operations are for   *)
(* the actions of a module that composes it; tick and rate are called with *)
(* a second that was read before the lock was taken and may lie behind     *)
(* headSec.                                                                *)
(***************************************************************************)
EXTENDS Naturals, Functions

CONSTANT N   \* buckets (60)

ASSUME RingAssumption == N \in Nat /\ N >= 2

VARIABLES
  headSec,   \* r.headSec, 0 before the first call
  buckets    \* r.buckets

Slot == 0..(N - 1)

RingInit ==
  /\ headSec = 0
  /\ buckets = [i \in Slot |-> 0]

\* Slots of the seconds after headSec, up to sec.
Passed(sec) == {(headSec + i) % N : i \in 1..(sec - headSec)}

\* Mutant: the bucket of the new second is not cleared.
advancedKeepsLast(sec) ==
  IF headSec = 0 \/ sec <= headSec THEN buckets
  ELSE IF sec - headSec >= N THEN [i \in Slot |-> 0]
  ELSE [i \in Slot |-> IF i \in Passed(sec - 1) THEN 0 ELSE buckets[i]]

\* advance: the buckets after clearing those that expired.
advanced(sec) ==
  IF headSec = 0 \/ sec <= headSec THEN buckets
  ELSE IF sec - headSec >= N THEN [i \in Slot |-> 0]
  ELSE [i \in Slot |-> IF i \in Passed(sec) THEN 0 ELSE buckets[i]]

advancedHead(sec) == IF headSec = 0 \/ sec > headSec THEN sec ELSE headSec

tick(sec) ==
  /\ headSec' = advancedHead(sec)
  /\ buckets' = [advanced(sec) EXCEPT ![sec % N] = @ + 1]

\* rate advances too; what it returns is rateAt.
rate(sec) ==
  /\ headSec' = advancedHead(sec)
  /\ buckets' = advanced(sec)

\* The sum rate returns (it divides by N - 1): the N - 1 slots behind sec.
rateAt(sec) == SumFunctionOnSet(advanced(sec), {(sec + N - i) % N : i \in 1..(N - 1)})
=============================================================================
