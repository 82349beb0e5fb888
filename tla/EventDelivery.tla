--------------------------- MODULE EventDelivery ----------------------------
(***************************************************************************)
(* What the export of events promises, whichever exporter does it: an      *)
(* event is sent at most once.  It is stored by the receiver, or it is     *)
(* given up, in a step that records a failure and takes no more than a     *)
(* batch along.  What is given up after it was sent may still arrive, at   *)
(* any later time or never, so that only such requests are out of order.   *)
(***************************************************************************)
EXTENDS Integers, Sequences

CONSTANT BatchMax     \* psch_batch_max

VARIABLES accepted,   \* how many events there have been: they are numbered
          pending,    \* those neither stored nor given up, oldest first
          underway,   \* requests given up that may still arrive
          stored,     \* events at the receiver, in the order of arrival
          failures    \* failures recorded

deliveryVars == <<accepted, pending, underway, stored, failures>>

First(k) == SubSeq(pending, 1, k)
Without(k) == SubSeq(pending, k + 1, Len(pending))

Init ==
  /\ pending \in Seq(Nat)
  /\ accepted = Len(pending)
  /\ pending = [i \in 1..Len(pending) |-> i]
  /\ underway = {}
  /\ stored = <<>>
  /\ failures = 0

Accept ==
  /\ accepted' = accepted + 1
  /\ pending' = Append(pending, accepted + 1)
  /\ UNCHANGED <<underway, stored, failures>>

Store(k) ==
  /\ stored' = stored \o First(k)
  /\ pending' = Without(k)
  /\ UNCHANGED <<accepted, underway, failures>>

(* k events are given up, after the first j of them were sent.             *)
GiveUp(j, k) ==
  /\ k =< BatchMax
  /\ pending' = Without(k)
  /\ underway' = IF j = 0 THEN underway ELSE underway \cup {First(j)}
  /\ failures' > failures
  /\ UNCHANGED <<accepted, stored>>

Arrive(r) ==
  /\ underway' = underway \ {r}
  /\ stored' \in {stored, stored \o r}
  /\ UNCHANGED <<accepted, pending, failures>>

Next ==
  \/ Accept
  \/ \E k \in 1..Len(pending) : Store(k)
  \/ \E k \in 0..Len(pending) : \E j \in 0..k : GiveUp(j, k)
  \/ \E r \in underway : Arrive(r)

Spec == Init /\ [][Next]_deliveryVars

-----------------------------------------------------------------------------
(* What is stored and what may yet be stored are different events.         *)
Distinct ==
  /\ \A i, j \in 1..Len(stored) : stored[i] = stored[j] => i = j
  /\ \A r \in underway : \A i \in 1..Len(r) :
       /\ \A j \in 1..Len(stored) : r[i] # stored[j]
       /\ \A j \in 1..Len(r) : r[i] = r[j] => i = j
       /\ \A q \in underway \ {r} : \A j \in 1..Len(q) : r[i] # q[j]

(* No event is stored twice, and none that is stored or on its way will be *)
(* sent again: an exporter never retries what it may have delivered.       *)
AtMostOnce ==
  /\ Distinct
  /\ \A j \in 1..Len(pending) :
       /\ \A i \in 1..Len(stored) : stored[i] # pending[j]
       /\ \A r \in underway : \A i \in 1..Len(r) : r[i] # pending[j]

(* The events resolved are those numbered up to here.                      *)
Resolved == accepted - Len(pending)

(* The inductive invariant: what is pending is numbered on from there, and *)
(* all else that there is from before.                                     *)
TypeOK ==
  /\ accepted \in Nat
  /\ pending \in Seq(Nat)
  /\ stored \in Seq(Nat)
  /\ underway \in SUBSET Seq(Nat)

Numbered ==
  /\ Resolved \in Nat
  /\ \A i \in 1..Len(pending) : pending[i] = Resolved + i
  /\ \A i \in 1..Len(stored) : stored[i] =< Resolved
  /\ \A r \in underway : \A i \in 1..Len(r) : r[i] =< Resolved

IInv == TypeOK /\ Numbered /\ Distinct
=============================================================================
