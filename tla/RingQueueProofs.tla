-------------------------- MODULE RingQueueProofs ---------------------------
(***************************************************************************)
(* Proofs about the event queue, for every number of backends, every       *)
(* capacity and every width of the positions that the capacity divides.    *)
(***************************************************************************)
EXTENDS QueueStats, TLAPS

-----------------------------------------------------------------------------
(* Unsigned arithmetic.                                                    *)

(* Positions and differences of positions stay within the word.            *)
LEMMA WordType ==
  ASSUME NEW a \in 0..Modulus-1, NEW b \in 0..Modulus-1
  PROVE  /\ Sub(a, b) \in 0..Modulus-1
         /\ Inc(a) \in 0..Modulus-1
         /\ a >= b => Sub(a, b) = a - b
         /\ a < b => Sub(a, b) = a - b + Modulus
         /\ a < Modulus - 1 => Inc(a) = a + 1
         /\ a = Modulus - 1 => Inc(a) = 0
<1>1. Modulus \in Nat \ {0}
  BY CapacityAssumption, Zenon
<1>2. a >= b => Sub(a, b) = a - b
  BY <1>1 DEF Sub
<1>3. a < b => Sub(a, b) = a - b + Modulus
  BY <1>1 DEF Sub
<1>4. a < Modulus - 1 => Inc(a) = a + 1
  BY <1>1 DEF Inc
<1>5. a = Modulus - 1 => Inc(a) = 0
  BY <1>1 DEF Inc
<1> QED
  BY <1>1, <1>2, <1>3, <1>4, <1>5

(* The store to head adds one unread event, as long as the ring is not     *)
(* full of the whole word; the store to tail takes one away.               *)
LEMMA SubInc ==
  ASSUME NEW a \in 0..Modulus-1, NEW b \in 0..Modulus-1
  PROVE  /\ Sub(a, b) < Modulus - 1 => Sub(Inc(a), b) = Sub(a, b) + 1
         /\ a # b => Sub(a, b) >= 1 /\ Sub(a, Inc(b)) = Sub(a, b) - 1
         /\ Sub(a, b) = 0 <=> a = b
<1>1. Modulus \in Nat \ {0}
  BY CapacityAssumption, Zenon
<1>2. /\ Inc(a) \in 0..Modulus-1
      /\ Inc(b) \in 0..Modulus-1
  BY WordType, Zenon
<1>3. /\ a >= b => Sub(a, b) = a - b
      /\ a < b => Sub(a, b) = a - b + Modulus
      /\ a < Modulus - 1 => Inc(a) = a + 1
      /\ a = Modulus - 1 => Inc(a) = 0
      /\ b < Modulus - 1 => Inc(b) = b + 1
      /\ b = Modulus - 1 => Inc(b) = 0
  BY WordType, Zenon
<1>4. /\ Inc(a) >= b => Sub(Inc(a), b) = Inc(a) - b
      /\ Inc(a) < b => Sub(Inc(a), b) = Inc(a) - b + Modulus
      /\ a >= Inc(b) => Sub(a, Inc(b)) = a - Inc(b)
      /\ a < Inc(b) => Sub(a, Inc(b)) = a - Inc(b) + Modulus
  BY <1>2, WordType, Zenon
<1> QED
  BY <1>1, <1>2, <1>3, <1>4

(* Positions that differ by the width of the word fall on the same slot,   *)
(* because the capacity divides that width.                                *)
LEMMA SlotWrap ==
  ASSUME NEW n \in Nat
  PROVE  Slot(n + Modulus) = Slot(n)
<1>1. Capacity \in Nat \ {0} /\ Modulus \in Nat /\ Modulus % Capacity = 0
  BY CapacityAssumption, Zenon
<1> DEFINE q == n \div Capacity
           m == Modulus \div Capacity
           r == n % Capacity
<1>2. /\ q \in Int /\ r \in 0..Capacity-1
      /\ n = Capacity * q + r
  BY <1>1
<1>3. m \in Int /\ Modulus = Capacity * m
  BY <1>1
<1>4. n + Modulus = (q + m) * Capacity + r
  <2> HIDE DEF q, m, r
  <2> QED
    BY <1>1, <1>2, <1>3
<1>5. (n + Modulus) % Capacity = r
  <2> HIDE DEF q, m, r
  <2> QED
    BY <1>1, <1>2, <1>3, <1>4
<1> QED
  BY <1>5, Zenon DEF Slot

(* Slots of positions less than a capacity apart differ.                   *)
LEMMA SlotDistinct ==
  ASSUME NEW i \in Nat, NEW j \in Nat, i < j, j - i < Capacity
  PROVE  Slot(i) # Slot(j)
<1>1. Capacity \in Nat \ {0}
  BY CapacityAssumption, Zenon
<1> DEFINE qi == i \div Capacity
           qj == j \div Capacity
           ri == i % Capacity
           rj == j % Capacity
<1>2. qi \in Int /\ qj \in Int /\ ri \in Int /\ rj \in Int
      /\ i = Capacity * qi + ri
      /\ j = Capacity * qj + rj
  BY <1>1
<1>3. SUFFICES ASSUME ri = rj PROVE FALSE
  BY Zenon DEF Slot
<1> HIDE DEF qi, qj, ri, rj
<1>4. j - i = Capacity * (qj - qi)
  BY <1>1, <1>2, <1>3
<1>5. CASE qj - qi <= 0
  <2>1. Capacity * (qj - qi) <= 0
    BY <1>1, <1>2, <1>5
  <2> QED
    BY <2>1, <1>1, <1>4
<1>6. CASE qj - qi >= 1
  <2>1. Capacity * (qj - qi) >= Capacity
    BY <1>1, <1>2, <1>6
  <2> QED
    BY <2>1, <1>1, <1>4
<1> QED
  BY <1>2, <1>5, <1>6

(* The slot after the last unread event is the slot of head.               *)
LEMMA SlotOfHead ==
  ASSUME NEW a \in 0..Modulus-1, NEW b \in 0..Modulus-1
  PROVE  Slot(b + Sub(a, b)) = Slot(a)
<1>1. Modulus \in Nat \ {0}
  BY CapacityAssumption, Zenon
<1>2. CASE a >= b
  <2>1. b + Sub(a, b) = a
    BY <1>1, <1>2, WordType
  <2> QED
    BY <2>1, Zenon
<1>3. CASE a < b
  <2>1. b + Sub(a, b) = a + Modulus
    BY <1>1, <1>3, WordType
  <2> QED
    BY <2>1, SlotWrap
<1> QED
  BY <1>1, <1>2, <1>3

(* Advancing tail renumbers the unread slots by one.                       *)
LEMMA SlotOfInc ==
  ASSUME NEW a \in 0..Modulus-1, NEW k \in Nat
  PROVE  Slot(Inc(a) + k) = Slot(a + 1 + k)
<1>1. Modulus \in Nat \ {0}
  BY CapacityAssumption, Zenon
<1>2. CASE a < Modulus - 1
  <2>1. Inc(a) = a + 1
    BY <1>1, <1>2, WordType, Zenon
  <2> QED
    BY <2>1, Zenon
<1>3. CASE a = Modulus - 1
  <2>1. Inc(a) + k = k /\ a + 1 + k = k + Modulus
    BY <1>1, <1>3, WordType
  <2> QED
    BY <2>1, SlotWrap, Zenon
<1> QED
  BY <1>1, <1>2, <1>3

(* A slot number is an index of the ring.                                  *)
LEMMA SlotType ==
  ASSUME NEW n \in Nat
  PROVE  Slot(n) \in 0..Capacity-1
BY CapacityAssumption DEF Slot

-----------------------------------------------------------------------------
(* Facts about the state that the steps below share.                       *)

(* Sequences of events and their parts.                                    *)
LEMMA SeqType ==
  ASSUME NEW s \in Seq(Events)
  PROVE  /\ s # <<>> => Head(s) \in Events /\ Tail(s) \in Seq(Events)
         /\ RangeOf(s) \subseteq Events
         /\ \A t \in Seq(Events) : s \o t \in Seq(Events)
         /\ s \o <<>> = s
<1>1. s # <<>> => Head(s) \in Events /\ Tail(s) \in Seq(Events)
  OBVIOUS
<1>2. RangeOf(s) \subseteq Events
  BY DEF RangeOf
<1>3. \A t \in Seq(Events) : s \o t \in Seq(Events)
  OBVIOUS
<1>4. s \o <<>> = s
  OBVIOUS
<1> QED
  BY <1>1, <1>2, <1>3, <1>4, Zenon

(* The positions, the number of unread events and the slots are in range.  *)
LEMMA Ranges ==
  ASSUME TypeOK
  PROVE  /\ head \in Nat /\ tail \in Nat
         /\ Occupancy \in 0..Modulus-1
         /\ Slot(head) \in 0..Capacity-1
         /\ Slot(tail) \in 0..Capacity-1
         /\ \A i \in 1..Occupancy : Slot(tail + i - 1) \in 0..Capacity-1
<1>1. Modulus \in Nat /\ Capacity \in Nat
  BY CapacityAssumption, Zenon
<1>2. head \in 0..Modulus-1 /\ tail \in 0..Modulus-1
  BY Zenon DEF TypeOK
<1>3. Occupancy \in 0..Modulus-1
  BY <1>2, WordType, Zenon DEF Occupancy
<1>4. \A i \in 1..Occupancy : Slot(tail + i - 1) \in 0..Capacity-1
  <2>1. \A i \in 1..Occupancy : tail + i - 1 \in Nat
    BY <1>1, <1>2, <1>3
  <2> QED
    BY <2>1, SlotType, Zenon
<1> QED
  BY <1>1, <1>2, <1>3, <1>4, SlotType

(* Lock ownership excludes other backends from the locked section.         *)
LEMMA Alone ==
  ASSUME LockInv, NEW p \in Producers, NEW q \in Producers,
         pc[p] \in LockedPCs, pc[q] \in LockedPCs
  PROVE  p = q
BY Zenon DEF LockInv

(* The slot being filled lies outside the unread part of the ring, so it   *)
(* is not the one the consumer may be copying.                             *)
LEMMA FillOutsideUnread ==
  ASSUME IInv, NEW p \in Producers, pc[p] \in {"Fill", "Publish"}
  PROVE  \A i \in 1..Occupancy : Slot(tail + i - 1) # Slot(headSeen[p])
<1>1. headSeen[p] = head /\ Occupancy < Capacity
  BY Zenon DEF IInv, FillInv
<1>2. /\ head \in 0..Modulus-1 /\ tail \in 0..Modulus-1
      /\ Modulus \in Nat /\ Capacity \in Nat
      /\ Occupancy \in 0..Modulus-1
  BY CapacityAssumption, Ranges, Zenon DEF IInv, TypeOK
<1>3. Slot(tail + Occupancy) = Slot(head)
  BY <1>2, SlotOfHead, Zenon DEF Occupancy
<1>4. ASSUME NEW i \in 1..Occupancy
      PROVE  Slot(tail + i - 1) # Slot(tail + Occupancy)
  <2>1. /\ tail + i - 1 \in Nat /\ tail + Occupancy \in Nat
        /\ tail + i - 1 < tail + Occupancy
        /\ (tail + Occupancy) - (tail + i - 1) < Capacity
    BY <1>1, <1>2
  <2> QED
    BY <2>1, SlotDistinct, Zenon
<1> QED
  BY <1>1, <1>3, <1>4, Zenon

(* The inductive invariant implies NoSlotRace.                             *)
LEMMA SlotRaceExcluded ==
  ASSUME IInv
  PROVE  NoSlotRace
<1>1. SUFFICES ASSUME NEW p \in Producers, pc[p] \in {"Fill", "Publish"},
                      cpc \in {"Copy", "Advance"}
               PROVE  Slot(headSeen[p]) # Slot(tail)
  BY Zenon DEF NoSlotRace
<1>2. /\ tail \in Nat /\ Occupancy \in Nat
      /\ Occupancy >= 1
  <2>1. head # tail
    BY <1>1, Zenon DEF IInv, ConsumerInv
  <2>2. Modulus \in Nat
    BY CapacityAssumption, Zenon
  <2> QED
    BY <2>1, <2>2, Ranges, SubInc DEF IInv, TypeOK, Occupancy
<1>3. 1 \in 1..Occupancy /\ tail + 1 - 1 = tail
  BY <1>2
<1> QED
  BY <1>1, <1>3, FillOutsideUnread, Zenon

-----------------------------------------------------------------------------
(* Every action keeps the invariant.                                       *)

(* The entry of PschEnqueueEvent keeps the invariant.                   *)
LEMMA ReportStep ==
  ASSUME IInv, NEW p \in Producers, Report(p)
  PROVE  IInv'
<1> USE DEF IInv, Report, StartCall, Goto,
            shared, counters, session, backend, worker, reset, history
<1>1. TypeOK'
  <2>1. made[p] + 1 \in 1..MaxEvents
    <3>1. made[p] \in 0..MaxEvents /\ made[p] < MaxEvents
      BY Zenon DEF TypeOK
    <3> HIDE DEF Report, IInv
    <3> QED
      BY <3>1, BoundsAssumption
  <2>2. <<<<p, made[p] + 1>>>> \in Seq(Events)
    BY <2>1 DEF Events
  <2>3. made' \in [Producers -> 0..MaxEvents]
    BY <2>1, BoundsAssumption DEF TypeOK
  <2> QED
    BY <2>2, <2>3, Zenon DEF TypeOK, PCs
<1>2. LockInv'
  BY ProducersAssumption, Zenon DEF TypeOK, LockInv, LockedPCs
<1>3. WorkInv'
  BY ProducersAssumption, Zenon DEF TypeOK, WorkInv
<1>4. FillInv'
  BY ProducersAssumption, Zenon DEF TypeOK, FillInv, Occupancy
<1>5. ExitInv'
  BY ProducersAssumption, Zenon DEF TypeOK, ExitInv
<1>6. ConsumerInv' /\ Bounded' /\ UnreadInv'
  BY Zenon DEF ConsumerInv, Bounded, Occupancy, UnreadInv
<1> QED
  BY <1>1, <1>2, <1>3, <1>4, <1>5, <1>6, Zenon

(* The unlocked test for a full queue keeps the invariant.              *)
LEMMA ReadTailStep ==
  ASSUME IInv, NEW p \in Producers, ReadTail(p)
  PROVE  IInv'
<1> USE DEF IInv, ReadTail, Goto, ForgetHead,
            shared, counters, session, backend, worker, reset, history
<1>1. TypeOK'
  BY CapacityAssumption DEF LockInv, WorkInv, TypeOK, PCs
<1>2. LockInv'
  BY ProducersAssumption, Zenon DEF TypeOK, LockInv, LockedPCs
<1>3. WorkInv'
  BY ProducersAssumption, Zenon DEF TypeOK, WorkInv
<1>4. FillInv'
  BY ProducersAssumption, Zenon DEF TypeOK, FillInv, Occupancy
<1>5. ExitInv'
  BY ProducersAssumption, Zenon DEF TypeOK, ExitInv
<1>6. ConsumerInv' /\ Bounded' /\ UnreadInv'
  BY Zenon DEF ConsumerInv, Bounded, Occupancy, UnreadInv
<1> QED
  BY <1>1, <1>2, <1>3, <1>4, <1>5, <1>6, Zenon

(* LWLockConditionalAcquire keeps the invariant.                        *)
LEMMA TryLockOkStep ==
  ASSUME IInv, NEW p \in Producers, TryLockOk(p)
  PROVE  IInv'
<1> USE DEF IInv, TryLockOk, TakeLock, Goto,
            shared, counters, session, backend, worker, reset, history
<1>1. TypeOK'
  BY ProducersAssumption, Zenon DEF LockInv, WorkInv, TypeOK, PCs
<1>2. LockInv'
  BY ProducersAssumption, Zenon DEF TypeOK, LockInv, LockedPCs
<1>3. WorkInv'
  BY ProducersAssumption, Zenon DEF TypeOK, WorkInv
<1>4. FillInv'
  BY ProducersAssumption, Zenon DEF TypeOK, FillInv, Occupancy
<1>5. ExitInv'
  BY ProducersAssumption, Zenon DEF TypeOK, ExitInv
<1>6. ConsumerInv' /\ Bounded' /\ UnreadInv'
  BY Zenon DEF ConsumerInv, Bounded, Occupancy, UnreadInv
<1> QED
  BY <1>1, <1>2, <1>3, <1>4, <1>5, <1>6, Zenon

(* PschLocalBatchAdd with room keeps the invariant.                     *)
LEMMA AddToBatchStep ==
  ASSUME IInv, NEW p \in Producers, AddToBatch(p)
  PROVE  IInv'
<1> USE DEF IInv, AddToBatch, Goto,
            shared, counters, session, backend, worker, reset, history
<1>1. TypeOK'
  <2>1. local_batch[p] \o work[p] \in Seq(Events)
    BY SeqType, Zenon DEF TypeOK
  <2>2. local_batch' \in [Producers -> Seq(Events)]
    BY <2>1, Zenon DEF TypeOK
  <2>3. work' \in [Producers -> Seq(Events)]
    BY DEF TypeOK
  <2> QED
    BY <2>2, <2>3, Zenon DEF TypeOK, PCs
<1>2. LockInv'
  BY ProducersAssumption, Zenon DEF TypeOK, LockInv, LockedPCs
<1>3. WorkInv'
  BY ProducersAssumption, Zenon DEF TypeOK, WorkInv
<1>4. FillInv'
  BY ProducersAssumption, Zenon DEF TypeOK, FillInv, Occupancy
<1>5. ExitInv'
  BY ProducersAssumption, Zenon DEF TypeOK, ExitInv
<1>6. ConsumerInv' /\ Bounded' /\ UnreadInv'
  BY Zenon DEF ConsumerInv, Bounded, Occupancy, UnreadInv
<1> QED
  BY <1>1, <1>2, <1>3, <1>4, <1>5, <1>6, Zenon

(* PschLocalBatchAdd that flushes first keeps the invariant.            *)
LEMMA AddToFullBatchStep ==
  ASSUME IInv, NEW p \in Producers, AddToFullBatch(p)
  PROVE  IInv'
<1> USE DEF IInv, AddToFullBatch, StartCall, Goto,
            shared, counters, session, backend, worker, reset, history
<1>1. TypeOK'
  BY ProducersAssumption, Zenon DEF LockInv, WorkInv, TypeOK, PCs
<1>2. LockInv'
  BY ProducersAssumption, Zenon DEF TypeOK, LockInv, LockedPCs
<1>3. WorkInv'
  <2>1. local_batch[p] # <<>>
    BY BoundsAssumption DEF TypeOK
  <2> QED
    BY <2>1, Zenon DEF TypeOK, WorkInv
<1>4. FillInv'
  BY ProducersAssumption, Zenon DEF TypeOK, FillInv, Occupancy
<1>5. ExitInv'
  BY ProducersAssumption, Zenon DEF TypeOK, ExitInv
<1>6. ConsumerInv' /\ Bounded' /\ UnreadInv'
  BY Zenon DEF ConsumerInv, Bounded, Occupancy, UnreadInv
<1> QED
  BY <1>1, <1>2, <1>3, <1>4, <1>5, <1>6, Zenon

(* LWLockAcquire keeps the invariant.                                   *)
LEMMA LockStep ==
  ASSUME IInv, NEW p \in Producers, Lock(p)
  PROVE  IInv'
<1> USE DEF IInv, Lock, TakeLock, Goto,
            shared, counters, session, backend, worker, reset, history
<1>1. TypeOK'
  BY ProducersAssumption, Zenon DEF LockInv, WorkInv, TypeOK, PCs
<1>2. LockInv'
  BY ProducersAssumption, Zenon DEF TypeOK, LockInv, LockedPCs
<1>3. WorkInv'
  BY ProducersAssumption, Zenon DEF TypeOK, WorkInv
<1>4. FillInv'
  BY ProducersAssumption, Zenon DEF TypeOK, FillInv, Occupancy
<1>5. ExitInv'
  BY ProducersAssumption, Zenon DEF TypeOK, ExitInv
<1>6. ConsumerInv' /\ Bounded' /\ UnreadInv'
  BY Zenon DEF ConsumerInv, Bounded, Occupancy, UnreadInv
<1> QED
  BY <1>1, <1>2, <1>3, <1>4, <1>5, <1>6, Zenon

(* The test under the lock keeps the invariant.                         *)
LEMMA CheckStep ==
  ASSUME IInv, NEW p \in Producers, Check(p)
  PROVE  IInv'
<1> USE DEF IInv, Check, Goto,
            shared, counters, session, backend, worker, reset, history
<1>1. TypeOK'
  BY ProducersAssumption, Zenon DEF LockInv, WorkInv, TypeOK, PCs
<1>2. LockInv'
  BY ProducersAssumption, Zenon DEF TypeOK, LockInv, LockedPCs
<1>3. WorkInv'
  BY ProducersAssumption, Zenon DEF TypeOK, WorkInv
<1>4. FillInv'
  <2>1. Occupancy \in Nat /\ Capacity \in Nat /\ Occupancy' = Occupancy
    BY CapacityAssumption, Ranges DEF Occupancy
  <2>2. pc'[p] # "Publish" /\ headSeen'[p] = head
    BY Zenon DEF TypeOK
  <2>3. pc'[p] = "Fill" => Occupancy < Capacity
    BY <2>1 DEF TypeOK
  <2>4. \A q \in Producers \ {p} : pc'[q] = pc[q] /\ headSeen'[q] = headSeen[q]
    BY Zenon DEF TypeOK
  <2> QED
    BY <2>1, <2>2, <2>3, <2>4, Zenon DEF FillInv
<1>5. ExitInv'
  BY ProducersAssumption, Zenon DEF TypeOK, ExitInv
<1>6. ConsumerInv' /\ Bounded' /\ UnreadInv'
  BY Zenon DEF ConsumerInv, Bounded, Occupancy, UnreadInv
<1> QED
  BY <1>1, <1>2, <1>3, <1>4, <1>5, <1>6, Zenon

(* The copy into the slot keeps the invariant.                          *)
LEMMA FillStep ==
  ASSUME IInv, NEW p \in Producers, Fill(p)
  PROVE  IInv'
<1> USE DEF IInv, Fill, Goto,
            shared, counters, session, backend, worker, reset, history
<1>1. TypeOK'
  <2>1. Head(work[p]) \in Events
    BY SeqType, Zenon DEF TypeOK, WorkInv
  <2>2. ring' \in [0..Capacity-1 -> Events \cup {NoEvent}]
    BY <2>1, Zenon DEF TypeOK
  <2> QED
    BY <2>2, Zenon DEF TypeOK, PCs
<1>2. LockInv'
  BY ProducersAssumption, Zenon DEF TypeOK, LockInv, LockedPCs
<1>3. WorkInv'
  BY ProducersAssumption, Zenon DEF TypeOK, WorkInv
<1>4. FillInv'
  <2>1. headSeen[p] = head /\ Occupancy < Capacity /\ Occupancy' = Occupancy
    BY Zenon DEF FillInv, Occupancy
  <2>2. ring'[Slot(head)] = Head(work[p])
    BY <2>1, Ranges, Zenon DEF TypeOK
  <2>3. \A q \in Producers : pc'[q] \in {"Fill", "Publish"} => q = p
    BY Alone, Zenon DEF TypeOK, LockedPCs
  <2> QED
    BY <2>1, <2>2, <2>3, Zenon DEF FillInv
<1>5. ExitInv'
  BY ProducersAssumption, Zenon DEF TypeOK, ExitInv
<1>6. ConsumerInv'
  <2>1. cpc = "Advance" => Slot(headSeen[p]) # Slot(tail)
    BY SlotRaceExcluded, Zenon DEF NoSlotRace
  <2>2. cpc = "Advance" => ring'[Slot(tail)] = ring[Slot(tail)]
    BY <2>1, Ranges, Zenon DEF TypeOK
  <2> QED
    BY <2>2, Zenon DEF ConsumerInv
<1>7. UnreadInv'
  <2>1. Occupancy' = Occupancy
    BY Zenon DEF Occupancy
  <2>2. \A i \in 1..Occupancy : ring'[Slot(tail + i - 1)] = ring[Slot(tail + i - 1)]
    BY FillOutsideUnread, Ranges, Zenon DEF TypeOK
  <2> QED
    BY <2>1, <2>2, Zenon DEF UnreadInv
<1>8. Bounded'
  BY Zenon DEF Bounded, Occupancy
<1> QED
  BY <1>1, <1>2, <1>3, <1>4, <1>5, <1>6, <1>7, <1>8, Zenon

(* An error in the locked section keeps the invariant.                  *)
LEMMA ThrowStep ==
  ASSUME IInv, NEW p \in Producers, Throw(p)
  PROVE  IInv'
<1> USE DEF IInv, Throw, Goto, ForgetHead,
            shared, counters, session, backend, worker, reset, history
<1>1. TypeOK'
  <2>1. RangeOf(work[p]) \subseteq Events /\ RangeOf(adding[p]) \subseteq Events
    BY SeqType, Zenon DEF TypeOK
  <2>2. /\ headSeen' \in [Producers -> 0..Modulus-1]
        /\ pc' \in [Producers -> PCs]
    BY CapacityAssumption DEF TypeOK, PCs
  <2>3. /\ work' \in [Producers -> Seq(Events)]
        /\ adding' \in [Producers -> Seq(Events)]
    BY DEF TypeOK
  <2>4. discarded' \subseteq Events
    BY <2>1, Zenon DEF TypeOK
  <2> QED
    BY <2>2, <2>3, <2>4, Zenon DEF TypeOK
<1>2. LockInv'
  BY ProducersAssumption, Zenon DEF TypeOK, LockInv, LockedPCs
<1>3. WorkInv'
  BY ProducersAssumption, Zenon DEF TypeOK, WorkInv
<1>4. FillInv'
  BY ProducersAssumption, Zenon DEF TypeOK, FillInv, Occupancy
<1>5. ExitInv'
  BY ProducersAssumption, Zenon DEF TypeOK, ExitInv
<1>6. ConsumerInv' /\ Bounded' /\ UnreadInv'
  BY Zenon DEF ConsumerInv, Bounded, Occupancy, UnreadInv
<1> QED
  BY <1>1, <1>2, <1>3, <1>4, <1>5, <1>6, Zenon

(* The store to head keeps the invariant.                               *)
LEMMA PublishStep ==
  ASSUME IInv, NEW p \in Producers, Publish(p)
  PROVE  IInv'
<1> USE DEF IInv, Publish, Goto, ForgetHead,
            shared, counters, session, backend, worker, reset, history
<1>1. TypeOK'
  <2>1. Tail(work[p]) \in Seq(Events)
    BY SeqType, Zenon DEF TypeOK, WorkInv
  <2>2. Inc(headSeen[p]) \in 0..Modulus-1
    BY WordType, Zenon DEF TypeOK
  <2>3. /\ headSeen' \in [Producers -> 0..Modulus-1]
        /\ pc' \in [Producers -> PCs]
        /\ work' \in [Producers -> Seq(Events)]
    BY <2>1, CapacityAssumption DEF TypeOK, PCs
  <2> QED
    BY <2>2, <2>3, Zenon DEF TypeOK
<1>2. LockInv'
  BY ProducersAssumption, Zenon DEF TypeOK, LockInv, LockedPCs
<1>3. WorkInv'
  BY ProducersAssumption, Zenon DEF TypeOK, WorkInv
<1>4. FillInv'
  <2>1. \A q \in Producers : pc'[q] \notin {"Fill", "Publish"}
    BY Alone, Zenon DEF TypeOK, LockedPCs
  <2> QED
    BY <2>1, Zenon DEF FillInv
<1>5. ExitInv'
  BY ProducersAssumption, Zenon DEF TypeOK, ExitInv
<1>6. ConsumerInv'
  <2>1. /\ head \in 0..Modulus-1 /\ tail \in 0..Modulus-1
        /\ Occupancy \in Nat /\ Capacity \in Nat /\ Modulus \in Nat
        /\ Capacity < Modulus /\ Occupancy < Capacity
        /\ head' = Inc(head)
    BY CapacityAssumption, Ranges DEF TypeOK, FillInv
  <2>2. Sub(Inc(head), tail) = Occupancy + 1
    BY <2>1, SubInc DEF Occupancy

  <2>3. Inc(head) # tail
    BY <2>1, <2>2, WordType, SubInc
  <2> QED
    BY <2>1, <2>3, Zenon DEF ConsumerInv
<1>7. Bounded'
  <2>1. /\ head \in 0..Modulus-1 /\ tail \in 0..Modulus-1
        /\ Occupancy \in Nat /\ Capacity \in Nat /\ Modulus \in Nat
        /\ Capacity < Modulus /\ Occupancy < Capacity
        /\ head' = Inc(head)
    BY CapacityAssumption, Ranges DEF TypeOK, FillInv
  <2>2. Sub(Inc(head), tail) = Occupancy + 1
    BY <2>1, SubInc DEF Occupancy

  <2> QED
    BY <2>1, <2>2 DEF Bounded, Occupancy
<1>8. UnreadInv'
  <2>1. /\ head \in 0..Modulus-1 /\ tail \in 0..Modulus-1
        /\ Occupancy \in Nat /\ Capacity \in Nat /\ Modulus \in Nat
        /\ Capacity < Modulus /\ Occupancy < Capacity
        /\ head' = Inc(head)
    BY CapacityAssumption, Ranges DEF TypeOK, FillInv
  <2>2. Sub(Inc(head), tail) = Occupancy + 1
    BY <2>1, SubInc DEF Occupancy

  <2>3. Occupancy' = Occupancy + 1
    BY <2>1, <2>2, Zenon DEF Occupancy
  <2>4. ring[Slot(tail + Occupancy)] \in Events
    <3>1. Slot(tail + Occupancy) = Slot(head)
      BY <2>1, SlotOfHead, Zenon DEF Occupancy
    <3>2. ring[Slot(head)] = Head(work[p]) /\ work[p] # <<>>
      BY Zenon DEF FillInv, WorkInv
    <3> QED
      BY <3>1, <3>2, SeqType, Zenon DEF TypeOK
  <2>5. ASSUME NEW i \in 1..(Occupancy + 1)
        PROVE  ring[Slot(tail + i - 1)] \in Events
    <3>1. CASE i = Occupancy + 1
      <4>1. tail + i - 1 = tail + Occupancy
        BY <2>1, <3>1
      <4> QED
        BY <4>1, <2>4, Zenon
    <3>2. CASE i # Occupancy + 1
      <4>1. i \in 1..Occupancy
        BY <2>1, <3>2
      <4> QED
        BY <4>1, Zenon DEF UnreadInv
    <3> QED
      BY <3>1, <3>2, Zenon
  <2> QED
    BY <2>3, <2>5, Zenon DEF UnreadInv
<1> QED
  BY <1>1, <1>2, <1>3, <1>4, <1>5, <1>6, <1>7, <1>8, Zenon

(* The increment of enqueued keeps the invariant.                       *)
LEMMA CountStep ==
  ASSUME IInv, NEW p \in Producers, Count(p)
  PROVE  IInv'
<1> USE DEF IInv, Count, NextLocked, Goto,
            shared, counters, session, backend, worker, reset, history
<1>1. TypeOK'
  <2>1. enqueued' \in Nat
    BY DEF TypeOK
  <2>2. pc' \in [Producers -> PCs]
    BY Zenon DEF TypeOK, PCs
  <2> QED
    BY <2>1, <2>2, Zenon DEF TypeOK
<1>2. LockInv'
  BY ProducersAssumption, Zenon DEF TypeOK, LockInv, LockedPCs
<1>3. WorkInv'
  BY ProducersAssumption, Zenon DEF TypeOK, WorkInv
<1>4. FillInv'
  BY ProducersAssumption, Zenon DEF TypeOK, FillInv, Occupancy
<1>5. ExitInv'
  BY ProducersAssumption, Zenon DEF TypeOK, ExitInv
<1>6. ConsumerInv' /\ Bounded' /\ UnreadInv'
  BY Zenon DEF ConsumerInv, Bounded, Occupancy, UnreadInv
<1> QED
  BY <1>1, <1>2, <1>3, <1>4, <1>5, <1>6, Zenon

(* The count of a drop in HandleOverflow keeps the invariant.           *)
LEMMA OverflowStep ==
  ASSUME IInv, NEW p \in Producers, Overflow(p)
  PROVE  IInv'
<1> USE DEF IInv, Overflow, Goto, ForgetHead,
            shared, counters, session, backend, worker, reset, history
<1>1. TypeOK'
  <2>1. Head(work[p]) \in Events /\ Tail(work[p]) \in Seq(Events)
    BY SeqType, Zenon DEF TypeOK, WorkInv
  <2>2. dropped' \in Nat
    BY DEF TypeOK
  <2>3. work' \in [Producers -> Seq(Events)] /\ lost' \subseteq Events
    BY <2>1, Zenon DEF TypeOK
  <2>4. /\ headSeen' \in [Producers -> 0..Modulus-1]
        /\ pc' \in [Producers -> PCs]
    BY CapacityAssumption DEF TypeOK, PCs
  <2> QED
    BY <2>2, <2>3, <2>4, Zenon DEF TypeOK
<1>2. LockInv'
  BY ProducersAssumption, Zenon DEF TypeOK, LockInv, LockedPCs
<1>3. WorkInv'
  BY ProducersAssumption, Zenon DEF TypeOK, WorkInv
<1>4. FillInv'
  BY ProducersAssumption, Zenon DEF TypeOK, FillInv, Occupancy
<1>5. ExitInv'
  BY ProducersAssumption, Zenon DEF TypeOK, ExitInv
<1>6. ConsumerInv' /\ Bounded' /\ UnreadInv'
  BY Zenon DEF ConsumerInv, Bounded, Occupancy, UnreadInv
<1> QED
  BY <1>1, <1>2, <1>3, <1>4, <1>5, <1>6, Zenon

(* HandleOverflow's warning keeps the invariant.                        *)
LEMMA WarnStep ==
  ASSUME IInv, NEW p \in Producers, Warn(p)
  PROVE  IInv'
<1> USE DEF IInv, Warn, NextLocked, Return, Goto,
            shared, counters, session, backend, worker, reset, history
<1>1. TypeOK'
  <2>1. local_batch[p] \o adding[p] \in Seq(Events)
    BY SeqType, Zenon DEF TypeOK
  <2>2. pc' \in [Producers -> PCs]
    BY Zenon DEF TypeOK, PCs
  <2>3. local_batch' \in [Producers -> Seq(Events)]
    <3>1. \/ local_batch' = local_batch
          \/ local_batch' = [local_batch EXCEPT ![p] = local_batch[p] \o adding[p]]
      BY Zenon
    <3>2. local_batch \in [Producers -> Seq(Events)]
      BY Zenon DEF TypeOK
    <3> QED
      BY <2>1, <3>1, <3>2, Zenon
  <2>4. adding' \in [Producers -> Seq(Events)]
    BY Zenon DEF TypeOK
  <2> QED
    BY <2>2, <2>3, <2>4, Zenon DEF TypeOK
<1>2. LockInv'
  <2>1. CASE holder = p
    BY <2>1, ProducersAssumption, Zenon DEF TypeOK, LockInv, LockedPCs
  <2>2. CASE holder # p
    <3>1. pc'[p] \in {"Overflow", "Exited", "Idle"}
      BY <2>2, Zenon DEF TypeOK
    <3>2. \A q \in Producers \ {p} : pc'[q] = pc[q]
      BY Zenon DEF TypeOK
    <3> QED
      BY <2>2, <3>1, <3>2 DEF TypeOK, LockInv, LockedPCs
  <2> QED
    BY <2>1, <2>2, Zenon
<1>3. WorkInv'
  <2>1. pc'[p] \in {"Unlock", "Idle", "Exited"} => work[p] = <<>>
    BY Zenon DEF TypeOK
  <2>2. pc'[p] \in {"Check", "Overflow"} => work[p] # <<>>
    BY DEF TypeOK
  <2>3. pc'[p] \in {"Unlock", "Check", "Overflow", "Idle", "Exited"}
    BY Zenon DEF TypeOK
  <2>4. pc'[p] \in {"Idle", "Exited"} => adding'[p] = <<>>
    BY Zenon DEF TypeOK
  <2>5. \A q \in Producers \ {p} :
          pc'[q] = pc[q] /\ adding'[q] = adding[q] /\ call'[q] = call[q]
    BY Zenon DEF TypeOK
  <2> QED
    BY <2>1, <2>2, <2>3, <2>4, <2>5, Zenon DEF WorkInv
<1>4. FillInv'
  BY ProducersAssumption, Zenon DEF TypeOK, FillInv, Occupancy
<1>5. ExitInv'
  <2>1. exiting[p] => local_batch[p] \o adding[p] = <<>>
    BY SeqType DEF TypeOK, ExitInv
  <2>2. \A q \in Producers \ {p} :
          /\ pc'[q] = pc[q] /\ local_batch'[q] = local_batch[q]
          /\ adding'[q] = adding[q] /\ call'[q] = call[q]
    BY Zenon DEF TypeOK
  <2>3. exiting[p] => local_batch'[p] = <<>> /\ adding'[p] = <<>>
    BY <2>1, Zenon DEF TypeOK, ExitInv
  <2>4. /\ pc'[p] \notin {"TryLock", "ReadTail"}
        /\ pc'[p] = "Exited" => exiting[p]
        /\ exiting[p] => pc'[p] # "Idle"
        /\ exiting[p] /\ pc'[p] # "Exited" => call'[p] = call[p]
    BY DEF TypeOK
  <2> QED
    BY <2>2, <2>3, <2>4 DEF ExitInv
<1>6. ConsumerInv' /\ Bounded' /\ UnreadInv'
  BY Zenon DEF ConsumerInv, Bounded, Occupancy, UnreadInv
<1> QED
  BY <1>1, <1>2, <1>3, <1>4, <1>5, <1>6, Zenon

(* A query cancelled at the overflow warning keeps the invariant.       *)
LEMMA CancelStep ==
  ASSUME IInv, NEW p \in Producers, Cancel(p)
  PROVE  IInv'
<1> USE DEF IInv, Cancel, Goto,
            shared, counters, session, backend, worker, reset, history
<1>1. TypeOK'
  <2>1. RangeOf(work[p]) \subseteq Events /\ RangeOf(adding[p]) \subseteq Events
    BY SeqType, Zenon DEF TypeOK
  <2> QED
    BY <2>1 DEF TypeOK, PCs
<1>2. LockInv'
  BY ProducersAssumption, Zenon DEF TypeOK, LockInv, LockedPCs
<1>3. WorkInv'
  BY ProducersAssumption, Zenon DEF TypeOK, WorkInv
<1>4. FillInv'
  BY ProducersAssumption, Zenon DEF TypeOK, FillInv, Occupancy
<1>5. ExitInv'
  <2>1. ~exiting[p]
    BY Zenon DEF TypeOK, ExitInv
  <2> QED
    BY <2>1, Zenon DEF TypeOK, ExitInv
<1>6. ConsumerInv' /\ Bounded' /\ UnreadInv'
  BY Zenon DEF ConsumerInv, Bounded, Occupancy, UnreadInv
<1> QED
  BY <1>1, <1>2, <1>3, <1>4, <1>5, <1>6, Zenon

(* LWLockRelease keeps the invariant.                                   *)
LEMMA UnlockStep ==
  ASSUME IInv, NEW p \in Producers, Unlock(p)
  PROVE  IInv'
<1> USE DEF IInv, Unlock, Return, Goto,
            shared, counters, session, backend, worker, reset, history
<1>1. TypeOK'
  <2>1. local_batch[p] \o adding[p] \in Seq(Events)
    BY SeqType, Zenon DEF TypeOK
  <2>2. /\ local_batch' \in [Producers -> Seq(Events)]
        /\ adding' \in [Producers -> Seq(Events)]
    BY <2>1 DEF TypeOK
  <2>3. /\ pc' \in [Producers -> PCs]
        /\ call' \in [Producers -> {"event", "batch"}]
    BY Zenon DEF TypeOK, PCs
  <2> QED
    BY <2>2, <2>3, Zenon DEF TypeOK
<1>2. LockInv'
  BY ProducersAssumption, Zenon DEF TypeOK, LockInv, LockedPCs
<1>3. WorkInv'
  BY ProducersAssumption, Zenon DEF TypeOK, WorkInv
<1>4. FillInv'
  BY ProducersAssumption, Zenon DEF TypeOK, FillInv, Occupancy
<1>5. ExitInv'
  BY ProducersAssumption DEF TypeOK, ExitInv
<1>6. ConsumerInv' /\ Bounded' /\ UnreadInv'
  BY Zenon DEF ConsumerInv, Bounded, Occupancy, UnreadInv
<1> QED
  BY <1>1, <1>2, <1>3, <1>4, <1>5, <1>6, Zenon

(* PschXactCallback keeps the invariant.                                *)
LEMMA TxnEndStep ==
  ASSUME IInv, NEW p \in Producers, TxnEnd(p)
  PROVE  IInv'
<1> USE DEF IInv, TxnEnd, Flush, StartCall, Goto,
            shared, counters, session, backend, worker, reset, history
<1>1. TypeOK'
  <2>1. RangeOf(local_batch[p]) \subseteq Events
    BY SeqType, Zenon DEF TypeOK
  <2>2. pc' \in [Producers -> PCs]
    BY Zenon DEF TypeOK, PCs
  <2>3. call' \in [Producers -> {"event", "batch"}]
    BY Zenon DEF TypeOK
  <2>4. work' \in [Producers -> Seq(Events)]
    BY Zenon DEF TypeOK
  <2>5. headSeen' \in [Producers -> 0..Modulus-1]
    BY Zenon DEF TypeOK
  <2>6. local_batch' \in [Producers -> Seq(Events)]
    <3>1. local_batch' = [local_batch EXCEPT ![p] = <<>>]
      BY Zenon
    <3>2. local_batch \in [Producers -> Seq(Events)]
      BY Zenon DEF TypeOK
    <3> HIDE DEF TxnEnd, IInv
    <3> QED
      BY <3>1, <3>2
  <2>7. discarded' \subseteq Events
    BY <2>1, Zenon DEF TypeOK
  <2> QED
    BY <2>2, <2>3, <2>4, <2>5, <2>6, <2>7, Zenon DEF TypeOK
<1>2. LockInv'
  BY ProducersAssumption DEF TypeOK, LockInv, LockedPCs
<1>3. WorkInv'
  <2>1. adding[p] = <<>> /\ work[p] = <<>> /\ ~exiting[p]
    BY Zenon DEF WorkInv, ExitInv
  <2>2. \/ pc'[p] = "ReadTail" /\ work'[p] # <<>>
        \/ pc'[p] = "Idle" /\ work'[p] = <<>>
    BY <2>1, Zenon DEF TypeOK
  <2>3. \A q \in Producers \ {p} :
          pc'[q] = pc[q] /\ work'[q] = work[q] /\ call'[q] = call[q]
    BY Zenon DEF TypeOK
  <2> QED
    BY <2>1, <2>2, <2>3, Zenon DEF WorkInv
<1>4. FillInv'
  <2>1. pc'[p] \notin {"Fill", "Publish"}
    BY Zenon DEF TypeOK
  <2>2. \A q \in Producers \ {p} :
          pc'[q] = pc[q] /\ work'[q] = work[q] /\ headSeen'[q] = headSeen[q]
    BY Zenon DEF TypeOK
  <2> QED
    BY <2>1, <2>2, Zenon DEF FillInv, Occupancy
<1>5. ExitInv'
  BY ProducersAssumption, Zenon DEF TypeOK, ExitInv
<1>6. ConsumerInv' /\ Bounded' /\ UnreadInv'
  BY Zenon DEF ConsumerInv, Bounded, Occupancy, UnreadInv
<1> QED
  BY <1>1, <1>2, <1>3, <1>4, <1>5, <1>6, Zenon

(* PschLocalBatchShutdown keeps the invariant.                          *)
LEMMA ExitStep ==
  ASSUME IInv, NEW p \in Producers, Exit(p)
  PROVE  IInv'
<1> USE DEF IInv, Exit, Flush, StartCall, Goto,
            shared, counters, session, backend, worker, reset, history
<1>1. TypeOK'
  <2>1. RangeOf(local_batch[p]) \subseteq Events
    BY SeqType, Zenon DEF TypeOK
  <2>2. pc' \in [Producers -> PCs]
    <3>1. \E label \in {"ReadTail", "Idle", "Exited"} : pc' = [pc EXCEPT ![p] = label]
      BY Zenon
    <3>2. pc \in [Producers -> PCs]
      BY Zenon DEF TypeOK
    <3> HIDE DEF Exit, IInv
    <3> QED
      BY <3>1, <3>2, Zenon DEF PCs
  <2>3. call' \in [Producers -> {"event", "batch"}]
    <3>1. call' = call \/ call' = [call EXCEPT ![p] = "batch"]
      BY Zenon
    <3>2. call \in [Producers -> {"event", "batch"}]
      BY Zenon DEF TypeOK
    <3> HIDE DEF Exit, IInv
    <3> QED
      BY <3>1, <3>2, Zenon
  <2>4. work' \in [Producers -> Seq(Events)]
    <3>1. work' = work \/ work' = [work EXCEPT ![p] = local_batch[p]]
      BY Zenon
    <3>2. work \in [Producers -> Seq(Events)] /\ local_batch[p] \in Seq(Events)
      BY Zenon DEF TypeOK
    <3> HIDE DEF Exit, IInv
    <3> QED
      BY <3>1, <3>2, Zenon
  <2>5. headSeen' \in [Producers -> 0..Modulus-1]
    BY Zenon DEF TypeOK
  <2>6. local_batch' \in [Producers -> Seq(Events)]
    <3>1. \/ local_batch' = local_batch
          \/ local_batch' = [local_batch EXCEPT ![p] = <<>>]
      BY Zenon
    <3>2. local_batch \in [Producers -> Seq(Events)]
      BY Zenon DEF TypeOK
    <3>3. [local_batch EXCEPT ![p] = <<>>] \in [Producers -> Seq(Events)]
      BY <3>2
    <3> HIDE DEF Exit
    <3> QED
      BY <3>1, <3>2, <3>3, Zenon
  <2>7. discarded' \subseteq Events
    BY <2>1, Zenon DEF TypeOK
  <2> QED
    BY <2>2, <2>3, <2>4, <2>5, <2>6, <2>7, Zenon DEF TypeOK
<1>2. LockInv'
  BY ProducersAssumption DEF TypeOK, LockInv, LockedPCs
<1>3. WorkInv'
  <2>1. adding[p] = <<>> /\ work[p] = <<>>
    BY Zenon DEF WorkInv
  <2>2. \/ pc'[p] = "ReadTail" /\ work'[p] # <<>>
        \/ pc'[p] = "Exited" /\ work'[p] = <<>>
    BY <2>1, Zenon DEF TypeOK
  <2>3. \A q \in Producers \ {p} :
          pc'[q] = pc[q] /\ work'[q] = work[q] /\ call'[q] = call[q]
    BY Zenon DEF TypeOK
  <2> QED
    BY <2>1, <2>2, <2>3, Zenon DEF WorkInv
<1>4. FillInv'
  <2>1. pc'[p] \notin {"Fill", "Publish"}
    BY Zenon DEF TypeOK
  <2>2. \A q \in Producers \ {p} :
          pc'[q] = pc[q] /\ work'[q] = work[q] /\ headSeen'[q] = headSeen[q]
    BY Zenon DEF TypeOK
  <2> QED
    BY <2>1, <2>2, Zenon DEF FillInv, Occupancy
<1>5. ExitInv'
  <2>1. adding[p] = <<>>
    BY Zenon DEF WorkInv
  <2>2. \A q \in Producers \ {p} :
          /\ pc'[q] = pc[q] /\ local_batch'[q] = local_batch[q]
          /\ call'[q] = call[q] /\ exiting'[q] = exiting[q]
    BY Zenon DEF TypeOK
  <2>3. /\ exiting'[p] /\ local_batch'[p] = <<>>
        /\ pc'[p] \in {"ReadTail", "Exited"}
        /\ pc'[p] = "ReadTail" => call'[p] = "batch"
    BY Zenon DEF TypeOK
  <2> QED
    BY <2>1, <2>2, <2>3 DEF ExitInv
<1>6. ConsumerInv' /\ Bounded' /\ UnreadInv'
  BY Zenon DEF ConsumerInv, Bounded, Occupancy, UnreadInv
<1> QED
  BY <1>1, <1>2, <1>3, <1>4, <1>5, <1>6, Zenon

(* A reload of pg_stat_ch.enabled keeps the invariant.                  *)
LEMMA ReloadStep ==
  ASSUME IInv, NEW p \in Producers, Reload(p)
  PROVE  IInv'
<1> USE DEF IInv, Reload, Goto,
            shared, counters, session, backend, worker, reset, history
<1>1. TypeOK'
  BY ProducersAssumption, Zenon DEF LockInv, WorkInv, TypeOK, PCs
<1>2. LockInv' /\ WorkInv' /\ FillInv' /\ ExitInv' /\ ConsumerInv' /\ Bounded' /\ UnreadInv'
  BY Zenon
     DEF LockInv, LockedPCs, WorkInv, FillInv, Occupancy, ExitInv,
     ConsumerInv, Bounded, UnreadInv
<1> QED
  BY <1>1, <1>2, Zenon

(* PschDequeueEvent finding an event keeps the invariant.               *)
LEMMA DequeueStartStep ==
  ASSUME IInv, DequeueStart
  PROVE  IInv'
<1> USE DEF IInv, DequeueStart,
            shared, counters, session, backend, worker, reset, history
<1>1. TypeOK'
  BY ProducersAssumption, Zenon DEF LockInv, WorkInv, TypeOK, PCs
<1>2. ConsumerInv'
  BY ProducersAssumption, Zenon DEF TypeOK, ConsumerInv
<1>3. LockInv' /\ WorkInv' /\ FillInv' /\ ExitInv' /\ Bounded' /\ UnreadInv'
  BY Zenon
     DEF LockInv, LockedPCs, WorkInv, FillInv, Occupancy, ExitInv, Bounded,
     UnreadInv
<1> QED
  BY <1>1, <1>2, <1>3, Zenon

(* The copy out of the slot keeps the invariant.                        *)
LEMMA DequeueCopyStep ==
  ASSUME IInv, DequeueCopy
  PROVE  IInv'
<1> USE DEF IInv, DequeueCopy,
            shared, counters, session, backend, worker, reset, history
<1>1. TypeOK'
  <2>1. ring[Slot(tail)] \in Events \cup {NoEvent}
    BY Ranges, Zenon DEF TypeOK
  <2> QED
    BY <2>1, Zenon DEF TypeOK
<1>2. ConsumerInv'
  BY ProducersAssumption, Zenon DEF TypeOK, ConsumerInv
<1>3. LockInv' /\ WorkInv' /\ FillInv' /\ ExitInv' /\ Bounded' /\ UnreadInv'
  BY Zenon
     DEF LockInv, LockedPCs, WorkInv, FillInv, Occupancy, ExitInv, Bounded,
     UnreadInv
<1> QED
  BY <1>1, <1>2, <1>3, Zenon

(* The store to tail keeps the invariant.                               *)
LEMMA DequeueAdvanceStep ==
  ASSUME IInv, DequeueAdvance
  PROVE  IInv'
<1> USE DEF IInv, DequeueAdvance,
            shared, counters, session, backend, worker, reset, history
<1>1. /\ head \in 0..Modulus-1 /\ tail \in 0..Modulus-1
      /\ Occupancy \in Nat /\ Capacity \in Nat /\ Modulus \in Nat
      /\ head # tail
  <2>1. head \in 0..Modulus-1 /\ tail \in 0..Modulus-1
    BY Zenon DEF TypeOK
  <2>2. Occupancy \in 0..Modulus-1
    BY Ranges, Zenon
  <2>3. head # tail
    BY Zenon DEF ConsumerInv
  <2> HIDE DEF IInv, DequeueAdvance
  <2> QED
    BY <2>1, <2>2, <2>3, CapacityAssumption
<1>2. Occupancy >= 1 /\ Occupancy' = Occupancy - 1
  BY <1>1, SubInc, Zenon DEF Occupancy
<1>3. TypeOK'
  <2>1. copied \in Events
    <3>1. copied = ring[Slot(tail)]
      BY Zenon DEF ConsumerInv
    <3>2. 1 \in 1..Occupancy /\ tail + 1 - 1 = tail
      BY <1>1, <1>2
    <3> QED
      BY <3>1, <3>2, Zenon DEF UnreadInv
  <2>2. delivered' \in Seq(Events) /\ inBatch' \in Nat
    BY <2>1 DEF TypeOK
  <2>3. tail' \in 0..Modulus-1
    BY <1>1, WordType, Zenon
  <2> QED
    BY <2>2, <2>3, Zenon DEF TypeOK
<1>4. FillInv'
  BY <1>1, <1>2 DEF FillInv
<1>5. ConsumerInv'
  BY ProducersAssumption, Zenon DEF TypeOK, ConsumerInv
<1>6. Bounded'
  BY <1>1, <1>2 DEF Bounded
<1>7. UnreadInv'
  <2>1. ASSUME NEW i \in 1..(Occupancy - 1)
        PROVE  ring[Slot(Inc(tail) + i - 1)] \in Events
    <3>1. /\ i + 1 \in 1..Occupancy /\ i - 1 \in Nat
          /\ tail + 1 + (i - 1) = tail + (i + 1) - 1
      BY <1>1, <1>2
    <3>2. Inc(tail) \in Nat
      BY <1>1, WordType
    <3>3. Inc(tail) + i - 1 = Inc(tail) + (i - 1)
      BY <3>2, Zenon
    <3> QED
      BY <1>1, <3>1, <3>3, SlotOfInc, Zenon DEF UnreadInv
  <2> QED
    BY <1>2, <2>1, Zenon DEF UnreadInv
<1>8. LockInv' /\ WorkInv' /\ ExitInv'
  BY Zenon DEF LockInv, LockedPCs, WorkInv, ExitInv
<1> QED
  BY <1>3, <1>4, <1>5, <1>6, <1>7, <1>8, Zenon

(* PschRecordExportSuccess or a failure keeps the invariant.            *)
LEMMA ExportBatchStep ==
  ASSUME IInv, NEW ok \in BOOLEAN, ExportBatch(ok)
  PROVE  IInv'
<1> USE DEF IInv, ExportBatch,
            shared, counters, session, backend, worker, reset, history
<1>1. TypeOK'
  <2>1. exported' \in Nat
    BY DEF TypeOK
  <2> QED
    BY <2>1, Zenon DEF TypeOK
<1>2. LockInv' /\ WorkInv' /\ FillInv' /\ ExitInv' /\ ConsumerInv' /\ Bounded' /\ UnreadInv'
  BY Zenon
     DEF LockInv, LockedPCs, WorkInv, FillInv, Occupancy, ExitInv,
     ConsumerInv, Bounded, UnreadInv
<1> QED
  BY <1>1, <1>2, Zenon

(* The lock PschResetStats takes keeps the invariant.                   *)
LEMMA ResetBeginStep ==
  ASSUME IInv, ResetBegin
  PROVE  IInv'
<1> USE DEF IInv, ResetBegin,
            shared, counters, session, backend, worker, reset, history
<1>1. TypeOK'
  <2>1. resets' \in 0..MaxResets
    BY BoundsAssumption DEF TypeOK
  <2> QED
    BY <2>1, Zenon DEF TypeOK
<1>2. LockInv'
  BY ProducersAssumption, Zenon DEF TypeOK, LockInv, LockedPCs
<1>3. WorkInv' /\ FillInv' /\ ExitInv' /\ ConsumerInv' /\ Bounded' /\ UnreadInv'
  BY Zenon
     DEF WorkInv, FillInv, Occupancy, ExitInv, ConsumerInv, Bounded, UnreadInv
<1> QED
  BY <1>1, <1>2, <1>3, Zenon

(* PschResetStats clearing dropped keeps the invariant.                 *)
LEMMA ResetDroppedStep ==
  ASSUME IInv, ResetDropped
  PROVE  IInv'
<1> USE DEF IInv, ResetDropped,
            shared, counters, session, backend, worker, reset, history
<1>1. TypeOK'
  BY ProducersAssumption, Zenon DEF LockInv, WorkInv, TypeOK, PCs
<1>2. LockInv'
  BY ProducersAssumption, Zenon DEF TypeOK, LockInv, LockedPCs
<1>3. WorkInv' /\ FillInv' /\ ExitInv' /\ ConsumerInv' /\ Bounded' /\ UnreadInv'
  BY Zenon
     DEF WorkInv, FillInv, Occupancy, ExitInv, ConsumerInv, Bounded, UnreadInv
<1> QED
  BY <1>1, <1>2, <1>3, Zenon

(* PschResetStats clearing exported keeps the invariant.                *)
LEMMA ResetExportedStep ==
  ASSUME IInv, ResetExported
  PROVE  IInv'
<1> USE DEF IInv, ResetExported,
            shared, counters, session, backend, worker, reset, history
<1>1. TypeOK'
  BY ProducersAssumption, Zenon DEF LockInv, WorkInv, TypeOK, PCs
<1>2. LockInv'
  BY ProducersAssumption, Zenon DEF TypeOK, LockInv, LockedPCs
<1>3. WorkInv' /\ FillInv' /\ ExitInv' /\ ConsumerInv' /\ Bounded' /\ UnreadInv'
  BY Zenon
     DEF WorkInv, FillInv, Occupancy, ExitInv, ConsumerInv, Bounded, UnreadInv
<1> QED
  BY <1>1, <1>2, <1>3, Zenon

(* PschResetStats clearing the flag and unlocking keeps the invariant.  *)
LEMMA ResetFlagStep ==
  ASSUME IInv, ResetFlag
  PROVE  IInv'
<1> USE DEF IInv, ResetFlag,
            shared, counters, session, backend, worker, reset, history
<1>1. TypeOK'
  BY ProducersAssumption, Zenon DEF LockInv, WorkInv, TypeOK, PCs
<1>2. LockInv'
  BY ProducersAssumption, Zenon DEF TypeOK, LockInv, LockedPCs
<1>3. WorkInv' /\ FillInv' /\ ExitInv' /\ ConsumerInv' /\ Bounded' /\ UnreadInv'
  BY Zenon
     DEF WorkInv, FillInv, Occupancy, ExitInv, ConsumerInv, Bounded, UnreadInv
<1> QED
  BY <1>1, <1>2, <1>3, Zenon

-----------------------------------------------------------------------------
(* The initial state satisfies the invariant.                              *)
LEMMA InitIInv == Init => IInv
<1> SUFFICES ASSUME Init PROVE IInv
  BY Zenon
<1> USE DEF Init
<1>1. TypeOK
  <2>1. 0 \in 0..Modulus-1 /\ 0 \in 0..MaxEvents /\ 0 \in 0..MaxResets
    BY CapacityAssumption, BoundsAssumption
  <2>2. <<>> \in Seq(Events)
    OBVIOUS
  <2>3. ring \in [0..Capacity-1 -> Events \cup {NoEvent}]
    BY Zenon
  <2> QED
    BY <2>1, <2>2, <2>3, Zenon DEF TypeOK, PCs
<1>2. Occupancy = 0
  BY CapacityAssumption, SubInc DEF Occupancy
<1>3. LockInv /\ WorkInv /\ FillInv /\ ExitInv /\ ConsumerInv
  BY ProducersAssumption, Zenon
     DEF LockInv, LockedPCs, WorkInv, FillInv, ExitInv, ConsumerInv
<1>4. Bounded /\ UnreadInv
  BY <1>2, CapacityAssumption DEF Bounded, UnreadInv
<1> QED
  BY <1>1, <1>3, <1>4, Zenon DEF IInv

(* So does every state that a step or a stutter leads to.                  *)
LEMMA NextIInv == IInv /\ [Next]_vars => IInv'
<1> SUFFICES ASSUME IInv, [Next]_vars PROVE IInv'
  BY Zenon
<1>1. ASSUME NEW p \in Producers, Backend(p) PROVE IInv'
  BY <1>1, ReportStep, ReadTailStep, TryLockOkStep, AddToBatchStep,
     AddToFullBatchStep, LockStep, CheckStep, FillStep, ThrowStep, PublishStep,
     CountStep, OverflowStep, WarnStep, CancelStep, UnlockStep, TxnEndStep,
     ExitStep, ReloadStep, Zenon DEF Backend, InCall
<1>2. CASE Worker
  BY <1>2, DequeueStartStep, DequeueCopyStep, DequeueAdvanceStep,
     ExportBatchStep, Zenon DEF Worker, Dequeue
<1>3. CASE ResetBegin \/ InReset
  BY <1>3, ResetBeginStep, ResetDroppedStep, ResetExportedStep, ResetFlagStep,
     Zenon
     DEF InReset
<1>4. CASE UNCHANGED vars
  <2> USE <1>4 DEF vars, shared, counters, session, backend, worker, reset, history
  <2>1. TypeOK'
    BY Zenon DEF IInv, TypeOK
  <2>2. LockInv' /\ WorkInv' /\ FillInv' /\ ExitInv'
    BY Zenon DEF IInv, LockInv, WorkInv, FillInv, ExitInv, Occupancy
  <2>3. ConsumerInv' /\ Bounded' /\ UnreadInv'
    BY Zenon DEF IInv, ConsumerInv, Bounded, UnreadInv, Occupancy
  <2> QED
    BY <2>1, <2>2, <2>3, Zenon DEF IInv
<1> QED
  BY <1>1, <1>2, <1>3, <1>4, Zenon DEF Next

-----------------------------------------------------------------------------
(* The inductive invariant holds in every reachable state.                 *)
THEOREM Invariance == Spec => []IInv
BY InitIInv, NextIInv, PTL DEF Spec

(* Type correctness: head and tail stay within the word, every pc is one   *)
(* of the program, and only events leave the queue.                        *)
THEOREM TypeCorrect == Spec => []TypeOK
<1>1. IInv => TypeOK
  BY Zenon DEF IInv
<1> QED
  BY <1>1, Invariance, PTL

(* The queue never holds more than its capacity: the re-check that         *)
(* TryEnqueueLocked makes under the lock is enough, whatever the unlocked  *)
(* tests saw, although the consumer moves tail without the lock.           *)
THEOREM RingBounded == Spec => []Bounded
<1>1. IInv => Bounded
  BY Zenon DEF IInv
<1> QED
  BY <1>1, Invariance, PTL

(* No producer writes the slot that the lock-free PschDequeueEvent reads.  *)
THEOREM SlotRaceFree == Spec => []NoSlotRace
BY SlotRaceExcluded, Invariance, PTL

(* PschLocalBatchShutdown leaves no event in an exited backend.            *)
THEOREM ExitIsClean == Spec => []ExitedClean
<1>1. IInv => ExitedClean
  <2> SUFFICES ASSUME IInv, NEW p \in Producers, pc[p] = "Exited"
               PROVE  Held(p) = <<>>
    BY Zenon DEF ExitedClean
  <2>1. work[p] = <<>> /\ local_batch[p] = <<>> /\ adding[p] = <<>>
    BY Zenon DEF IInv, WorkInv, ExitInv
  <2>2. <<>> \o <<>> \o <<>> = <<>>
    <3>1. <<>> \in Seq(Events)
      OBVIOUS
    <3> QED
      BY <3>1, SeqType, Zenon
  <2> QED
    BY <2>1, <2>2, Zenon DEF Held
<1> QED
  BY <1>1, Invariance, PTL

-----------------------------------------------------------------------------
(* Sequences of events: what they hold and that they repeat nothing.       *)

(* What Append makes of a sequence, ...                                    *)
LEMMA Appending ==
  ASSUME NEW S, NEW s \in Seq(S), NEW e \in S
  PROVE  /\ Append(s, e) \in Seq(S) /\ Len(Append(s, e)) = Len(s) + 1
         /\ \A i \in 1..Len(s) : Append(s, e)[i] = s[i]
         /\ Append(s, e)[Len(s) + 1] = e
         /\ <<e>> \in Seq(S) /\ Append(s, e) = s \o <<e>>
OBVIOUS

(* ... what \o makes of two, ...                                           *)
LEMMA Joining ==
  ASSUME NEW S, NEW s \in Seq(S), NEW t \in Seq(S)
  PROVE  /\ Len(s) \in Nat /\ Len(t) \in Nat
         /\ s \o t \in Seq(S) /\ Len(s \o t) = Len(s) + Len(t)
         /\ \A i \in 1..Len(s) + Len(t) :
              (s \o t)[i] = IF i <= Len(s) THEN s[i] ELSE t[i - Len(s)]
OBVIOUS

(* ... and of three, ...                                                   *)
LEMMA JoiningThree ==
  ASSUME NEW S, NEW s \in Seq(S), NEW t \in Seq(S), NEW u \in Seq(S)
  PROVE  (s \o t) \o u = s \o (t \o u)
OBVIOUS

(* ... the parts of one that is not empty, ...                             *)
LEMMA Beheading ==
  ASSUME NEW S, NEW s \in Seq(S), s # <<>>
  PROVE  /\ Head(s) \in S /\ Tail(s) \in Seq(S) /\ <<Head(s)>> \in Seq(S)
         /\ Len(s) \in Nat \ {0} /\ Len(Tail(s)) = Len(s) - 1
         /\ Head(s) = s[1]
         /\ \A i \in 1..Len(Tail(s)) : Tail(s)[i] = s[i+1]
OBVIOUS

(* ... and when two are the same.                                          *)
LEMMA SameSeq ==
  ASSUME NEW S, NEW s \in Seq(S), NEW t \in Seq(S), Len(s) = Len(t),
         \A i \in 1..Len(s) : s[i] = t[i]
  PROVE  s = t
OBVIOUS

(* The empty sequence.                                                     *)
LEMMA RangeEmpty == RangeOf(<<>>) = {} /\ Distinct(<<>>)
BY DEF RangeOf, Distinct

(* A sequence of one event.                                                *)
LEMMA RangeSingle ==
  ASSUME NEW e
  PROVE  RangeOf(<<e>>) = {e} /\ Distinct(<<e>>)
BY DEF RangeOf, Distinct

(* Two sequences, one after the other.                                     *)
LEMMA RangeConcat ==
  ASSUME NEW s \in Seq(Events), NEW t \in Seq(Events)
  PROVE  /\ RangeOf(s \o t) = RangeOf(s) \cup RangeOf(t)
         /\ Distinct(s) /\ Distinct(t) /\ RangeOf(s) \cap RangeOf(t) = {}
              => Distinct(s \o t)
<1>1. /\ Len(s) \in Nat /\ Len(t) \in Nat
      /\ Len(s \o t) = Len(s) + Len(t)
      /\ \A i \in 1..Len(s) + Len(t) :
           (s \o t)[i] = IF i <= Len(s) THEN s[i] ELSE t[i - Len(s)]
  BY Joining, Zenon
<1>2. RangeOf(s \o t) \subseteq RangeOf(s) \cup RangeOf(t)
  <2> SUFFICES ASSUME NEW i \in 1..Len(s) + Len(t)
               PROVE  (s \o t)[i] \in RangeOf(s) \cup RangeOf(t)
    BY <1>1, Zenon DEF RangeOf
  <2>1. CASE i <= Len(s)
    BY <2>1, <1>1 DEF RangeOf
  <2>2. CASE i > Len(s)
    <3>1. i - Len(s) \in 1..Len(t) /\ (s \o t)[i] = t[i - Len(s)]
      BY <2>2, <1>1
    <3> QED
      BY <3>1, Zenon DEF RangeOf
  <2> QED
    BY <2>1, <2>2, <1>1
<1>3. RangeOf(s) \subseteq RangeOf(s \o t)
  <2> SUFFICES ASSUME NEW i \in 1..Len(s)
               PROVE  s[i] \in RangeOf(s \o t)
    BY Zenon DEF RangeOf
  <2>1. i \in 1..Len(s) + Len(t) /\ (s \o t)[i] = s[i]
    BY <1>1
  <2> QED
    BY <2>1, <1>1, Zenon DEF RangeOf
<1>4. RangeOf(t) \subseteq RangeOf(s \o t)
  <2> SUFFICES ASSUME NEW i \in 1..Len(t)
               PROVE  t[i] \in RangeOf(s \o t)
    BY Zenon DEF RangeOf
  <2>1. /\ i + Len(s) \in 1..Len(s) + Len(t)
        /\ ~ i + Len(s) <= Len(s) /\ i + Len(s) - Len(s) = i
    BY <1>1
  <2>2. (s \o t)[i + Len(s)] = t[i]
    BY <2>1, <1>1
  <2> QED
    BY <2>1, <2>2, <1>1, Zenon DEF RangeOf
<1>5. ASSUME Distinct(s), Distinct(t), RangeOf(s) \cap RangeOf(t) = {}
      PROVE  Distinct(s \o t)
  <2> SUFFICES ASSUME NEW i \in 1..Len(s) + Len(t), NEW j \in 1..Len(s) + Len(t),
                      (s \o t)[i] = (s \o t)[j]
               PROVE  i = j
    BY <1>1, Zenon DEF Distinct
  <2>1. CASE i <= Len(s) /\ j <= Len(s)
    BY <2>1, <1>1, <1>5 DEF Distinct
  <2>2. CASE i > Len(s) /\ j > Len(s)
    <3>1. /\ i - Len(s) \in 1..Len(t) /\ j - Len(s) \in 1..Len(t)
          /\ t[i - Len(s)] = t[j - Len(s)]
      BY <2>2, <1>1
    <3>2. i - Len(s) = j - Len(s)
      BY <3>1, <1>5, Zenon DEF Distinct
    <3> QED
      BY <3>2, <1>1
  <2>3. \A k \in 1..Len(s) : \A l \in 1..Len(t) : s[k] # t[l]
    BY <1>5, Zenon DEF RangeOf
  <2>4. CASE i <= Len(s) /\ j > Len(s)
    <3>1. i \in 1..Len(s) /\ j - Len(s) \in 1..Len(t) /\ s[i] = t[j - Len(s)]
      BY <2>4, <1>1
    <3> QED
      BY <3>1, <2>3, Zenon
  <2>5. CASE i > Len(s) /\ j <= Len(s)
    <3>1. j \in 1..Len(s) /\ i - Len(s) \in 1..Len(t) /\ s[j] = t[i - Len(s)]
      BY <2>5, <1>1
    <3> QED
      BY <3>1, <2>3, Zenon
  <2> QED
    BY <2>1, <2>2, <2>4, <2>5, <1>1
<1> QED
  BY <1>2, <1>3, <1>4, <1>5, Zenon

(* One event more.                                                         *)
LEMMA RangeAppend ==
  ASSUME NEW s \in Seq(Events), NEW e \in Events
  PROVE  /\ Append(s, e) \in Seq(Events)
         /\ Len(Append(s, e)) = Len(s) + 1
         /\ RangeOf(Append(s, e)) = RangeOf(s) \cup {e}
         /\ Distinct(s) /\ e \notin RangeOf(s) => Distinct(Append(s, e))
<1>1. <<e>> \in Seq(Events) /\ Append(s, e) = s \o <<e>>
  BY Appending
<1>2. RangeOf(<<e>>) = {e} /\ Distinct(<<e>>)
  BY RangeSingle, Zenon
<1>3. /\ Append(s, e) \in Seq(Events)
      /\ Len(Append(s, e)) = Len(s) + 1
  BY Appending, Zenon
<1>4. /\ RangeOf(s \o <<e>>) = RangeOf(s) \cup RangeOf(<<e>>)
      /\ Distinct(s) /\ Distinct(<<e>>) /\ RangeOf(s) \cap RangeOf(<<e>>) = {}
           => Distinct(s \o <<e>>)
  BY <1>1, RangeConcat, Zenon
<1>5. RangeOf(Append(s, e)) = RangeOf(s) \cup {e}
  BY <1>1, <1>2, <1>4, Zenon
<1>6. ASSUME Distinct(s), e \notin RangeOf(s)
      PROVE  Distinct(Append(s, e))
  <2>1. RangeOf(s) \cap RangeOf(<<e>>) = {}
    BY <1>2, <1>6, Zenon
  <2> QED
    BY <2>1, <1>1, <1>2, <1>4, <1>6, Zenon
<1> QED
  BY <1>3, <1>5, <1>6, Zenon

(* The first event and the others.                                         *)
LEMMA RangeHeadTail ==
  ASSUME NEW s \in Seq(Events), s # <<>>
  PROVE  /\ Head(s) \in Events /\ Tail(s) \in Seq(Events)
         /\ Len(s) = Len(Tail(s)) + 1
         /\ RangeOf(s) = {Head(s)} \cup RangeOf(Tail(s))
         /\ Distinct(s) => Distinct(Tail(s)) /\ Head(s) \notin RangeOf(Tail(s))
<1>1. /\ Head(s) \in Events /\ Tail(s) \in Seq(Events)
      /\ Len(Tail(s)) = Len(s) - 1
      /\ \A i \in 1..Len(Tail(s)) : Tail(s)[i] = s[i+1]
  BY Beheading, Zenon
<1>2. Len(s) \in Nat \ {0} /\ Head(s) = s[1]
  BY Beheading, Zenon
<1>3. RangeOf(s) \subseteq {Head(s)} \cup RangeOf(Tail(s))
  <2> SUFFICES ASSUME NEW i \in 1..Len(s), i # 1
               PROVE  s[i] \in RangeOf(Tail(s))
    BY <1>2, Zenon DEF RangeOf
  <2>1. i - 1 \in 1..Len(Tail(s)) /\ i - 1 + 1 = i
    BY <1>1, <1>2
  <2>2. Tail(s)[i-1] = s[i]
    BY <2>1, <1>1, Zenon
  <2> QED
    BY <2>1, <2>2, Zenon DEF RangeOf
<1>4. RangeOf(Tail(s)) \subseteq RangeOf(s)
  <2> SUFFICES ASSUME NEW i \in 1..Len(Tail(s))
               PROVE  s[i+1] \in RangeOf(s)
    BY <1>1, Zenon DEF RangeOf
  <2>1. i + 1 \in 1..Len(s)
    BY <1>1, <1>2
  <2> QED
    BY <2>1, Zenon DEF RangeOf
<1>5. Head(s) \in RangeOf(s)
  BY <1>2 DEF RangeOf
<1>6. ASSUME Distinct(s)
      PROVE  Distinct(Tail(s)) /\ Head(s) \notin RangeOf(Tail(s))
  <2>1. \A i \in 1..Len(Tail(s)) : i + 1 \in 1..Len(s) /\ i + 1 # 1
    BY <1>1, <1>2
  <2>2. 1 \in 1..Len(s)
    BY <1>2
  <2>3. \A i \in 1..Len(Tail(s)) : s[i+1] # s[1]
    BY <2>1, <2>2, <1>6, Zenon DEF Distinct
  <2>4. Distinct(Tail(s))
    <3> SUFFICES ASSUME NEW i \in 1..Len(Tail(s)), NEW j \in 1..Len(Tail(s)),
                        s[i+1] = s[j+1]
                 PROVE  i = j
      BY <1>1, Zenon DEF Distinct
    <3>1. i + 1 = j + 1
      BY <2>1, <1>6, Zenon DEF Distinct
    <3> QED
      BY <3>1
  <2> QED
    BY <2>3, <2>4, <1>1, <1>2, Zenon DEF RangeOf
<1> QED
  BY <1>1, <1>2, <1>3, <1>4, <1>5, <1>6

-----------------------------------------------------------------------------
(* The unread part of the ring as a first-in first-out channel.            *)

(* Between the positions t and h of a ring r there are Sub(h, t) events.   *)
LEMMA RingSegment ==
  ASSUME NEW r, NEW t \in Nat, NEW n \in Nat,
         \A i \in 1..n : r[Slot(t + i - 1)] \in Events
  PROVE  /\ [i \in 1..n |-> r[Slot(t + i - 1)]] \in Seq(Events)
         /\ Len([i \in 1..n |-> r[Slot(t + i - 1)]]) = n
OBVIOUS

(* The unread part is a sequence of as many events as the positions say.   *)
LEMMA UnreadType ==
  ASSUME IInv
  PROVE  Unread \in Seq(Events) /\ Len(Unread) = Occupancy
<1>1. tail \in Nat /\ Occupancy \in Nat
  BY Ranges, CapacityAssumption DEF IInv
<1>2. \A i \in 1..Occupancy : ring[Slot(tail + i - 1)] \in Events
  BY Zenon DEF IInv, UnreadInv
<1> QED
  BY <1>1, <1>2, RingSegment DEF Unread

(* A step that leaves the ring and the positions alone.                    *)
LEMMA UnreadKept ==
  ASSUME UNCHANGED <<head, tail, ring>>
  PROVE  Unread' = Unread
BY Zenon DEF Unread, Occupancy

(* The copy into the slot at head touches no unread event.                 *)
LEMMA FillKeepsUnread ==
  ASSUME IInv, NEW p \in Producers, Fill(p)
  PROVE  Unread' = Unread
<1>1. \A i \in 1..Occupancy : Slot(tail + i - 1) # Slot(headSeen[p])
  BY FillOutsideUnread, Zenon DEF Fill
<1>2. /\ ring' = [ring EXCEPT ![Slot(headSeen[p])] = Head(work[p])]
      /\ head' = head /\ tail' = tail
  BY Zenon DEF Fill
<1>3. Occupancy' = Occupancy
  BY <1>2, Zenon DEF Occupancy
<1>4. /\ ring \in [0..Capacity-1 -> Events \cup {NoEvent}]
      /\ \A i \in 1..Occupancy : Slot(tail + i - 1) \in 0..Capacity-1
  BY Ranges, Zenon DEF IInv, TypeOK
<1>5. \A i \in 1..Occupancy : ring'[Slot(tail + i - 1)] = ring[Slot(tail + i - 1)]
  BY <1>1, <1>2, <1>4, Zenon
<1> QED
  BY <1>2, <1>3, <1>5, Zenon DEF Unread

(* The store to head appends the event that was copied into the slot.      *)
LEMMA PublishAppends ==
  ASSUME IInv, NEW p \in Producers, Publish(p)
  PROVE  /\ work[p] # <<>> /\ Head(work[p]) \in Events
         /\ Len(Unread) < Capacity
         /\ Unread' = Append(Unread, Head(work[p]))
<1> DEFINE e == Head(work[p])
<1>1. work[p] # <<>> /\ e \in Events
  <2>1. work[p] # <<>> /\ work[p] \in Seq(Events)
    BY Zenon DEF IInv, WorkInv, TypeOK, Publish
  <2> QED
    BY <2>1, SeqType, Zenon
<1>2. /\ Occupancy < Capacity
      /\ ring[Slot(head)] = e
      /\ head' = Inc(head) /\ tail' = tail /\ ring' = ring
  BY Zenon DEF IInv, FillInv, Publish
<1>3. /\ Unread \in Seq(Events) /\ Len(Unread) = Occupancy
  BY UnreadType, Zenon
<1>4. /\ head \in 0..Modulus-1 /\ tail \in 0..Modulus-1 /\ tail \in Nat
      /\ Occupancy \in Nat /\ Occupancy < Modulus - 1
  <2>1. head \in 0..Modulus-1 /\ tail \in 0..Modulus-1 /\ TypeOK
    BY Zenon DEF IInv, TypeOK
  <2>2. Occupancy \in 0..Modulus-1
    BY <2>1, Ranges, Zenon
  <2> QED
    BY <1>2, <2>1, <2>2, CapacityAssumption
<1>5. Occupancy' = Occupancy + 1
  BY <1>2, <1>4, SubInc, Zenon DEF Occupancy
<1>6. Slot(tail + Occupancy) = Slot(head)
  BY <1>4, SlotOfHead, Zenon DEF Occupancy
<1>7. /\ \A i \in 1..Occupancy : ring[Slot(tail + i - 1)] \in Events
      /\ tail + (Occupancy + 1) - 1 = tail + Occupancy
  BY <1>4 DEF IInv, UnreadInv
<1> DEFINE n == Occupancy + 1
           u == [i \in 1..n |-> ring[Slot(tail + i - 1)]]
<1>8. Unread' = u
  BY <1>2, <1>5, Zenon DEF Unread
<1>9. \A i \in 1..n : i \in 1..Occupancy \/ i = Occupancy + 1
  BY <1>4
<1>10. \A i \in 1..n : ring[Slot(tail + i - 1)] \in Events
  BY <1>1, <1>2, <1>6, <1>7, <1>9, Zenon
<1>11. u \in Seq(Events) /\ Len(u) = n
  <2>1. n \in Nat
    BY <1>4
  <2> QED
    BY <2>1, <1>4, <1>10, RingSegment
<1>12. /\ Append(Unread, e) \in Seq(Events)
       /\ Len(Append(Unread, e)) = n
       /\ \A i \in 1..Occupancy : Append(Unread, e)[i] = Unread[i]
       /\ Append(Unread, e)[n] = e
  <2> HIDE DEF e
  <2> QED
    BY <1>1, <1>3, Appending
<1>13. \A i \in 1..n : u[i] = Append(Unread, e)[i]
  <2>1. \A i \in 1..Occupancy : u[i] = Unread[i]
    BY <1>4 DEF Unread
  <2>2. u[n] = e
    BY <1>2, <1>4, <1>6, <1>7
  <2> HIDE DEF u, e
  <2> QED
    BY <2>1, <2>2, <1>9, <1>12, Zenon
<1>14. u = Append(Unread, e)
  <2> HIDE DEF u, e, n
  <2> QED
    BY <1>11, <1>12, <1>13, SameSeq, Zenon
<1> QED
  BY <1>1, <1>2, <1>3, <1>8, <1>14, Zenon

(* The store to tail takes out the oldest event, the one that was copied.  *)
LEMMA AdvanceTakes ==
  ASSUME IInv, DequeueAdvance
  PROVE  /\ Unread # <<>>
         /\ copied = Head(Unread)
         /\ Unread' = Tail(Unread)
<1>1. /\ head \in 0..Modulus-1 /\ tail \in 0..Modulus-1 /\ tail \in Nat
      /\ head # tail /\ copied = ring[Slot(tail)]
      /\ tail' = Inc(tail) /\ head' = head /\ ring' = ring
  BY Ranges, SMTT(20) DEF IInv, TypeOK, ConsumerInv, DequeueAdvance
<1>2. Occupancy \in Nat /\ Occupancy >= 1 /\ Occupancy' = Occupancy - 1
  BY <1>1, SubInc, Ranges, CapacityAssumption DEF Occupancy, IInv
<1>3. /\ Unread \in Seq(Events) /\ Len(Unread) = Occupancy
  BY UnreadType, Zenon
<1>4. Unread # <<>> /\ Head(Unread) = Unread[1]
  BY <1>2, <1>3
<1>5. Unread[1] = ring[Slot(tail)]
  BY <1>1, <1>2 DEF Unread
<1> DEFINE n == Occupancy - 1
           u == [i \in 1..n |-> ring[Slot(Inc(tail) + i - 1)]]
<1>6. Unread' = u
  BY <1>1, <1>2, Zenon DEF Unread
<1>7. ASSUME NEW i \in 1..n
      PROVE  /\ i + 1 \in 1..Occupancy
             /\ ring[Slot(Inc(tail) + i - 1)] = Unread[i + 1]
  <2>1. i + 1 \in 1..Occupancy /\ i - 1 \in Nat
    BY <1>2
  <2>2. Slot(Inc(tail) + (i - 1)) = Slot(tail + 1 + (i - 1))
    BY <2>1, <1>1, SlotOfInc, Zenon
  <2>3. /\ Inc(tail) + (i - 1) = Inc(tail) + i - 1
        /\ tail + 1 + (i - 1) = tail + (i + 1) - 1
    <3>1. Inc(tail) \in Nat
      BY <1>1, WordType, CapacityAssumption
    <3> QED
      BY <2>1, <3>1, <1>1
  <2>4. Unread[i + 1] = ring[Slot(tail + (i + 1) - 1)]
    BY <2>1, Zenon DEF Unread
  <2> QED
    BY <2>1, <2>2, <2>3, <2>4, Zenon
<1>8. \A i \in 1..n : u[i] = Unread[i + 1]
  BY <1>7, Zenon
<1>9. /\ Tail(Unread) \in Seq(Events) /\ Len(Tail(Unread)) = n
      /\ \A i \in 1..n : Tail(Unread)[i] = Unread[i + 1]
  BY <1>3, <1>4, Beheading, Zenon
<1>10. u \in Seq(Events) /\ Len(u) = n
  <2>1. Inc(tail) \in Nat /\ n \in Nat
    BY <1>1, <1>2, WordType, CapacityAssumption
  <2>2. \A i \in 1..Occupancy : Unread[i] \in Events
    BY <1>3
  <2>3. \A i \in 1..n : ring[Slot(Inc(tail) + i - 1)] \in Events
    BY <2>2, <1>7, Zenon
  <2> QED
    BY <2>1, <2>3, RingSegment
<1>11. u = Tail(Unread)
  <2> HIDE DEF u, n
  <2> QED
    BY <1>8, <1>9, <1>10, SameSeq, Zenon
<1> QED
  BY <1>1, <1>4, <1>5, <1>6, <1>11, Zenon

(* The events published so far, dequeued or not.                           *)
LEMMA PublishedType ==
  ASSUME IInv
  PROVE  /\ Published \in Seq(Events)
         /\ Len(delivered) \in Nat /\ Len(Unread) \in Nat
         /\ Len(Published) = Len(delivered) + Len(Unread)
         /\ RangeOf(Published) = RangeOf(delivered) \cup RangeOf(Unread)
<1>1. delivered \in Seq(Events) /\ Unread \in Seq(Events)
  BY UnreadType, Zenon DEF IInv, TypeOK
<1>2. Len(delivered) \in Nat /\ Len(Unread) \in Nat
  BY <1>1, Joining, Zenon
<1>3. delivered \o Unread \in Seq(Events) /\ Len(delivered \o Unread) = Len(delivered) + Len(Unread)
  BY <1>1, Joining, Zenon
<1>4. RangeOf(delivered \o Unread) = RangeOf(delivered) \cup RangeOf(Unread)
  BY <1>1, RangeConcat, Zenon
<1> QED
  BY <1>2, <1>3, <1>4, Zenon DEF Published

(* A step that neither stores into the ring nor moves a position.          *)
LEMMA PublishedKept ==
  ASSUME UNCHANGED <<head, tail, ring, delivered>>
  PROVE  Published' = Published
BY UnreadKept, Zenon DEF Published

(* The copy into a slot publishes nothing.                                 *)
LEMMA FillKeepsPublished ==
  ASSUME IInv, NEW p \in Producers, Fill(p)
  PROVE  Published' = Published
BY FillKeepsUnread, Zenon DEF Published, Fill, history

(* Dequeuing moves an event within Published.                              *)
LEMMA AdvanceKeepsPublished ==
  ASSUME IInv, DequeueAdvance
  PROVE  Published' = Published
<1>1. delivered \in Seq(Events) /\ Unread \in Seq(Events) /\ Unread # <<>>
  BY UnreadType, AdvanceTakes, Zenon DEF IInv, TypeOK
<1>2. delivered' = Append(delivered, Head(Unread)) /\ Unread' = Tail(Unread)
  BY AdvanceTakes, Zenon DEF DequeueAdvance
<1>3. /\ Head(Unread) \in Events /\ Tail(Unread) \in Seq(Events)
      /\ <<Head(Unread)>> \in Seq(Events)
  BY <1>1, Beheading, Zenon
<1>4. Append(delivered, Head(Unread)) = delivered \o <<Head(Unread)>>
  BY <1>1, <1>3, Appending
<1>5. Unread = <<Head(Unread)>> \o Tail(Unread)
  BY <1>1
<1>6. (delivered \o <<Head(Unread)>>) \o Tail(Unread)
        = delivered \o (<<Head(Unread)>> \o Tail(Unread))
  BY <1>1, <1>3, JoiningThree
<1> HIDE DEF Unread
<1> QED
  BY <1>2, <1>4, <1>5, <1>6, Zenon DEF Published

(* The store to head publishes the first event of the call.                *)
LEMMA PublishedGrows ==
  ASSUME IInv, NEW p \in Producers, Publish(p)
  PROVE  /\ Head(work[p]) \in Events
         /\ Published' = Append(Published, Head(work[p]))
         /\ Len(Published)' = Len(Published) + 1
         /\ RangeOf(Published)' = RangeOf(Published) \cup {Head(work[p])}
<1> DEFINE e == Head(work[p])
<1>1. delivered \in Seq(Events) /\ Unread \in Seq(Events) /\ Published \in Seq(Events)
  BY UnreadType, PublishedType, Zenon DEF IInv, TypeOK
<1>2. /\ e \in Events /\ <<e>> \in Seq(Events)
      /\ Unread' = Append(Unread, e) /\ delivered' = delivered
  <2>1. e \in Events /\ Unread' = Append(Unread, e)
    BY PublishAppends, Zenon
  <2>2. delivered' = delivered
    BY Zenon DEF Publish, history
  <2> HIDE DEF e
  <2>3. <<e>> \in Seq(Events)
    BY <2>1
  <2> QED
    BY <2>1, <2>2, <2>3, Zenon
<1> HIDE DEF e, Unread
<1>3. Append(Unread, e) = Unread \o <<e>> /\ Append(Published, e) = Published \o <<e>>
  BY <1>1, <1>2, Appending
<1>4. (delivered \o Unread) \o <<e>> = delivered \o (Unread \o <<e>>)
  BY <1>1, <1>2, JoiningThree
<1>5. Published' = Append(Published, e)
  BY <1>2, <1>3, <1>4, Zenon DEF Published
<1>6. /\ Len(Append(Published, e)) = Len(Published) + 1
      /\ RangeOf(Append(Published, e)) = RangeOf(Published) \cup {e}
  BY <1>1, <1>2, RangeAppend, Zenon
<1> QED
  BY <1>2, <1>5, <1>6, Zenon DEF e

-----------------------------------------------------------------------------
(* Where the events are.  The invariant below states EventsConserved in    *)
(* terms of sets, so that a step moves a set of events from one place to   *)
(* another; CountInv adds the counters.                                    *)

HeldSet(p) == RangeOf(work[p]) \cup RangeOf(local_batch[p]) \cup RangeOf(adding[p])

(* The three parts of what a backend holds repeat nothing.                 *)
HeldOnce(p) ==
  /\ Distinct(work[p]) /\ Distinct(local_batch[p]) /\ Distinct(adding[p])
  /\ RangeOf(work[p]) \cap RangeOf(local_batch[p]) = {}
  /\ RangeOf(work[p]) \cap RangeOf(adding[p]) = {}
  /\ RangeOf(local_batch[p]) \cap RangeOf(adding[p]) = {}

(* The events no backend holds any more.                                   *)
Gone == RangeOf(Published) \cup lost \cup discarded

HeldInv ==
  \A p \in Producers :
    /\ HeldOnce(p)
    /\ HeldSet(p) \subseteq {p} \X (1..made[p])
    /\ HeldSet(p) \cap Gone = {}

GoneInv ==
  /\ Distinct(Published)
  /\ lost \cap discarded = {}
  /\ RangeOf(Published) \cap (lost \cup discarded) = {}
  /\ Gone \subseteq Reported

AllInv == \A e \in Reported : e \in Gone \/ e \in HeldSet(e[1])


-----------------------------------------------------------------------------
(* Every step moves a set of events from one place to another.             *)

(* A backend whose events stay where they are.                             *)
LEMMA HeldKept ==
  ASSUME NEW q \in Producers,
         work'[q] = work[q], local_batch'[q] = local_batch[q],
         adding'[q] = adding[q]
  PROVE  HeldSet(q)' = HeldSet(q) /\ (HeldOnce(q)' <=> HeldOnce(q))
BY Zenon DEF HeldSet, HeldOnce

(* Events leave backend p: the ones of A for the ring, those of B are      *)
(* dropped and those of C discarded.                                       *)
LEMMA MoveEvents ==
  ASSUME IInv, HeldInv, GoneInv, AllInv, made' = made, NEW p \in Producers,
         NEW A \in SUBSET HeldSet(p), NEW B \in SUBSET HeldSet(p),
         NEW C \in SUBSET HeldSet(p),
         A \cap B = {}, A \cap C = {}, B \cap C = {},
         RangeOf(Published)' = RangeOf(Published) \cup A, Distinct(Published)',
         lost' = lost \cup B, discarded' = discarded \cup C,
         HeldSet(p)' = HeldSet(p) \ (A \cup B \cup C), HeldOnce(p)',
         \A q \in Producers \ {p} : /\ work'[q] = work[q]
                                    /\ local_batch'[q] = local_batch[q]
                                    /\ adding'[q] = adding[q]
  PROVE  HeldInv' /\ GoneInv' /\ AllInv'
<1> USE DEF Gone
<1>1. \A q \in Producers \ {p} : HeldSet(q)' = HeldSet(q) /\ HeldOnce(q)'
  BY HeldKept, Zenon DEF HeldInv
<1>2. /\ HeldSet(p) \subseteq {p} \X (1..made[p])
      /\ HeldSet(p) \cap Gone = {}
      /\ HeldSet(p) \subseteq Reported
  <2>1. made[p] \in 0..MaxEvents
    BY Zenon DEF IInv, TypeOK
  <2>2. HeldSet(p) \subseteq {p} \X (1..made[p])
    BY Zenon DEF HeldInv
  <2>3. {p} \X (1..made[p]) \subseteq Reported
    BY <2>1, BoundsAssumption DEF Reported, Events
  <2> QED
    BY <2>2, <2>3, Zenon DEF HeldInv
<1>3. Gone' = Gone \cup A \cup B \cup C
  BY Zenon
<1>4. Reported' = Reported
  BY Zenon DEF Reported
<1>5. GoneInv'
  BY <1>2, <1>3, <1>4, Zenon DEF GoneInv
<1>6. AllInv'
  <2> SUFFICES ASSUME NEW e \in Reported
               PROVE  e \in Gone' \/ e \in HeldSet(e[1])'
    BY <1>4, Zenon DEF AllInv
  <2>1. e[1] \in Producers
    BY Zenon DEF Reported, Events
  <2>2. e \in Gone \/ e \in HeldSet(e[1])
    BY Zenon DEF AllInv
  <2>3. CASE e[1] = p
    BY <2>2, <2>3, <1>3, Zenon
  <2>4. CASE e[1] # p
    BY <2>1, <2>2, <2>4, <1>1, <1>3
  <2> QED
    BY <2>3, <2>4, Zenon
<1>7. HeldInv'
  <2> SUFFICES ASSUME NEW q \in Producers
               PROVE  /\ HeldOnce(q)'
                      /\ HeldSet(q)' \subseteq {q} \X (1..made[q])
                      /\ HeldSet(q)' \cap Gone' = {}
    BY Zenon DEF HeldInv
  <2>1. CASE q = p
    BY <2>1, <1>2, <1>3, Zenon
  <2>2. CASE q # p
    <3>1. /\ HeldSet(q) \subseteq {q} \X (1..made[q])
          /\ HeldSet(q) \cap Gone = {}
      BY Zenon DEF HeldInv
    <3>2. HeldSet(q) \cap HeldSet(p) = {}
      BY <2>2, <3>1, <1>2, Zenon
    <3> QED
      BY <2>2, <3>1, <3>2, <1>1, <1>3, SMTT(20)
  <2> QED
    BY <2>1, <2>2, Zenon
<1> QED
  BY <1>5, <1>6, <1>7, Zenon

(* Events stay in backend p, at most passed from one of its buffers to     *)
(* another.                                                                *)
LEMMA KeepEvents ==
  ASSUME IInv, HeldInv, GoneInv, AllInv, made' = made, NEW p \in Producers,
         Published' = Published, lost' = lost, discarded' = discarded,
         HeldSet(p)' = HeldSet(p), HeldOnce(p)',
         \A q \in Producers \ {p} : /\ work'[q] = work[q]
                                    /\ local_batch'[q] = local_batch[q]
                                    /\ adding'[q] = adding[q]
  PROVE  HeldInv' /\ GoneInv' /\ AllInv'
<1>1. Distinct(Published)' /\ RangeOf(Published)' = RangeOf(Published) \cup {}
  <2>1. Distinct(Published)
    BY Zenon DEF GoneInv
  <2> HIDE DEF Published
  <2> QED
    BY <2>1, Zenon DEF Distinct, RangeOf
<1> QED
  <2>1. /\ {} \in SUBSET HeldSet(p)
        /\ HeldSet(p)' = HeldSet(p) \ ({} \cup {} \cup {})
        /\ lost' = lost \cup {} /\ discarded' = discarded \cup {}
    BY Zenon
  <2> QED
    BY <1>1, <2>1, MoveEvents, Zenon

(* A step that touches no backend's events.                                *)
LEMMA SameEvents ==
  ASSUME IInv, HeldInv, GoneInv, AllInv, Published' = Published,
         UNCHANGED <<made, lost, discarded, work, local_batch, adding>>
  PROVE  HeldInv' /\ GoneInv' /\ AllInv'
<1>1. \A q \in Producers : HeldSet(q)' = HeldSet(q) /\ (HeldOnce(q)' <=> HeldOnce(q))
  BY HeldKept, Zenon
<1>2. Gone' = Gone /\ Reported' = Reported
  BY Zenon DEF Gone, Reported
<1>3. HeldInv'
  BY <1>1, <1>2, Zenon DEF HeldInv
<1>4. GoneInv'
  <2>1. Distinct(Published)' <=> Distinct(Published)
    BY Zenon DEF Distinct
  <2> QED
    BY <2>1, <1>2, Zenon DEF GoneInv
<1>5. AllInv'
  <2>1. \A e \in Reported : e[1] \in Producers
    BY Zenon DEF Reported, Events
  <2> QED
    BY <2>1, <1>1, <1>2, Zenon DEF AllInv
<1> QED
  BY <1>3, <1>4, <1>5, Zenon

PlaceInv == HeldInv /\ GoneInv /\ AllInv

(* The buffers of a backend hold events.                                   *)
LEMMA BufferTypes ==
  ASSUME IInv, NEW p \in Producers
  PROVE  /\ work[p] \in Seq(Events)
         /\ local_batch[p] \in Seq(Events)
         /\ adding[p] \in Seq(Events)
BY Zenon DEF IInv, TypeOK

(* PschEnqueueEvent: a new event is held by the backend that reports it.   *)
LEMMA ReportPlaces ==
  ASSUME IInv, PlaceInv, NEW p \in Producers, Report(p)
  PROVE  PlaceInv'
<1> DEFINE e == <<p, made[p] + 1>>
<1>1. /\ work[p] = <<>> /\ adding[p] = <<>>
      /\ made[p] \in Nat /\ made[p] < MaxEvents
  BY BoundsAssumption, SMTT(20) DEF IInv, WorkInv, TypeOK, Report
<1>2. /\ work' = [work EXCEPT ![p] = <<e>>]
      /\ made' = [made EXCEPT ![p] = made[p] + 1]
      /\ local_batch' = local_batch /\ adding' = adding
      /\ lost' = lost /\ discarded' = discarded
      /\ UNCHANGED <<head, tail, ring, delivered>>
  BY Zenon DEF Report, StartCall, shared, history
<1>3. Published' = Published
  BY <1>2, PublishedKept, Zenon
<1>4. /\ work'[p] = <<e>> /\ made'[p] = made[p] + 1
      /\ \A q \in Producers \ {p} : work'[q] = work[q] /\ made'[q] = made[q]
  BY <1>2, Zenon DEF IInv, TypeOK
<1>5. Gone' = Gone /\ GoneInv
  BY <1>2, <1>3, Zenon DEF Gone, PlaceInv
<1>6. \A q \in Producers : /\ HeldOnce(q)
                           /\ HeldSet(q) \subseteq {q} \X (1..made[q])
                           /\ HeldSet(q) \cap Gone = {}
  BY Zenon DEF PlaceInv, HeldInv
<1>7. \A q \in Producers \ {p} : HeldSet(q)' = HeldSet(q) /\ HeldOnce(q)'
  BY <1>2, <1>4, <1>6, HeldKept, Zenon
<1>8. e \in Events /\ e \notin Reported
  BY <1>1, BoundsAssumption DEF Events, Reported
<1>9. e \notin Gone /\ e \notin HeldSet(p)
  <2>1. e \notin Gone
    BY <1>5, <1>8, Zenon DEF GoneInv
  <2>2. e \notin {p} \X (1..made[p])
    BY <1>1
  <2> QED
    BY <2>1, <2>2, <1>6, Zenon
<1>10. Reported' = Reported \cup {e}
  <2>1. made \in [Producers -> 0..MaxEvents]
    BY Zenon DEF IInv, TypeOK
  <2>2. \A f \in Events : f \in Reported' <=> f \in Reported \/ f = e
    <3> SUFFICES ASSUME NEW f \in Events
                 PROVE  f[2] <= made'[f[1]] <=> f[2] <= made[f[1]] \/ f = e
      BY Zenon DEF Reported
    <3>1. f = <<f[1], f[2]>> /\ f[1] \in Producers /\ f[2] \in Nat
      BY BoundsAssumption DEF Events
    <3>2. CASE f[1] = p
      BY <3>1, <3>2, <1>1, <1>4
    <3>3. CASE f[1] # p
      BY <3>1, <3>3, <1>4
    <3> QED
      BY <3>2, <3>3, Zenon
  <2> QED
    BY <2>2, <1>8, Zenon DEF Reported
<1> HIDE DEF e
<1>11. HeldSet(p)' = HeldSet(p) \cup {e} /\ HeldOnce(p)'
  <2>1. /\ RangeOf(<<e>>) = {e} /\ Distinct(<<e>>)
        /\ RangeOf(<<>>) = {}
    BY RangeSingle, RangeEmpty, Zenon
  <2>2. RangeOf(work'[p]) = {e} /\ Distinct(work'[p])
    BY <2>1, <1>4, Zenon
  <2>3. RangeOf(work[p]) = {}
    BY <2>1, <1>1, Zenon
  <2> QED
    BY <2>2, <2>3, <1>2, <1>6, <1>9, Zenon DEF HeldSet, HeldOnce
<1>12. e \in {p} \X (1..made'[p]) /\ (1..made[p]) \subseteq (1..made'[p])
  BY <1>1, <1>4 DEF e
<1>13. HeldInv'
  <2> SUFFICES ASSUME NEW q \in Producers
               PROVE  /\ HeldOnce(q)'
                      /\ HeldSet(q)' \subseteq {q} \X (1..made'[q])
                      /\ HeldSet(q)' \cap Gone' = {}
    BY Zenon DEF HeldInv
  <2>1. CASE q = p
    BY <2>1, <1>5, <1>6, <1>9, <1>11, <1>12
  <2>2. CASE q # p
    BY <2>2, <1>4, <1>5, <1>6, <1>7, Zenon
  <2> QED
    BY <2>1, <2>2, Zenon
<1>14. GoneInv'
  <2>1. Distinct(Published)' <=> Distinct(Published)
    BY <1>3, Zenon DEF Distinct
  <2> QED
    BY <2>1, <1>2, <1>3, <1>5, <1>10, Zenon DEF GoneInv
<1>15. AllInv'
  <2>1. e[1] = p
    BY Zenon DEF e
  <2>2. \A f \in Reported : f[1] \in Producers
    BY Zenon DEF Reported, Events
  <2>3. AllInv
    BY Zenon DEF PlaceInv
  <2> QED
    BY <2>1, <2>2, <2>3, <1>5, <1>7, <1>10, <1>11, Zenon DEF AllInv
<1> QED
  BY <1>13, <1>14, <1>15, Zenon DEF PlaceInv

(* PschLocalBatchAdd passes the event to a buffer that has room.           *)
LEMMA AddToBatchPlaces ==
  ASSUME IInv, PlaceInv, NEW p \in Producers, AddToBatch(p)
  PROVE  PlaceInv'
<1>1. work[p] \in Seq(Events) /\ local_batch[p] \in Seq(Events) /\ adding[p] = <<>>
  BY Zenon DEF IInv, TypeOK, WorkInv, AddToBatch
<1>2. /\ local_batch' = [local_batch EXCEPT ![p] = local_batch[p] \o work[p]]
      /\ work' = [work EXCEPT ![p] = <<>>]
      /\ adding' = adding /\ made' = made
      /\ lost' = lost /\ discarded' = discarded
      /\ UNCHANGED <<head, tail, ring, delivered>>
  BY Zenon DEF AddToBatch, shared, session, history
<1>3. /\ local_batch'[p] = local_batch[p] \o work[p] /\ work'[p] = <<>>
      /\ \A q \in Producers \ {p} : work'[q] = work[q] /\ local_batch'[q] = local_batch[q]
  BY <1>2, Zenon DEF IInv, TypeOK
<1>4. /\ RangeOf(local_batch[p] \o work[p]) = RangeOf(local_batch[p]) \cup RangeOf(work[p])
      /\ Distinct(local_batch[p]) /\ Distinct(work[p])
           /\ RangeOf(local_batch[p]) \cap RangeOf(work[p]) = {}
             => Distinct(local_batch[p] \o work[p])
  BY <1>1, RangeConcat, Zenon
<1>5. RangeOf(<<>>) = {} /\ Distinct(<<>>) /\ HeldOnce(p)
  BY RangeEmpty, Zenon DEF PlaceInv, HeldInv
<1>6. HeldSet(p)' = HeldSet(p) /\ HeldOnce(p)'
  BY <1>1, <1>2, <1>3, <1>4, <1>5, Zenon DEF HeldSet, HeldOnce
<1>7. Published' = Published
  BY <1>2, PublishedKept, Zenon
<1> QED
  BY <1>2, <1>3, <1>6, <1>7, KeepEvents, Zenon DEF PlaceInv

(* PschLocalBatchAdd with a full buffer sets the event aside and flushes.  *)
LEMMA AddToFullBatchPlaces ==
  ASSUME IInv, PlaceInv, NEW p \in Producers, AddToFullBatch(p)
  PROVE  PlaceInv'
<1>1. adding[p] = <<>>
  BY Zenon DEF IInv, WorkInv, AddToFullBatch
<1>2. /\ local_batch' = [local_batch EXCEPT ![p] = <<>>]
      /\ work' = [work EXCEPT ![p] = local_batch[p]]
      /\ adding' = [adding EXCEPT ![p] = work[p]]
      /\ made' = made /\ lost' = lost /\ discarded' = discarded
      /\ UNCHANGED <<head, tail, ring, delivered>>
  BY Zenon DEF AddToFullBatch, StartCall, shared, session, history
<1>3. /\ local_batch'[p] = <<>> /\ work'[p] = local_batch[p] /\ adding'[p] = work[p]
      /\ \A q \in Producers \ {p} : /\ work'[q] = work[q]
                                    /\ local_batch'[q] = local_batch[q]
                                    /\ adding'[q] = adding[q]
  BY <1>2, Zenon DEF IInv, TypeOK
<1>4. RangeOf(<<>>) = {} /\ Distinct(<<>>) /\ HeldOnce(p)
  BY RangeEmpty, Zenon DEF PlaceInv, HeldInv
<1>5. HeldSet(p)' = HeldSet(p) /\ HeldOnce(p)'
  BY <1>1, <1>3, <1>4, Zenon DEF HeldSet, HeldOnce
<1>6. Published' = Published
  BY <1>2, PublishedKept, Zenon
<1> QED
  BY <1>2, <1>3, <1>5, <1>6, KeepEvents, Zenon DEF PlaceInv

(* The end of a call appends the event that was set aside.                 *)
LEMMA ReturnPlaces ==
  ASSUME IInv, PlaceInv, NEW p \in Producers, Return(p), work' = work,
         UNCHANGED <<head, tail, ring, made, history>>
  PROVE  PlaceInv'
<1>1. /\ local_batch' = [local_batch EXCEPT ![p] = local_batch[p] \o adding[p]]
      /\ adding' = [adding EXCEPT ![p] = <<>>]
      /\ lost' = lost /\ discarded' = discarded /\ delivered' = delivered
  BY Zenon DEF Return, history
<1>2. /\ local_batch'[p] = local_batch[p] \o adding[p] /\ adding'[p] = <<>>
      /\ \A q \in Producers \ {p} : /\ local_batch'[q] = local_batch[q]
                                    /\ adding'[q] = adding[q]
  BY <1>1, Zenon DEF IInv, TypeOK
<1>3. /\ RangeOf(local_batch[p] \o adding[p]) = RangeOf(local_batch[p]) \cup RangeOf(adding[p])
      /\ Distinct(local_batch[p]) /\ Distinct(adding[p])
           /\ RangeOf(local_batch[p]) \cap RangeOf(adding[p]) = {}
             => Distinct(local_batch[p] \o adding[p])
  BY BufferTypes, RangeConcat, Zenon
<1>4. RangeOf(<<>>) = {} /\ Distinct(<<>>) /\ HeldOnce(p)
  BY RangeEmpty, Zenon DEF PlaceInv, HeldInv
<1>5. HeldSet(p)' = HeldSet(p) /\ HeldOnce(p)'
  BY <1>2, <1>3, <1>4, Zenon DEF HeldSet, HeldOnce
<1>6. Published' = Published
  BY <1>1, PublishedKept, Zenon
<1> QED
  BY <1>1, <1>2, <1>5, <1>6, KeepEvents, Zenon DEF PlaceInv

(* The end of HandleOverflow.                                              *)
LEMMA WarnPlaces ==
  ASSUME IInv, PlaceInv, NEW p \in Producers, Warn(p)
  PROVE  PlaceInv'
<1>1. /\ work' = work /\ made' = made
      /\ UNCHANGED <<head, tail, ring, delivered, lost, discarded>>
      /\ UNCHANGED history
      /\ UNCHANGED <<local_batch, adding>> \/ Return(p)
  BY Zenon DEF Warn, session, history
<1>2. CASE UNCHANGED <<local_batch, adding>>
  BY <1>1, <1>2, PublishedKept, SameEvents, Zenon DEF PlaceInv
<1>3. CASE Return(p)
  BY <1>1, <1>3, ReturnPlaces, Zenon
<1> QED
  BY <1>1, <1>2, <1>3, Zenon

(* LWLockRelease in PG_FINALLY.                                            *)
LEMMA UnlockPlaces ==
  ASSUME IInv, PlaceInv, NEW p \in Producers, Unlock(p)
  PROVE  PlaceInv'
BY ReturnPlaces, Zenon DEF Unlock, session

(* An error, or a cancelled query, gives up what is left of the call.      *)
LEMMA AbandonPlaces ==
  ASSUME IInv, PlaceInv, NEW p \in Producers,
         discarded' = discarded \cup RangeOf(work[p]) \cup RangeOf(adding[p]),
         work' = [work EXCEPT ![p] = <<>>],
         adding' = [adding EXCEPT ![p] = <<>>],
         UNCHANGED <<head, tail, ring, local_batch, made, delivered, lost>>
  PROVE  PlaceInv'
<1>1. /\ work'[p] = <<>> /\ adding'[p] = <<>>
      /\ \A q \in Producers \ {p} : work'[q] = work[q] /\ adding'[q] = adding[q]
  BY Zenon DEF IInv, TypeOK
<1>2. RangeOf(<<>>) = {} /\ Distinct(<<>>) /\ HeldOnce(p)
  BY RangeEmpty, Zenon DEF PlaceInv, HeldInv
<1> DEFINE C == RangeOf(work[p]) \cup RangeOf(adding[p])
<1>3. C \subseteq HeldSet(p) /\ discarded' = discarded \cup C
  BY Zenon DEF HeldSet
<1>4. HeldSet(p)' = HeldSet(p) \ ({} \cup {} \cup C) /\ HeldOnce(p)'
  BY <1>1, <1>2, Zenon DEF HeldSet, HeldOnce
<1>5. Published' = Published
  BY PublishedKept, Zenon
<1>6. Distinct(Published)' /\ RangeOf(Published)' = RangeOf(Published) \cup {}
  <2>1. Distinct(Published)
    BY Zenon DEF PlaceInv, GoneInv
  <2> QED
    BY <2>1, <1>5, Zenon DEF Distinct, RangeOf
<1>7. /\ {} \in SUBSET HeldSet(p) /\ C \in SUBSET HeldSet(p)
      /\ lost' = lost \cup {} /\ {} \cap C = {} /\ {} \cap {} = {}
  BY <1>3, Zenon
<1> HIDE DEF C
<1> QED
  BY <1>1, <1>3, <1>4, <1>6, <1>7, MoveEvents, Zenon DEF PlaceInv

(* An error while the strings are stored.                                  *)
LEMMA ThrowPlaces ==
  ASSUME IInv, PlaceInv, NEW p \in Producers, Throw(p)
  PROVE  PlaceInv'
BY AbandonPlaces, Zenon DEF Throw, shared, session

(* A query cancelled in the warning.                                       *)
LEMMA CancelPlaces ==
  ASSUME IInv, PlaceInv, NEW p \in Producers, Cancel(p)
  PROVE  PlaceInv'
BY AbandonPlaces, Zenon DEF Cancel, session

(* The first event of the call leaves the backend.                         *)
LEMMA FirstOfWork ==
  ASSUME IInv, PlaceInv, NEW p \in Producers, work[p] # <<>>,
         work' = [work EXCEPT ![p] = Tail(work[p])],
         UNCHANGED <<local_batch, adding>>
  PROVE  /\ Head(work[p]) \in HeldSet(p) /\ Head(work[p]) \in Events
         /\ Head(work[p]) \notin Gone
         /\ HeldSet(p)' = HeldSet(p) \ {Head(work[p])} /\ HeldOnce(p)'
         /\ \A q \in Producers \ {p} : work'[q] = work[q]
<1> DEFINE w == work[p]
<1>1. w \in Seq(Events) /\ w # <<>>
  BY BufferTypes, Zenon
<1>2. /\ Head(w) \in Events
      /\ RangeOf(w) = {Head(w)} \cup RangeOf(Tail(w))
      /\ Distinct(w) => Distinct(Tail(w)) /\ Head(w) \notin RangeOf(Tail(w))
  <2> HIDE DEF w
  <2> QED
    BY <1>1, RangeHeadTail, Zenon
<1>3. work'[p] = Tail(w) /\ \A q \in Producers \ {p} : work'[q] = work[q]
  BY Zenon DEF IInv, TypeOK
<1>4. HeldOnce(p) /\ HeldSet(p) \cap Gone = {}
  BY Zenon DEF PlaceInv, HeldInv
<1>5. HeldSet(p)' = HeldSet(p) \ {Head(w)} /\ HeldOnce(p)'
  BY <1>2, <1>3, <1>4, Zenon DEF HeldSet, HeldOnce
<1>6. Head(w) \in HeldSet(p)
  BY <1>2, Zenon DEF HeldSet
<1> QED
  BY <1>2, <1>3, <1>4, <1>5, <1>6, Zenon

(* The store to head publishes it.                                         *)
LEMMA PublishPlaces ==
  ASSUME IInv, PlaceInv, NEW p \in Producers, Publish(p)
  PROVE  PlaceInv'
<1> DEFINE e == Head(work[p])
<1>1. work[p] # <<>>
  BY Zenon DEF IInv, WorkInv, Publish
<1>2. /\ work' = [work EXCEPT ![p] = Tail(work[p])]
      /\ UNCHANGED <<local_batch, adding, made, lost, discarded>>
  BY Zenon DEF Publish, session, history
<1>3. /\ e \in HeldSet(p) /\ e \in Events /\ e \notin Gone
      /\ HeldSet(p)' = HeldSet(p) \ {e} /\ HeldOnce(p)'
      /\ \A q \in Producers \ {p} : work'[q] = work[q]
  BY <1>1, <1>2, FirstOfWork, Zenon
<1>4. /\ Published' = Append(Published, e)
      /\ RangeOf(Published)' = RangeOf(Published) \cup {e}
  BY PublishedGrows, Zenon
<1>5. Distinct(Published)'
  <2>1. Published \in Seq(Events) /\ Distinct(Published) /\ e \notin RangeOf(Published)
    BY <1>3, PublishedType, Zenon DEF PlaceInv, GoneInv, Gone
  <2> HIDE DEF e
  <2>2. Distinct(Append(Published, e))
    BY <2>1, <1>3, RangeAppend, Zenon
  <2> QED
    BY <2>2, <1>4, Zenon
<1> HIDE DEF e
<1>6. /\ {e} \in SUBSET HeldSet(p) /\ {} \in SUBSET HeldSet(p)
      /\ lost' = lost \cup {} /\ discarded' = discarded \cup {}
      /\ HeldSet(p)' = HeldSet(p) \ ({e} \cup {} \cup {})
      /\ {e} \cap {} = {} /\ {} \cap {} = {}
  BY <1>2, <1>3, Zenon
<1> QED
  BY <1>2, <1>3, <1>4, <1>5, <1>6, MoveEvents, Zenon DEF PlaceInv

(* HandleOverflow drops it.                                                *)
LEMMA OverflowPlaces ==
  ASSUME IInv, PlaceInv, NEW p \in Producers, Overflow(p)
  PROVE  PlaceInv'
<1> DEFINE e == Head(work[p])
<1>1. work[p] # <<>>
  BY Zenon DEF IInv, WorkInv, Overflow
<1>2. /\ work' = [work EXCEPT ![p] = Tail(work[p])]
      /\ lost' = lost \cup {e}
      /\ UNCHANGED <<local_batch, adding, made, discarded>>
      /\ UNCHANGED <<head, tail, ring, delivered>>
  BY Zenon DEF Overflow, session
<1>3. /\ e \in HeldSet(p)
      /\ HeldSet(p)' = HeldSet(p) \ {e} /\ HeldOnce(p)'
      /\ \A q \in Producers \ {p} : work'[q] = work[q]
  BY <1>1, <1>2, FirstOfWork, Zenon
<1>4. Published' = Published
  BY <1>2, PublishedKept, Zenon
<1>5. Distinct(Published)' /\ RangeOf(Published)' = RangeOf(Published) \cup {}
  <2>1. Distinct(Published)
    BY Zenon DEF PlaceInv, GoneInv
  <2> QED
    BY <2>1, <1>4, Zenon DEF Distinct, RangeOf
<1> HIDE DEF e
<1>6. /\ {e} \in SUBSET HeldSet(p) /\ {} \in SUBSET HeldSet(p)
      /\ discarded' = discarded \cup {}
      /\ HeldSet(p)' = HeldSet(p) \ ({} \cup {e} \cup {})
      /\ {} \cap {e} = {} /\ {e} \cap {} = {} /\ {} \cap {} = {}
  BY <1>2, <1>3, Zenon
<1> QED
  BY <1>2, <1>3, <1>5, <1>6, MoveEvents, Zenon DEF PlaceInv

(* PschLocalBatchFlush hands the buffer to PschEnqueueBatch, or gives it   *)
(* up when pg_stat_ch is disabled.                                         *)
LEMMA FlushPlaces ==
  ASSUME IInv, PlaceInv, NEW p \in Producers, Flush(p), pc[p] = "Idle",
         UNCHANGED <<head, tail, ring, adding, made, delivered, lost>>
  PROVE  PlaceInv'
<1>1. work[p] = <<>> /\ adding[p] = <<>>
  BY Zenon DEF IInv, WorkInv
<1>2. RangeOf(<<>>) = {} /\ Distinct(<<>>) /\ HeldOnce(p)
  BY RangeEmpty, Zenon DEF PlaceInv, HeldInv
<1>3. /\ local_batch'[p] = <<>>
      /\ \A q \in Producers \ {p} : local_batch'[q] = local_batch[q]
  BY Zenon DEF Flush, IInv, TypeOK
<1>4. Published' = Published
  BY PublishedKept, Zenon
<1>5. CASE /\ work' = [work EXCEPT ![p] = local_batch[p]]
           /\ discarded' = discarded
  <2>1. work'[p] = local_batch[p] /\ \A q \in Producers \ {p} : work'[q] = work[q]
    BY <1>5, Zenon DEF IInv, TypeOK
  <2>2. HeldSet(p)' = HeldSet(p) /\ HeldOnce(p)'
    BY <2>1, <1>1, <1>2, <1>3, Zenon DEF HeldSet, HeldOnce
  <2> QED
    BY <2>1, <2>2, <1>3, <1>4, <1>5, KeepEvents, Zenon DEF PlaceInv
<1>6. CASE /\ work' = work
           /\ discarded' = discarded \cup RangeOf(local_batch[p])
  <2> DEFINE C == RangeOf(local_batch[p])
  <2>1. HeldSet(p)' = HeldSet(p) \ ({} \cup {} \cup C) /\ HeldOnce(p)'
    BY <1>1, <1>2, <1>3, <1>6, Zenon DEF HeldSet, HeldOnce
  <2>2. Distinct(Published)' /\ RangeOf(Published)' = RangeOf(Published) \cup {}
    <3>1. Distinct(Published)
      BY Zenon DEF PlaceInv, GoneInv
    <3> QED
      BY <3>1, <1>4, Zenon DEF Distinct, RangeOf
  <2>3. /\ {} \in SUBSET HeldSet(p) /\ C \in SUBSET HeldSet(p)
        /\ lost' = lost \cup {} /\ discarded' = discarded \cup C
        /\ {} \cap C = {} /\ {} \cap {} = {}
    BY <1>6, Zenon DEF HeldSet
  <2> HIDE DEF C
  <2> QED
    BY <2>1, <2>2, <2>3, <1>3, <1>6, MoveEvents, Zenon DEF PlaceInv
<1> QED
  BY <1>5, <1>6, Zenon DEF Flush, StartCall

(* PschXactCallback.                                                       *)
LEMMA TxnEndPlaces ==
  ASSUME IInv, PlaceInv, NEW p \in Producers, TxnEnd(p)
  PROVE  PlaceInv'
BY FlushPlaces, Zenon DEF TxnEnd, shared

(* PschLocalBatchShutdown.                                                 *)
LEMMA ExitPlaces ==
  ASSUME IInv, PlaceInv, NEW p \in Producers, Exit(p)
  PROVE  PlaceInv'
<1>1. /\ pc[p] = "Idle"
      /\ UNCHANGED <<head, tail, ring, adding, made, delivered, lost>>
      /\ Flush(p) \/ UNCHANGED <<work, local_batch, discarded>>
  BY Zenon DEF Exit, shared
<1>2. CASE Flush(p)
  BY <1>1, <1>2, FlushPlaces, Zenon
<1>3. CASE UNCHANGED <<work, local_batch, discarded>>
  BY <1>1, <1>3, PublishedKept, SameEvents, Zenon DEF PlaceInv
<1> QED
  BY <1>1, <1>2, <1>3, Zenon

(* Every other step leaves the events where they are.                      *)
LEMMA NextPlaces ==
  ASSUME IInv, PlaceInv, [Next]_vars
  PROVE  PlaceInv'
<1> USE DEF shared, counters, session, backend, worker, reset, history
<1>1. ASSUME NEW p \in Producers, Backend(p)
      PROVE  PlaceInv'
  <2>1. CASE \/ ReadTail(p) \/ TryLockOk(p) \/ Lock(p) \/ Check(p) \/ Count(p)
             \/ Reload(p)
    <3>1. /\ UNCHANGED <<head, tail, ring, delivered>>
          /\ UNCHANGED <<made, lost, discarded, work, local_batch, adding>>
      BY <2>1, Zenon
         DEF ReadTail, TryLockOk, Lock, TakeLock, Check, Count, Reload
    <3> QED
      BY <3>1, PublishedKept, SameEvents, Zenon DEF PlaceInv
  <2>2. CASE Fill(p)
    <3>1. UNCHANGED <<made, lost, discarded, work, local_batch, adding>>
      BY <2>2, Zenon DEF Fill
    <3> QED
      BY <2>2, <3>1, FillKeepsPublished, SameEvents, Zenon DEF PlaceInv
  <2> QED
    BY <1>1, <2>1, <2>2, ReportPlaces, AddToBatchPlaces, AddToFullBatchPlaces,
       ThrowPlaces, PublishPlaces, OverflowPlaces, WarnPlaces, CancelPlaces,
       UnlockPlaces, TxnEndPlaces, ExitPlaces, Zenon
       DEF Backend, InCall
<1>2. ASSUME DequeueAdvance
      PROVE  PlaceInv'
  <2>1. UNCHANGED <<made, lost, discarded, work, local_batch, adding>>
    BY <1>2, Zenon DEF DequeueAdvance
  <2> QED
    BY <2>1, <1>2, AdvanceKeepsPublished, SameEvents, Zenon DEF PlaceInv
<1>3. ASSUME \/ DequeueStart \/ DequeueCopy \/ \E ok \in BOOLEAN : ExportBatch(ok)
             \/ ResetBegin \/ InReset \/ UNCHANGED vars
      PROVE  PlaceInv'
  <2>1. /\ UNCHANGED <<head, tail, ring, delivered>>
        /\ UNCHANGED <<made, lost, discarded, work, local_batch, adding>>
    BY <1>3, Zenon
       DEF DequeueStart, DequeueCopy, ExportBatch, ResetBegin, InReset,
                ResetDropped, ResetExported, ResetFlag, vars
  <2> QED
    BY <2>1, PublishedKept, SameEvents, Zenon DEF PlaceInv
<1> QED
  BY <1>1, <1>2, <1>3, Zenon DEF Next, Worker, Dequeue

(* Initially there are no events.                                          *)
LEMMA InitPlaces == Init => PlaceInv
<1> SUFFICES ASSUME Init
             PROVE  PlaceInv
  BY Zenon
<1>1. RangeOf(<<>>) = {} /\ Distinct(<<>>)
  BY RangeEmpty, Zenon
<1>2. Published = <<>>
  <2>1. Occupancy = 0
    BY SubInc, CapacityAssumption DEF Init, Occupancy
  <2>2. Unread = <<>> /\ delivered = <<>>
    BY <2>1 DEF Unread, Init
  <2> QED
    BY <2>2 DEF Published
<1>3. Gone = {} /\ Reported = {}
  <2>1. Gone = {}
    BY <1>1, <1>2, Zenon DEF Gone, Init
  <2>2. Reported = {}
    BY BoundsAssumption DEF Reported, Events, Init
  <2> QED
    BY <2>1, <2>2, Zenon
<1>4. \A p \in Producers : HeldSet(p) = {} /\ HeldOnce(p)
  BY <1>1, Zenon DEF HeldSet, HeldOnce, Init
<1>5. HeldInv /\ GoneInv /\ AllInv
  BY <1>1, <1>2, <1>3, <1>4, Zenon DEF HeldInv, GoneInv, AllInv, Init
<1> QED
  BY <1>5, Zenon DEF PlaceInv

(* The places put together: every event is in exactly one.                 *)
LEMMA PlacesConserve ==
  ASSUME IInv, PlaceInv
  PROVE  EventsConserved
<1>1. ASSUME NEW p \in Producers
      PROVE  RangeOf(Held(p)) = HeldSet(p) /\ Distinct(Held(p))
  <2>1. /\ work[p] \in Seq(Events) /\ local_batch[p] \in Seq(Events)
        /\ adding[p] \in Seq(Events)
        /\ work[p] \o local_batch[p] \in Seq(Events)
    BY BufferTypes, SeqType, Zenon
  <2>2. HeldOnce(p)
    BY Zenon DEF PlaceInv, HeldInv
  <2>3. /\ RangeOf(work[p] \o local_batch[p]) = RangeOf(work[p]) \cup RangeOf(local_batch[p])
        /\ Distinct(work[p] \o local_batch[p])
    BY <2>1, <2>2, RangeConcat, Zenon DEF HeldOnce
  <2>4. /\ RangeOf(Held(p)) = RangeOf(work[p] \o local_batch[p]) \cup RangeOf(adding[p])
        /\ Distinct(adding[p])
             /\ RangeOf(work[p] \o local_batch[p]) \cap RangeOf(adding[p]) = {}
               => Distinct(Held(p))
    BY <2>1, <2>3, RangeConcat, Zenon DEF Held
  <2> QED
    BY <2>2, <2>3, <2>4, Zenon DEF HeldSet, HeldOnce
<1>2. ASSUME NEW p \in Producers
      PROVE  /\ HeldSet(p) \subseteq {p} \X (1..MaxEvents)
             /\ HeldSet(p) \subseteq Reported
             /\ HeldSet(p) \cap Gone = {}
  <2>1. made[p] \in 0..MaxEvents
    BY Zenon DEF IInv, TypeOK
  <2>2. /\ HeldSet(p) \subseteq {p} \X (1..made[p])
        /\ HeldSet(p) \cap Gone = {}
    BY Zenon DEF PlaceInv, HeldInv
  <2>3. /\ {p} \X (1..made[p]) \subseteq {p} \X (1..MaxEvents)
        /\ {p} \X (1..made[p]) \subseteq Reported
    BY <2>1, BoundsAssumption DEF Reported, Events
  <2> QED
    BY <2>2, <2>3, Zenon
<1>3. GoneInv /\ AllInv
  BY Zenon DEF PlaceInv
<1> DEFINE H == UNION {RangeOf(Held(p)) : p \in Producers}
<1>4. Reported = H \cup Gone
  <2>1. \A e \in Reported : e[1] \in Producers
    BY Zenon DEF Reported, Events
  <2>2. ASSUME NEW e \in Reported
        PROVE  e \in H \/ e \in Gone
    <3>1. CASE e \in Gone
      BY <3>1, Zenon
    <3>2. CASE e \in HeldSet(e[1])
      <4>1. e[1] \in Producers /\ e \in RangeOf(Held(e[1]))
        BY <2>1, <1>1, <3>2, Zenon
      <4> QED
        BY <4>1, Zenon
    <3> QED
      BY <3>1, <3>2, <1>3, Zenon DEF AllInv
  <2>3. ASSUME NEW e \in H
        PROVE  e \in Reported
    <3>1. PICK p \in Producers : e \in RangeOf(Held(p))
      BY Zenon
    <3> QED
      BY <3>1, <1>1, <1>2, Zenon
  <2>4. Gone \subseteq Reported
    BY <1>3, Zenon DEF GoneInv
  <2> HIDE DEF H
  <2> QED
    BY <2>2, <2>3, <2>4, Zenon
<1>5. Reported = H \cup RangeOf(Published) \cup lost \cup discarded
  <2> HIDE DEF H
  <2> QED
    BY <1>4, Zenon DEF Gone
<1>6. /\ Distinct(Published)
      /\ lost \cap discarded = {}
      /\ RangeOf(Published) \cap (lost \cup discarded) = {}
  BY <1>3, Zenon DEF GoneInv
<1>7. \A p \in Producers :
        /\ Distinct(Held(p))
        /\ RangeOf(Held(p)) \subseteq {p} \X (1..MaxEvents)
        /\ RangeOf(Held(p)) \cap (RangeOf(Published) \cup lost \cup discarded) = {}
  BY <1>1, <1>2, Zenon DEF Gone
<1> QED
  BY <1>5, <1>6, <1>7, Zenon DEF EventsConserved

-----------------------------------------------------------------------------
(* The counters, with the event between the store to head and the          *)
(* increment.                                                              *)

(* What the counting rests on, for any set; proved before the theorems.    *)
CardinalityLaws ==
  /\ IsFiniteSet({}) /\ Cardinality({}) = 0
  /\ \A x : Cardinality({x}) = 1
  /\ \A S : IsFiniteSet(S) =>
       /\ Cardinality(S) \in Nat
       /\ \A x : x \notin S => /\ IsFiniteSet(S \cup {x})
                               /\ Cardinality(S \cup {x}) = Cardinality(S) + 1

Counting == {p \in Producers : pc[p] = "Count"}

CountInv ==
  /\ IsFiniteSet(lost)
  /\ enqueued + Cardinality(Counting) <= Len(Published)
  /\ dropped <= Cardinality(lost)
  /\ exported + inBatch <= Len(delivered)
  /\ rpc # "Idle" => resets > 0
  /\ resets = 0 => /\ enqueued + Cardinality(Counting) = Len(Published)
                   /\ dropped = Cardinality(lost)

(* The lock allows one backend between the two.                            *)
LEMMA CountingSize ==
  ASSUME CardinalityLaws, NEW f
  PROVE  /\ (\A q \in Producers : f[q] # "Count")
              => Cardinality({q \in Producers : f[q] = "Count"}) = 0
         /\ \A p \in Producers :
              (\A q \in Producers : f[q] = "Count" <=> q = p)
                => Cardinality({q \in Producers : f[q] = "Count"}) = 1
<1> DEFINE S == {q \in Producers : f[q] = "Count"}
<1>1. (\A q \in Producers : f[q] # "Count") => S = {}
  BY Zenon
<1>2. \A p \in Producers : (\A q \in Producers : f[q] = "Count" <=> q = p) => S = {p}
  BY Zenon
<1>3. Cardinality({}) = 0
  BY Zenon DEF CardinalityLaws
<1>4. \A p \in Producers : Cardinality({p}) = 1
  BY Zenon DEF CardinalityLaws
<1> HIDE DEF S
<1>5. /\ (\A q \in Producers : f[q] # "Count") => Cardinality(S) = 0
      /\ \A p \in Producers :
           (\A q \in Producers : f[q] = "Count" <=> q = p) => Cardinality(S) = 1
  BY <1>1, <1>2, <1>3, <1>4, Zenon
<1> QED
  BY <1>5, Zenon DEF S

(* The counters and what they count are numbers.                           *)
LEMMA CountTypes ==
  ASSUME CardinalityLaws, IInv, CountInv
  PROVE  /\ enqueued \in Nat /\ dropped \in Nat /\ exported \in Nat
         /\ inBatch \in Nat /\ resets \in Nat
         /\ Len(Published) \in Nat /\ Len(delivered) \in Nat
         /\ Cardinality(lost) \in Nat
         /\ Cardinality(Counting) \in {0, 1}
<1>1. /\ enqueued \in Nat /\ dropped \in Nat /\ exported \in Nat
      /\ inBatch \in Nat /\ resets \in Nat
  BY BoundsAssumption DEF IInv, TypeOK
<1>2. Len(Published) \in Nat /\ Len(delivered) \in Nat
  BY PublishedType
<1>3. Cardinality(lost) \in Nat
  BY Zenon DEF CountInv, CardinalityLaws
<1>4. Cardinality(Counting) \in {0, 1}
  <2>1. CASE \A q \in Producers : pc[q] # "Count"
    BY <2>1, CountingSize, Zenon DEF Counting
  <2>2. CASE \E q \in Producers : pc[q] = "Count"
    <3>1. PICK p \in Producers : pc[p] = "Count"
      BY <2>2, Zenon
    <3>2. \A q \in Producers : pc[q] = "Count" <=> q = p
      BY <3>1, Alone, Zenon DEF IInv, LockedPCs
    <3> QED
      BY <3>2, CountingSize, Zenon DEF Counting
  <2> QED
    BY <2>1, <2>2, Zenon
<1> QED
  BY <1>1, <1>2, <1>3, <1>4, Zenon

(* A step that counts nothing and changes nothing that is counted.         *)
LEMMA CountKept ==
  ASSUME CountInv, Published' = Published, Counting' = Counting,
         UNCHANGED <<enqueued, dropped, exported, inBatch, lost, delivered>>,
         UNCHANGED reset
  PROVE  CountInv'
BY Zenon DEF CountInv, reset

(* The store to head.                                                      *)
LEMMA PublishCounts ==
  ASSUME CardinalityLaws, IInv, CountInv, NEW p \in Producers, Publish(p)
  PROVE  CountInv'
<1>1. /\ UNCHANGED <<enqueued, dropped, exported, inBatch, lost, delivered>>
      /\ rpc' = rpc /\ resets' = resets
  BY Zenon DEF Publish, counters, worker, reset, history
<1>2. \A q \in Producers : pc[q] # "Count"
  BY Alone, Zenon DEF IInv, LockedPCs, Publish
<1>3. \A q \in Producers : pc'[q] = "Count" <=> q = p
  BY <1>2, Zenon DEF Publish, Goto, IInv, TypeOK
<1>4. Cardinality(Counting) = 0 /\ Cardinality(Counting)' = 1
  BY <1>2, <1>3, CountingSize, Zenon DEF Counting
<1>5. Len(Published)' = Len(Published) + 1
  BY PublishedGrows, Zenon
<1> QED
  BY <1>1, <1>4, <1>5, CountTypes, SMTT(20) DEF CountInv

(* The increment of enqueued.                                              *)
LEMMA CountCounts ==
  ASSUME CardinalityLaws, IInv, CountInv, NEW p \in Producers, Count(p)
  PROVE  CountInv'
<1>1. /\ UNCHANGED <<dropped, exported, inBatch, lost, delivered>>
      /\ UNCHANGED <<head, tail, ring, delivered>>
      /\ rpc' = rpc /\ resets' = resets
      /\ enqueued' = enqueued + 1
  BY Zenon DEF Count, worker, reset, history
<1>2. \A q \in Producers : pc[q] = "Count" <=> q = p
  BY Alone, Zenon DEF IInv, LockedPCs, Count
<1>3. \A q \in Producers : pc'[q] # "Count"
  BY <1>2, Zenon DEF Count, NextLocked, Goto, IInv, TypeOK
<1>4. Cardinality(Counting) = 1 /\ Cardinality(Counting)' = 0
  BY <1>2, <1>3, CountingSize, Zenon DEF Counting
<1>5. Published' = Published
  BY <1>1, PublishedKept, Zenon
<1> QED
  BY <1>1, <1>4, <1>5, CountTypes, SMTT(20) DEF CountInv

(* HandleOverflow counts the event it drops.                               *)
LEMMA OverflowCounts ==
  ASSUME CardinalityLaws, IInv, PlaceInv, CountInv, NEW p \in Producers, Overflow(p)
  PROVE  CountInv'
<1> DEFINE e == Head(work[p])
<1>1. /\ UNCHANGED <<enqueued, exported, inBatch, delivered>>
      /\ UNCHANGED <<head, tail, ring, delivered>>
      /\ rpc' = rpc /\ resets' = resets
      /\ dropped' = dropped + 1 /\ lost' = lost \cup {e}
  BY Zenon DEF Overflow, worker, reset
<1>2. e \notin lost
  <2>1. work[p] # <<>>
    BY Zenon DEF IInv, WorkInv, Overflow
  <2>2. /\ work' = [work EXCEPT ![p] = Tail(work[p])]
        /\ UNCHANGED <<local_batch, adding>>
    BY Zenon DEF Overflow
  <2>3. e \notin Gone
    BY <2>1, <2>2, FirstOfWork, Zenon
  <2> QED
    BY <2>3, Zenon DEF Gone
<1>3. IsFiniteSet(lost') /\ Cardinality(lost') = Cardinality(lost) + 1
  <2>1. IsFiniteSet(lost)
    BY Zenon DEF CountInv
  <2> HIDE DEF e
  <2>2. IsFiniteSet(lost \cup {e}) /\ Cardinality(lost \cup {e}) = Cardinality(lost) + 1
    BY <2>1, <1>2, Zenon DEF CardinalityLaws
  <2> QED
    BY <2>2, <1>1, Zenon
<1>4. Counting' = Counting
  BY Zenon DEF Counting, Overflow, Goto, IInv, TypeOK
<1>5. Published' = Published
  BY <1>1, PublishedKept, Zenon
<1> HIDE DEF e
<1> QED
  BY <1>1, <1>3, <1>4, <1>5, CountTypes, SMTT(20) DEF CountInv

(* Any other step of a backend.                                            *)
LEMMA BackendCounts ==
  ASSUME CardinalityLaws, IInv, PlaceInv, CountInv, NEW p \in Producers, Backend(p)
  PROVE  CountInv'
<1> USE DEF shared, counters, session, backend, worker, reset, history
<1>1. CASE Publish(p) \/ Count(p) \/ Overflow(p)
  BY <1>1, PublishCounts, CountCounts, OverflowCounts, Zenon
<1>2. CASE Fill(p)
  <2>1. /\ UNCHANGED <<enqueued, dropped, exported, inBatch, lost, delivered>>
        /\ UNCHANGED reset
    BY <1>2, Zenon DEF Fill
  <2>2. Counting' = Counting
    BY <1>2, Zenon DEF Counting, Fill, Goto, IInv, TypeOK
  <2> QED
    BY <1>2, <2>1, <2>2, FillKeepsPublished, CountKept, Zenon
<1>3. CASE \/ Report(p) \/ ReadTail(p) \/ TryLockOk(p) \/ AddToBatch(p)
           \/ AddToFullBatch(p) \/ Lock(p) \/ Check(p) \/ Throw(p) \/ Warn(p)
           \/ Cancel(p) \/ Unlock(p) \/ TxnEnd(p) \/ Exit(p) \/ Reload(p)
  <2>1. /\ UNCHANGED <<enqueued, dropped, exported, inBatch, lost, delivered>>
        /\ UNCHANGED reset
        /\ UNCHANGED <<head, tail, ring, delivered>>
    BY <1>3, Zenon
       DEF Report, ReadTail, TryLockOk, TakeLock, AddToBatch, AddToFullBatch,
                Lock, Check, Throw, Warn, Cancel, Unlock, TxnEnd, Exit, Reload
  <2>2. pc[p] # "Count"
    BY <1>3, Zenon
       DEF Report, ReadTail, TryLockOk, TakeLock, AddToBatch, AddToFullBatch,
                Lock, Check, Throw, Warn, Cancel, Unlock, TxnEnd, Exit, Reload
  <2>3. \/ pc' = pc
        \/ pc'[p] # "Count" /\ \A q \in Producers \ {p} : pc'[q] = pc[q]
    <3>1. CASE Report(p) \/ AddToFullBatch(p)
      BY <3>1, Zenon DEF Report, AddToFullBatch, StartCall, Goto, IInv, TypeOK
    <3>2. CASE \/ ReadTail(p) \/ TryLockOk(p) \/ AddToBatch(p) \/ Lock(p)
               \/ Check(p) \/ Throw(p) \/ Cancel(p) \/ Reload(p)
      BY <3>2, Zenon
         DEF ReadTail, TryLockOk, TakeLock, AddToBatch, Lock, Check, Throw,
                  Cancel, Reload, Goto, IInv, TypeOK
    <3>3. CASE Warn(p)
      BY <3>3, Zenon DEF Warn, Return, NextLocked, Goto, IInv, TypeOK
    <3>4. CASE Unlock(p)
      BY <3>4 DEF Unlock, Return, Goto, IInv, TypeOK
    <3>5. CASE TxnEnd(p) \/ Exit(p)
      BY <3>5, Zenon DEF TxnEnd, Exit, Flush, StartCall, Goto, IInv, TypeOK
    <3> QED
      BY <1>3, <3>1, <3>2, <3>3, <3>4, <3>5, Zenon
  <2>4. Counting' = Counting
    <3>1. \A q \in Producers : pc'[q] = "Count" <=> pc[q] = "Count"
      BY <2>2, <2>3, Zenon
    <3> QED
      BY <3>1, Zenon DEF Counting
  <2> QED
    BY <2>1, <2>4, PublishedKept, CountKept, Zenon
<1> QED
  BY <1>1, <1>2, <1>3, Zenon DEF Backend, InCall

(* Dequeuing and exporting: what was dequeued and not yet exported makes   *)
(* up for the exported counter.                                            *)
LEMMA WorkerCounts ==
  ASSUME CardinalityLaws, IInv, CountInv, Worker
  PROVE  CountInv'
<1> USE DEF shared, counters, session, backend, worker, reset, history
<1>1. CASE DequeueAdvance
  <2>1. /\ UNCHANGED <<enqueued, dropped, exported, lost, pc, rpc, resets>>
        /\ inBatch' = inBatch + 1 /\ delivered' = Append(delivered, copied)
    BY <1>1, Zenon DEF DequeueAdvance
  <2>2. Len(delivered') = Len(delivered) + 1
    <3>1. delivered \in Seq(Events)
      BY Zenon DEF IInv, TypeOK
    <3> QED
      BY <2>1, <3>1
  <2>3. Published' = Published /\ Counting' = Counting
    BY <1>1, <2>1, AdvanceKeepsPublished, Zenon DEF Counting
  <2> QED
    BY <2>1, <2>2, <2>3, CountTypes, SMTT(20) DEF CountInv
<1>2. CASE DequeueStart \/ DequeueCopy
  <2>1. /\ UNCHANGED <<enqueued, dropped, exported, inBatch, lost, delivered>>
        /\ UNCHANGED reset
        /\ UNCHANGED <<head, tail, ring, delivered>>
        /\ pc' = pc
    BY <1>2, Zenon DEF DequeueStart, DequeueCopy
  <2> QED
    BY <2>1, PublishedKept, CountKept, Zenon DEF Counting
<1>3. ASSUME NEW ok \in BOOLEAN, ExportBatch(ok)
      PROVE  CountInv'
  <2>1. /\ UNCHANGED <<enqueued, dropped, lost, delivered, pc, rpc, resets>>
        /\ UNCHANGED <<head, tail, ring, delivered>>
        /\ exported' = IF ok THEN exported + inBatch ELSE exported
        /\ inBatch' = 0
    BY <1>3, Zenon DEF ExportBatch
  <2>2. Published' = Published /\ Counting' = Counting
    BY <2>1, PublishedKept, Zenon DEF Counting
  <2> QED
    BY <2>1, <2>2, CountTypes, SMTT(20) DEF CountInv
<1> QED
  BY <1>1, <1>2, <1>3, Zenon DEF Worker, Dequeue

(* pg_stat_ch_reset(): enqueued is cleared under the lock, so no backend   *)
(* is between its store and its increment.                                 *)
LEMMA ResetCounts ==
  ASSUME CardinalityLaws, IInv, CountInv, ResetBegin \/ InReset
  PROVE  CountInv'
<1> USE DEF shared, counters, session, backend, worker, reset, history
<1>1. /\ UNCHANGED <<head, tail, ring, delivered>>
      /\ UNCHANGED <<lost, delivered, pc, inBatch>>
  BY Zenon DEF ResetBegin, InReset, ResetDropped, ResetExported, ResetFlag
<1>2. Published' = Published /\ Counting' = Counting
  BY <1>1, PublishedKept, Zenon DEF Counting
<1>3. CASE ResetBegin
  <2>1. /\ enqueued' = 0 /\ resets' = resets + 1
        /\ UNCHANGED <<dropped, exported>>
    BY <1>3, Zenon DEF ResetBegin
  <2>2. \A q \in Producers : pc[q] # "Count"
    BY <1>3, ProducersAssumption, Zenon
       DEF ResetBegin, IInv, LockInv, LockedPCs
  <2>3. Cardinality(Counting) = 0
    BY <2>2, CountingSize, Zenon DEF Counting
  <2> QED
    BY <1>1, <1>2, <2>1, <2>3, CountTypes, SMTT(20) DEF CountInv
<1>4. CASE InReset
  <2>1. rpc # "Idle" /\ resets' = resets /\ enqueued' = enqueued
    BY <1>4, Zenon DEF InReset, ResetDropped, ResetExported, ResetFlag
  <2>2. /\ dropped' = dropped \/ dropped' = 0
        /\ exported' = exported \/ exported' = 0
    BY <1>4, Zenon DEF InReset, ResetDropped, ResetExported, ResetFlag
  <2> QED
    BY <1>1, <1>2, <2>1, <2>2, CountTypes, SMTT(20) DEF CountInv
<1> QED
  BY <1>3, <1>4, Zenon

(* Initially nothing is counted.                                           *)
LEMMA InitCounts ==
  ASSUME CardinalityLaws, Init
  PROVE  CountInv
<1>1. Cardinality({}) = 0 /\ IsFiniteSet({})
  BY Zenon DEF CardinalityLaws
<1>2. Cardinality(Counting) = 0
  <2>1. \A q \in Producers : pc[q] # "Count"
    BY Zenon DEF Init
  <2> QED
    BY <2>1, CountingSize, Zenon DEF Counting
<1>3. Len(Published) = 0 /\ Len(delivered) = 0
  <2>1. Occupancy = 0
    BY SubInc, CapacityAssumption DEF Init, Occupancy
  <2>2. Unread = <<>> /\ delivered = <<>>
    BY <2>1 DEF Unread, Init
  <2> QED
    BY <2>2 DEF Published
<1> QED
  BY <1>1, <1>2, <1>3, SMTT(20) DEF CountInv, Init

(* Every step keeps the counters sound.                                    *)
LEMMA NextCounts ==
  ASSUME CardinalityLaws, IInv, PlaceInv, CountInv, [Next]_vars
  PROVE  CountInv'
<1>1. CASE UNCHANGED vars
  <2>1. /\ UNCHANGED <<enqueued, dropped, exported, inBatch, lost, delivered>>
        /\ UNCHANGED reset
        /\ UNCHANGED <<head, tail, ring, delivered>>
        /\ pc' = pc
    BY <1>1, Zenon DEF vars, shared, counters, backend, worker, reset, history
  <2> QED
    BY <2>1, PublishedKept, CountKept, Zenon DEF Counting
<1> QED
  BY <1>1, BackendCounts, WorkerCounts, ResetCounts, Zenon DEF Next

-----------------------------------------------------------------------------
(* The queue implements EventChannel.                                      *)

(* An event that is still held is new to the channel.                      *)
LEMMA HeldIsFresh ==
  ASSUME IInv, PlaceInv, NEW p \in Producers, NEW e \in HeldSet(p)
  PROVE  e \in Events /\ Channel!Fresh(e)
<1>1. e \in Events
  BY BufferTypes, SeqType, Zenon DEF HeldSet
<1>2. e \notin Gone
  BY Zenon DEF PlaceInv, HeldInv
<1>3. RangeOf(Published) = RangeOf(delivered) \cup RangeOf(Unread)
  BY PublishedType, Zenon
<1>4. /\ e \notin RangeOf(delivered) /\ e \notin RangeOf(Unread)
      /\ e \notin lost /\ e \notin discarded
  BY <1>2, <1>3, Zenon DEF Gone
<1>5. /\ Channel!RangeOf(delivered) = RangeOf(delivered)
      /\ Channel!RangeOf(Unread) = RangeOf(Unread)
  BY Zenon DEF Channel!RangeOf, RangeOf
<1> QED
  BY <1>1, <1>4, <1>5, Zenon DEF Channel!Fresh

(* A backend that drops or discards some of the events it holds.           *)
LEMMA GivingUp ==
  ASSUME IInv, PlaceInv, NEW p \in Producers, NEW S \in SUBSET HeldSet(p),
         UNCHANGED <<head, tail, ring, delivered>>,
         (lost \cup discarded)' = lost \cup discarded \cup S
  PROVE  Channel!Next
<1>1. \A e \in S : e \in Events /\ Channel!Fresh(e)
  BY HeldIsFresh, Zenon
<1>2. Unread' = Unread
  BY UnreadKept, Zenon
<1>3. Channel!GiveUp(S)
  BY <1>1, <1>2, Zenon DEF Channel!GiveUp
<1>4. S \in SUBSET Events
  BY <1>1, Zenon
<1> QED
  BY <1>3, <1>4, Zenon DEF Channel!Next

(* A step that publishes, dequeues and gives up nothing.                   *)
LEMMA Stuttering ==
  ASSUME Unread' = Unread, UNCHANGED <<delivered, lost, discarded>>
  PROVE  UNCHANGED Channel!chanVars
BY Zenon DEF Channel!chanVars

(* The store to head is Put.                                               *)
LEMMA PublishPuts ==
  ASSUME IInv, PlaceInv, NEW p \in Producers, Publish(p)
  PROVE  Channel!Next
<1> DEFINE e == Head(work[p])
<1>1. /\ work[p] # <<>> /\ e \in Events
      /\ Len(Unread) < Capacity /\ Unread' = Append(Unread, e)
  BY PublishAppends, Zenon
<1>2. e \in HeldSet(p)
  BY <1>1, BufferTypes, RangeHeadTail DEF HeldSet
<1>3. Channel!Fresh(e)
  BY <1>2, HeldIsFresh, Zenon
<1>4. UNCHANGED <<delivered, lost, discarded>>
  BY Zenon DEF Publish, history
<1> HIDE DEF e
<1>5. Channel!Put(e)
  BY <1>1, <1>3, <1>4, Zenon DEF Channel!Put
<1> QED
  BY <1>1, <1>5, Zenon DEF Channel!Next

(* The store to tail is Get.                                               *)
LEMMA AdvanceGets ==
  ASSUME IInv, DequeueAdvance
  PROVE  Channel!Next
<1>1. Unread # <<>> /\ copied = Head(Unread) /\ Unread' = Tail(Unread)
  BY AdvanceTakes, Zenon
<1>2. /\ delivered' = Append(delivered, copied)
      /\ lost' = lost /\ discarded' = discarded
  BY Zenon DEF DequeueAdvance
<1>3. Channel!Get
  BY <1>1, <1>2, Zenon DEF Channel!Get
<1> QED
  BY <1>3, Zenon DEF Channel!Next

(* The buffer flushed while pg_stat_ch is disabled is given up.            *)
LEMMA FlushGivesUp ==
  ASSUME IInv, PlaceInv, NEW p \in Producers, Flush(p),
         UNCHANGED <<head, tail, ring, delivered, lost>>
  PROVE  [Channel!Next]_(Channel!chanVars)
<1>1. CASE discarded' = discarded
  BY <1>1, UnreadKept, Stuttering, Zenon
<1>2. CASE discarded' = discarded \cup RangeOf(local_batch[p])
  <2>1. /\ RangeOf(local_batch[p]) \in SUBSET HeldSet(p)
        /\ (lost \cup discarded)' = lost \cup discarded \cup RangeOf(local_batch[p])
    BY <1>2, Zenon DEF HeldSet
  <2> QED
    BY <2>1, GivingUp, Zenon
<1> QED
  BY <1>1, <1>2, Zenon DEF Flush

(* Every step of a backend is Put, GiveUp or nothing.                      *)
LEMMA BackendChannel ==
  ASSUME IInv, PlaceInv, NEW p \in Producers, Backend(p)
  PROVE  [Channel!Next]_(Channel!chanVars)
<1> USE DEF shared, counters, session, backend, worker, reset, history
<1>1. CASE Publish(p)
  BY <1>1, PublishPuts, Zenon
<1>2. CASE Overflow(p)
  <2>1. work[p] # <<>> /\ work[p] \in Seq(Events)
    BY <1>2, BufferTypes, Zenon DEF IInv, WorkInv, Overflow
  <2>2. {Head(work[p])} \in SUBSET HeldSet(p)
    BY <2>1, RangeHeadTail, Zenon DEF HeldSet
  <2>3. /\ UNCHANGED <<head, tail, ring, delivered>>
        /\ (lost \cup discarded)' = lost \cup discarded \cup {Head(work[p])}
    BY <1>2, Zenon DEF Overflow
  <2> QED
    BY <2>2, <2>3, GivingUp, Zenon
<1>3. CASE Throw(p) \/ Cancel(p)
  <2> DEFINE S == RangeOf(work[p]) \cup RangeOf(adding[p])
  <2>1. /\ UNCHANGED <<head, tail, ring, delivered>>
        /\ (lost \cup discarded)' = lost \cup discarded \cup S
    BY <1>3, Zenon DEF Throw, Cancel
  <2>2. S \in SUBSET HeldSet(p)
    BY Zenon DEF HeldSet
  <2> HIDE DEF S
  <2> QED
    BY <2>1, <2>2, GivingUp, Zenon
<1>4. CASE TxnEnd(p)
  <2>1. Flush(p) /\ UNCHANGED <<head, tail, ring, delivered, lost>>
    BY <1>4, Zenon DEF TxnEnd
  <2> QED
    BY <2>1, FlushGivesUp, Zenon
<1>5. CASE Exit(p)
  <2>1. /\ UNCHANGED <<head, tail, ring, delivered, lost>>
        /\ Flush(p) \/ discarded' = discarded
    BY <1>5, Zenon DEF Exit
  <2> QED
    BY <2>1, FlushGivesUp, UnreadKept, Stuttering, Zenon
<1>6. CASE Fill(p)
  <2>1. UNCHANGED <<delivered, lost, discarded>>
    BY <1>6, Zenon DEF Fill
  <2> QED
    BY <1>6, <2>1, FillKeepsUnread, Stuttering, Zenon
<1>7. CASE \/ Report(p) \/ ReadTail(p) \/ TryLockOk(p) \/ AddToBatch(p)
           \/ AddToFullBatch(p) \/ Lock(p) \/ Check(p) \/ Count(p) \/ Warn(p)
           \/ Unlock(p) \/ Reload(p)
  <2>1. UNCHANGED <<head, tail, ring>> /\ UNCHANGED <<delivered, lost, discarded>>
    BY <1>7, Zenon
       DEF Report, ReadTail, TryLockOk, TakeLock, AddToBatch, AddToFullBatch,
                Lock, Check, Count, Warn, Unlock, Reload
  <2> QED
    BY <2>1, UnreadKept, Stuttering, Zenon
<1> QED
  BY <1>1, <1>2, <1>3, <1>4, <1>5, <1>6, <1>7, Zenon DEF Backend, InCall

(* Every step is a step of the channel, or none.                           *)
LEMMA NextChannel ==
  ASSUME IInv, PlaceInv, [Next]_vars
  PROVE  [Channel!Next]_(Channel!chanVars)
<1>1. CASE DequeueAdvance
  BY <1>1, AdvanceGets, Zenon
<1>2. CASE \/ DequeueStart \/ DequeueCopy \/ \E ok \in BOOLEAN : ExportBatch(ok)
           \/ ResetBegin \/ InReset \/ UNCHANGED vars
  <2>1. UNCHANGED <<head, tail, ring>> /\ UNCHANGED <<delivered, lost, discarded>>
    BY <1>2, Zenon
       DEF DequeueStart, DequeueCopy, ExportBatch, ResetBegin, InReset,
                ResetDropped, ResetExported, ResetFlag, vars, shared, history
  <2> QED
    BY <2>1, UnreadKept, Stuttering, Zenon
<1> QED
  BY <1>1, <1>2, BackendChannel, Zenon DEF Next, Worker, Dequeue

(* The channel is empty initially.                                         *)
LEMMA InitChannel == Init => Channel!Init
<1> SUFFICES ASSUME Init
             PROVE  Channel!Init
  BY Zenon
<1>1. Occupancy = 0
  BY SubInc, CapacityAssumption DEF Init, Occupancy
<1>2. Unread = <<>>
  BY <1>1 DEF Unread
<1> QED
  BY <1>2, Zenon DEF Init, Channel!Init

-----------------------------------------------------------------------------

(* The inductive invariant together with the places of the events and the  *)
(* counters.                                                               *)
QInv == IInv /\ PlaceInv /\ CountInv

-----------------------------------------------------------------------------
(* pg_stat_ch_stats() beside the queue.                                    *)

(* The steps that touch the ring or its positions.                         *)
LEMMA RingSteps ==
  ASSUME [Next]_vars
  PROVE  \/ \E p \in Producers : Publish(p) \/ Fill(p)
         \/ DequeueAdvance
         \/ UNCHANGED <<head, tail, ring, delivered>>
<1> USE DEF shared, counters, session, backend, worker, reset, history
<1>1. ASSUME NEW p \in Producers, Backend(p)
      PROVE  Publish(p) \/ Fill(p) \/ UNCHANGED <<head, tail, ring, delivered>>
  BY <1>1, Zenon
     DEF Backend, InCall, Report, ReadTail, TryLockOk, TakeLock, AddToBatch,
              AddToFullBatch, Lock, Check, Throw, Count, Overflow, Warn, Cancel,
              Unlock, TxnEnd, Exit, Reload
<1>2. ASSUME Worker \/ ResetBegin \/ InReset \/ UNCHANGED vars
      PROVE  DequeueAdvance \/ UNCHANGED <<head, tail, ring, delivered>>
  BY <1>2, Zenon
     DEF Worker, Dequeue, DequeueStart, DequeueCopy, ExportBatch, ResetBegin,
              InReset, ResetDropped, ResetExported, ResetFlag, vars
<1> QED
  BY <1>1, <1>2, Zenon DEF Next

(* Nothing that was published becomes unpublished, and nothing that was    *)
(* dequeued goes back.                                                     *)
LEMMA PublishedOnlyGrows ==
  ASSUME IInv, [Next]_vars
  PROVE  /\ Len(Published)' >= Len(Published)
         /\ Len(delivered)' >= Len(delivered)
         /\ Len(Published)' \in Nat /\ Len(delivered)' \in Nat
<1>1. Len(Published) \in Nat /\ Len(delivered) \in Nat
  BY PublishedType
<1>2. ASSUME NEW p \in Producers, Publish(p)
      PROVE  Len(Published)' = Len(Published) + 1 /\ delivered' = delivered
  <2>1. delivered' = delivered
    BY <1>2, Zenon DEF Publish, history
  <2> QED
    BY <1>2, <2>1, PublishedGrows, Zenon
<1>3. ASSUME NEW p \in Producers, Fill(p)
      PROVE  Published' = Published /\ delivered' = delivered
  <2>1. delivered' = delivered
    BY <1>3, Zenon DEF Fill, history
  <2> QED
    BY <1>3, <2>1, FillKeepsPublished, Zenon
<1>4. ASSUME DequeueAdvance
      PROVE  Published' = Published /\ Len(delivered)' = Len(delivered) + 1
  <2>1. delivered' = Append(delivered, copied) /\ delivered \in Seq(Events)
    BY <1>4, Zenon DEF DequeueAdvance, IInv, TypeOK
  <2>2. Len(delivered)' = Len(delivered) + 1
    BY <2>1
  <2> QED
    BY <1>4, <2>2, AdvanceKeepsPublished, Zenon
<1>5. ASSUME UNCHANGED <<head, tail, ring, delivered>>
      PROVE  Published' = Published /\ delivered' = delivered
  BY <1>5, PublishedKept, Zenon
<1> QED
  BY <1>1, <1>2, <1>3, <1>4, <1>5, RingSteps

(* The positions are the numbers of events published and dequeued, cut to  *)
(* the width of the word.                                                  *)
PositionInv ==
  /\ \E k \in Nat : Len(Published) = head + k * Modulus
  /\ \E k \in Nat : Len(delivered) = tail + k * Modulus

(* A position that is counted up.                                          *)
LEMMA CountUp ==
  ASSUME NEW a \in 0..Modulus-1, NEW n \in Nat, NEW k \in Nat,
         n = a + k * Modulus
  PROVE  \E l \in Nat : n + 1 = Inc(a) + l * Modulus
<1>1. Modulus \in Nat \ {0}
  BY CapacityAssumption, Zenon
<1>2. CASE a < Modulus - 1
  <2>1. Inc(a) = a + 1
    BY <1>2, WordType, Zenon
  <2>2. n + 1 = Inc(a) + k * Modulus
    <3> DEFINE m == k * Modulus
    <3>1. m \in Nat
      BY <1>1
    <3> HIDE DEF m
    <3> QED
      BY <2>1, <3>1 DEF m
  <2> QED
    BY <2>2, Zenon
<1>3. CASE a = Modulus - 1
  <2>1. Inc(a) = 0
    BY <1>3, WordType, Zenon
  <2>2. (k + 1) * Modulus = k * Modulus + Modulus /\ k * Modulus \in Nat
    BY <1>1
  <2>3. n + 1 = Inc(a) + (k + 1) * Modulus
    BY <1>1, <1>3, <2>1, <2>2
  <2> QED
    BY <2>3
<1> QED
  BY <1>1, <1>2, <1>3

(* Every step keeps the positions in line with the counts.                 *)
LEMMA NextPositions ==
  ASSUME IInv, PositionInv, [Next]_vars
  PROVE  PositionInv'
<1> USE DEF shared, counters, session, backend, worker, reset, history
<1>1. /\ head \in 0..Modulus-1 /\ tail \in 0..Modulus-1
      /\ Len(Published) \in Nat /\ Len(delivered) \in Nat
  BY PublishedType, SMTT(20) DEF IInv, TypeOK
<1>2. ASSUME NEW p \in Producers, Publish(p)
      PROVE  PositionInv'
  <2>1. head' = Inc(head) /\ tail' = tail /\ delivered' = delivered
    BY <1>2, Zenon DEF Publish, IInv, FillInv
  <2>2. Len(Published)' = Len(Published) + 1
    BY <1>2, PublishedGrows, Zenon
  <2>3. \E k \in Nat : Len(Published) + 1 = Inc(head) + k * Modulus
    BY <1>1, CountUp DEF PositionInv
  <2> QED
    BY <2>1, <2>2, <2>3, Zenon DEF PositionInv
<1>3. ASSUME DequeueAdvance
      PROVE  PositionInv'
  <2>1. /\ head' = head /\ tail' = Inc(tail)
        /\ delivered' = Append(delivered, copied) /\ delivered \in Seq(Events)
    BY <1>3, Zenon DEF DequeueAdvance, IInv, TypeOK
  <2>2. Published' = Published /\ Len(delivered') = Len(delivered) + 1
    BY <1>3, <2>1, AdvanceKeepsPublished
  <2>3. \E k \in Nat : Len(delivered) + 1 = Inc(tail) + k * Modulus
    BY <1>1, CountUp, Zenon DEF PositionInv
  <2> QED
    BY <2>1, <2>2, <2>3, Zenon DEF PositionInv
<1>4. ASSUME NEW p \in Producers, Fill(p)
      PROVE  PositionInv'
  <2>1. head' = head /\ tail' = tail /\ delivered' = delivered
    BY <1>4, Zenon DEF Fill
  <2> QED
    BY <1>4, <2>1, FillKeepsPublished, Zenon DEF PositionInv
<1>5. ASSUME UNCHANGED <<head, tail, ring, delivered>>
      PROVE  PositionInv'
  BY <1>5, PublishedKept, Zenon DEF PositionInv
<1> QED
  BY <1>2, <1>3, <1>4, <1>5, RingSteps

(* Moving a term to the other side.                                        *)
LEMMA Transpose ==
  ASSUME NEW a \in Int, NEW b \in Int, NEW c \in Int, a = b + c
  PROVE  b = a - c
OBVIOUS

(* The difference of two positions, cut to the width of queue_size, is the *)
(* difference of the counts up to a multiple of that width.                *)
LEMMA SizeOf ==
  ASSUME NEW h \in 0..Modulus-1, NEW t \in 0..Modulus-1,
         NEW n \in Nat, NEW d \in Nat, NEW k \in Nat, NEW l \in Nat,
         n = h + k * Modulus, d = t + l * Modulus
  PROVE  /\ Sub(h, t) % SizeModulus \in 0..SizeModulus-1
         /\ \E z \in Int : Sub(h, t) % SizeModulus = (n - d) + z * SizeModulus
<1>1. /\ Modulus \in Nat \ {0} /\ SizeModulus \in Nat \ {0}
      /\ Modulus % SizeModulus = 0
  BY CapacityAssumption, SizeModulusAssumption, Zenon
<1>2. PICK b \in Nat : Sub(h, t) = h - t + b * Modulus
  <2>1. h - t = h - t + 0 * Modulus /\ h - t + Modulus = h - t + 1 * Modulus
    BY <1>1
  <2> QED
    BY <2>1, WordType
<1>3. PICK x \in Nat : x = Sub(h, t)
  <2>1. Sub(h, t) \in 0..Modulus-1
    BY WordType, Zenon
  <2> QED
    BY <2>1, <1>1
<1> DEFINE q == x \div SizeModulus
           c == Modulus \div SizeModulus
           r == x % SizeModulus
<1>4. /\ q \in Int /\ r \in 0..SizeModulus-1
      /\ x = SizeModulus * q + r
  BY <1>1
<1>5. c \in Int /\ Modulus = SizeModulus * c
  BY <1>1
<1>6. r = (n - d) + ((l - k + b) * c - q) * SizeModulus
  <2>1. r = h - t + b * Modulus - SizeModulus * q
    <3> DEFINE u == SizeModulus * q
               v == b * Modulus
    <3>1. u \in Int /\ v \in Int /\ x = u + r /\ x = h - t + v /\ r \in Int
      BY <1>1, <1>2, <1>3, <1>4
    <3> HIDE DEF u, v, r
    <3>2. r = h - t + v - u
      BY <3>1
    <3> QED
      BY <3>2, Zenon DEF u, v
  <2>2. h = n - k * Modulus /\ t = d - l * Modulus
    <3> DEFINE u == k * Modulus
               v == l * Modulus
    <3>1. /\ u \in Int /\ v \in Int /\ n = h + u /\ d = t + v
          /\ h \in Int /\ t \in Int
          /\ n \in Int /\ d \in Int
      BY <1>1
    <3> HIDE DEF u, v
    <3>2. h = n - u
      BY <3>1, Transpose
    <3>3. t = d - v
      BY <3>1, Transpose
    <3> QED
      BY <3>2, <3>3, Zenon DEF u, v
  <2> HIDE DEF r, q, c
  <2>3. r = (n - k * (SizeModulus * c)) - (d - l * (SizeModulus * c))
              + b * (SizeModulus * c) - SizeModulus * q
    BY <2>1, <2>2, <1>5, Zenon
  <2> QED
    BY <2>3, <1>1, <1>4, <1>5
<1>7. (l - k + b) * c - q \in Int
  BY <1>4, <1>5
<1> QED
  BY <1>3, <1>4, <1>6, <1>7, Zenon

(* Read as a signed number it is that difference, as long as the           *)
(* difference fits.                                                        *)
LEMMA SignedSize ==
  ASSUME NEW s \in 0..SizeModulus-1, NEW y \in Int, NEW z \in Int,
         s = y + z * SizeModulus,
         y <= Capacity, -SizeModulus <= 2 * y
  PROVE  Signed(s) = y
<1>1. /\ SizeModulus \in Nat \ {0} /\ Capacity \in Nat
      /\ 2 * Capacity < SizeModulus
  BY CapacityAssumption, SizeModulusAssumption, Zenon
<1>2. z * SizeModulus > -SizeModulus /\ z * SizeModulus < 2 * SizeModulus
  <2> DEFINE m == z * SizeModulus
  <2>1. m \in Int /\ s = y + m
    BY <1>1
  <2> HIDE DEF m
  <2>2. m > -SizeModulus /\ m < 2 * SizeModulus
    BY <2>1, <1>1
  <2> QED
    BY <2>2, Zenon DEF m
<1>3. z = 0 \/ z = 1
  <2>1. ASSUME z >= 2
        PROVE  z * SizeModulus >= 2 * SizeModulus
    BY <2>1, <1>1
  <2>2. ASSUME z <= -1
        PROVE  z * SizeModulus <= -SizeModulus
    BY <2>2, <1>1
  <2>3. z * SizeModulus \in Int
    BY <1>1
  <2>4. ~(z >= 2) /\ ~(z <= -1)
    BY <2>1, <2>2, <2>3, <1>1, <1>2
  <2> QED
    BY <2>4
<1>4. s = y \/ s = y + SizeModulus
  BY <1>1, <1>3
<1> QED
  BY <1>1, <1>4 DEF Signed

(* What the row under way says of the state it was read from.  The counter *)
(* was read before head, so it is at most what had been published by then; *)
(* queue_size is, up to its width, the number of events published then and *)
(* not dequeued by the time tail was read.                                 *)
RowInv ==
  /\ spc \in {"Idle", "Dropped", "Exported", "Head", "Tail", "Text"}
  /\ DOMAIN row = {"enqueued", "dropped", "exported", "head", "queue_size"}
  /\ publishedThen \in Nat
  /\ row.enqueued \in Nat
  /\ spc \in {"Dropped", "Exported", "Head"} => row.enqueued <= Len(Published)
  /\ spc \in {"Tail", "Text"} => row.enqueued <= publishedThen
  /\ spc = "Tail" => /\ row.head \in 0..Modulus-1
                     /\ \E k \in Nat : publishedThen = row.head + k * Modulus
                     /\ publishedThen - Len(delivered) <= Capacity
  /\ spc = "Text" => /\ row.queue_size \in 0..SizeModulus-1
                     /\ \E y \in Int, z \in Int :
                          /\ publishedThen - Len(delivered) <= y
                          /\ y <= Capacity
                          /\ row.queue_size = y + z * SizeModulus

StatsInv == QInv /\ PositionInv /\ RowInv

(* The queue goes on while the row is filled.                              *)
LEMMA QueueKeepsRow ==
  ASSUME IInv, RowInv, [Next]_vars, UNCHANGED statsVars
  PROVE  RowInv'
<1>1. spc' = spc /\ row' = row /\ publishedThen' = publishedThen
  BY Zenon DEF statsVars
<1>2. /\ Len(Published)' >= Len(Published) /\ Len(delivered)' >= Len(delivered)
      /\ Len(Published)' \in Nat /\ Len(delivered)' \in Nat
      /\ Len(Published) \in Nat /\ Len(delivered) \in Nat
  BY PublishedOnlyGrows, PublishedType
<1>3. row.enqueued \in Nat /\ publishedThen \in Nat /\ Capacity \in Nat
  BY CapacityAssumption, Zenon DEF RowInv
<1>4. row.enqueued <= Len(Published) => row.enqueued <= Len(Published)'
  BY <1>2, <1>3
<1>5. publishedThen - Len(delivered) <= Capacity
        => publishedThen - Len(delivered)' <= Capacity
  BY <1>2, <1>3
<1>6. \A y \in Int : publishedThen - Len(delivered) <= y
                       => publishedThen - Len(delivered)' <= y
  BY <1>2, <1>3
<1>7. spc = "Text" => \E y \in Int, z \in Int :
                        /\ publishedThen - Len(delivered)' <= y
                        /\ y <= Capacity
                        /\ row.queue_size = y + z * SizeModulus
  BY <1>6, Zenon DEF RowInv
<1> QED
  BY <1>1, <1>4, <1>5, <1>7, Zenon DEF RowInv

(* The reads of the counters.                                              *)
LEMMA CountersRead ==
  ASSUME CardinalityLaws, IInv, CountInv, RowInv, StatsEnqueued \/ StatsDropped \/ StatsExported
  PROVE  RowInv'
<1>1. /\ Published' = Published /\ publishedThen' = publishedThen
      /\ delivered' = delivered /\ spc' \in {"Dropped", "Exported", "Head"}
      /\ DOMAIN row' = DOMAIN row
  <2>1. UNCHANGED <<head, tail, ring, delivered>>
    BY Zenon
       DEF StatsEnqueued, StatsDropped, StatsExported, Fetch, vars, shared,
       history
  <2> QED
    BY <2>1, PublishedKept, Zenon
       DEF StatsEnqueued, StatsDropped, StatsExported, Fetch
<1>2. /\ enqueued \in Nat /\ Len(Published) \in Nat
      /\ Cardinality(Counting) \in {0, 1}
      /\ enqueued + Cardinality(Counting) <= Len(Published)
  BY CountTypes, Zenon DEF CountInv
<1>3. enqueued <= Len(Published)
  BY <1>2
<1>4. row'.enqueued \in Nat /\ row'.enqueued <= Len(Published)
  <2>1. CASE StatsEnqueued
    <3>1. row'.enqueued = enqueued
      BY <2>1, Zenon DEF StatsEnqueued, Fetch, RowInv
    <3> QED
      BY <3>1, <1>2, <1>3, Zenon
  <2>2. CASE StatsDropped \/ StatsExported
    <3>1. row'.enqueued = row.enqueued /\ spc \in {"Dropped", "Exported"}
      BY <2>2, Zenon DEF StatsDropped, StatsExported, Fetch, RowInv
    <3> QED
      BY <3>1, Zenon DEF RowInv
  <2> QED
    BY <2>1, <2>2, Zenon
<1> QED
  BY <1>1, <1>4, Zenon DEF RowInv

(* The read of head.                                                       *)
LEMMA HeadRead ==
  ASSUME IInv, PositionInv, RowInv, StatsHead
  PROVE  RowInv'
<1>1. /\ Published' = Published /\ delivered' = delivered /\ spc' = "Tail"
      /\ publishedThen' = Len(Published)
  <2>1. UNCHANGED <<head, tail, ring, delivered>>
    BY Zenon DEF StatsHead, vars, shared, history
  <2> QED
    BY <2>1, PublishedKept, Zenon DEF StatsHead
<1>2. /\ DOMAIN row' = DOMAIN row
      /\ row'.head = head /\ row'.enqueued = row.enqueued
  BY Zenon DEF StatsHead, RowInv
<1>3. row.enqueued <= Len(Published)
  BY Zenon DEF StatsHead, RowInv
<1>4. /\ Len(Published) \in Nat /\ Len(delivered) \in Nat
      /\ Len(Published) = Len(delivered) + Occupancy
      /\ Occupancy \in Nat /\ Occupancy <= Capacity
  BY PublishedType, UnreadType DEF IInv, Bounded
<1>5. Len(Published) - Len(delivered) <= Capacity
  BY <1>4, CapacityAssumption
<1>6. head \in 0..Modulus-1 /\ \E k \in Nat : Len(Published) = head + k * Modulus
  BY Zenon DEF IInv, TypeOK, PositionInv
<1> QED
  BY <1>1, <1>2, <1>3, <1>4, <1>5, <1>6, Zenon DEF RowInv

(* The read of tail.                                                       *)
LEMMA TailRead ==
  ASSUME IInv, PositionInv, RowInv, StatsTail
  PROVE  RowInv'
<1>1. /\ Published' = Published /\ delivered' = delivered /\ spc' = "Text"
      /\ publishedThen' = publishedThen
  <2>1. UNCHANGED <<head, tail, ring, delivered>>
    BY Zenon DEF StatsTail, Fetch, vars, shared, history
  <2> QED
    BY <2>1, PublishedKept, Zenon DEF StatsTail, Fetch
<1>2. /\ DOMAIN row' = DOMAIN row /\ row'.enqueued = row.enqueued
      /\ row'.queue_size = Sub(row.head, tail) % SizeModulus
  BY Zenon DEF StatsTail, Fetch, RowInv
<1>3. /\ row.enqueued <= publishedThen /\ publishedThen \in Nat
      /\ row.head \in 0..Modulus-1
      /\ publishedThen - Len(delivered) <= Capacity
  BY Zenon DEF StatsTail, Fetch, RowInv
<1>4. PICK k \in Nat : publishedThen = row.head + k * Modulus
  BY Zenon DEF StatsTail, Fetch, RowInv
<1>5. PICK l \in Nat : Len(delivered) = tail + l * Modulus
  BY Zenon DEF PositionInv
<1>6. tail \in 0..Modulus-1 /\ Len(delivered) \in Nat
  BY PublishedType, SMTT(20) DEF IInv, TypeOK
<1>7. /\ row'.queue_size \in 0..SizeModulus-1
      /\ \E z \in Int : row'.queue_size = (publishedThen - Len(delivered)) + z * SizeModulus
  BY <1>2, <1>3, <1>4, <1>5, <1>6, SizeOf
<1>8. PICK y \in Int : y = publishedThen - Len(delivered)
  BY <1>3, <1>6
<1>9. \E z \in Int : row'.queue_size = y + z * SizeModulus
  BY <1>7, <1>8, Zenon
<1>10. publishedThen - Len(delivered) <= y /\ y <= Capacity
  BY <1>3, <1>8
<1> QED
  BY <1>1, <1>2, <1>3, <1>7, <1>9, <1>10, Zenon DEF RowInv

(* The row is returned.                                                    *)
LEMMA RowReturned ==
  ASSUME RowInv, StatsReturn
  PROVE  RowInv'
BY Zenon DEF RowInv, StatsReturn, EmptyRow

(* Every step of the queue and of PschGetStats keeps the invariant.        *)
LEMMA StatsStep ==
  ASSUME CardinalityLaws, StatsInv, [StatsNext]_<<vars, statsVars>>
  PROVE  StatsInv'
<1>1. IInv /\ PlaceInv /\ CountInv /\ PositionInv /\ RowInv
  BY Zenon DEF StatsInv, QInv
<1>2. [Next]_vars
  BY SMTT(20)
     DEF StatsNext, GetStats, StatsEnqueued, StatsDropped, StatsExported,
     StatsHead,
         StatsTail, StatsReturn, Fetch
<1>3. IInv' /\ PlaceInv' /\ CountInv' /\ PositionInv'
  BY <1>1, <1>2, NextIInv, NextPlaces, NextCounts, NextPositions, Zenon
<1>4. RowInv'
  BY <1>1, <1>2, QueueKeepsRow, CountersRead, HeadRead, TailRead, RowReturned,
     Zenon
     DEF StatsNext, GetStats
<1> QED
  BY <1>3, <1>4, Zenon DEF StatsInv, QInv

(* It holds before the first row.                                          *)
LEMMA StatsStart ==
  ASSUME CardinalityLaws, StatsInit
  PROVE  StatsInv
<1>1. Init
  BY Zenon DEF StatsInit
<1>2. QInv
  BY <1>1, InitIInv, InitPlaces, InitCounts, Zenon DEF QInv
<1>3. PositionInv
  <2>1. Occupancy = 0
    BY <1>1, SubInc, CapacityAssumption, SMTT(20) DEF Init, Occupancy
  <2>2. Unread = <<>> /\ delivered = <<>>
    BY <1>1, <2>1 DEF Unread, Init
  <2>3. Len(Published) = 0 /\ Len(delivered) = 0
    BY <2>2 DEF Published
  <2>4. head = 0 /\ tail = 0 /\ 0 = 0 + 0 * Modulus
    BY <1>1, CapacityAssumption DEF Init
  <2> QED
    BY <2>3, <2>4, Zenon DEF PositionInv
<1>4. RowInv
  BY Zenon DEF StatsInit, EmptyRow, RowInv
<1> QED
  BY <1>2, <1>3, <1>4, Zenon DEF StatsInv

-----------------------------------------------------------------------------
(* The theorems.                                                           *)

INSTANCE FiniteSetTheorems

LEMMA Cardinalities == CardinalityLaws
<1>1. IsFiniteSet({}) /\ Cardinality({}) = 0
  BY FS_EmptySet, Zenon
<1>2. \A x : Cardinality({x}) = 1
  BY FS_Singleton, Zenon
<1>3. ASSUME NEW S, IsFiniteSet(S)
      PROVE  /\ Cardinality(S) \in Nat
             /\ \A x : x \notin S => /\ IsFiniteSet(S \cup {x})
                                     /\ Cardinality(S \cup {x}) = Cardinality(S) + 1
  BY <1>3, FS_CardinalityType, FS_AddElement, Zenon
<1> QED
  BY <1>1, <1>2, <1>3, Zenon DEF CardinalityLaws

(* The three parts of the invariant of the queue hold of every behaviour   *)
(* of the backends, the worker and pg_stat_ch_reset().                     *)
THEOREM QueueInvariance == Spec => []QInv
<1>1. Init => QInv
  BY InitIInv, InitPlaces, InitCounts, Cardinalities DEF QInv
<1>2. QInv /\ [Next]_vars => QInv'
  BY NextIInv, NextPlaces, NextCounts, Cardinalities DEF QInv
<1> QED
  BY <1>1, <1>2, PTL DEF Spec

(* Whatever the hooks, the flushes, the errors, the cancelled queries, the *)
(* worker and the resets do, an event a hook reported is in exactly one    *)
(* place: in its backend's memory, published, dropped or discarded.        *)
THEOREM NothingVanishes == Spec => []EventsConserved
<1>1. QInv => EventsConserved
  BY PlacesConserve DEF QInv
<1> QED
  BY <1>1, QueueInvariance, PTL

(* The counters of pg_stat_ch_stats() never count more than happened, and  *)
(* are exact until the first pg_stat_ch_reset().                           *)
THEOREM CountersRight == Spec => []CountersSound
<1>1. QInv => CountersSound
  BY Zenon DEF QInv, CountInv, CountersSound, Counting
<1> QED
  BY <1>1, QueueInvariance, PTL

(* The shared-memory queue is a bounded first-in first-out channel: the    *)
(* store to head is its Put, the store to tail its Get, and an event that  *)
(* was dropped or discarded never comes out.                               *)
THEOREM QueueIsChannel == Spec => ImplementsChannel
<1>1. Init => Channel!Init
  BY InitChannel, Zenon
<1>2. QInv /\ [Next]_vars => [Channel!Next]_(Channel!chanVars)
  BY NextChannel, Zenon DEF QInv
<1> QED
  BY <1>1, <1>2, QueueInvariance, PTL DEF Spec, ImplementsChannel, Channel!Spec

(* The queue and its counters stay sound while rows are read, and a row    *)
(* stays related to the state it was read from.                            *)
THEOREM StatsInvariance == StatsSpec => []StatsInv
<1>1. StatsInit => StatsInv
  BY StatsStart, Cardinalities, Zenon
<1>2. StatsInv /\ [StatsNext]_<<vars, statsVars>> => StatsInv'
  BY StatsStep, Cardinalities
<1> QED
  BY <1>1, <1>2, PTL DEF StatsSpec

(* The order of the reads in PschGetStats: a row never counts an event     *)
(* that the head it was computed from does not cover.                      *)
THEOREM RowConsistent == StatsSpec => []CountersNotAheadOfPositions
<1>1. StatsInv => CountersNotAheadOfPositions
  BY Zenon DEF StatsInv, RowInv, CountersNotAheadOfPositions
<1> QED
  BY <1>1, StatsInvariance, PTL

(* queue_size, cut to 32 bits and shown as a signed number, stays within   *)
(* its bounds as long as no more than half of its range is published       *)
(* between the read of head and the end of the call.                       *)
THEOREM QueueSizeRight ==
  StatsSpec => [](2 * (Len(Published) - publishedThen) <= SizeModulus => QueueSizeBounded)
<1>1. ASSUME StatsInv, spc = "Text",
             2 * (Len(Published) - publishedThen) <= SizeModulus
      PROVE  Signed(row.queue_size) \in (publishedThen - Len(Published))..Capacity
  <2>1. IInv /\ RowInv
    BY <1>1, Zenon DEF StatsInv, QInv
  <2>2. PICK y \in Int, z \in Int :
          /\ publishedThen - Len(delivered) <= y /\ y <= Capacity
          /\ row.queue_size = y + z * SizeModulus
    BY <1>1, <2>1, Zenon DEF RowInv
  <2>3. row.queue_size \in 0..SizeModulus-1 /\ publishedThen \in Nat
    BY <1>1, <2>1, Zenon DEF RowInv
  <2>4. /\ Len(Published) \in Nat /\ Len(delivered) \in Nat
        /\ Len(delivered) <= Len(Published)
    BY <2>1, PublishedType
  <2>5. SizeModulus \in Nat /\ Capacity \in Nat
    BY SizeModulusAssumption, CapacityAssumption, Zenon
  <2>6. publishedThen - Len(Published) <= y /\ -SizeModulus <= 2 * y
    <3>1. publishedThen - Len(delivered) <= y
      BY <2>2, Zenon
    <3>2. publishedThen - Len(Published) <= y
      BY <3>1, <2>3, <2>4
    <3> QED
      BY <3>2, <1>1, <2>3, <2>4, <2>5
  <2>7. Signed(row.queue_size) = y
    BY <2>2, <2>3, <2>6, SignedSize
  <2> QED
    BY <2>2, <2>3, <2>4, <2>5, <2>6, <2>7
<1>2. StatsInv => (2 * (Len(Published) - publishedThen) <= SizeModulus => QueueSizeBounded)
  BY <1>1, Zenon DEF QueueSizeBounded
<1> QED
  BY <1>2, StatsInvariance, PTL
=============================================================================
