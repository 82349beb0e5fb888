------------------------- MODULE QueryInternProofs --------------------------
(***************************************************************************)
(* Proofs that the references to interned query texts are counted exactly, *)
(* that they lead to the right text, and that every chunk of the DSA area  *)
(* in use has one owner, for every number of backends, texts, chunks and   *)
(* slots, whether or not the callers are serialised by the queue's lock.   *)
(*                                                                         *)
(* The argument: a reference held by anyone is the object of the entry for *)
(* its text, and the refcount of that entry is the number of those who     *)
(* hold it.  So an entry that ReleaseRef takes from one to zero has the    *)
(* dequeued slot for its only holder, and the chunk freed after unlocking  *)
(* is one that nobody can reach any more.                                  *)
(***************************************************************************)
EXTENDS QueryIntern, Functions, TLAPS

(* What a producer has in its slot at each place of TryEnqueueLocked.      *)
ProducerPlaces ==
  \A p \in Backends :
    /\ ppc[p] \in {"Idle", "AllocErr"} => slot[p].err = NoPtr
    /\ ppc[p] \notin {"FreeLoser", "Publish"} => slot[p].ref = NoPtr
    /\ ppc[p] \in {"FirstLookup", "ReadObject", "AllocObject", "SecondLookup",
                   "FreeLoser"} => slot[p].text \in Texts
    /\ new_dp[p] # NoPtr <=> ppc[p] \in {"SecondLookup", "FreeLoser"}
    /\ ppc[p] \in {"SecondLookup", "FreeLoser"} => mem[new_dp[p]] = slot[p].text

(* What the consumer has at each place of PschDequeueEvent.                *)
ConsumerPlaces ==
  /\ cpc # "Idle" => Len(queue) > 0
  /\ cpc = "Release" => queue[1].ref # NoPtr
  /\ cpc \in {"Idle", "ResolveErr", "ResolveText"} => got = NoText
  /\ got # NoText => Len(queue) > 0 /\ got = queue[1].text
  /\ freed_dp # NoPtr <=> cpc = "FreeObject"

(* An entry is found under the key of the text its object holds.           *)
EntriesSound ==
  \A k \in Entries : /\ mem[table[k].object] \in Texts
                     /\ KeyOf[mem[table[k].object]] = k

(* d is the object of the entry for t.                                     *)
InternedAs(d, t) ==
  /\ t \in Texts
  /\ table[KeyOf[t]] # NoEntry
  /\ table[KeyOf[t]].object = d
  /\ mem[d] = t

(* Every reference anyone holds is protected by an entry.                  *)
RefsSound ==
  /\ \A i \in Referencing : queue[i].ref # NoPtr => InternedAs(queue[i].ref, queue[i].text)
  /\ \A p \in Backends : slot[p].ref # NoPtr => InternedAs(slot[p].ref, slot[p].text)
  /\ \A p \in Backends :
       ppc[p] = "ReadObject" => /\ table[Key(p)] # NoEntry
                                /\ mem[table[Key(p)].object] = slot[p].text

(* An error body has one owner, a slot, ...                                *)
BodiesOwned ==
  /\ \A i \in Carrying : queue[i].err # NoPtr => mem[queue[i].err] = ErrBody
  /\ \A p \in Backends : slot[p].err # NoPtr => mem[slot[p].err] = ErrBody
  /\ \A i, j \in Carrying : queue[i].err = queue[j].err => i = j \/ queue[i].err = NoPtr
  /\ \A p, q \in Backends : slot[p].err = slot[q].err => p = q \/ slot[p].err = NoPtr
  /\ \A i \in Carrying, p \in Backends : queue[i].err = slot[p].err => slot[p].err = NoPtr
  /\ \A d \in Ptrs : mem[d] = ErrBody =>
       \/ \E i \in Carrying : queue[i].err = d
       \/ \E p \in Backends : slot[p].err = d

(* ... and an object one of its own: the producer that allocated it, the   *)
(* entry it was inserted in, or the consumer about to free it.             *)
ObjectsOwned ==
  /\ freed_dp # NoPtr => mem[freed_dp] \in Texts
  /\ \A p, q \in Backends : new_dp[p] = new_dp[q] => p = q \/ new_dp[p] = NoPtr
  /\ \A p \in Backends : new_dp[p] # NoPtr => new_dp[p] # freed_dp
  /\ \A p \in Backends, k \in Entries : table[k].object # new_dp[p]
  /\ \A k \in Entries : table[k].object # freed_dp
  /\ \A d \in Ptrs : mem[d] \in Texts =>
       \/ \E p \in Backends : new_dp[p] = d
       \/ \E k \in Entries : table[k].object = d
       \/ freed_dp = d

(* The three kinds of holders, apart.                                      *)
Queued(d) == {i \in Referencing : queue[i].ref = d}
Filling(d) == {p \in Backends : slot[p].ref = d}
Reading(d) == {p \in Backends : /\ ppc[p] = "ReadObject"
                                /\ table[Key(p)] # NoEntry
                                /\ table[Key(p)].object = d}

Count(d) == Cardinality(Queued(d)) + Cardinality(Filling(d)) + Cardinality(Reading(d))

Counted == \A k \in Entries : table[k].refcount = Count(table[k].object)

IInv == /\ TypeOK
        /\ ProducerPlaces
        /\ ConsumerPlaces
        /\ EntriesSound
        /\ RefsSound
        /\ BodiesOwned
        /\ ObjectsOwned
        /\ Counted

-----------------------------------------------------------------------------
(* Counting.                                                               *)

(* What the counting rests on, for any set; proved before the theorems.    *)
CardinalityLaws ==
  /\ Cardinality({}) = 0
  /\ \A x : Cardinality({x}) = 1
  /\ \A n \in Nat : IsFiniteSet(1..n)
  /\ \A T : IsFiniteSet(T) => \A S \in SUBSET T : IsFiniteSet(S)
  /\ \A S : IsFiniteSet(S) =>
       /\ Cardinality(S) \in Nat
       /\ Cardinality(S) = 0 => S = {}
       /\ \A x : x \notin S => Cardinality(S \cup {x}) = Cardinality(S) + 1
       /\ \A x \in S : Cardinality(S \ {x}) = Cardinality(S) - 1
       /\ \A T : ExistsBijection(S, T) => Cardinality(T) = Cardinality(S)

(* One more element, and one less.                                         *)
LEMMA OneMore ==
  ASSUME CardinalityLaws, NEW S, IsFiniteSet(S), NEW x, x \notin S
  PROVE  Cardinality(S \cup {x}) = Cardinality(S) + 1
BY Zenon DEF CardinalityLaws

(* Counting one element less.                                              *)
LEMMA OneLess ==
  ASSUME CardinalityLaws, NEW S, IsFiniteSet(S), NEW x, x \in S
  PROVE  Cardinality(S \ {x}) = Cardinality(S) - 1
BY Zenon DEF CardinalityLaws

(* Counting positions is not affected by moving them down by one.          *)
LEMMA Shifted ==
  ASSUME CardinalityLaws, NEW S \in SUBSET Int, IsFiniteSet(S)
  PROVE  Cardinality({i - 1 : i \in S}) = Cardinality(S)
<1> DEFINE T == {i - 1 : i \in S}
           f == [i \in S |-> i - 1]
<1>1. f \in [S -> T]
  BY Zenon
<1>2. \A x, y \in S : f[x] = f[y] => x = y
  OBVIOUS
<1>3. \A t \in T : \E x \in S : f[x] = t
  BY Zenon
<1>4. f \in Bijection(S, T)
  BY <1>1, <1>2, <1>3, Zenon DEF Bijection, Injection, Surjection, IsInjective
<1>5. ExistsBijection(S, T)
  BY <1>4, Zenon DEF ExistsBijection
<1> HIDE DEF T
<1>6. Cardinality(T) = Cardinality(S)
  BY <1>5, Zenon DEF CardinalityLaws
<1> QED
  BY <1>6, Zenon DEF T

(* There are finitely many holders of each kind.                           *)
LEMMA PositionsFinite ==
  ASSUME CardinalityLaws, NEW n \in Nat, NEW S \in SUBSET (1..n)
  PROVE  IsFiniteSet(S) /\ Cardinality(S) \in Nat
<1>1. IsFiniteSet(1..n)
  BY Zenon DEF CardinalityLaws
<1>2. IsFiniteSet(S)
  BY <1>1, Zenon DEF CardinalityLaws
<1> QED
  BY <1>2, Zenon DEF CardinalityLaws

(* There are finitely many backends.                                       *)
LEMMA BackendsFinite ==
  ASSUME CardinalityLaws, NEW S \in SUBSET Backends
  PROVE  IsFiniteSet(S) /\ Cardinality(S) \in Nat
<1>1. IsFiniteSet(S)
  BY InternAssumption, Zenon DEF CardinalityLaws
<1> QED
  BY <1>1, Zenon DEF CardinalityLaws

(* The holders of each kind can be counted.                                *)
LEMMA KindsFinite ==
  ASSUME CardinalityLaws, TypeOK, NEW d
  PROVE  /\ IsFiniteSet(Queued(d)) /\ Cardinality(Queued(d)) \in Nat
         /\ IsFiniteSet(Filling(d)) /\ Cardinality(Filling(d)) \in Nat
         /\ IsFiniteSet(Reading(d)) /\ Cardinality(Reading(d)) \in Nat
<1>1. Len(queue) \in Nat /\ Queued(d) \in SUBSET (1..Len(queue))
  BY DEF TypeOK, Queued, Referencing
<1>2. Filling(d) \in SUBSET Backends /\ Reading(d) \in SUBSET Backends
  BY Zenon DEF Filling, Reading
<1> QED
  BY <1>1, <1>2, PositionsFinite, BackendsFinite, Zenon

-----------------------------------------------------------------------------
(* The invariant holds at first.                                           *)

(* The invariant holds initially.                                          *)
LEMMA InternInit == Init => IInv
<1> SUFFICES ASSUME Init PROVE IInv
  BY Zenon
<1> USE InternAssumption
<1>1. Entries = {} /\ Referencing = {} /\ Carrying = {}
  BY DEF Init, Entries, Referencing, Carrying
<1>2. TypeOK
  BY DEF Init, TypeOK, EmptySlot, Slots
<1>3. ProducerPlaces
  BY Zenon DEF Init, ProducerPlaces, EmptySlot
<1>4. ConsumerPlaces
  BY Zenon DEF Init, ConsumerPlaces
<1>5. EntriesSound /\ Counted
  BY <1>1, Zenon DEF EntriesSound, Counted
<1>6. RefsSound
  BY <1>1, Zenon DEF Init, RefsSound, EmptySlot
<1>7. BodiesOwned
  BY <1>1, Zenon DEF Init, BodiesOwned, EmptySlot
<1>8. ObjectsOwned
  BY <1>1, Zenon DEF Init, ObjectsOwned
<1> QED
  BY <1>2, <1>3, <1>4, <1>5, <1>6, <1>7, <1>8, Zenon DEF IInv

-----------------------------------------------------------------------------
(* The steps that only take a producer to another place: neither a         *)
(* reference nor a chunk changes hands.                                    *)

(* A step that moves one backend and nothing else.                         *)
LEMMA OnlyThePlace ==
  ASSUME IInv, NEW p \in Backends, NEW l,
         UNCHANGED <<caller, mem, table, queue, slot, new_dp, consumer>>,
         oom' \in 0..MaxOom, Goto(p, l), ppc[p] # "ReadObject",
         l \in {"FirstLookup", "AllocObject", "FreeLoser", "Publish"},
         ProducerPlaces'
  PROVE  IInv'
<1> USE DEF IInv, Goto, consumer
<1>0. ppc \in [Backends -> {"Idle", "AllocErr", "FirstLookup", "ReadObject",
                            "AllocObject", "SecondLookup", "FreeLoser", "Publish"}]
  BY Zenon DEF TypeOK
<1>1. TypeOK'
  BY <1>0, Zenon DEF TypeOK
<1>2. Entries' = Entries /\ Referencing' = Referencing /\ Carrying' = Carrying
  BY Zenon DEF Entries, Referencing, Carrying
<1>3. \A q \in Backends : ppc'[q] = "ReadObject" <=> ppc[q] = "ReadObject"
  BY <1>0, Zenon
<1>4. ConsumerPlaces'
  BY Zenon DEF ConsumerPlaces
<1>5. EntriesSound'
  BY <1>2, Zenon DEF EntriesSound
<1>6. RefsSound'
  BY <1>2, <1>3, Zenon DEF RefsSound, InternedAs, Key
<1>7. BodiesOwned'
  BY <1>2, Zenon DEF BodiesOwned
<1>8. ObjectsOwned'
  BY <1>2, Zenon DEF ObjectsOwned
<1>9. Counted'
  <2>1. \A d : Queued(d)' = Queued(d) /\ Filling(d)' = Filling(d)
    BY <1>2, Zenon DEF Queued, Filling
  <2>2. \A d : Reading(d)' = Reading(d)
    BY <1>3, Zenon DEF Reading, Key
  <2> QED
    BY <1>2, <2>1, <2>2, Zenon DEF Counted, Count
<1> QED
  BY <1>1, <1>4, <1>5, <1>6, <1>7, <1>8, <1>9, Zenon

(* A lookup that takes no reference.                                       *)
LEMMA LookupNothing ==
  ASSUME IInv, UNCHANGED caller, NEW p \in Backends,
         LookupCollision(p) \/ LookupMiss(p) \/ TableFull(p) \/ LoseRaceCollision(p)
  PROVE  IInv'
<1>0. ppc \in [Backends -> {"Idle", "AllocErr", "FirstLookup", "ReadObject",
                            "AllocObject", "SecondLookup", "FreeLoser", "Publish"}]
      /\ oom \in 0..MaxOom
  BY Zenon DEF IInv, TypeOK
<1>1. CASE LookupCollision(p)
  <2>1. ProducerPlaces'
    BY <1>0, <1>1, Zenon DEF LookupCollision, Goto, IInv, ProducerPlaces
  <2> QED
    BY <1>1, <1>0, <2>1, OnlyThePlace, Zenon DEF LookupCollision
<1>2. CASE LookupMiss(p)
  <2>1. ProducerPlaces'
    BY <1>0, <1>2, Zenon DEF LookupMiss, Goto, IInv, ProducerPlaces
  <2> QED
    BY <1>2, <1>0, <2>1, OnlyThePlace, Zenon DEF LookupMiss
<1>3. CASE TableFull(p)
  <2>1. ProducerPlaces'
    BY <1>0, <1>3, Zenon DEF TableFull, Goto, IInv, ProducerPlaces
  <2> QED
    BY <1>3, <1>0, <2>1, OnlyThePlace, Zenon DEF TableFull
<1>4. CASE LoseRaceCollision(p)
  <2>1. ProducerPlaces'
    BY <1>0, <1>4, Zenon DEF LoseRaceCollision, Goto, IInv, ProducerPlaces
  <2> QED
    BY <1>4, <1>0, <2>1, OnlyThePlace, Zenon DEF LoseRaceCollision
<1> QED
  BY <1>1, <1>2, <1>3, <1>4, Zenon

-----------------------------------------------------------------------------
(* The steps that free or fill a chunk no entry names: what the references *)
(* lead to, and their number, stays as it is.                              *)

(* The fields of the slots in the ring.                                    *)
LEMMA QueueTyped ==
  ASSUME TypeOK
  PROVE  /\ Len(queue) \in Nat
         /\ \A i \in 1..Len(queue) : /\ queue[i].text \in Texts \cup {NoText}
                                     /\ queue[i].err \in Ptrs \cup {NoPtr}
                                     /\ queue[i].ref \in Ptrs \cup {NoPtr}
         /\ \A i \in Referencing : i \in 1..Len(queue)
         /\ \A i \in Carrying : i \in 1..Len(queue)
<1>1. queue \in Seq(Slots)
  BY Zenon DEF TypeOK
<1>2. Len(queue) \in Nat /\ \A i \in 1..Len(queue) : queue[i] \in Slots
  BY <1>1
<1>3. \A x \in Slots : /\ x.text \in Texts \cup {NoText}
                      /\ x.err \in Ptrs \cup {NoPtr}
                      /\ x.ref \in Ptrs \cup {NoPtr}
  BY Zenon DEF Slots
<1> QED
  BY <1>2, <1>3, Zenon DEF Referencing, Carrying

(* A step that changes neither references nor the texts they lead to.      *)
LEMMA RefsUntouched ==
  ASSUME IInv, UNCHANGED <<table, queue>>, Referencing' = Referencing,
         \A k \in Entries : mem'[table[k].object] = mem[table[k].object],
         \A q \in Backends : /\ ppc'[q] = "ReadObject" <=> ppc[q] = "ReadObject"
                             /\ slot'[q].text = slot[q].text
                             /\ slot'[q].ref = slot[q].ref
  PROVE  EntriesSound' /\ RefsSound' /\ Counted'
<1> USE InternAssumption DEF IInv
<1>1. Entries' = Entries
  BY Zenon DEF Entries
<1>2. EntriesSound'
  BY <1>1, Zenon DEF EntriesSound
<1>3. \A e, t : InternedAs(e, t) => InternedAs(e, t)'
  BY DEF InternedAs, Entries, Keys
<1>4. RefsSound'
  <2>1. \A i \in Referencing' :
          queue'[i].ref # NoPtr => InternedAs(queue[i].ref, queue[i].text)'
    BY <1>3, Zenon DEF RefsSound
  <2>2. \A q \in Backends : slot'[q].ref # NoPtr => InternedAs(slot[q].ref, slot[q].text)'
    BY <1>3 DEF RefsSound, InternedAs
  <2>3. \A q \in Backends : ppc'[q] = "ReadObject" =>
          /\ table'[Key(q)'] # NoEntry
          /\ mem'[table'[Key(q)'].object] = slot'[q].text
    <3>1. \A q \in Backends : Key(q)' = Key(q)
      BY Zenon DEF Key
    <3>2. \A q \in Backends : ppc[q] = "ReadObject" => Key(q) \in Keys
      BY Zenon DEF ProducerPlaces, Key, Keys
    <3> QED
      BY <3>1, <3>2 DEF RefsSound, Entries
  <2> QED
    BY <2>1, <2>2, <2>3, Zenon DEF RefsSound
<1>5. Counted'
  <2>1. \A d : Queued(d)' = Queued(d) /\ Filling(d)' = Filling(d)
    BY DEF Queued, Filling
  <2>2. \A d : Reading(d)' = Reading(d)
    BY DEF Reading, Key
  <2> QED
    BY <1>1, <2>1, <2>2, Zenon DEF Counted, Count
<1> QED
  BY <1>2, <1>4, <1>5, Zenon

-----------------------------------------------------------------------------
(* The producer's steps.                                                   *)

PPlaces == {"Idle", "AllocErr", "FirstLookup", "ReadObject", "AllocObject",
            "SecondLookup", "FreeLoser", "Publish"}

(* The start of an enqueue.                                                *)
LEMMA BeginKeeps ==
  ASSUME IInv, UNCHANGED caller, NEW p \in Backends, Begin(p)
  PROVE  IInv'
<1> USE InternAssumption DEF IInv, Goto, consumer
<1>0. ppc \in [Backends -> PPlaces] /\ slot \in [Backends -> Slots]
  BY Zenon DEF TypeOK, PPlaces
<1>1. PICK t \in Texts \cup {NoText}, l \in {"AllocErr", "Publish", "FirstLookup"} :
        /\ slot' = [slot EXCEPT ![p].text = t]
        /\ ppc' = [ppc EXCEPT ![p] = l]
        /\ l = "FirstLookup" => t \in Texts
  BY Zenon DEF Begin, AfterErr
<1>2. ppc[p] = "Idle" /\ UNCHANGED <<mem, table, queue, oom, new_dp, cpc, got, freed_dp>>
  BY Zenon DEF Begin
<1>3. \A q \in Backends : slot'[q].err = slot[q].err /\ slot'[q].ref = slot[q].ref
  BY <1>0, <1>1 DEF Slots
<1>4. \A q \in Backends : q # p => slot'[q] = slot[q] /\ ppc'[q] = ppc[q]
  BY <1>0, <1>1, Zenon
<1>5. slot'[p].text = t /\ ppc'[p] = l /\ slot[p].ref = NoPtr /\ slot[p].err = NoPtr
  BY <1>0, <1>1, <1>2 DEF ProducerPlaces, Slots
<1>6. TypeOK'
  <2>1. slot' \in [Backends -> Slots]
    BY <1>0, <1>1 DEF Slots
  <2>2. ppc' \in [Backends -> PPlaces]
    BY <1>0, <1>1, Zenon DEF PPlaces
  <2> QED
    BY <1>2, <2>1, <2>2, Zenon DEF TypeOK, PPlaces
<1>7. Entries' = Entries /\ Referencing' = Referencing /\ Carrying' = Carrying
  BY <1>2, Zenon DEF Entries, Referencing, Carrying
<1>8. ProducerPlaces'
  BY <1>0, <1>1, <1>2, <1>3, <1>4, <1>5 DEF ProducerPlaces
<1>9. ConsumerPlaces'
  BY <1>2, Zenon DEF ConsumerPlaces
<1>10. EntriesSound'
  BY <1>2, <1>7, Zenon DEF EntriesSound
<1>11. RefsSound'
  BY <1>1, <1>2, <1>3, <1>4, <1>5, <1>7 DEF RefsSound, InternedAs, Key
<1>12. BodiesOwned'
  BY <1>2, <1>3, <1>7 DEF BodiesOwned
<1>13. ObjectsOwned'
  BY <1>2, <1>7, Zenon DEF ObjectsOwned
<1>14. Counted'
  <2>1. \A d : Queued(d)' = Queued(d) /\ Filling(d)' = Filling(d)
    BY <1>2, <1>3, <1>7, Zenon DEF Queued, Filling
  <2>2. \A d : Reading(d)' = Reading(d)
    BY <1>1, <1>2, <1>4, <1>5, Zenon DEF Reading, Key
  <2> QED
    BY <1>2, <1>7, <2>1, <2>2, Zenon DEF Counted, Count
<1> QED
  BY <1>6, <1>8, <1>9, <1>10, <1>11, <1>12, <1>13, <1>14, Zenon

(* The allocation of the error body.                                       *)
LEMMA AllocErrKeeps ==
  ASSUME IInv, UNCHANGED caller, NEW p \in Backends, AllocErr(p)
  PROVE  IInv'
<1> USE InternAssumption DEF IInv, Goto, consumer
<1>0. ppc \in [Backends -> PPlaces] /\ slot \in [Backends -> Slots]
      /\ mem \in [Ptrs -> Texts \cup {Free, ErrBody}]
  BY Zenon DEF TypeOK, PPlaces
<1>1. PICK l \in {"Publish", "FirstLookup"} :
        /\ ppc' = [ppc EXCEPT ![p] = l]
        /\ l = "FirstLookup" => slot[p].text \in Texts
  BY <1>0, Zenon DEF AllocErr, AfterErr, Slots
<1>2. /\ ppc[p] = "AllocErr"
      /\ UNCHANGED <<table, queue, new_dp, cpc, got, freed_dp>>
      /\ slot[p].err = NoPtr /\ slot[p].ref = NoPtr
  BY Zenon DEF AllocErr, ProducerPlaces
<1>3. CASE OutOfMemory /\ UNCHANGED slot
  <2>1. oom' \in 0..MaxOom /\ UNCHANGED <<mem, slot>>
    BY <1>3 DEF OutOfMemory, TypeOK
  <2>2. ProducerPlaces'
    BY <1>0, <1>1, <1>2, <2>1, Zenon DEF ProducerPlaces
  <2> QED
    BY <1>1, <1>2, <2>1, <2>2, OnlyThePlace, Zenon DEF Goto, consumer
<1>4. ASSUME NEW d \in Ptrs, Allocate(d, ErrBody), slot' = [slot EXCEPT ![p].err = d],
             UNCHANGED oom
      PROVE  IInv'
  <2>1. mem[d] = Free /\ mem' = [mem EXCEPT ![d] = ErrBody]
    BY <1>4, Zenon DEF Allocate
  <2>2. Entries' = Entries /\ Referencing' = Referencing /\ Carrying' = Carrying
    BY <1>2, Zenon DEF Entries, Referencing, Carrying
  <2>3. \A q \in Backends : /\ ppc'[q] = "ReadObject" <=> ppc[q] = "ReadObject"
                            /\ slot'[q].text = slot[q].text /\ slot'[q].ref = slot[q].ref
                            /\ q # p => slot'[q] = slot[q] /\ ppc'[q] = ppc[q]
    BY <1>0, <1>1, <1>2, <1>4 DEF Slots
  <2>4. slot'[p].err = d
    BY <1>0, <1>4 DEF Slots
  <2>5. \A e \in Ptrs : mem[e] # Free => mem'[e] = mem[e] /\ e # d
    BY <1>0, <2>1, Zenon
  <2>6. mem'[d] = ErrBody
    BY <1>0, <2>1, Zenon
  <2>7. TypeOK'
    <3>1. slot' \in [Backends -> Slots]
      BY <1>0, <1>4 DEF Slots
    <3>2. ppc' \in [Backends -> PPlaces]
      BY <1>0, <1>1, Zenon DEF PPlaces
    <3>3. mem' \in [Ptrs -> Texts \cup {Free, ErrBody}]
      BY <1>0, <2>1, Zenon
    <3> QED
      BY <1>2, <1>4, <3>1, <3>2, <3>3, Zenon DEF TypeOK, PPlaces
  <2>8. \A q \in Backends : new_dp[q] \in Ptrs \cup {NoPtr}
    BY Zenon DEF TypeOK
  <2>9. ProducerPlaces'
    BY <1>0, <1>1, <1>2, <2>3, <2>4, <2>5, <2>8 DEF ProducerPlaces
  <2>10. ConsumerPlaces'
    BY <1>2, Zenon DEF ConsumerPlaces
  <2>11. \A k \in Entries : table[k].object \in Ptrs
    BY Zenon DEF TypeOK, Entries
  <2>12. EntriesSound' /\ RefsSound' /\ Counted'
    <3>1. \A k \in Entries : mem'[table[k].object] = mem[table[k].object]
      BY <2>5, <2>11 DEF EntriesSound
    <3> QED
      BY <1>2, <2>2, <2>3, <3>1, RefsUntouched, Zenon
  <2>13. BodiesOwned'
    <3>1. \A i \in Carrying : queue[i].err \in Ptrs \cup {NoPtr}
      BY QueueTyped, Zenon
    <3>2. \A q \in Backends : slot[q].err \in Ptrs \cup {NoPtr}
      BY <1>0, Zenon DEF Slots
    <3>3. \A i \in Carrying : queue[i].err # d
      BY <2>1, <3>1 DEF BodiesOwned
    <3>4. \A q \in Backends : slot[q].err # d
      BY <2>1, <3>2, Zenon DEF BodiesOwned
    <3>5. \A i \in Carrying : queue[i].err # NoPtr => mem'[queue[i].err] = ErrBody
      BY <2>5, <3>1, Zenon DEF BodiesOwned
    <3>6. \A q \in Backends : slot'[q].err # NoPtr => mem'[slot'[q].err] = ErrBody
      BY <2>3, <2>4, <2>5, <2>6, <3>2 DEF BodiesOwned
    <3>7. \A q, r \in Backends : slot'[q].err = slot'[r].err => q = r \/ slot'[q].err = NoPtr
      BY <2>3, <2>4, <3>4 DEF BodiesOwned
    <3>8. \A i \in Carrying, q \in Backends : queue[i].err = slot'[q].err => slot'[q].err = NoPtr
      BY <2>3, <2>4, <3>3 DEF BodiesOwned
    <3>9. ASSUME NEW e \in Ptrs, mem'[e] = ErrBody
          PROVE  \/ \E i \in Carrying : queue[i].err = e
                 \/ \E q \in Backends : slot'[q].err = e
      <4>1. CASE e = d
        BY <2>4, <4>1, Zenon
      <4>2. CASE e # d
        <5>1. mem[e] = ErrBody
          BY <1>0, <2>1, <3>9, <4>2, Zenon
        <5> QED
          BY <1>2, <2>3, <5>1 DEF BodiesOwned
      <4> QED
        BY <4>1, <4>2, Zenon
    <3> QED
      BY <1>2, <2>2, <3>5, <3>6, <3>7, <3>8, <3>9 DEF BodiesOwned
  <2>14. ObjectsOwned'
    <3>1. freed_dp \in Ptrs \cup {NoPtr}
      BY Zenon DEF TypeOK
    <3>2. \A e \in Ptrs : mem'[e] \in Texts => mem[e] \in Texts
      BY <1>0, <2>1, Zenon
    <3> QED
      BY <1>2, <2>2, <2>5, <3>1, <3>2, Zenon DEF ObjectsOwned
  <2> QED
    BY <2>7, <2>9, <2>10, <2>12, <2>13, <2>14, Zenon
<1> QED
  BY <1>3, <1>4, Zenon DEF AllocErr

(* Taking a reference changes one refcount and nothing else.               *)
LEMMA AddRefCounts ==
  ASSUME TypeOK, NEW k \in Entries, AddRef(k)
  PROVE  /\ Entries' = Entries
         /\ table' \in [Keys -> [object : Ptrs, refcount : Nat \ {0}] \cup {NoEntry}]
         /\ \A l \in Keys : (table'[l] = NoEntry <=> table[l] = NoEntry)
         /\ \A l \in Entries : table'[l].object = table[l].object
         /\ \A l \in Entries \ {k} : table'[l].refcount = table[l].refcount
         /\ table'[k].refcount = table[k].refcount + 1
<1> USE InternAssumption
<1>1. table \in [Keys -> [object : Ptrs, refcount : Nat \ {0}] \cup {NoEntry}]
      /\ k \in Keys /\ table[k] \in [object : Ptrs, refcount : Nat \ {0}]
  BY Zenon DEF TypeOK, Entries
<1> DEFINE e == [table[k] EXCEPT !.refcount = @ + 1]
<1>2. table' = [table EXCEPT ![k] = e]
  BY Zenon DEF AddRef
<1>3. e \in [object : Ptrs, refcount : Nat \ {0}] /\ e # NoEntry
      /\ e.object = table[k].object /\ e.refcount = table[k].refcount + 1
  BY <1>1
<1> HIDE DEF e
<1>4. \A l \in Keys : table'[l] = IF l = k THEN e ELSE table[l]
  BY <1>1, <1>2, Zenon
<1>5. table' \in [Keys -> [object : Ptrs, refcount : Nat \ {0}] \cup {NoEntry}]
  BY <1>1, <1>2, <1>3, Zenon
<1>6. table[k] # NoEntry
  BY Zenon DEF Entries
<1>7. \A l \in Keys : (table'[l] = NoEntry <=> table[l] = NoEntry)
  BY <1>3, <1>4, <1>6, Zenon
<1>8. Entries' = Entries
  BY <1>7, Zenon DEF Entries
<1> QED
  BY <1>1, <1>3, <1>4, <1>5, <1>7, <1>8, Zenon DEF Entries

(* A producer that takes a reference under the lock, and reads the object  *)
(* later or at once.                                                       *)
LEMMA TakingKeeps ==
  ASSUME IInv, NEW k \in Entries, AddRef(k), UNCHANGED <<mem, queue>>,
         Referencing' = Referencing
  PROVE  /\ EntriesSound'
         /\ \A d, t : InternedAs(d, t) => InternedAs(d, t)'
         /\ \A d : Queued(d)' = Queued(d)
<1> USE InternAssumption DEF IInv
<1>1. EntriesSound'
  BY AddRefCounts DEF EntriesSound
<1>2. \A d, t : InternedAs(d, t) => InternedAs(d, t)'
  <2> SUFFICES ASSUME NEW d, NEW t, InternedAs(d, t) PROVE InternedAs(d, t)'
    BY Zenon
  <2>1. KeyOf[t] \in Keys /\ KeyOf[t] \in Entries
    BY Zenon DEF InternedAs, Keys, Entries
  <2> QED
    BY <2>1, AddRefCounts, Zenon DEF InternedAs
<1>3. \A d : Queued(d)' = Queued(d)
  BY Zenon DEF Queued
<1> QED
  BY <1>1, <1>2, <1>3, Zenon

(* The first lookup finds the text and takes a reference.                  *)
LEMMA LookupHitKeeps ==
  ASSUME IInv, UNCHANGED caller, NEW p \in Backends, LookupHit(p)
  PROVE  CardinalityLaws => IInv'
<1>L. SUFFICES ASSUME CardinalityLaws PROVE IInv'
  BY Zenon
<1> USE InternAssumption DEF IInv, Goto, consumer
<1>0. ppc \in [Backends -> PPlaces] /\ slot \in [Backends -> Slots]
  BY Zenon DEF TypeOK, PPlaces
<1>1. ppc[p] = "FirstLookup" /\ UNCHANGED <<mem, queue, oom, slot, new_dp, cpc, got, freed_dp>>
      /\ ppc' = [ppc EXCEPT ![p] = "ReadObject"]
  BY Zenon DEF LookupHit
<1> DEFINE k == Key(p)
<1>2. k \in Entries /\ mem[table[k].object] = slot[p].text /\ AddRef(k)
  BY <1>1, Zenon DEF LookupHit, ProducerPlaces, Key, Keys, Entries
<1>3. /\ Entries' = Entries
      /\ table' \in [Keys -> [object : Ptrs, refcount : Nat \ {0}] \cup {NoEntry}]
      /\ \A l \in Keys : (table'[l] = NoEntry <=> table[l] = NoEntry)
      /\ \A l \in Entries : table'[l].object = table[l].object
      /\ \A l \in Entries \ {k} : table'[l].refcount = table[l].refcount
      /\ table'[k].refcount = table[k].refcount + 1
  BY <1>2, AddRefCounts, Zenon
<1>4. Referencing' = Referencing /\ Carrying' = Carrying /\ \A q \in Backends : Key(q)' = Key(q)
  BY <1>1, Zenon DEF Referencing, Carrying, Key
<1>5. /\ EntriesSound'
      /\ \A d, t : InternedAs(d, t) => InternedAs(d, t)'
      /\ \A d : Queued(d)' = Queued(d)
  BY <1>1, <1>2, <1>4, TakingKeeps, Zenon
<1>6. TypeOK'
  <2>1. ppc' \in [Backends -> PPlaces]
    BY <1>0, <1>1, Zenon DEF PPlaces
  <2> QED
    BY <1>1, <1>3, <2>1, Zenon DEF TypeOK, PPlaces
<1>7. ProducerPlaces'
  BY <1>0, <1>1, Zenon DEF ProducerPlaces
<1>8. ConsumerPlaces'
  BY <1>1, Zenon DEF ConsumerPlaces
<1>9. \A q \in Backends : ppc[q] = "ReadObject" => Key(q) \in Entries
  BY Zenon DEF RefsSound, Entries, ProducerPlaces, Key, Keys
<1>10. RefsSound'
  <2>1. \A i \in Referencing' : queue'[i].ref # NoPtr => InternedAs(queue[i].ref, queue[i].text)'
    BY <1>1, <1>4, <1>5, Zenon DEF RefsSound
  <2>2. \A q \in Backends : slot'[q].ref # NoPtr => InternedAs(slot[q].ref, slot[q].text)'
    BY <1>1, <1>5, Zenon DEF RefsSound
  <2>3. \A q \in Backends : ppc'[q] = "ReadObject" =>
          /\ table'[Key(q)'] # NoEntry
          /\ mem'[table'[Key(q)'].object] = slot'[q].text
    BY <1>0, <1>1, <1>2, <1>3, <1>4, <1>9 DEF RefsSound, Entries
  <2> QED
    BY <2>1, <2>2, <2>3, Zenon DEF RefsSound
<1>11. BodiesOwned' /\ ObjectsOwned'
  BY <1>1, <1>3, <1>4 DEF BodiesOwned, ObjectsOwned
<1>12. Counted'
  <2> SUFFICES ASSUME NEW l \in Entries
               PROVE  table'[l].refcount = Count(table[l].object)'
    BY <1>3, Zenon DEF Counted
  <2> DEFINE d == table[l].object
  <2>0. d' = d
    BY <1>3, Zenon
  <2> HIDE DEF d
  <2>1. Queued(d)' = Queued(d) /\ Filling(d)' = Filling(d)
    BY <1>1, <1>5, <2>0, Zenon DEF Filling
  <2>2. CASE l = k
    <3>1. Reading(d)' = Reading(d) \cup {p} /\ p \notin Reading(d)
      BY <1>0, <1>1, <1>2, <1>3, <1>4, <1>9, <2>0, <2>2 DEF Reading, d, Entries
    <3>2. IsFiniteSet(Reading(d)) /\ Cardinality(Reading(d)) \in Nat
          /\ Cardinality(Queued(d)) \in Nat /\ Cardinality(Filling(d)) \in Nat
      BY <1>L, KindsFinite, Zenon
    <3>3. Cardinality(Reading(d)') = Cardinality(Reading(d)) + 1
      BY <1>L, <3>1, <3>2, OneMore, Zenon
    <3>4. Count(d)' = Count(d) + 1
      BY <2>1, <3>2, <3>3 DEF Count
    <3> QED
      BY <1>3, <2>0, <2>2, <3>4, Zenon DEF Counted, d
  <2>3. CASE l # k
    <3>1. d # table[k].object
      BY <1>2, <2>3, Zenon DEF EntriesSound, d
    <3>2. Reading(d)' = Reading(d)
      BY <1>0, <1>1, <1>2, <1>3, <1>4, <1>9, <2>0, <3>1 DEF Reading, Entries
    <3>3. Count(d)' = Count(d)
      BY <2>1, <3>2, Zenon DEF Count
    <3> QED
      BY <1>3, <2>0, <2>3, <3>3, Zenon DEF Counted, d
  <2> QED
    BY <2>2, <2>3, Zenon
<1> QED
  BY <1>5, <1>6, <1>7, <1>8, <1>10, <1>11, <1>12, Zenon

(* The reference taken is written into the slot.                           *)
LEMMA ReadObjectKeeps ==
  ASSUME IInv, UNCHANGED caller, NEW p \in Backends, ReadObject(p)
  PROVE  CardinalityLaws => IInv'
<1>L. SUFFICES ASSUME CardinalityLaws PROVE IInv'
  BY Zenon
<1> USE InternAssumption DEF IInv, Goto, consumer
<1>0. ppc \in [Backends -> PPlaces] /\ slot \in [Backends -> Slots]
  BY Zenon DEF TypeOK, PPlaces
<1>1. ppc[p] = "ReadObject" /\ UNCHANGED <<mem, table, queue, oom, new_dp, cpc, got, freed_dp>>
      /\ ppc' = [ppc EXCEPT ![p] = "Publish"]
  BY Zenon DEF ReadObject
<1> DEFINE k == Key(p)
           o == table[k].object
<1>2. /\ k \in Entries /\ mem[o] = slot[p].text /\ slot[p].text \in Texts /\ o \in Ptrs
      /\ k = KeyOf[slot[p].text] /\ slot[p].ref = NoPtr
  BY <1>1, Zenon DEF RefsSound, ProducerPlaces, Key, Keys, Entries, TypeOK
<1>3. slot' = [slot EXCEPT ![p].ref = o]
  BY <1>2, Zenon DEF ReadObject, Entries
<1>4. \A q \in Backends : /\ slot'[q].text = slot[q].text /\ slot'[q].err = slot[q].err
                          /\ q # p => slot'[q] = slot[q] /\ ppc'[q] = ppc[q]
  BY <1>0, <1>1, <1>3, Zenon DEF Slots
<1>5. slot'[p].ref = o /\ ppc'[p] = "Publish"
  BY <1>0, <1>1, <1>3, Zenon DEF Slots
<1>6. /\ Referencing' = Referencing /\ Carrying' = Carrying /\ Entries' = Entries
      /\ \A q \in Backends : Key(q)' = Key(q)
  BY <1>1, <1>4, Zenon DEF Referencing, Carrying, Entries, Key
<1>7. TypeOK'
  <2>1. slot' \in [Backends -> Slots]
    BY <1>0, <1>2, <1>3 DEF Slots
  <2>2. ppc' \in [Backends -> PPlaces]
    BY <1>0, <1>1, Zenon DEF PPlaces
  <2> QED
    BY <1>1, <2>1, <2>2, Zenon DEF TypeOK, PPlaces
<1>8. ProducerPlaces'
  BY <1>1, <1>4, <1>5 DEF ProducerPlaces
<1>9. ConsumerPlaces' /\ EntriesSound'
  BY <1>1, <1>6, Zenon DEF ConsumerPlaces, EntriesSound
<1>10. RefsSound'
  <2>1. \A d, t : InternedAs(d, t)' = InternedAs(d, t)
    BY <1>1, Zenon DEF InternedAs
  <2>2. InternedAs(o, slot[p].text)
    BY <1>2, Zenon DEF InternedAs, Entries
  <2>3. \A q \in Backends : slot'[q].ref # NoPtr => InternedAs(slot[q].ref, slot[q].text)'
    BY <1>1, <1>4, <1>5, <2>2 DEF RefsSound, InternedAs
  <2> QED
    BY <1>1, <1>4, <1>5, <1>6, <2>1, <2>3 DEF RefsSound
<1>11. BodiesOwned' /\ ObjectsOwned'
  BY <1>1, <1>4, <1>6 DEF BodiesOwned, ObjectsOwned
<1>12. Counted'
  <2> SUFFICES ASSUME NEW d \in Ptrs
               PROVE  Count(d)' = Count(d)
    BY <1>1, <1>6, Zenon DEF Counted, TypeOK, Entries
  <2>1. Queued(d)' = Queued(d)
    BY <1>1, <1>6, Zenon DEF Queued
  <2>2. CASE d = o
    <3>1. Reading(d)' = Reading(d) \ {p} /\ p \in Reading(d)
      <4>1. p \in Reading(d)
        BY <1>1, <1>2, <2>2, Zenon DEF Reading, Entries
      <4>2. \A q \in Backends : q \in Reading(d)' <=> q \in Reading(d) /\ q # p
        BY <1>1, <1>4, <1>5, <1>6, Zenon DEF Reading
      <4>3. Reading(d)' \subseteq Backends /\ Reading(d) \subseteq Backends
        BY Zenon DEF Reading
      <4> QED
        BY <4>1, <4>2, <4>3, Zenon
    <3>2. Filling(d)' = Filling(d) \cup {p} /\ p \notin Filling(d)
      <4>1. p \notin Filling(d)
        BY <1>2, <2>2, Zenon DEF Filling
      <4>2. \A q \in Backends : q \in Filling(d)' <=> q \in Filling(d) \/ q = p
        BY <1>4, <1>5, <2>2, Zenon DEF Filling
      <4>3. Filling(d)' \subseteq Backends /\ Filling(d) \subseteq Backends
        BY Zenon DEF Filling
      <4> QED
        BY <4>1, <4>2, <4>3, Zenon
    <3>3. /\ IsFiniteSet(Reading(d)) /\ Cardinality(Reading(d)) \in Nat
          /\ IsFiniteSet(Filling(d)) /\ Cardinality(Filling(d)) \in Nat
          /\ Cardinality(Queued(d)) \in Nat
      BY <1>L, KindsFinite, Zenon
    <3>4. Cardinality(Reading(d)') = Cardinality(Reading(d)) - 1
      BY <1>L, <3>1, <3>3, OneLess, Zenon
    <3>5. Cardinality(Filling(d)') = Cardinality(Filling(d)) + 1
      BY <1>L, <3>2, <3>3, OneMore, Zenon
    <3> QED
      BY <2>1, <3>3, <3>4, <3>5 DEF Count
  <2>3. CASE d # o
    <3>1. Reading(d)' = Reading(d)
      BY <1>1, <1>4, <1>5, <1>6, <2>3, Zenon DEF Reading
    <3>2. Filling(d)' = Filling(d)
      BY <1>2, <1>4, <1>5, <2>3 DEF Filling
    <3> QED
      BY <2>1, <3>1, <3>2, Zenon DEF Count
  <2> QED
    BY <2>2, <2>3, Zenon
<1> QED
  BY <1>7, <1>8, <1>9, <1>10, <1>11, <1>12, Zenon

(* The allocation of a new object.                                         *)
LEMMA AllocObjectKeeps ==
  ASSUME IInv, UNCHANGED caller, NEW p \in Backends, AllocObject(p)
  PROVE  IInv'
<1> USE InternAssumption DEF IInv, Goto, consumer
<1>0. ppc \in [Backends -> PPlaces] /\ new_dp \in [Backends -> Ptrs \cup {NoPtr}]
      /\ mem \in [Ptrs -> Texts \cup {Free, ErrBody}]
  BY Zenon DEF TypeOK, PPlaces
<1>1. /\ ppc[p] = "AllocObject" /\ UNCHANGED <<table, queue, slot, cpc, got, freed_dp>>
      /\ slot[p].text \in Texts /\ new_dp[p] = NoPtr
  BY Zenon DEF AllocObject, ProducerPlaces
<1>2. CASE OutOfMemory /\ Goto(p, "Publish") /\ UNCHANGED new_dp
  <2>1. oom' \in 0..MaxOom /\ UNCHANGED <<mem, new_dp>>
    BY <1>2 DEF OutOfMemory, TypeOK
  <2>2. ProducerPlaces'
    BY <1>0, <1>1, <1>2, <2>1 DEF ProducerPlaces
  <2> QED
    BY <1>1, <1>2, <2>1, <2>2, OnlyThePlace, Zenon
<1>3. ASSUME NEW d \in Ptrs, Allocate(d, slot[p].text),
             new_dp' = [new_dp EXCEPT ![p] = d],
             ppc' = [ppc EXCEPT ![p] = "SecondLookup"], UNCHANGED oom
      PROVE  IInv'
  <2>1. mem[d] = Free /\ mem' = [mem EXCEPT ![d] = slot[p].text]
    BY <1>3, Zenon DEF Allocate
  <2>2. \A e \in Ptrs : e # d => mem'[e] = mem[e]
    BY <1>0, <2>1, Zenon
  <2>3. /\ mem'[d] = slot[p].text /\ new_dp'[p] = d /\ ppc'[p] = "SecondLookup"
        /\ \A q \in Backends : q # p => new_dp'[q] = new_dp[q] /\ ppc'[q] = ppc[q]
    BY <1>0, <1>3, <2>1, Zenon
  <2>4. Entries' = Entries /\ Referencing' = Referencing /\ Carrying' = Carrying
    BY <1>1, Zenon DEF Entries, Referencing, Carrying
  <2>5. TypeOK'
    <3>1. new_dp' \in [Backends -> Ptrs \cup {NoPtr}]
      BY <1>0, <1>3, Zenon
    <3>2. ppc' \in [Backends -> PPlaces]
      BY <1>0, <1>3, Zenon DEF PPlaces
    <3>3. mem' \in [Ptrs -> Texts \cup {Free, ErrBody}]
      BY <1>0, <1>1, <2>1, Zenon
    <3> QED
      BY <1>1, <1>3, <3>1, <3>2, <3>3, Zenon DEF TypeOK, PPlaces
  <2>6. \A q \in Backends : new_dp[q] # d
    BY <1>0, <1>1, <2>1, Zenon DEF ProducerPlaces
  <2>7. ProducerPlaces'
    BY <1>0, <1>1, <2>2, <2>3, <2>6 DEF ProducerPlaces
  <2>8. ConsumerPlaces'
    BY <1>1, Zenon DEF ConsumerPlaces
  <2>9. \A k \in Entries : table[k].object \in Ptrs /\ table[k].object # d
    BY <2>1, Zenon DEF TypeOK, Entries, EntriesSound
  <2>10. EntriesSound' /\ RefsSound' /\ Counted'
    <3>1. \A k \in Entries : mem'[table[k].object] = mem[table[k].object]
      BY <2>2, <2>9, Zenon
    <3>2. \A q \in Backends : ppc'[q] = "ReadObject" <=> ppc[q] = "ReadObject"
      BY <1>1, <2>3, Zenon
    <3> QED
      BY <1>1, <2>4, <3>1, <3>2, RefsUntouched, Zenon
  <2>11. BodiesOwned'
    <3>1. \A i \in Carrying : queue[i].err \in Ptrs \cup {NoPtr}
      BY QueueTyped, Zenon
    <3>2. \A q \in Backends : slot[q].err \in Ptrs \cup {NoPtr}
      BY Zenon DEF TypeOK, Slots
    <3>3. \A e \in Ptrs : mem'[e] = ErrBody <=> mem[e] = ErrBody
      BY <1>1, <2>1, <2>2, <2>3
    <3> QED
      BY <1>1, <2>4, <3>1, <3>2, <3>3 DEF BodiesOwned
  <2>12. ObjectsOwned'
    <3>1. freed_dp \in Ptrs \cup {NoPtr} /\ freed_dp # d
      BY <2>1 DEF TypeOK, ObjectsOwned
    <3>2. \A e \in Ptrs : mem'[e] \in Texts => e = d \/ mem[e] \in Texts
      BY <2>2, Zenon
    <3>3. \A q, r \in Backends : new_dp'[q] = new_dp'[r] => q = r \/ new_dp'[q] = NoPtr
      BY <2>3, <2>6 DEF ObjectsOwned
    <3>4. \A q \in Backends : new_dp'[q] # NoPtr => new_dp'[q] # freed_dp
      BY <2>3, <3>1, Zenon DEF ObjectsOwned
    <3>5. \A q \in Backends, k \in Entries : table[k].object # new_dp'[q]
      BY <2>3, <2>9 DEF ObjectsOwned
    <3>6. \A e \in Ptrs : mem'[e] \in Texts => \/ \E q \in Backends : new_dp'[q] = e
                                               \/ \E k \in Entries : table[k].object = e
                                               \/ freed_dp = e
      <4> SUFFICES ASSUME NEW e \in Ptrs, e # d, mem[e] \in Texts
                   PROVE  \/ \E q \in Backends : new_dp'[q] = e
                          \/ \E k \in Entries : table[k].object = e
                          \/ freed_dp = e
        BY <2>3, <3>2, Zenon
      <4> QED
        BY <1>1, <2>3 DEF ObjectsOwned
    <3>7. freed_dp # NoPtr => mem'[freed_dp] \in Texts
      BY <2>2, <3>1, Zenon DEF ObjectsOwned
    <3> QED
      BY <1>1, <2>4, <3>3, <3>4, <3>5, <3>6, <3>7, Zenon DEF ObjectsOwned
  <2> QED
    BY <2>5, <2>7, <2>8, <2>10, <2>11, <2>12, Zenon
<1> QED
  BY <1>2, <1>3, Zenon DEF AllocObject

(* The new object is inserted with one reference.                          *)
LEMMA InsertKeeps ==
  ASSUME IInv, UNCHANGED caller, NEW p \in Backends, Insert(p)
  PROVE  CardinalityLaws => IInv'
<1>L. SUFFICES ASSUME CardinalityLaws PROVE IInv'
  BY Zenon
<1> USE InternAssumption DEF IInv, Goto, consumer
<1>0. /\ ppc \in [Backends -> PPlaces] /\ slot \in [Backends -> Slots]
      /\ new_dp \in [Backends -> Ptrs \cup {NoPtr}]
      /\ table \in [Keys -> [object : Ptrs, refcount : Nat \ {0}] \cup {NoEntry}]
  BY Zenon DEF TypeOK, PPlaces
<1>1. PICK n \in Ptrs, k \in Keys : n = new_dp[p] /\ k = Key(p)
  BY <1>0, Zenon DEF Insert, ProducerPlaces, Key, Keys
<1>2. /\ ppc[p] = "SecondLookup" /\ UNCHANGED <<mem, queue, oom, cpc, got, freed_dp>>
      /\ slot[p].text \in Texts /\ slot[p].ref = NoPtr /\ mem[n] = slot[p].text
      /\ k = KeyOf[slot[p].text] /\ table[k] = NoEntry
  BY <1>1, Zenon DEF Insert, ProducerPlaces, Key
<1>3. /\ table' = [table EXCEPT ![k] = [object |-> n, refcount |-> 1]]
      /\ slot' = [slot EXCEPT ![p].ref = n]
      /\ new_dp' = [new_dp EXCEPT ![p] = NoPtr]
      /\ ppc' = [ppc EXCEPT ![p] = "Publish"]
  BY <1>1, Zenon DEF Insert
<1>4. /\ \A q \in Backends : /\ slot'[q].text = slot[q].text /\ slot'[q].err = slot[q].err
                             /\ q # p => /\ slot'[q] = slot[q] /\ ppc'[q] = ppc[q]
                                         /\ new_dp'[q] = new_dp[q]
      /\ slot'[p].ref = n /\ ppc'[p] = "Publish" /\ new_dp'[p] = NoPtr
  BY <1>0, <1>3 DEF Slots
<1>5. /\ \A l \in Keys : l # k => table'[l] = table[l]
      /\ table'[k].object = n /\ table'[k].refcount = 1 /\ table'[k] # NoEntry
  BY <1>0, <1>2, <1>3
<1>6. Entries' = Entries \cup {k} /\ k \notin Entries
  BY <1>2, <1>5, Zenon DEF Entries
<1>7. /\ Referencing' = Referencing /\ Carrying' = Carrying
      /\ \A q \in Backends : Key(q)' = Key(q)
  BY <1>2, <1>4, Zenon DEF Referencing, Carrying, Key
<1>8. \A l \in Entries : /\ table'[l] = table[l] /\ table[l].object # n
                         /\ l \in Keys /\ table[l].object \in Ptrs
  BY <1>0, <1>1, <1>5, <1>6 DEF Entries, ObjectsOwned
<1>9. TypeOK'
  <2>1. slot' \in [Backends -> Slots]
    BY <1>0, <1>2, <1>3 DEF Slots
  <2>2. ppc' \in [Backends -> PPlaces]
    BY <1>0, <1>3, Zenon DEF PPlaces
  <2>3. new_dp' \in [Backends -> Ptrs \cup {NoPtr}]
    BY <1>0, <1>3, Zenon
  <2>4. table' \in [Keys -> [object : Ptrs, refcount : Nat \ {0}] \cup {NoEntry}]
    BY <1>0, <1>2, <1>3
  <2> QED
    BY <1>2, <2>1, <2>2, <2>3, <2>4, Zenon DEF TypeOK, PPlaces
<1>10. ProducerPlaces'
  BY <1>2, <1>4 DEF ProducerPlaces
<1>11. ConsumerPlaces'
  BY <1>2, Zenon DEF ConsumerPlaces
<1>12. EntriesSound'
  BY <1>2, <1>5, <1>6, <1>8 DEF EntriesSound
<1>13. \A q \in Backends : ppc[q] = "ReadObject" => Key(q) \in Entries
  BY Zenon DEF RefsSound, Entries, ProducerPlaces, Key, Keys
<1>14. \A d, t : InternedAs(d, t) => InternedAs(d, t)' /\ d # n /\ d \in Ptrs
  <2> SUFFICES ASSUME NEW d, NEW t, InternedAs(d, t)
               PROVE  InternedAs(d, t)' /\ d # n /\ d \in Ptrs
    BY Zenon
  <2>1. KeyOf[t] \in Entries
    BY Zenon DEF InternedAs, Keys, Entries
  <2> QED
    BY <1>2, <1>8, <2>1, Zenon DEF InternedAs
<1>15. RefsSound'
  <2>2. \A i \in Referencing' : queue'[i].ref # NoPtr => InternedAs(queue[i].ref, queue[i].text)'
    BY <1>2, <1>7, <1>14, Zenon DEF RefsSound
  <2>3. \A q \in Backends : slot'[q].ref # NoPtr => InternedAs(slot[q].ref, slot[q].text)'
    <3>1. ASSUME NEW q \in Backends, q # p, slot'[q].ref # NoPtr
          PROVE  InternedAs(slot[q].ref, slot[q].text)'
      <4>1. InternedAs(slot[q].ref, slot[q].text)
        BY <1>4, <3>1, Zenon DEF RefsSound
      <4> QED
        BY <1>4, <1>14, <3>1, <4>1, Zenon
    <3>2. InternedAs(slot[p].ref, slot[p].text)'
      BY <1>2, <1>4, <1>5, Zenon DEF InternedAs
    <3> QED
      BY <3>1, <3>2, Zenon
  <2>4. \A q \in Backends : ppc'[q] = "ReadObject" =>
          /\ table'[Key(q)'] # NoEntry
          /\ mem'[table'[Key(q)'].object] = slot'[q].text
    BY <1>2, <1>4, <1>7, <1>8, <1>13 DEF RefsSound
  <2> QED
    BY <2>2, <2>3, <2>4, Zenon DEF RefsSound
<1>16. BodiesOwned'
  BY <1>2, <1>4, <1>7 DEF BodiesOwned
<1>17. ObjectsOwned'
  <2>1. n # freed_dp /\ \A q \in Backends : q # p => new_dp[q] # n
    BY <1>1, <1>2, Zenon DEF ObjectsOwned
  <2>2. \A q, r \in Backends : new_dp'[q] = new_dp'[r] => q = r \/ new_dp'[q] = NoPtr
    BY <1>4 DEF ObjectsOwned
  <2>3. \A q \in Backends : new_dp'[q] # NoPtr => new_dp'[q] # freed_dp
    BY <1>4 DEF ObjectsOwned
  <2>4. \A q \in Backends, l \in Entries' : table'[l].object # new_dp'[q]
    BY <1>2, <1>4, <1>5, <1>6, <1>8, <2>1 DEF ObjectsOwned
  <2>5. \A l \in Entries' : table'[l].object # freed_dp
    BY <1>5, <1>6, <1>8, <2>1, Zenon DEF ObjectsOwned
  <2>6. ASSUME NEW d \in Ptrs, mem[d] \in Texts
        PROVE  \/ \E q \in Backends : new_dp'[q] = d
               \/ \E l \in Entries' : table'[l].object = d
               \/ freed_dp = d
    <3>1. CASE d = n
      BY <1>5, <1>6, <3>1, Zenon
    <3>2. CASE d # n
      BY <1>1, <1>4, <1>6, <1>8, <2>6, <3>2 DEF ObjectsOwned
    <3> QED
      BY <3>1, <3>2, Zenon
  <2> QED
    BY <1>2, <2>2, <2>3, <2>4, <2>5, <2>6, Zenon DEF ObjectsOwned
<1>18. Counted'
  <2>1. \A d : Queued(d)' = Queued(d)
    BY <1>2, <1>7, Zenon DEF Queued
  <2>2. Count(n)' = 1
    <3>1. Queued(n)' = {}
      BY <1>2, <1>14, <2>1 DEF Queued, RefsSound
    <3>2. Filling(n)' = {p}
      BY <1>2, <1>4, <1>14 DEF Filling, RefsSound
    <3>3. Reading(n)' = {}
      BY <1>4, <1>7, <1>8, <1>13 DEF Reading
    <3>4. Cardinality({}) = 0 /\ Cardinality({p}) = 1
      BY <1>L, Zenon DEF CardinalityLaws
    <3>5. Cardinality(Queued(n)') = 0 /\ Cardinality(Filling(n)') = 1
          /\ Cardinality(Reading(n)') = 0
      BY <3>1, <3>2, <3>3, <3>4, Zenon
    <3> QED
      BY <3>5 DEF Count
  <2>3. ASSUME NEW l \in Entries PROVE Count(table[l].object)' = Count(table[l].object)
    <3> DEFINE d == table[l].object
    <3>1. d \in Ptrs /\ d # n /\ d' = d
      BY <1>8, Zenon
    <3> HIDE DEF d
    <3>2. Filling(d)' = Filling(d)
      BY <1>2, <1>4, <3>1 DEF Filling
    <3>3. Reading(d)' = Reading(d)
      <4>1. \A q \in Backends : q \in Reading(d)' <=> q \in Reading(d)
        BY <1>2, <1>4, <1>7, <1>8, <1>13, <3>1 DEF Reading
      <4>2. Reading(d)' \subseteq Backends /\ Reading(d) \subseteq Backends
        BY Zenon DEF Reading
      <4> QED
        BY <4>1, <4>2, Zenon
    <3>4. Count(d)' = Count(d)
      BY <2>1, <3>1, <3>2, <3>3, Zenon DEF Count
    <3> QED
      BY <3>4, Zenon DEF d
  <2>4. ASSUME NEW l \in Entries' PROVE table'[l].refcount = Count(table[l].object)'
    <3>1. CASE l = k
      <4>1. Count(table[k].object)' = Count(n)'
        BY <1>5, Zenon DEF Count, Queued, Filling, Reading
      <4> QED
        BY <1>5, <2>2, <3>1, <4>1, Zenon
    <3>2. CASE l \in Entries
      BY <1>8, <2>3, <3>2, Zenon DEF Counted
    <3> QED
      BY <1>6, <3>1, <3>2, Zenon
  <2> QED
    BY <2>4, Zenon DEF Counted
<1> QED
  BY <1>9, <1>10, <1>11, <1>12, <1>15, <1>16, <1>17, <1>18, Zenon

(* The second lookup finds that another backend was first.                 *)
LEMMA LoseRaceKeeps ==
  ASSUME IInv, UNCHANGED caller, NEW p \in Backends, LoseRace(p)
  PROVE  CardinalityLaws => IInv'
<1>L. SUFFICES ASSUME CardinalityLaws PROVE IInv'
  BY Zenon
<1> USE InternAssumption DEF IInv, Goto, consumer
<1>0. ppc \in [Backends -> PPlaces] /\ slot \in [Backends -> Slots]
  BY Zenon DEF TypeOK, PPlaces
<1>1. ppc[p] = "SecondLookup" /\ UNCHANGED <<mem, queue, oom, new_dp, cpc, got, freed_dp>>
      /\ ppc' = [ppc EXCEPT ![p] = "FreeLoser"]
      /\ slot[p].text \in Texts /\ slot[p].ref = NoPtr
  BY Zenon DEF LoseRace, ProducerPlaces
<1>2. PICK k \in Entries, o \in Ptrs :
        /\ k = KeyOf[slot[p].text] /\ o = table[k].object
        /\ mem[o] = slot[p].text /\ AddRef(k)
        /\ slot' = [slot EXCEPT ![p].ref = o]
  <2>1. Key(p) \in Entries /\ Key(p) = KeyOf[slot[p].text]
    BY <1>1, Zenon DEF LoseRace, Key, Keys, Entries
  <2>2. table[Key(p)].object \in Ptrs
    BY <2>1, Zenon DEF TypeOK, Entries
  <2>3. PICK k \in Entries : k = Key(p)
    BY <2>1, Zenon
  <2>4. AddRef(k)
    BY <2>3, Zenon DEF LoseRace, AddRef
  <2> QED
    BY <2>1, <2>2, <2>3, <2>4, Zenon DEF LoseRace
<1>3. /\ Entries' = Entries
      /\ table' \in [Keys -> [object : Ptrs, refcount : Nat \ {0}] \cup {NoEntry}]
      /\ \A l \in Entries : table'[l].object = table[l].object
      /\ \A l \in Entries \ {k} : table'[l].refcount = table[l].refcount
      /\ table'[k].refcount = table[k].refcount + 1
  BY <1>2, AddRefCounts, Zenon
<1>4. /\ \A q \in Backends : /\ slot'[q].text = slot[q].text /\ slot'[q].err = slot[q].err
                             /\ q # p => slot'[q] = slot[q] /\ ppc'[q] = ppc[q]
      /\ slot'[p].ref = o /\ ppc'[p] = "FreeLoser"
  BY <1>0, <1>1, <1>2 DEF Slots
<1>5. /\ Referencing' = Referencing /\ Carrying' = Carrying
      /\ \A q \in Backends : Key(q)' = Key(q)
  BY <1>1, <1>4, Zenon DEF Referencing, Carrying, Key
<1>6. /\ EntriesSound'
      /\ \A d, t : InternedAs(d, t) => InternedAs(d, t)'
      /\ \A d : Queued(d)' = Queued(d)
  BY <1>1, <1>2, <1>5, TakingKeeps, Zenon
<1>7. TypeOK'
  <2>1. slot' \in [Backends -> Slots]
    BY <1>0, <1>2 DEF Slots
  <2>2. ppc' \in [Backends -> PPlaces]
    BY <1>0, <1>1, Zenon DEF PPlaces
  <2> QED
    BY <1>1, <1>3, <2>1, <2>2, Zenon DEF TypeOK, PPlaces
<1>8. ProducerPlaces'
  BY <1>1, <1>4 DEF ProducerPlaces
<1>9. ConsumerPlaces'
  BY <1>1, Zenon DEF ConsumerPlaces
<1>10. \A q \in Backends : ppc[q] = "ReadObject" => Key(q) \in Entries
  BY Zenon DEF RefsSound, Entries, ProducerPlaces, Key, Keys
<1>11. RefsSound'
  <2>1. \A i \in Referencing' : queue'[i].ref # NoPtr => InternedAs(queue[i].ref, queue[i].text)'
    BY <1>1, <1>5, <1>6, Zenon DEF RefsSound
  <2>2. \A q \in Backends : slot'[q].ref # NoPtr => InternedAs(slot[q].ref, slot[q].text)'
    <3>1. ASSUME NEW q \in Backends, q # p, slot'[q].ref # NoPtr
          PROVE  InternedAs(slot[q].ref, slot[q].text)'
      <4>1. InternedAs(slot[q].ref, slot[q].text)
        BY <1>4, <3>1, Zenon DEF RefsSound
      <4> QED
        BY <1>4, <1>6, <3>1, <4>1, Zenon
    <3>2. InternedAs(slot[p].ref, slot[p].text)'
      <4>1. slot[p].text \in Texts /\ mem[o] = slot[p].text
        BY <1>1, <1>2, Zenon
      <4>2. table[KeyOf[slot[p].text]] # NoEntry /\ table[KeyOf[slot[p].text]].object = o
        BY <1>2, Zenon DEF Entries
      <4>3. InternedAs(o, slot[p].text)
        BY <4>1, <4>2, Zenon DEF InternedAs
      <4> QED
        BY <1>4, <1>6, <4>3, Zenon
    <3> QED
      BY <3>1, <3>2, Zenon
  <2>3. \A q \in Backends : ppc'[q] = "ReadObject" =>
          /\ table'[Key(q)'] # NoEntry
          /\ mem'[table'[Key(q)'].object] = slot'[q].text
    BY <1>1, <1>3, <1>4, <1>5, <1>10 DEF RefsSound, Entries
  <2> QED
    BY <2>1, <2>2, <2>3, Zenon DEF RefsSound
<1>12. BodiesOwned' /\ ObjectsOwned'
  BY <1>1, <1>3, <1>4, <1>5 DEF BodiesOwned, ObjectsOwned
<1>13. ASSUME NEW d \in Ptrs
       PROVE  /\ d = o => Count(d)' = Count(d) + 1
              /\ d # o => Count(d)' = Count(d)
  <2>1. Reading(d)' = Reading(d)
    <3>1. \A q \in Backends : q \in Reading(d)' <=> q \in Reading(d)
      <4>1. \A l \in Entries : table[l] # NoEntry /\ table'[l] # NoEntry
        BY <1>3, Zenon DEF Entries
      <4>2. \A q \in Backends : ppc'[q] = "ReadObject" <=> ppc[q] = "ReadObject"
        BY <1>1, <1>4, Zenon
      <4> QED
        BY <1>3, <1>5, <1>10, <4>1, <4>2, Zenon DEF Reading
    <3>2. Reading(d)' \subseteq Backends /\ Reading(d) \subseteq Backends
      BY Zenon DEF Reading
    <3> QED
      BY <3>1, <3>2, Zenon
  <2>2. CASE d = o
    <3>1. Filling(d)' = Filling(d) \cup {p} /\ p \notin Filling(d)
      BY <1>1, <1>4, <2>2, Zenon DEF Filling
    <3>2. IsFiniteSet(Filling(d)) /\ Cardinality(Filling(d)) \in Nat
          /\ Cardinality(Queued(d)) \in Nat /\ Cardinality(Reading(d)) \in Nat
      BY <1>L, KindsFinite, Zenon
    <3>3. Cardinality(Filling(d)') = Cardinality(Filling(d)) + 1
      BY <1>L, <3>1, <3>2, OneMore, Zenon
    <3> QED
      BY <1>6, <2>1, <2>2, <3>2, <3>3 DEF Count
  <2>3. CASE d # o
    <3>1. Filling(d)' = Filling(d)
      BY <1>1, <1>4, <2>3, Zenon DEF Filling
    <3> QED
      BY <1>6, <2>1, <2>3, <3>1, Zenon DEF Count
  <2> QED
    BY <2>2, <2>3, Zenon
<1>14. Counted'
  <2> SUFFICES ASSUME NEW l \in Entries
               PROVE  table'[l].refcount = Count(table[l].object)'
    BY <1>3, Zenon DEF Counted
  <2>1. PICK d \in Ptrs : d = table[l].object
    BY Zenon DEF TypeOK, Entries
  <2>2. d = o <=> l = k
    BY <1>2, <2>1, Zenon DEF EntriesSound
  <2>3. Count(table[l].object)' = Count(d)'
    BY <1>3, <2>1, Zenon DEF Count, Queued, Filling, Reading
  <2> QED
    BY <1>3, <1>13, <2>1, <2>2, <2>3, Zenon DEF Counted
<1> QED
  BY <1>6, <1>7, <1>8, <1>9, <1>11, <1>12, <1>14, Zenon

(* The object that lost the race is freed.                                 *)
LEMMA FreeLoserKeeps ==
  ASSUME IInv, UNCHANGED caller, NEW p \in Backends, FreeLoser(p)
  PROVE  IInv'
<1> USE InternAssumption DEF IInv, Goto, consumer
<1>0. ppc \in [Backends -> PPlaces] /\ new_dp \in [Backends -> Ptrs \cup {NoPtr}]
      /\ mem \in [Ptrs -> Texts \cup {Free, ErrBody}]
  BY Zenon DEF TypeOK, PPlaces
<1>1. PICK n \in Ptrs : n = new_dp[p] /\ ppc[p] = "FreeLoser"
  BY <1>0, Zenon DEF FreeLoser, ProducerPlaces
<1>2. /\ UNCHANGED <<table, queue, oom, slot, cpc, got, freed_dp>>
      /\ mem' = [mem EXCEPT ![n] = Free]
      /\ new_dp' = [new_dp EXCEPT ![p] = NoPtr]
      /\ ppc' = [ppc EXCEPT ![p] = "Publish"]
  BY <1>1, Zenon DEF FreeLoser, FreePtr
<1>3. /\ mem[n] \in Texts /\ mem'[n] = Free /\ \A e \in Ptrs : e # n => mem'[e] = mem[e]
      /\ new_dp'[p] = NoPtr /\ ppc'[p] = "Publish"
      /\ \A q \in Backends : q # p => new_dp'[q] = new_dp[q] /\ ppc'[q] = ppc[q]
  BY <1>0, <1>1, <1>2, Zenon DEF ProducerPlaces
<1>4. Entries' = Entries /\ Referencing' = Referencing /\ Carrying' = Carrying
  BY <1>2, Zenon DEF Entries, Referencing, Carrying
<1>5. TypeOK'
  <2>1. new_dp' \in [Backends -> Ptrs \cup {NoPtr}]
    BY <1>0, <1>2, Zenon
  <2>2. ppc' \in [Backends -> PPlaces]
    BY <1>0, <1>2, Zenon DEF PPlaces
  <2>3. mem' \in [Ptrs -> Texts \cup {Free, ErrBody}]
    BY <1>0, <1>2, Zenon
  <2> QED
    BY <1>2, <2>1, <2>2, <2>3, Zenon DEF TypeOK, PPlaces
<1>6. \A q \in Backends : q # p => new_dp[q] # n
  BY <1>1, Zenon DEF ObjectsOwned
<1>7. ProducerPlaces'
  BY <1>0, <1>1, <1>2, <1>3, <1>6 DEF ProducerPlaces
<1>8. ConsumerPlaces'
  BY <1>2, Zenon DEF ConsumerPlaces
<1>9. EntriesSound' /\ RefsSound' /\ Counted'
  <2>1. \A k \in Entries : table[k].object \in Ptrs /\ table[k].object # n
    BY <1>1, Zenon DEF TypeOK, Entries, ObjectsOwned
  <2>2. \A k \in Entries : mem'[table[k].object] = mem[table[k].object]
    BY <1>3, <2>1, Zenon
  <2>3. \A q \in Backends : ppc'[q] = "ReadObject" <=> ppc[q] = "ReadObject"
    BY <1>1, <1>3, Zenon
  <2> QED
    BY <1>2, <1>4, <2>2, <2>3, RefsUntouched, Zenon
<1>10. BodiesOwned'
  <2>1. \A i \in Carrying : queue[i].err \in Ptrs \cup {NoPtr}
    BY QueueTyped, Zenon
  <2>2. \A q \in Backends : slot[q].err \in Ptrs \cup {NoPtr}
    BY Zenon DEF TypeOK, Slots
  <2>3. \A e \in Ptrs : mem'[e] = ErrBody <=> mem[e] = ErrBody
    BY <1>3, Zenon
  <2> QED
    BY <1>2, <1>4, <2>1, <2>2, <2>3, Zenon DEF BodiesOwned
<1>11. ObjectsOwned'
  <2>1. freed_dp \in Ptrs \cup {NoPtr} /\ freed_dp # n
    BY <1>1, Zenon DEF TypeOK, ObjectsOwned
  <2>2. freed_dp # NoPtr => mem'[freed_dp] \in Texts
    BY <1>3, <2>1, Zenon DEF ObjectsOwned
  <2>3. ASSUME NEW e \in Ptrs, mem'[e] \in Texts
        PROVE  \/ \E q \in Backends : new_dp'[q] = e
               \/ \E k \in Entries : table[k].object = e
               \/ freed_dp = e
    <3>1. e # n /\ mem[e] \in Texts
      BY <1>3, <2>3, Zenon
    <3> QED
      BY <1>1, <1>3, <3>1 DEF ObjectsOwned
  <2>4. \A q, r \in Backends : new_dp'[q] = new_dp'[r] => q = r \/ new_dp'[q] = NoPtr
    BY <1>3 DEF ObjectsOwned
  <2>5. \A q \in Backends : new_dp'[q] # NoPtr => new_dp'[q] # freed_dp
    BY <1>3, Zenon DEF ObjectsOwned
  <2>6. \A q \in Backends, k \in Entries : table[k].object # new_dp'[q]
    BY <1>3 DEF ObjectsOwned, TypeOK, Entries
  <2> QED
    BY <1>2, <1>4, <2>2, <2>3, <2>4, <2>5, <2>6, Zenon DEF ObjectsOwned
<1> QED
  BY <1>5, <1>7, <1>8, <1>9, <1>10, <1>11, Zenon

(* What Append makes of a sequence.                                        *)
LEMMA Appended ==
  ASSUME NEW S, NEW s \in Seq(S), NEW e \in S
  PROVE  /\ Append(s, e) \in Seq(S) /\ Len(Append(s, e)) = Len(s) + 1
         /\ \A i \in 1..Len(s) : Append(s, e)[i] = s[i]
         /\ Append(s, e)[Len(s) + 1] = e
OBVIOUS

(* The slot is published with its references.                              *)
LEMMA PublishKeeps ==
  ASSUME IInv, UNCHANGED caller, NEW p \in Backends, Publish(p)
  PROVE  CardinalityLaws => IInv'
<1>L. SUFFICES ASSUME CardinalityLaws PROVE IInv'
  BY Zenon
<1> USE InternAssumption DEF IInv, Goto, consumer
<1>0. ppc \in [Backends -> PPlaces] /\ slot \in [Backends -> Slots] /\ queue \in Seq(Slots)
  BY Zenon DEF TypeOK, PPlaces
<1>1. PICK s \in Slots, n \in Nat : s = slot[p] /\ n = Len(queue)
  BY <1>0
<1>2. /\ ppc[p] = "Publish" /\ UNCHANGED <<mem, table, oom, new_dp, cpc, got, freed_dp>>
      /\ queue' = Append(queue, s)
      /\ slot' = [slot EXCEPT ![p] = EmptySlot]
      /\ ppc' = [ppc EXCEPT ![p] = "Idle"]
  BY <1>1, Zenon DEF Publish
<1>3. /\ \A q \in Backends : q # p => slot'[q] = slot[q] /\ ppc'[q] = ppc[q]
      /\ slot'[p].ref = NoPtr /\ slot'[p].err = NoPtr /\ ppc'[p] = "Idle"
  BY <1>0, <1>2, Zenon DEF EmptySlot
<1>4. /\ Len(queue') = n + 1 /\ queue'[n + 1] = s
      /\ \A i \in 1..n : queue'[i] = queue[i]
      /\ queue' \in Seq(Slots)
  BY <1>0, <1>1, <1>2, Appended
<1>5. 1..(n + 1) = (1..n) \cup {n + 1} /\ n + 1 \notin 1..n /\ (n + 1 = 1 => cpc = "Idle")
  BY <1>1 DEF ConsumerPlaces
<1>6. /\ Referencing' = Referencing \cup {n + 1} /\ n + 1 \notin Referencing
      /\ Carrying' = Carrying \cup {n + 1}
      /\ \A i \in Referencing : i \in 1..n
      /\ \A i \in Carrying : i \in 1..n
  BY <1>1, <1>2, <1>4, <1>5, Zenon DEF Referencing, Carrying
<1>7. Entries' = Entries
  BY <1>2, Zenon DEF Entries
<1>8. TypeOK'
  <2>1. slot' \in [Backends -> Slots]
    BY <1>0, <1>2, Zenon DEF Slots, EmptySlot
  <2>2. ppc' \in [Backends -> PPlaces]
    BY <1>0, <1>2, Zenon DEF PPlaces
  <2> QED
    BY <1>2, <1>4, <2>1, <2>2, Zenon DEF TypeOK, PPlaces
<1>9. ProducerPlaces'
  BY <1>2, <1>3 DEF ProducerPlaces
<1>10. ConsumerPlaces'
  <2>1. n > 0 => queue'[1] = queue[1]
    BY <1>1, <1>4
  <2> QED
    BY <1>1, <1>2, <1>4, <2>1 DEF ConsumerPlaces
<1>11. EntriesSound'
  BY <1>2, <1>7, Zenon DEF EntriesSound
<1>12. RefsSound'
  <2>1. \A d, t : InternedAs(d, t)' <=> InternedAs(d, t)
    BY <1>2, Zenon DEF InternedAs
  <2>2. \A i \in Referencing' : queue'[i].ref # NoPtr => InternedAs(queue[i].ref, queue[i].text)'
    <3>1. ASSUME NEW i \in Referencing, queue'[i].ref # NoPtr
          PROVE  InternedAs(queue[i].ref, queue[i].text)'
      <4>1. queue'[i] = queue[i]
        BY <1>4, <1>6, Zenon
      <4>2. InternedAs(queue[i].ref, queue[i].text)
        BY <3>1, <4>1, Zenon DEF RefsSound
      <4> QED
        BY <1>2, <4>1, <4>2, Zenon DEF InternedAs
    <3>2. s.ref # NoPtr => InternedAs(s.ref, s.text)
      BY <1>1, Zenon DEF RefsSound
    <3>3. queue'[n + 1].ref # NoPtr => InternedAs(queue[n + 1].ref, queue[n + 1].text)'
      BY <1>2, <1>4, <3>2, Zenon DEF InternedAs
    <3> QED
      BY <1>6, <3>1, <3>3, Zenon
  <2>3. \A q \in Backends : slot'[q].ref # NoPtr => InternedAs(slot[q].ref, slot[q].text)'
    BY <1>2, <1>3 DEF RefsSound, InternedAs
  <2>4. \A q \in Backends : ppc'[q] = "ReadObject" =>
          /\ table'[Key(q)'] # NoEntry
          /\ mem'[table'[Key(q)'].object] = slot'[q].text
    <3> SUFFICES ASSUME NEW q \in Backends, ppc'[q] = "ReadObject"
                 PROVE  /\ table'[Key(q)'] # NoEntry
                        /\ mem'[table'[Key(q)'].object] = slot'[q].text
      BY Zenon
    <3>1. slot'[q] = slot[q] /\ ppc[q] = "ReadObject"
      BY <1>3, Zenon
    <3>2. Key(q)' = Key(q)
      BY <3>1, Zenon DEF Key
    <3>3. mem' = mem /\ table' = table
      BY <1>2, Zenon
    <3> QED
      BY <3>1, <3>2, <3>3, Zenon DEF RefsSound
  <2> QED
    BY <2>2, <2>3, <2>4, Zenon DEF RefsSound
<1>13. BodiesOwned'
  <2>1. /\ \A i \in Carrying : queue'[i] = queue[i]
        /\ queue'[n + 1].err = slot[p].err
        /\ \A q \in Backends \ {p} : slot'[q].err = slot[q].err
    BY <1>1, <1>3, <1>4, <1>6, Zenon
  <2>2. \A i \in Carrying' : queue'[i].err # NoPtr => mem'[queue'[i].err] = ErrBody
    <3>0. mem' = mem
      BY <1>2, Zenon
    <3>1. \A i \in Carrying : queue[i].err # NoPtr => mem'[queue[i].err] = ErrBody
      BY <3>0, Zenon DEF BodiesOwned
    <3>2. slot[p].err # NoPtr => mem'[slot[p].err] = ErrBody
      BY <3>0, Zenon DEF BodiesOwned
    <3> QED
      BY <1>6, <2>1, <3>1, <3>2, Zenon
  <2>3. \A q \in Backends : slot'[q].err # NoPtr => mem'[slot'[q].err] = ErrBody
    BY <1>2, <1>3, <2>1 DEF BodiesOwned
  <2>4. \A i, j \in Carrying' : queue'[i].err = queue'[j].err => i = j \/ queue'[i].err = NoPtr
    BY <1>6, <2>1 DEF BodiesOwned
  <2>5. \A q, r \in Backends : slot'[q].err = slot'[r].err => q = r \/ slot'[q].err = NoPtr
    BY <1>3, <2>1 DEF BodiesOwned
  <2>6. \A i \in Carrying', q \in Backends : queue'[i].err = slot'[q].err => slot'[q].err = NoPtr
    BY <1>3, <1>6, <2>1 DEF BodiesOwned
  <2>7. ASSUME NEW d \in Ptrs, mem'[d] = ErrBody
        PROVE  \/ \E i \in Carrying' : queue'[i].err = d
               \/ \E q \in Backends : slot'[q].err = d
    <3>1. CASE \E i \in Carrying : queue[i].err = d
      BY <1>6, <2>1, <3>1, Zenon
    <3>2. CASE \E q \in Backends : slot[q].err = d
      BY <1>6, <2>1, <3>2, Zenon
    <3> QED
      BY <1>2, <2>7, <3>1, <3>2, Zenon DEF BodiesOwned
  <2> QED
    BY <2>2, <2>3, <2>4, <2>5, <2>6, <2>7, Zenon DEF BodiesOwned
<1>14. ObjectsOwned'
  BY <1>2, <1>7, Zenon DEF ObjectsOwned
<1>15. ASSUME NEW d \in Ptrs PROVE Count(d)' = Count(d)
  <2>1. Reading(d)' = Reading(d)
    BY <1>2, <1>3, Zenon DEF Reading, Key
  <2>2. CASE d = s.ref
    <3>1. Filling(d)' = Filling(d) \ {p} /\ p \in Filling(d)
      BY <1>1, <1>3, <2>2, Zenon DEF Filling
    <3>2. Queued(d)' = Queued(d) \cup {n + 1} /\ n + 1 \notin Queued(d)
      BY <1>4, <1>6, <2>2, Zenon DEF Queued
    <3>3. /\ IsFiniteSet(Queued(d)) /\ Cardinality(Queued(d)) \in Nat
          /\ IsFiniteSet(Filling(d)) /\ Cardinality(Filling(d)) \in Nat
          /\ Cardinality(Reading(d)) \in Nat
      BY <1>L, KindsFinite, Zenon
    <3>4. Cardinality(Filling(d)') = Cardinality(Filling(d)) - 1
      BY <1>L, <3>1, <3>3, OneLess, Zenon
    <3>5. Cardinality(Queued(d)') = Cardinality(Queued(d)) + 1
      BY <1>L, <3>2, <3>3, OneMore, Zenon
    <3> QED
      BY <2>1, <3>3, <3>4, <3>5 DEF Count
  <2>3. CASE d # s.ref
    <3>1. Filling(d)' = Filling(d)
      BY <1>1, <1>3, <2>3, Zenon DEF Filling
    <3>2. Queued(d)' = Queued(d)
      BY <1>4, <1>6, <2>3, Zenon DEF Queued
    <3> QED
      BY <2>1, <3>1, <3>2, Zenon DEF Count
  <2> QED
    BY <2>2, <2>3, Zenon
<1>16. Counted'
  <2> SUFFICES ASSUME NEW l \in Entries
               PROVE  table'[l].refcount = Count(table[l].object)'
    BY <1>7, Zenon DEF Counted
  <2>1. PICK d \in Ptrs : d = table[l].object
    BY Zenon DEF TypeOK, Entries
  <2>2. Count(table[l].object)' = Count(d)'
    BY <1>2, <2>1, Zenon DEF Count, Queued, Filling, Reading
  <2> QED
    BY <1>2, <1>15, <2>1, <2>2, Zenon DEF Counted
<1> QED
  BY <1>8, <1>9, <1>10, <1>11, <1>12, <1>13, <1>14, <1>16, Zenon

-----------------------------------------------------------------------------
(* The consumer's steps.                                                   *)

CPlaces == {"Idle", "ResolveErr", "ResolveText", "Release", "FreeObject", "Advance"}

(* The consumer finds a slot.                                              *)
LEMMA DequeueStartKeeps ==
  ASSUME IInv, UNCHANGED caller, DequeueStart
  PROVE  IInv'
<1> USE InternAssumption DEF IInv, producer
<1>1. /\ cpc = "Idle" /\ cpc' = "ResolveErr" /\ queue # <<>>
      /\ UNCHANGED <<mem, table, queue, oom, ppc, slot, new_dp, got, freed_dp>>
  BY Zenon DEF DequeueStart
<1>2. Entries' = Entries /\ Referencing' = Referencing /\ Carrying' = Carrying
  BY <1>1, Zenon DEF Entries, Referencing, Carrying
<1>3. TypeOK'
  BY <1>1, Zenon DEF TypeOK
<1>4. ProducerPlaces'
  BY <1>1, Zenon DEF ProducerPlaces
<1>5. ConsumerPlaces'
  <2>1. Len(queue) > 0
    <3>1. queue \in Seq(Slots)
      BY Zenon DEF TypeOK
    <3> QED
      BY <1>1, <3>1
  <2> QED
    BY <1>1, <2>1, Zenon DEF ConsumerPlaces
<1>6. EntriesSound' /\ RefsSound' /\ Counted'
  BY <1>1, <1>2, RefsUntouched, Zenon
<1>7. BodiesOwned' /\ ObjectsOwned'
  BY <1>1, <1>2, Zenon DEF BodiesOwned, ObjectsOwned
<1> QED
  BY <1>3, <1>4, <1>5, <1>6, <1>7, Zenon

(* The error body is copied and freed.                                     *)
LEMMA ResolveErrKeeps ==
  ASSUME IInv, UNCHANGED caller, ResolveErr
  PROVE  IInv'
<1> USE InternAssumption DEF IInv, producer
<1>0. mem \in [Ptrs -> Texts \cup {Free, ErrBody}] /\ queue \in Seq(Slots)
  BY Zenon DEF TypeOK
<1>1. /\ cpc = "ResolveErr" /\ cpc' = "ResolveText"
      /\ UNCHANGED <<table, queue, oom, ppc, slot, new_dp, got, freed_dp>>
  BY Zenon DEF ResolveErr
<1>2. /\ Len(queue) \in Nat \ {0} /\ Head(queue) = queue[1] /\ queue[1].err \in Ptrs \cup {NoPtr}
  <2>1. Len(queue) \in Nat \ {0}
    BY <1>1, QueueTyped DEF ConsumerPlaces
  <2> QED
    BY <1>0, <2>1, QueueTyped
<1>3. /\ Entries' = Entries /\ Referencing' = Referencing
      /\ Carrying = 1..Len(queue) /\ Carrying' = Carrying \ {1} /\ 1 \in Carrying
  BY <1>1, <1>2 DEF Entries, Referencing, Carrying
<1>4. PICK e \in Ptrs \cup {NoPtr} :
        /\ e = queue[1].err
        /\ \A d \in Ptrs : d # e => mem'[d] = mem[d]
        /\ e # NoPtr => mem[e] = ErrBody /\ mem'[e] = Free
        /\ mem' \in [Ptrs -> Texts \cup {Free, ErrBody}]
  <2>1. CASE queue[1].err # NoPtr /\ FreePtr(queue[1].err)
    BY <1>0, <1>2, <1>3, <2>1, Zenon DEF FreePtr, BodiesOwned
  <2>2. CASE queue[1].err = NoPtr /\ UNCHANGED mem
    BY <1>0, <1>2, <2>2, Zenon
  <2> QED
    BY <1>2, <2>1, <2>2, Zenon DEF ResolveErr
<1>5. \A d \in Ptrs : mem[d] \in Texts <=> mem'[d] \in Texts
  BY <1>4, Zenon
<1>6. \A d \in Ptrs : mem[d] \in Texts => mem'[d] = mem[d]
  BY <1>4, Zenon
<1>7. TypeOK'
  BY <1>1, <1>4, Zenon DEF TypeOK
<1>8. ProducerPlaces'
  <2>1. \A q \in Backends : new_dp[q] \in Ptrs \cup {NoPtr}
    BY Zenon DEF TypeOK
  <2> QED
    BY <1>1, <1>6, <2>1, Zenon DEF ProducerPlaces
<1>9. ConsumerPlaces'
  BY <1>1, Zenon DEF ConsumerPlaces
<1>10. EntriesSound' /\ RefsSound' /\ Counted'
  <2>1. \A k \in Entries : mem'[table[k].object] = mem[table[k].object]
    BY <1>6 DEF EntriesSound, TypeOK, Entries
  <2> QED
    BY <1>1, <1>3, <2>1, RefsUntouched, Zenon
<1>11. BodiesOwned'
  <2>1. \A i \in Carrying \ {1} : queue[i].err # NoPtr => queue[i].err # e
    BY <1>3, <1>4, Zenon DEF BodiesOwned
  <2>2. \A q \in Backends : slot[q].err # NoPtr => slot[q].err # e
    BY <1>3, <1>4, Zenon DEF BodiesOwned
  <2>3. \A i \in Carrying \ {1} : queue[i].err # NoPtr => mem'[queue[i].err] = ErrBody
    BY <1>3, <1>4, <2>1, QueueTyped DEF BodiesOwned
  <2>4. \A q \in Backends : slot[q].err # NoPtr => mem'[slot[q].err] = ErrBody
    BY <1>4, <2>2, Zenon DEF BodiesOwned, TypeOK, Slots
  <2>5. ASSUME NEW d \in Ptrs, mem'[d] = ErrBody
        PROVE  \/ \E i \in Carrying \ {1} : queue[i].err = d
               \/ \E q \in Backends : slot[q].err = d
    <3>1. d # e /\ mem[d] = ErrBody
      BY <1>4, <2>5, Zenon
    <3> QED
      BY <1>4, <3>1, Zenon DEF BodiesOwned
  <2>6. \A i, j \in Carrying \ {1} : queue[i].err = queue[j].err => i = j \/ queue[i].err = NoPtr
    BY Zenon DEF BodiesOwned
  <2>7. \A i \in Carrying \ {1}, q \in Backends : queue[i].err = slot[q].err => slot[q].err = NoPtr
    BY Zenon DEF BodiesOwned
  <2>8. \A q, b \in Backends : slot[q].err = slot[b].err => q = b \/ slot[q].err = NoPtr
    BY Zenon DEF BodiesOwned
  <2>9. queue' = queue /\ slot' = slot /\ Carrying' = Carrying \ {1}
    BY <1>1, <1>3, Zenon
  <2> HIDE DEF IInv
  <2> QED
    BY <2>3, <2>4, <2>5, <2>6, <2>7, <2>8, <2>9 DEF BodiesOwned
<1>12. ObjectsOwned'
  <2>1. freed_dp \in Ptrs \cup {NoPtr}
    BY Zenon DEF TypeOK
  <2> QED
    BY <1>1, <1>3, <1>5, <2>1, Zenon DEF ObjectsOwned
<1> QED
  BY <1>7, <1>8, <1>9, <1>10, <1>11, <1>12, Zenon

(* The query text is copied.                                               *)
LEMMA ResolveTextKeeps ==
  ASSUME IInv, UNCHANGED caller, ResolveText
  PROVE  IInv'
<1> USE InternAssumption DEF IInv, producer
<1>0. queue \in Seq(Slots) /\ Len(queue) \in Nat \ {0}
  BY QueueTyped DEF ResolveText, ConsumerPlaces, TypeOK
<1>1. PICK r \in Ptrs \cup {NoPtr} : r = queue[1].ref /\ r = ref
  BY <1>0, QueueTyped DEF ref
<1>2. /\ cpc = "ResolveText" /\ cpc' = IF r = NoPtr THEN "Advance" ELSE "Release"
      /\ got' = IF r = NoPtr THEN NoText ELSE mem[r]
      /\ UNCHANGED <<mem, table, queue, oom, ppc, slot, new_dp, freed_dp>>
  BY <1>1, Zenon DEF ResolveText
<1>3. Entries' = Entries /\ Carrying' = Carrying /\ 1 \in Referencing
  BY <1>0, <1>2 DEF Entries, Carrying, Referencing
<1>4. /\ r # NoPtr => Referencing' = Referencing
      /\ r = NoPtr => Referencing' = Referencing \ {1}
  BY <1>0, <1>2, Zenon DEF Referencing
<1>5. r # NoPtr => mem[r] = queue[1].text
  BY <1>1, <1>3, Zenon DEF RefsSound, InternedAs
<1>6. TypeOK'
  <2>1. got' \in Texts \cup {NoText}
    BY <1>0, <1>2, <1>5, QueueTyped
  <2> QED
    BY <1>2, <2>1, Zenon DEF TypeOK
<1>7. ProducerPlaces'
  BY <1>2, Zenon DEF ProducerPlaces
<1>8. ConsumerPlaces'
  BY <1>0, <1>1, <1>2, <1>5, Zenon DEF ConsumerPlaces
<1>9. EntriesSound'
  BY <1>2, <1>3, Zenon DEF EntriesSound
<1>10. RefsSound'
  <2>1. UNCHANGED <<mem, table, queue, ppc, slot>> /\ Referencing' \subseteq Referencing
    BY <1>2, <1>4, Zenon
  <2>2. /\ \A d, t : InternedAs(d, t)' <=> InternedAs(d, t)
        /\ \A q \in Backends : Key(q)' = Key(q)
    BY <2>1, Zenon DEF InternedAs, Key
  <2>3. RefsSound
    BY Zenon
  <2> HIDE DEF IInv
  <2> QED
    BY <2>1, <2>2, <2>3, Zenon DEF RefsSound
<1>11. BodiesOwned' /\ ObjectsOwned'
  <2>1. UNCHANGED <<mem, table, queue, slot, new_dp, freed_dp>>
    BY <1>2, Zenon
  <2>2. BodiesOwned'
    BY <1>3, <2>1, Zenon DEF BodiesOwned
  <2>3. ObjectsOwned'
    BY <1>3, <2>1, Zenon DEF ObjectsOwned
  <2> QED
    BY <2>2, <2>3, Zenon
<1>12. Counted'
  <2>1. \A d \in Ptrs : Queued(d)' = Queued(d)
    BY <1>1, <1>2, <1>4, Zenon DEF Queued
  <2>2. \A d : Filling(d)' = Filling(d) /\ Reading(d)' = Reading(d)
    BY <1>2, Zenon DEF Filling, Reading, Key
  <2>3. \A k \in Entries : table[k].object \in Ptrs
    BY Zenon DEF TypeOK, Entries
  <2> QED
    BY <1>2, <1>3, <2>1, <2>2, <2>3, Zenon DEF Counted, Count
<1> QED
  BY <1>6, <1>7, <1>8, <1>9, <1>10, <1>11, <1>12, Zenon

(* ReleaseRef finds the entry of the text it is about to drop; if the      *)
(* count is one, the dequeued slot was its only holder.                    *)
LEMMA ReleaseKeeps ==
  ASSUME IInv, UNCHANGED caller, Release
  PROVE  CardinalityLaws => IInv'
<1>L. SUFFICES ASSUME CardinalityLaws PROVE IInv'
  BY Zenon
<1> USE InternAssumption DEF IInv, producer
<1>0. /\ cpc = "Release" /\ UNCHANGED <<mem, queue, oom, ppc, slot, new_dp, got>>
      /\ table \in [Keys -> [object : Ptrs, refcount : Nat \ {0}] \cup {NoEntry}]
  BY Zenon DEF Release, TypeOK
<1>1. Len(queue) \in Nat \ {0} /\ 1 \in Referencing
  BY <1>0, QueueTyped DEF ConsumerPlaces, Referencing
<1>2. PICK r \in Ptrs, k \in Entries :
        /\ r = queue[1].ref /\ r = ref /\ mem[r] \in Texts /\ k = KeyOf[mem[r]]
        /\ table[k] # NoEntry /\ table[k].object = r
  <2>1. queue[1].ref \in Ptrs /\ queue[1].ref = ref
    BY <1>0, <1>1, QueueTyped DEF ConsumerPlaces, ref, TypeOK
  <2>2. InternedAs(queue[1].ref, queue[1].text)
    BY <1>1, <2>1, Zenon DEF RefsSound
  <2>3. PICK r \in Ptrs, t \in Texts :
          /\ r = queue[1].ref /\ r = ref /\ t = mem[r]
          /\ table[KeyOf[t]] # NoEntry /\ table[KeyOf[t]].object = r
    BY <2>1, <2>2, Zenon DEF InternedAs
  <2>4. KeyOf[t] \in Entries
    BY <2>3, Zenon DEF Keys, Entries
  <2> QED
    BY <2>3, <2>4, Zenon
<1>3. k \in Keys /\ table[k] \in [object : Ptrs, refcount : Nat \ {0}]
  BY <1>0, <1>2, Zenon DEF Entries
<1>4. Referencing = 1..Len(queue) /\ Carrying' = Carrying
  BY <1>0, Zenon DEF Referencing, Carrying, Release
<1>5. ProducerPlaces'
  BY <1>0, Zenon DEF ProducerPlaces
<1>6. Queued(r) \ {1} = {i \in Referencing \ {1} : queue[i].ref = r} /\ 1 \in Queued(r)
      /\ IsFiniteSet(Queued(r)) /\ Cardinality(Queued(r)) \in Nat
      /\ Cardinality(Filling(r)) \in Nat /\ Cardinality(Reading(r)) \in Nat
  BY <1>L, <1>1, <1>2, KindsFinite, Zenon DEF Queued
<1>7. Cardinality(Queued(r) \ {1}) = Cardinality(Queued(r)) - 1
  BY <1>L, <1>6, OneLess, Zenon
<1>8. table[k].refcount = Cardinality(Queued(r)) + Cardinality(Filling(r))
                            + Cardinality(Reading(r))
  BY <1>2, Zenon DEF Counted, Count
<1>9. \A q \in Backends : ppc[q] = "ReadObject" => Key(q) \in Entries
  BY Zenon DEF RefsSound, Entries, ProducerPlaces, Key, Keys
<1>10. CASE table[k].refcount = 1
  <2>1. /\ table' = [table EXCEPT ![k] = NoEntry]
        /\ freed_dp' = r /\ cpc' = "FreeObject"
    BY <1>2, <1>10, Zenon DEF Release
  <2>2. Queued(r) \ {1} = {} /\ Filling(r) = {} /\ Reading(r) = {}
    <3>1. IsFiniteSet(Queued(r) \ {1}) /\ IsFiniteSet(Filling(r)) /\ IsFiniteSet(Reading(r))
          /\ Cardinality(Queued(r) \ {1}) \in Nat
      <4>1. IsFiniteSet(Queued(r)) /\ IsFiniteSet(Filling(r)) /\ IsFiniteSet(Reading(r))
        BY <1>L, KindsFinite, Zenon
      <4>2. Queued(r) \ {1} \in SUBSET Queued(r)
        BY Zenon
      <4> QED
        BY <1>L, <4>1, <4>2, Zenon DEF CardinalityLaws
    <3>2. Cardinality(Queued(r) \ {1}) = 0 /\ Cardinality(Filling(r)) = 0
          /\ Cardinality(Reading(r)) = 0
      BY <1>6, <1>7, <1>8, <1>10, <3>1
    <3> QED
      BY <1>L, <3>1, <3>2, Zenon DEF CardinalityLaws
  <2>3. /\ Entries' = Entries \ {k} /\ \A l \in Entries \ {k} : table'[l] = table[l]
        /\ Referencing' = Referencing \ {1}
    BY <1>0, <1>1, <1>3, <2>1, Zenon DEF Entries, Referencing
  <2>4. \A l \in Entries \ {k} : table[l].object # r /\ table[l].object \in Ptrs
    BY <1>0, <1>2, Zenon DEF EntriesSound, Entries
  <2>5. TypeOK'
    <3>1. table' \in [Keys -> [object : Ptrs, refcount : Nat \ {0}] \cup {NoEntry}]
      BY <1>0, <1>3, <2>1, Zenon
    <3> QED
      BY <1>0, <2>1, <3>1, Zenon DEF TypeOK
  <2>6. ConsumerPlaces'
    BY <1>0, <2>1, Zenon DEF ConsumerPlaces
  <2>7. EntriesSound'
    BY <1>0, <2>3, Zenon DEF EntriesSound
  <2>8. \A d, t : InternedAs(d, t) /\ d # r => InternedAs(d, t)'
    <3> SUFFICES ASSUME NEW d, NEW t, InternedAs(d, t), d # r PROVE InternedAs(d, t)'
      BY Zenon
    <3>1. KeyOf[t] \in Entries \ {k}
      BY <1>2, Zenon DEF InternedAs, Keys, Entries
    <3> QED
      BY <1>0, <2>3, <3>1, Zenon DEF InternedAs
  <2>9. \A q \in Backends : ppc[q] = "ReadObject" => Key(q) \in Entries \ {k}
    BY <1>2, <1>9, <2>2, Zenon DEF Reading, Entries
  <2>10. RefsSound'
    <3>1. \A i \in Referencing' : queue'[i].ref # NoPtr => InternedAs(queue[i].ref, queue[i].text)'
      <4> SUFFICES ASSUME NEW i \in Referencing \ {1}, queue[i].ref # NoPtr
                   PROVE  InternedAs(queue[i].ref, queue[i].text)'
        BY <1>0, <2>3, Zenon
      <4>1. InternedAs(queue[i].ref, queue[i].text) /\ queue[i].ref # r
        BY <1>6, <2>2, Zenon DEF RefsSound
      <4> QED
        BY <1>0, <2>8, <4>1, Zenon
    <3>2. \A q \in Backends : slot'[q].ref # NoPtr => InternedAs(slot[q].ref, slot[q].text)'
      <4> SUFFICES ASSUME NEW q \in Backends, slot[q].ref # NoPtr
                   PROVE  InternedAs(slot[q].ref, slot[q].text)'
        BY <1>0, Zenon
      <4>1. InternedAs(slot[q].ref, slot[q].text) /\ slot[q].ref # r
        BY <2>2, Zenon DEF RefsSound, Filling
      <4> QED
        BY <1>0, <2>8, <4>1, Zenon
    <3>3. \A q \in Backends : ppc'[q] = "ReadObject" =>
            /\ table'[Key(q)'] # NoEntry
            /\ mem'[table'[Key(q)'].object] = slot'[q].text
      <4> SUFFICES ASSUME NEW q \in Backends, ppc'[q] = "ReadObject"
                   PROVE  /\ table'[Key(q)'] # NoEntry
                          /\ mem'[table'[Key(q)'].object] = slot'[q].text
        BY Zenon
      <4>1. Key(q)' = Key(q) /\ ppc[q] = "ReadObject" /\ slot' = slot /\ mem' = mem
        BY <1>0, Zenon DEF Key
      <4>2. table'[Key(q)] = table[Key(q)]
        BY <2>3, <2>9, <4>1, Zenon
      <4>3. table[Key(q)] # NoEntry /\ mem[table[Key(q)].object] = slot[q].text
        BY <4>1, Zenon DEF RefsSound
      <4> QED
        BY <4>1, <4>2, <4>3, Zenon
    <3> QED
      BY <3>1, <3>2, <3>3, Zenon DEF RefsSound
  <2>11. BodiesOwned'
    BY <1>0, <1>4, Zenon DEF BodiesOwned
  <2>12. ObjectsOwned'
    <3>1. freed_dp = NoPtr
      BY <1>0, Zenon DEF ConsumerPlaces
    <3>2. \A q \in Backends : new_dp[q] # r
      BY <1>2 DEF ObjectsOwned
    <3>3. \A q \in Backends, l \in Entries' : table'[l].object # new_dp[q]
      BY <2>3, Zenon DEF ObjectsOwned
    <3>4. \A l \in Entries' : table'[l].object # r
      BY <2>3, <2>4, Zenon
    <3>5. ASSUME NEW d \in Ptrs, mem[d] \in Texts
          PROVE  \/ \E q \in Backends : new_dp[q] = d
                 \/ \E l \in Entries' : table'[l].object = d
                 \/ r = d
      BY <1>2, <2>3, <3>1, <3>5, Zenon DEF ObjectsOwned
    <3>6. \A q, b \in Backends : new_dp[q] = new_dp[b] => q = b \/ new_dp[q] = NoPtr
      BY Zenon DEF ObjectsOwned
    <3>7. mem' = mem /\ new_dp' = new_dp /\ freed_dp' = r /\ mem[r] \in Texts
      BY <1>0, <1>2, <2>1, Zenon
    <3> HIDE DEF IInv
    <3> QED
      BY <3>2, <3>3, <3>4, <3>5, <3>6, <3>7, Zenon DEF ObjectsOwned
  <2>13. Counted'
    <3> SUFFICES ASSUME NEW l \in Entries \ {k}
                 PROVE  table'[l].refcount = Count(table[l].object)'
      BY <2>3, Zenon DEF Counted
    <3>1. PICK d \in Ptrs : d = table[l].object /\ d # r
      BY <2>4, Zenon
    <3>2. Queued(d)' = Queued(d)
      BY <1>0, <1>2, <2>3, <3>1, Zenon DEF Queued
    <3>3. Filling(d)' = Filling(d)
      BY <1>0, Zenon DEF Filling
    <3>4. Reading(d)' = Reading(d)
      <4>1. \A q \in Backends : Key(q)' = Key(q)
        BY <1>0, Zenon DEF Key
      <4>2. \A q \in Backends : ppc[q] = "ReadObject" => table'[Key(q)] = table[Key(q)]
        BY <2>3, <2>9, Zenon
      <4> QED
        BY <1>0, <4>1, <4>2, Zenon DEF Reading
    <3>5. Count(d)' = Count(d)
      BY <3>2, <3>3, <3>4, Zenon DEF Count
    <3>6. Count(table[l].object)' = Count(d)'
      BY <2>3, <3>1, Zenon DEF Count, Queued, Filling, Reading
    <3> QED
      BY <2>3, <3>1, <3>5, <3>6, Zenon DEF Counted
  <2> QED
    BY <1>5, <2>5, <2>6, <2>7, <2>10, <2>11, <2>12, <2>13, Zenon
<1>11. CASE table[k].refcount # 1
  <2> DEFINE e == [table[k] EXCEPT !.refcount = @ - 1]
  <2>1. table' = [table EXCEPT ![k] = e] /\ freed_dp' = NoPtr /\ cpc' = "Advance"
    BY <1>2, <1>11, Zenon DEF Release
  <2>2. e \in [object : Ptrs, refcount : Nat \ {0}] /\ e # NoEntry /\ e.object = r
        /\ e.refcount = table[k].refcount - 1
    BY <1>2, <1>3, <1>11
  <2> HIDE DEF e
  <2>3. /\ Entries' = Entries /\ table'[k] = e /\ \A l \in Entries \ {k} : table'[l] = table[l]
        /\ Referencing' = Referencing \ {1}
    BY <1>0, <1>1, <1>2, <1>3, <2>1, <2>2 DEF Entries, Referencing
  <2>4. \A l \in Entries : table'[l].object = table[l].object
    BY <1>2, <2>2, <2>3, Zenon
  <2>5. TypeOK'
    <3>1. table' \in [Keys -> [object : Ptrs, refcount : Nat \ {0}] \cup {NoEntry}]
      BY <1>0, <1>3, <2>1, <2>2, Zenon
    <3> QED
      BY <1>0, <2>1, <3>1, Zenon DEF TypeOK
  <2>6. ConsumerPlaces'
    BY <1>0, <2>1, Zenon DEF ConsumerPlaces
  <2>7. EntriesSound'
    BY <1>0, <2>3, <2>4, Zenon DEF EntriesSound
  <2>8. \A d, t : InternedAs(d, t) => InternedAs(d, t)'
    <3> SUFFICES ASSUME NEW d, NEW t, InternedAs(d, t) PROVE InternedAs(d, t)'
      BY Zenon
    <3>1. KeyOf[t] \in Entries
      BY Zenon DEF InternedAs, Keys, Entries
    <3>2. table'[KeyOf[t]] # NoEntry
      BY <2>3, <3>1, Zenon DEF Entries
    <3> QED
      BY <1>0, <2>4, <3>1, <3>2, Zenon DEF InternedAs
  <2>9. \A q \in Backends : Key(q)' = Key(q)
    BY <1>0, Zenon DEF Key
  <2>10. RefsSound'
    <3>1. \A i \in Referencing' : queue'[i].ref # NoPtr => InternedAs(queue[i].ref, queue[i].text)'
      BY <1>0, <2>3, <2>8, Zenon DEF RefsSound
    <3>2. \A q \in Backends : slot'[q].ref # NoPtr => InternedAs(slot[q].ref, slot[q].text)'
      BY <1>0, <2>8, Zenon DEF RefsSound
    <3>3. \A q \in Backends : ppc'[q] = "ReadObject" =>
            /\ table'[Key(q)'] # NoEntry
            /\ mem'[table'[Key(q)'].object] = slot'[q].text
      <4> SUFFICES ASSUME NEW q \in Backends, ppc'[q] = "ReadObject"
                   PROVE  /\ table'[Key(q)'] # NoEntry
                          /\ mem'[table'[Key(q)'].object] = slot'[q].text
        BY Zenon
      <4>1. Key(q)' = Key(q) /\ ppc[q] = "ReadObject" /\ slot' = slot /\ mem' = mem
        BY <1>0, <2>9, Zenon
      <4>2. Key(q) \in Entries' /\ table'[Key(q)].object = table[Key(q)].object
        BY <1>9, <2>3, <2>4, <4>1, Zenon
      <4>3. mem[table[Key(q)].object] = slot[q].text
        BY <4>1, Zenon DEF RefsSound
      <4> QED
        BY <4>1, <4>2, <4>3, Zenon DEF Entries
    <3> QED
      BY <3>1, <3>2, <3>3, Zenon DEF RefsSound
  <2>11. BodiesOwned'
    BY <1>0, <1>4, Zenon DEF BodiesOwned
  <2>12. ObjectsOwned'
    <3>1. freed_dp = NoPtr
      BY <1>0, Zenon DEF ConsumerPlaces
    <3> QED
      BY <1>0, <2>1, <2>3, <2>4, <3>1 DEF ObjectsOwned
  <2>13. \A d : Filling(d)' = Filling(d) /\ Reading(d)' = Reading(d)
    <3>1. \A q \in Backends : ppc[q] = "ReadObject" =>
            /\ table'[Key(q)] # NoEntry /\ table[Key(q)] # NoEntry
            /\ table'[Key(q)].object = table[Key(q)].object
      BY <1>9, <2>3, <2>4, Zenon DEF Entries
    <3> QED
      BY <1>0, <2>9, <3>1 DEF Filling, Reading
  <2>14. Counted'
    <3> SUFFICES ASSUME NEW l \in Entries
                 PROVE  table'[l].refcount = Count(table[l].object)'
      BY <2>3, Zenon DEF Counted
    <3>1. PICK d \in Ptrs : d = table[l].object
      BY <1>0, Zenon DEF Entries
    <3>2. Count(table[l].object)' = Count(d)'
      BY <2>4, <3>1, Zenon DEF Count, Queued, Filling, Reading
    <3>3. CASE l = k
      <4>1. Queued(d)' = Queued(d) \ {1}
        BY <1>0, <1>1, <1>2, <2>3, <3>1, <3>3, Zenon DEF Queued
      <4>2. Count(d)' = Cardinality(Queued(r)) - 1 + Cardinality(Filling(r))
                          + Cardinality(Reading(r))
        BY <1>2, <1>7, <2>13, <3>1, <3>3, <4>1, Zenon DEF Count
      <4> QED
        BY <1>6, <1>8, <2>2, <2>3, <3>2, <3>3, <4>2
    <3>4. CASE l # k
      <4>1. d # r
        BY <1>2, <3>1, <3>4, Zenon DEF EntriesSound
      <4>2. Queued(d)' = Queued(d)
        BY <1>0, <1>2, <2>3, <4>1, Zenon DEF Queued
      <4>3. Count(d)' = Count(d)
        BY <2>13, <4>2, Zenon DEF Count
      <4> QED
        BY <2>3, <3>1, <3>2, <3>4, <4>3, Zenon DEF Counted
    <3> QED
      BY <3>3, <3>4, Zenon
  <2> QED
    BY <1>5, <2>5, <2>6, <2>7, <2>10, <2>11, <2>12, <2>14, Zenon
<1> QED
  BY <1>10, <1>11, Zenon

(* The last reference is gone and the object is freed.                     *)
LEMMA FreeObjectKeeps ==
  ASSUME IInv, UNCHANGED caller, FreeObject
  PROVE  IInv'
<1> USE InternAssumption DEF IInv, producer
<1>0. mem \in [Ptrs -> Texts \cup {Free, ErrBody}]
  BY Zenon DEF TypeOK
<1>1. PICK r \in Ptrs : r = freed_dp /\ mem[r] \in Texts
  BY Zenon DEF FreeObject, ConsumerPlaces, ObjectsOwned, TypeOK
<1>2. /\ cpc = "FreeObject" /\ cpc' = "Advance" /\ freed_dp' = NoPtr
      /\ UNCHANGED <<table, queue, oom, ppc, slot, new_dp, got>>
      /\ mem' = [mem EXCEPT ![r] = Free]
  BY <1>1, Zenon DEF FreeObject, FreePtr
<1>3. Entries' = Entries /\ Referencing' = Referencing /\ Carrying' = Carrying
  BY <1>2, Zenon DEF Entries, Referencing, Carrying
<1>4. mem'[r] = Free /\ \A d \in Ptrs : d # r => mem'[d] = mem[d]
  BY <1>0, <1>2, Zenon
<1>5. TypeOK'
  <2>1. mem' \in [Ptrs -> Texts \cup {Free, ErrBody}]
    BY <1>0, <1>2, Zenon
  <2> QED
    BY <1>2, <2>1, Zenon DEF TypeOK
<1>6. \A q \in Backends : new_dp[q] \in Ptrs \cup {NoPtr} /\ new_dp[q] # r
  BY <1>1, Zenon DEF TypeOK, ObjectsOwned
<1>7. ProducerPlaces'
  BY <1>2, <1>4, <1>6, Zenon DEF ProducerPlaces
<1>8. ConsumerPlaces'
  BY <1>2, Zenon DEF ConsumerPlaces
<1>9. \A k \in Entries : table[k].object \in Ptrs /\ table[k].object # r
  BY <1>1, Zenon DEF TypeOK, Entries, ObjectsOwned
<1>10. EntriesSound' /\ RefsSound' /\ Counted'
  <2>1. \A k \in Entries : mem'[table[k].object] = mem[table[k].object]
    BY <1>4, <1>9, Zenon
  <2> QED
    BY <1>2, <1>3, <2>1, RefsUntouched, Zenon
<1>11. BodiesOwned'
  <2>1. \A i \in Carrying : queue[i].err \in Ptrs \cup {NoPtr}
    BY QueueTyped, Zenon
  <2>2. \A q \in Backends : slot[q].err \in Ptrs \cup {NoPtr}
    BY Zenon DEF TypeOK, Slots
  <2>3. \A d \in Ptrs : mem'[d] = ErrBody <=> mem[d] = ErrBody
    BY <1>1, <1>4, Zenon
  <2> QED
    BY <1>2, <1>3, <2>1, <2>2, <2>3, Zenon DEF BodiesOwned
<1>12. ObjectsOwned'
  <2>1. ASSUME NEW d \in Ptrs, mem'[d] \in Texts
        PROVE  \/ \E q \in Backends : new_dp[q] = d
               \/ \E k \in Entries : table[k].object = d
    <3>1. d # r /\ mem[d] \in Texts
      BY <1>4, <2>1, Zenon
    <3> QED
      BY <1>1, <3>1, Zenon DEF ObjectsOwned
  <2>2. \A k \in Entries : table[k].object # NoPtr
    BY <1>9, Zenon
  <2> QED
    BY <1>2, <1>3, <2>1, <2>2, Zenon DEF ObjectsOwned
<1> QED
  BY <1>5, <1>7, <1>8, <1>10, <1>11, <1>12, Zenon

(* The slot is handed back.                                                *)
LEMMA AdvanceKeeps ==
  ASSUME IInv, UNCHANGED caller, Advance
  PROVE  CardinalityLaws => IInv'
<1>L. SUFFICES ASSUME CardinalityLaws PROVE IInv'
  BY Zenon
<1> USE InternAssumption DEF IInv, producer
<1>0. queue \in Seq(Slots)
  BY Zenon DEF TypeOK
<1>1. /\ cpc = "Advance" /\ cpc' = "Idle" /\ got' = NoText /\ queue' = Tail(queue)
      /\ UNCHANGED <<mem, table, oom, ppc, slot, new_dp, freed_dp>>
  BY Zenon DEF Advance
<1>2. PICK n \in Nat \ {0} : n = Len(queue)
  BY <1>1, QueueTyped DEF ConsumerPlaces
<1>3. /\ queue' \in Seq(Slots) /\ Len(queue') = n - 1
      /\ \A i \in 1..(n - 1) : queue'[i] = queue[i + 1]
  BY <1>0, <1>1, <1>2
<1>4. /\ Referencing = 2..n /\ Referencing' = 1..(n - 1)
      /\ Carrying = 2..n /\ Carrying' = 1..(n - 1)
  BY <1>1, <1>2, <1>3 DEF Referencing, Carrying
<1>5. /\ \A i \in 1..(n - 1) : i + 1 \in 2..n
      /\ \A i \in 2..n : i - 1 \in 1..(n - 1) /\ queue'[i - 1] = queue[i]
  <2>1. \A i \in 2..n : i - 1 \in 1..(n - 1) /\ (i - 1) + 1 = i
    BY <1>2
  <2>2. \A i \in 2..n : queue'[i - 1] = queue[i]
    BY <1>3, <2>1, Zenon
  <2> QED
    BY <1>2, <2>1, <2>2
<1>6. Entries' = Entries
  BY <1>1, Zenon DEF Entries
<1>7. TypeOK'
  BY <1>1, <1>3, Zenon DEF TypeOK
<1>8. ProducerPlaces'
  BY <1>1, Zenon DEF ProducerPlaces
<1>9. ConsumerPlaces'
  BY <1>1, Zenon DEF ConsumerPlaces
<1>10. EntriesSound'
  BY <1>1, <1>6, Zenon DEF EntriesSound
<1>11. RefsSound'
  <2>1. \A i \in Referencing' : queue'[i].ref # NoPtr => InternedAs(queue[i].ref, queue[i].text)'
    <3> SUFFICES ASSUME NEW i \in 1..(n - 1), queue'[i].ref # NoPtr
                 PROVE  InternedAs(queue[i].ref, queue[i].text)'
      BY <1>4, Zenon
    <3>1. queue'[i] = queue[i + 1] /\ i + 1 \in Referencing
      BY <1>3, <1>4, <1>5, Zenon
    <3>2. InternedAs(queue[i + 1].ref, queue[i + 1].text)
      BY <3>1, Zenon DEF RefsSound
    <3> QED
      BY <1>1, <3>1, <3>2, Zenon DEF InternedAs
  <2>2. \A q \in Backends : slot'[q].ref # NoPtr => InternedAs(slot[q].ref, slot[q].text)'
    BY <1>1, Zenon DEF RefsSound, InternedAs
  <2>3. \A q \in Backends : ppc'[q] = "ReadObject" =>
          /\ table'[Key(q)'] # NoEntry
          /\ mem'[table'[Key(q)'].object] = slot'[q].text
    BY <1>1, Zenon DEF RefsSound, Key
  <2> QED
    BY <2>1, <2>2, <2>3, Zenon DEF RefsSound
<1>12. BodiesOwned'
  <2>1. \A i \in 1..(n - 1) : queue'[i].err = queue[i + 1].err /\ i + 1 \in Carrying
    BY <1>3, <1>4, <1>5, Zenon
  <2>2. \A i \in 1..(n - 1) : queue'[i].err # NoPtr => mem'[queue'[i].err] = ErrBody
    <3>1. mem' = mem
      BY <1>1, Zenon
    <3>2. \A i \in Carrying : queue[i].err # NoPtr => mem'[queue[i].err] = ErrBody
      BY <3>1, Zenon DEF BodiesOwned
    <3> QED
      BY <2>1, <3>2, Zenon
  <2>3. \A i, j \in 1..(n - 1) :
          queue'[i].err = queue'[j].err => i = j \/ queue'[i].err = NoPtr
    <3>1. \A i, j \in 1..(n - 1) : i + 1 = j + 1 => i = j
      OBVIOUS
    <3> QED
      BY <2>1, <3>1 DEF BodiesOwned
  <2>4. \A i \in 1..(n - 1), q \in Backends :
          queue'[i].err = slot[q].err => slot[q].err = NoPtr
    BY <2>1 DEF BodiesOwned
  <2>5. ASSUME NEW d \in Ptrs, mem[d] = ErrBody
        PROVE  \/ \E i \in 1..(n - 1) : queue'[i].err = d
               \/ \E q \in Backends : slot[q].err = d
    <3>1. CASE \E i \in Carrying : queue[i].err = d
      BY <1>4, <1>5, <3>1, Zenon
    <3> QED
      BY <2>5, <3>1, Zenon DEF BodiesOwned
  <2> QED
    BY <1>1, <1>4, <2>2, <2>3, <2>4, <2>5, Zenon DEF BodiesOwned
<1>13. ObjectsOwned'
  BY <1>1, <1>6, Zenon DEF ObjectsOwned
<1>14. ASSUME NEW d \in Ptrs PROVE Count(d)' = Count(d)
  <2>1. Filling(d)' = Filling(d) /\ Reading(d)' = Reading(d)
    BY <1>1, Zenon DEF Filling, Reading, Key
  <2>2. Queued(d)' = {i - 1 : i \in Queued(d)}
    <3>1. \A i \in Queued(d)' : i + 1 \in Queued(d) /\ (i + 1) - 1 = i
      BY <1>3, <1>4, <1>5 DEF Queued
    <3>2. \A i \in Queued(d) : i - 1 \in Queued(d)'
      BY <1>4, <1>5, Zenon DEF Queued
    <3> QED
      BY <3>1, <3>2, Zenon
  <2>3. Queued(d) \in SUBSET Int /\ IsFiniteSet(Queued(d))
    <3>1. IsFiniteSet(Queued(d))
      BY <1>L, KindsFinite, Zenon
    <3> QED
      BY <1>4, <3>1 DEF Queued
  <2>4. Cardinality(Queued(d)') = Cardinality(Queued(d))
    BY <1>L, <2>2, <2>3, Shifted, Zenon
  <2> QED
    BY <2>1, <2>4, Zenon DEF Count
<1>15. Counted'
  <2> SUFFICES ASSUME NEW l \in Entries
               PROVE  table'[l].refcount = Count(table[l].object)'
    BY <1>6, Zenon DEF Counted
  <2>1. PICK d \in Ptrs : d = table[l].object
    BY Zenon DEF TypeOK, Entries
  <2>2. Count(table[l].object)' = Count(d)'
    BY <1>1, <2>1, Zenon DEF Count, Queued, Filling, Reading
  <2> QED
    BY <1>1, <1>14, <2>1, <2>2, Zenon DEF Counted
<1> QED
  BY <1>7, <1>8, <1>9, <1>10, <1>11, <1>12, <1>13, <1>15, Zenon

(* Every step keeps the invariant.                                         *)
LEMMA InternStep == CardinalityLaws /\ IInv /\ [Next]_vars => IInv'
<1> SUFFICES ASSUME CardinalityLaws, IInv, [Next]_vars PROVE IInv'
  BY Zenon
<1>1. ASSUME NEW p \in Backends, UNCHANGED caller, Producer(p) PROVE IInv'
  <2>1. CASE Begin(p)
    BY <1>1, <2>1, BeginKeeps, Zenon
  <2>2. CASE AllocErr(p)
    BY <1>1, <2>2, AllocErrKeeps, Zenon
  <2>3. CASE LookupHit(p)
    BY <1>1, <2>3, LookupHitKeeps, Zenon
  <2>4. CASE ReadObject(p)
    BY <1>1, <2>4, ReadObjectKeeps, Zenon
  <2>5. CASE LookupCollision(p) \/ LookupMiss(p) \/ TableFull(p) \/ LoseRaceCollision(p)
    BY <1>1, <2>5, LookupNothing, Zenon
  <2>6. CASE AllocObject(p)
    BY <1>1, <2>6, AllocObjectKeeps, Zenon
  <2>7. CASE Insert(p)
    BY <1>1, <2>7, InsertKeeps, Zenon
  <2>8. CASE LoseRace(p)
    BY <1>1, <2>8, LoseRaceKeeps, Zenon
  <2>9. CASE FreeLoser(p)
    BY <1>1, <2>9, FreeLoserKeeps, Zenon
  <2>10. CASE Publish(p)
    BY <1>1, <2>10, PublishKeeps, Zenon
  <2> QED
    BY <1>1, <2>1, <2>2, <2>3, <2>4, <2>5, <2>6, <2>7, <2>8, <2>9, <2>10, Zenon
       DEF Producer, Acquire
<1>2. ASSUME UNCHANGED caller, Consumer PROVE IInv'
  BY <1>2, DequeueStartKeeps, ResolveErrKeeps, ResolveTextKeeps, ReleaseKeeps,
     FreeObjectKeeps, AdvanceKeeps, Zenon DEF Consumer
<1>3. CASE UNCHANGED vars
  <2>1. /\ UNCHANGED <<caller, mem, table, queue, oom, ppc, slot, new_dp>>
        /\ UNCHANGED <<cpc, got, freed_dp>>
    BY <1>3, Zenon DEF vars, producer, consumer
  <2>2. Entries' = Entries /\ Referencing' = Referencing /\ Carrying' = Carrying
    BY <2>1, Zenon DEF Entries, Referencing, Carrying
  <2>3. TypeOK'
    BY <2>1, Zenon DEF IInv, TypeOK
  <2>4. ProducerPlaces' /\ ConsumerPlaces'
    BY <2>1, Zenon DEF IInv, ProducerPlaces, ConsumerPlaces
  <2>5. EntriesSound' /\ RefsSound' /\ Counted'
    BY <2>1, <2>2, RefsUntouched, Zenon
  <2>6. BodiesOwned' /\ ObjectsOwned'
    BY <2>1, <2>2, Zenon DEF IInv, BodiesOwned, ObjectsOwned
  <2> QED
    BY <2>3, <2>4, <2>5, <2>6, Zenon DEF IInv
<1> QED
  BY <1>1, <1>2, <1>3, Zenon DEF Next

-----------------------------------------------------------------------------
(* The theorems.                                                           *)

(* The laws are theorems about finite sets.                                *)
INSTANCE FiniteSetTheorems

LEMMA Cardinalities == CardinalityLaws
<1>1. Cardinality({}) = 0
  BY FS_EmptySet, Zenon
<1>2. \A x : Cardinality({x}) = 1
  BY FS_Singleton, Zenon
<1>3. \A n \in Nat : IsFiniteSet(1..n)
  BY FS_Interval
<1>4. ASSUME NEW T, IsFiniteSet(T), NEW S \in SUBSET T PROVE IsFiniteSet(S)
  BY <1>4, FS_Subset, Zenon
<1>5. ASSUME NEW S, IsFiniteSet(S)
      PROVE  /\ Cardinality(S) \in Nat
             /\ Cardinality(S) = 0 => S = {}
             /\ \A x : x \notin S => Cardinality(S \cup {x}) = Cardinality(S) + 1
             /\ \A x \in S : Cardinality(S \ {x}) = Cardinality(S) - 1
             /\ \A T : ExistsBijection(S, T) => Cardinality(T) = Cardinality(S)
  <2>1. Cardinality(S) \in Nat /\ (Cardinality(S) = 0 => S = {})
    BY <1>5, FS_CardinalityType, FS_EmptySet, Zenon
  <2>2. \A x : x \notin S => Cardinality(S \cup {x}) = Cardinality(S) + 1
    BY <1>5, FS_AddElement, Zenon
  <2>3. \A x \in S : Cardinality(S \ {x}) = Cardinality(S) - 1
    BY <1>5, FS_RemoveElement, Zenon
  <2>4. \A T : ExistsBijection(S, T) => Cardinality(T) = Cardinality(S)
    BY <1>5, FS_Bijection, Zenon
  <2> QED
    BY <2>1, <2>2, <2>3, <2>4, Zenon
<1> QED
  BY <1>1, <1>2, <1>3, <1>4, <1>5, Zenon DEF CardinalityLaws

(* A set has as many elements as the pairs of one tag with them.           *)
LEMMA Tagged ==
  ASSUME NEW tag, NEW S, IsFiniteSet(S)
  PROVE  /\ IsFiniteSet({<<tag, x>> : x \in S})
         /\ Cardinality({<<tag, x>> : x \in S}) = Cardinality(S)
<1> DEFINE T == {<<tag, x>> : x \in S}
           f == [x \in S |-> <<tag, x>>]
<1>1. f \in Bijection(S, T)
  <2>1. f \in [S -> T]
    BY Zenon
  <2>2. \A x, y \in S : f[x] = f[y] => x = y
    BY Zenon
  <2>3. \A t \in T : \E x \in S : f[x] = t
    BY Zenon
  <2> QED
    BY <2>1, <2>2, <2>3, Zenon
       DEF Bijection, Injection, Surjection, IsInjective
<1>2. ExistsBijection(S, T)
  BY <1>1, Zenon DEF ExistsBijection
<1> HIDE DEF T
<1>3. IsFiniteSet(T) /\ Cardinality(T) = Cardinality(S)
  BY <1>2, FS_Bijection, Zenon
<1> QED
  BY <1>3, Zenon DEF T

(* Sets of pairs with different tags are counted apart.                    *)
LEMMA TaggedApart ==
  ASSUME NEW A, IsFiniteSet(A), NEW B, IsFiniteSet(B), NEW C, IsFiniteSet(C)
  PROVE  Cardinality({<<"slot", x>> : x \in A} \cup {<<"filling", x>> : x \in B}
                     \cup {<<"reading", x>> : x \in C})
           = Cardinality(A) + Cardinality(B) + Cardinality(C)
<1> DEFINE TA == {<<"slot", x>> : x \in A}
           TB == {<<"filling", x>> : x \in B}
           TC == {<<"reading", x>> : x \in C}
<1>1. IsFiniteSet(TA) /\ Cardinality(TA) = Cardinality(A)
  BY Tagged, Zenon
<1>2. IsFiniteSet(TB) /\ Cardinality(TB) = Cardinality(B)
  BY Tagged, Zenon
<1>3. IsFiniteSet(TC) /\ Cardinality(TC) = Cardinality(C)
  BY Tagged, Zenon
<1>4. TA \cap TB = {} /\ (TA \cup TB) \cap TC = {}
  OBVIOUS
<1> HIDE DEF TA, TB, TC
<1>5. IsFiniteSet(TA \cup TB)
      /\ Cardinality(TA \cup TB) = Cardinality(TA) + Cardinality(TB) - Cardinality({})
  BY <1>1, <1>2, <1>4, FS_Union
<1>6. Cardinality((TA \cup TB) \cup TC)
        = Cardinality(TA \cup TB) + Cardinality(TC) - Cardinality({})
  BY <1>3, <1>4, <1>5, FS_Union
<1>7. Cardinality({}) = 0
  BY FS_EmptySet, Zenon
<1>8. Cardinality(A) \in Nat /\ Cardinality(B) \in Nat /\ Cardinality(C) \in Nat
  BY FS_CardinalityType, Zenon
<1>9. Cardinality((TA \cup TB) \cup TC) = Cardinality(A) + Cardinality(B) + Cardinality(C)
  BY <1>1, <1>2, <1>3, <1>5, <1>6, <1>7, <1>8
<1> QED
  BY <1>9, Zenon DEF TA, TB, TC

(* So Holders(d) has Count(d) elements.                                    *)
LEMMA HoldersCount ==
  ASSUME TypeOK, NEW d
  PROVE  Cardinality(Holders(d)) = Count(d)
<1>1. Holders(d) = {<<"slot", i>> : i \in Queued(d)}
                     \cup {<<"filling", p>> : p \in Filling(d)}
                     \cup {<<"reading", p>> : p \in Reading(d)}
  BY Zenon DEF Holders, Queued, Filling, Reading
<1>2. IsFiniteSet(Queued(d)) /\ IsFiniteSet(Filling(d)) /\ IsFiniteSet(Reading(d))
  BY KindsFinite, Cardinalities, Zenon
<1>3. Cardinality({<<"slot", i>> : i \in Queued(d)}
                  \cup {<<"filling", p>> : p \in Filling(d)}
                  \cup {<<"reading", p>> : p \in Reading(d)})
        = Cardinality(Queued(d)) + Cardinality(Filling(d)) + Cardinality(Reading(d))
  <2> HIDE DEF Queued, Filling, Reading
  <2> QED
    BY <1>2, TaggedApart
<1> QED
  BY <1>1, <1>3, Zenon DEF Count

(* Whatever producers and consumer do, and in whatever order: see IInv.    *)
THEOREM InternInvariance == Spec => []IInv
<1>1. IInv /\ [Next]_vars => IInv'
  BY InternStep, Cardinalities, Zenon
<1> QED
  BY InternInit, <1>1, PTL DEF Spec

(* The refcount that PschQueryInternAcquire and ReleaseRef keep in an      *)
(* entry is exactly the number of slots, published or being filled, and of *)
(* producers between the lookup and the read, that hold its object.        *)
THEOREM RefcountsRight == Spec => []RefcountExact
<1>1. ASSUME IInv PROVE RefcountExact
  <2>1. TypeOK /\ \A k \in Entries : table[k].refcount = Count(table[k].object)
    BY <1>1, Zenon DEF IInv, Counted
  <2>2. \A k \in Entries : Cardinality(Holders(table[k].object)) = Count(table[k].object)
    BY <2>1, HoldersCount, Zenon
  <2> QED
    BY <2>1, <2>2, Zenon DEF RefcountExact
<1> QED
  BY InternInvariance, <1>1, PTL

(* No slot leads PschDequeueEvent to a chunk that was freed, reused or     *)
(* belongs to another text with the same key: what ResolveInto copies out  *)
(* is the text of the event, or none.                                      *)
THEOREM TextsRight == Spec => []RightTextOrNone
<1>1. ASSUME IInv PROVE RightTextOrNone
  <2>1. \A i \in Referencing : queue[i].ref # NoPtr => mem[queue[i].ref] = queue[i].text
    BY <1>1, Zenon DEF IInv, RefsSound, InternedAs
  <2>2. \A p \in Backends : slot[p].ref # NoPtr => mem[slot[p].ref] = slot[p].text
    BY <1>1, Zenon DEF IInv, RefsSound, InternedAs
  <2>3. got # NoText => got = Head(queue).text
    <3>1. queue \in Seq(Slots)
      BY <1>1, Zenon DEF IInv, TypeOK
    <3>2. got # NoText => Len(queue) > 0 /\ got = queue[1].text
      BY <1>1, Zenon DEF IInv, ConsumerPlaces
    <3> QED
      BY <3>1, <3>2
  <2> QED
    BY <1>1, <2>1, <2>2, <2>3, Zenon DEF IInv, RefsSound, RightTextOrNone
<1> QED
  BY InternInvariance, <1>1, PTL

(* One owner: a set of which one part has one element and the others none. *)
LEMMA OneOwner ==
  ASSUME IInv, NEW d \in Ptrs
  PROVE  Cardinality(Owners(d)) = IF mem[d] = Free THEN 0 ELSE 1
<1> USE InternAssumption DEF IInv
<1> DEFINE A == {i \in Carrying : queue[i].err = d}
           B == {p \in Backends : slot[p].err = d}
           C == {p \in Backends : new_dp[p] = d}
           D == {k \in Entries : table[k].object = d}
           E == {y \in {1} : freed_dp = d}
<1>1. Owners(d) = {<<"slot", i>> : i \in A} \cup {<<"filling", p>> : p \in B}
                  \cup {<<"new", p>> : p \in C} \cup {<<"entry", k>> : k \in D}
                  \cup {<<"freeing">> : x \in E}
  BY Zenon DEF Owners
<1>2. mem[d] \in Texts \cup {Free, ErrBody} /\ d # NoPtr
  BY Zenon DEF TypeOK
<1>3. mem[d] # ErrBody => A = {} /\ B = {}
  BY <1>2 DEF BodiesOwned
<1>4. mem[d] \notin Texts => C = {} /\ D = {} /\ E = {}
  BY <1>2 DEF ProducerPlaces, EntriesSound, ObjectsOwned
<1>5. mem[d] = ErrBody => (\E i : A = {i} /\ B = {}) \/ (\E p : A = {} /\ B = {p})
  <2> SUFFICES ASSUME mem[d] = ErrBody
               PROVE  (\E i : A = {i} /\ B = {}) \/ (\E p : A = {} /\ B = {p})
    BY Zenon
  <2>1. ASSUME NEW i \in Carrying, queue[i].err = d PROVE A = {i} /\ B = {}
    <3>1. \A j \in Carrying : queue[j].err = d => j = i
      BY <1>2, <2>1, Zenon DEF BodiesOwned
    <3>2. \A p \in Backends : slot[p].err # d
      BY <1>2, <2>1, Zenon DEF BodiesOwned
    <3> QED
      BY <2>1, <3>1, <3>2, Zenon
  <2>2. ASSUME NEW p \in Backends, slot[p].err = d PROVE A = {} /\ B = {p}
    BY <1>2, <2>2 DEF BodiesOwned
  <2> QED
    BY <2>1, <2>2, Zenon DEF BodiesOwned
<1>6. mem[d] \in Texts => \/ \E p : C = {p} /\ D = {} /\ E = {}
                          \/ \E k : C = {} /\ D = {k} /\ E = {}
                          \/ C = {} /\ D = {} /\ E = {1}
  <2> SUFFICES ASSUME mem[d] \in Texts
               PROVE  \/ \E p : C = {p} /\ D = {} /\ E = {}
                      \/ \E k : C = {} /\ D = {k} /\ E = {}
                      \/ C = {} /\ D = {} /\ E = {1}
    BY Zenon
  <2>1. ASSUME NEW p \in Backends, new_dp[p] = d PROVE C = {p} /\ D = {} /\ E = {}
    BY <1>2, <2>1, Zenon DEF ObjectsOwned
  <2>2. ASSUME NEW k \in Entries, table[k].object = d PROVE C = {} /\ D = {k} /\ E = {}
    BY <2>2 DEF ObjectsOwned, EntriesSound
  <2>3. ASSUME freed_dp = d PROVE C = {} /\ D = {} /\ E = {1}
    BY <1>2, <2>3 DEF ObjectsOwned
  <2> QED
    BY <2>1, <2>2, <2>3, Zenon DEF ObjectsOwned
<1> HIDE DEF A, B, C, D, E
<1>7. mem[d] = Free => Owners(d) = {}
  BY <1>1, <1>3, <1>4, Zenon
<1>8. mem[d] # Free => \E o : Owners(d) = {o}
  <2>1. ASSUME mem[d] = ErrBody PROVE \E o : Owners(d) = {o}
    <3>1. C = {} /\ D = {} /\ E = {}
      BY <1>4, <2>1, Zenon
    <3>2. ASSUME NEW i, A = {i}, B = {} PROVE Owners(d) = {<<"slot", i>>}
      BY <1>1, <3>1, <3>2, Zenon
    <3>3. ASSUME NEW p, A = {}, B = {p} PROVE Owners(d) = {<<"filling", p>>}
      BY <1>1, <3>1, <3>3, Zenon
    <3> QED
      BY <1>5, <2>1, <3>2, <3>3, Zenon
  <2>2. ASSUME mem[d] \in Texts PROVE \E o : Owners(d) = {o}
    <3>1. A = {} /\ B = {}
      BY <1>3, <2>2, Zenon
    <3>2. ASSUME NEW p, C = {p}, D = {}, E = {} PROVE Owners(d) = {<<"new", p>>}
      BY <1>1, <3>1, <3>2, Zenon
    <3>3. ASSUME NEW k, C = {}, D = {k}, E = {} PROVE Owners(d) = {<<"entry", k>>}
      BY <1>1, <3>1, <3>3, Zenon
    <3>4. ASSUME C = {}, D = {}, E = {1} PROVE Owners(d) = {<<"freeing">>}
      BY <1>1, <3>1, <3>4, Zenon
    <3> QED
      BY <1>6, <2>2, <3>2, <3>3, <3>4, Zenon
  <2> QED
    BY <1>2, <2>1, <2>2, Zenon
<1>9. mem[d] = Free => Cardinality(Owners(d)) = 0
  BY <1>7, FS_EmptySet, Zenon
<1>10. mem[d] # Free => Cardinality(Owners(d)) = 1
  BY <1>8, FS_Singleton, Zenon
<1> QED
  BY <1>9, <1>10, Zenon

(* A chunk of the DSA area in use is owned once and a free one by nobody:  *)
(* no path through PschQueryInternAcquire, ReleaseRef and                  *)
(* PschDsaResolveString leaks a chunk or frees one twice.                  *)
THEOREM ChunksOwnedOnce == Spec => []NothingLeaksOrDangles
<1>1. ASSUME IInv PROVE NothingLeaksOrDangles
  BY <1>1, OneOwner, Zenon DEF NothingLeaksOrDangles
<1> QED
  BY InternInvariance, <1>1, PTL
=============================================================================
