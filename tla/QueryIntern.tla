---------------------------- MODULE QueryIntern -----------------------------
(***************************************************************************)
(* The strings behind the ring slots: err_message bodies owned by one slot *)
(* (src/src/queue/psch_dsa.c) and query texts shared through the refcounted *)
(* interner (src/src/queue/query_intern.c), with the producers and the     *)
(* consumer that take and drop the references (src/src/queue/shmem.c).     *)
(*                                                                         *)
(* The ring itself is the bounded FIFO that RingQueue is shown to          *)
(* implement.  A partition lock is held for one lookup at a time, so a     *)
(* section under it is one step; allocation, freeing and the copy out of   *)
(* the shared area happen outside of it and are steps of their own.        *)
(***************************************************************************)
EXTENDS Integers, Sequences, FiniteSets

CONSTANTS
  Backends,      \* producers
  Callers,       \* how the interner is called and sized: [serialised, max_entries]
  Texts,         \* normalized query texts
  KeyOf,         \* MakeKey: texts with one key have colliding hashes
  Ptrs,          \* chunks of the DSA area
  Capacity,      \* slots of the ring
  MaxOom,        \* bound: failed allocations
  NoText, NoPtr, NoEntry, Free, ErrBody

ASSUME InternAssumption ==
  /\ Callers \subseteq [serialised : BOOLEAN, max_entries : Nat]
  /\ NoText \notin Texts
  /\ NoPtr \notin Ptrs
  /\ Free \notin Texts
  /\ ErrBody \notin Texts
  /\ Free # ErrBody
  /\ NoEntry \notin [object : Ptrs, refcount : Nat]
  /\ DOMAIN KeyOf = Texts
  /\ IsFiniteSet(Backends)
  /\ Capacity \in Nat \ {0}
  /\ MaxOom \in Nat

Keys == {KeyOf[t] : t \in Texts}

VARIABLES
  caller,     \* serialised: TryEnqueueLocked holds psch_shared_state->lock, as
              \* it always does; max_entries: the size of the hash table
  mem,        \* what each chunk holds
  table,      \* the shared HTAB: key -> [object, refcount]
  queue,      \* the published slots, oldest first
  oom,        \* psch_shared_state->dsa_oom_count
  ppc,        \* where each producer is in TryEnqueueLocked
  slot,       \* the slot it is filling
  new_dp,     \* the object PschQueryInternAcquire has just allocated
  cpc,        \* where the consumer is in PschDequeueEvent
  got,        \* the query text it copied out
  freed_dp    \* the object ReleaseRef frees after unlocking

producer == <<ppc, slot, new_dp>>
consumer == <<cpc, got, freed_dp>>
vars == <<caller, mem, table, queue, oom, producer, consumer>>

EmptySlot == [text |-> NoText, err |-> NoPtr, ref |-> NoPtr]

Init ==
  /\ caller \in Callers
  /\ mem = [d \in Ptrs |-> Free]
  /\ table = [k \in Keys |-> NoEntry]
  /\ queue = <<>>
  /\ oom = 0
  /\ ppc = [p \in Backends |-> "Idle"]
  /\ slot = [p \in Backends |-> EmptySlot]
  /\ new_dp = [p \in Backends |-> NoPtr]
  /\ cpc = "Idle" /\ got = NoText /\ freed_dp = NoPtr

Goto(p, label) == ppc' = [ppc EXCEPT ![p] = label]

Busy == {p \in Backends : ppc[p] # "Idle"}

Entries == {k \in Keys : table[k] # NoEntry}

Key(p) == KeyOf[slot[p].text]

-----------------------------------------------------------------------------
(* dsa_allocate_extended(DSA_ALLOC_NO_OOM) and dsa_free.  The area is also *)
(* fragmented, so an allocation may fail with chunks to spare.             *)

Allocate(d, body) == mem[d] = Free /\ mem' = [mem EXCEPT ![d] = body]

OutOfMemory == oom < MaxOom /\ oom' = oom + 1 /\ UNCHANGED mem

FreePtr(d) == mem' = [mem EXCEPT ![d] = Free]

-----------------------------------------------------------------------------
(* The producer, from the test for a full ring to the store to head.       *)

AfterErr(t) == IF t = NoText THEN "Publish" ELSE "FirstLookup"

Begin(p) ==
  /\ ppc[p] = "Idle"
  /\ caller.serialised => Busy = {}
  /\ Len(queue) + Cardinality(Busy) < Capacity
  /\ \E t \in Texts \cup {NoText}, hasErr \in BOOLEAN :
       /\ slot' = [slot EXCEPT ![p].text = t]
       /\ Goto(p, IF hasErr THEN "AllocErr" ELSE AfterErr(t))
  /\ UNCHANGED <<mem, table, queue, oom, new_dp, consumer>>

(* PschDsaAllocString for err_message.                                     *)
AllocErr(p) ==
  /\ ppc[p] = "AllocErr"
  /\ \/ /\ \E d \in Ptrs : /\ Allocate(d, ErrBody)
                          /\ slot' = [slot EXCEPT ![p].err = d]
        /\ UNCHANGED oom
     \/ OutOfMemory /\ UNCHANGED slot
  /\ Goto(p, AfterErr(slot[p].text))
  /\ UNCHANGED <<table, queue, new_dp, consumer>>

AddRef(k) == table' = [table EXCEPT ![k].refcount = @ + 1]

(* Variant: the text is not compared.                                      *)
LookupHitUnchecked(p) ==
  /\ ppc[p] = "FirstLookup"
  /\ table[Key(p)] # NoEntry
  /\ AddRef(Key(p))
  /\ Goto(p, "ReadObject")
  /\ UNCHANGED <<mem, queue, oom, slot, new_dp, consumer>>

(* PschQueryInternAcquire: the first lookup finds the text, ...            *)
LookupHit(p) ==
  /\ ppc[p] = "FirstLookup"
  /\ table[Key(p)] # NoEntry
  /\ mem[table[Key(p)].object] = slot[p].text
  /\ AddRef(Key(p))
  /\ Goto(p, "ReadObject")
  /\ UNCHANGED <<mem, queue, oom, slot, new_dp, consumer>>

(* ... whose object is read from the entry after the lock is released, ... *)
ReadObject(p) ==
  /\ ppc[p] = "ReadObject"
  /\ \E d \in IF table[Key(p)] = NoEntry THEN Ptrs ELSE {table[Key(p)].object} :
       slot' = [slot EXCEPT ![p].ref = d]
  /\ Goto(p, "Publish")
  /\ UNCHANGED <<mem, table, queue, oom, new_dp, consumer>>

(* ... or another text with the same key, ...                              *)
LookupCollision(p) ==
  /\ ppc[p] = "FirstLookup"
  /\ table[Key(p)] # NoEntry
  /\ mem[table[Key(p)].object] # slot[p].text
  /\ Goto(p, "Publish")
  /\ UNCHANGED <<mem, table, queue, oom, slot, new_dp, consumer>>

(* ... or nothing.                                                         *)
LookupMiss(p) ==
  /\ ppc[p] = "FirstLookup"
  /\ table[Key(p)] = NoEntry
  /\ Goto(p, "AllocObject")
  /\ UNCHANGED <<mem, table, queue, oom, slot, new_dp, consumer>>

(* AllocInternObject, with no lock held.                                   *)
AllocObject(p) ==
  /\ ppc[p] = "AllocObject"
  /\ \/ /\ \E d \in Ptrs : /\ Allocate(d, slot[p].text)
                          /\ new_dp' = [new_dp EXCEPT ![p] = d]
        /\ Goto(p, "SecondLookup")
        /\ UNCHANGED oom
     \/ /\ OutOfMemory
        /\ Goto(p, "Publish")
        /\ UNCHANGED new_dp
  /\ UNCHANGED <<table, queue, slot, consumer>>

(* The second lookup, HASH_ENTER_NULL: the new object goes in.  Beyond the *)
(* size it was made for the table may still grow.                          *)
Insert(p) ==
  /\ ppc[p] = "SecondLookup"
  /\ table[Key(p)] = NoEntry
  /\ table' = [table EXCEPT ![Key(p)] = [object |-> new_dp[p], refcount |-> 1]]
  /\ slot' = [slot EXCEPT ![p].ref = new_dp[p]]
  /\ new_dp' = [new_dp EXCEPT ![p] = NoPtr]
  /\ Goto(p, "Publish")
  /\ UNCHANGED <<mem, queue, oom, consumer>>

TableFull(p) ==
  /\ ppc[p] = "SecondLookup"
  /\ table[Key(p)] = NoEntry
  /\ Cardinality(Entries) >= caller.max_entries
  /\ Goto(p, "FreeLoser")
  /\ UNCHANGED <<mem, table, queue, oom, slot, new_dp, consumer>>

(* Variant: the winner's entry is used without counting the reference.     *)
LoseRaceUncounted(p) ==
  /\ ppc[p] = "SecondLookup"
  /\ table[Key(p)] # NoEntry
  /\ mem[table[Key(p)].object] = slot[p].text
  /\ slot' = [slot EXCEPT ![p].ref = table[Key(p)].object]
  /\ Goto(p, "FreeLoser")
  /\ UNCHANGED <<mem, table, queue, oom, new_dp, consumer>>

LoseRace(p) ==
  /\ ppc[p] = "SecondLookup"
  /\ table[Key(p)] # NoEntry
  /\ mem[table[Key(p)].object] = slot[p].text
  /\ AddRef(Key(p))
  /\ slot' = [slot EXCEPT ![p].ref = table[Key(p)].object]
  /\ Goto(p, "FreeLoser")
  /\ UNCHANGED <<mem, queue, oom, new_dp, consumer>>

LoseRaceCollision(p) ==
  /\ ppc[p] = "SecondLookup"
  /\ table[Key(p)] # NoEntry
  /\ mem[table[Key(p)].object] # slot[p].text
  /\ Goto(p, "FreeLoser")
  /\ UNCHANGED <<mem, table, queue, oom, slot, new_dp, consumer>>

(* Variant: the object that lost the race is not freed.                    *)
ForgetLoser(p) ==
  /\ ppc[p] = "FreeLoser"
  /\ new_dp' = [new_dp EXCEPT ![p] = NoPtr]
  /\ Goto(p, "Publish")
  /\ UNCHANGED <<mem, table, queue, oom, slot, consumer>>

FreeLoser(p) ==
  /\ ppc[p] = "FreeLoser"
  /\ FreePtr(new_dp[p])
  /\ new_dp' = [new_dp EXCEPT ![p] = NoPtr]
  /\ Goto(p, "Publish")
  /\ UNCHANGED <<table, queue, oom, slot, consumer>>

Publish(p) ==
  /\ ppc[p] = "Publish"
  /\ queue' = Append(queue, slot[p])
  /\ slot' = [slot EXCEPT ![p] = EmptySlot]
  /\ Goto(p, "Idle")
  /\ UNCHANGED <<mem, table, oom, new_dp, consumer>>

-----------------------------------------------------------------------------
(* The consumer: PschDequeueEvent on the oldest slot.                      *)

ref == Head(queue).ref

DequeueStart ==
  /\ cpc = "Idle"
  /\ queue # <<>>
  /\ cpc' = "ResolveErr"
  /\ UNCHANGED <<mem, table, queue, oom, producer, got, freed_dp>>

(* PschDsaResolveString copies the body and frees it.                      *)
ResolveErr ==
  /\ cpc = "ResolveErr"
  /\ \/ Head(queue).err # NoPtr /\ FreePtr(Head(queue).err)
     \/ Head(queue).err = NoPtr /\ UNCHANGED mem
  /\ cpc' = "ResolveText"
  /\ UNCHANGED <<table, queue, oom, producer, got, freed_dp>>

(* ResolveInto, under the protection of the slot's own reference.          *)
ResolveText ==
  /\ cpc = "ResolveText"
  /\ got' = IF ref = NoPtr THEN NoText ELSE mem[ref]
  /\ cpc' = IF ref = NoPtr THEN "Advance" ELSE "Release"
  /\ UNCHANGED <<mem, table, queue, oom, producer, freed_dp>>

(* ReleaseRef.  The key comes from the object; a chunk without the magic   *)
(* number, or an entry for another object, is left alone.                  *)
Release ==
  LET k == KeyOf[mem[ref]]
      mine == mem[ref] \in Texts /\ table[k] # NoEntry /\ table[k].object = ref
      last == mine /\ table[k].refcount = 1
  IN  /\ cpc = "Release"
      /\ table' = IF last THEN [table EXCEPT ![k] = NoEntry]
                  ELSE IF mine THEN [table EXCEPT ![k].refcount = @ - 1]
                  ELSE table
      /\ freed_dp' = IF last THEN ref ELSE NoPtr
      /\ cpc' = IF last THEN "FreeObject" ELSE "Advance"
      /\ UNCHANGED <<mem, queue, oom, producer, got>>

FreeObject ==
  /\ cpc = "FreeObject"
  /\ FreePtr(freed_dp)
  /\ freed_dp' = NoPtr
  /\ cpc' = "Advance"
  /\ UNCHANGED <<table, queue, oom, producer, got>>

(* The store to tail: the slot may be reused.                              *)
Advance ==
  /\ cpc = "Advance"
  /\ queue' = Tail(queue)
  /\ got' = NoText
  /\ cpc' = "Idle"
  /\ UNCHANGED <<mem, table, oom, producer, freed_dp>>

-----------------------------------------------------------------------------
Acquire(p) ==
  \/ LookupHit(p) \/ ReadObject(p) \/ LookupCollision(p) \/ LookupMiss(p)
  \/ AllocObject(p) \/ Insert(p) \/ TableFull(p) \/ LoseRace(p)
  \/ LoseRaceCollision(p) \/ FreeLoser(p)

Producer(p) == Begin(p) \/ AllocErr(p) \/ Acquire(p) \/ Publish(p)

Consumer ==
  DequeueStart \/ ResolveErr \/ ResolveText \/ Release \/ FreeObject \/ Advance

Next == UNCHANGED caller /\ ((\E p \in Backends : Producer(p)) \/ Consumer)

Spec == Init /\ [][Next]_vars

-----------------------------------------------------------------------------
(* Properties.                                                             *)

Slots == [text : Texts \cup {NoText}, err : Ptrs \cup {NoPtr}, ref : Ptrs \cup {NoPtr}]

TypeOK ==
  /\ caller \in Callers
  /\ mem \in [Ptrs -> Texts \cup {Free, ErrBody}]
  /\ table \in [Keys -> [object : Ptrs, refcount : Nat \ {0}] \cup {NoEntry}]
  /\ queue \in Seq(Slots)
  /\ oom \in 0..MaxOom
  /\ ppc \in [Backends -> {"Idle", "AllocErr", "FirstLookup", "ReadObject",
                           "AllocObject", "SecondLookup", "FreeLoser", "Publish"}]
  /\ slot \in [Backends -> Slots]
  /\ new_dp \in [Backends -> Ptrs \cup {NoPtr}]
  /\ cpc \in {"Idle", "ResolveErr", "ResolveText", "Release", "FreeObject", "Advance"}
  /\ got \in Texts \cup {NoText}
  /\ freed_dp \in Ptrs \cup {NoPtr}

(* The queued slots whose reference, or whose error body, is not yet given *)
(* back by the consumer working on the oldest one.                         *)
Referencing == {i \in 1..Len(queue) : i = 1 => cpc \notin {"FreeObject", "Advance"}}
Carrying == {i \in 1..Len(queue) : i = 1 => cpc \in {"Idle", "ResolveErr"}}

(* Everyone who counts on the object at d: slots that were published, a    *)
(* slot being filled, a producer about to read the object from the entry.  *)
Holders(d) ==
  {<<"slot", i>> : i \in {j \in Referencing : queue[j].ref = d}}
  \cup {<<"filling", p>> : p \in {q \in Backends : slot[q].ref = d}}
  \cup {<<"reading", p>> : p \in {q \in Backends :
            /\ ppc[q] = "ReadObject"
            /\ table[Key(q)] # NoEntry
            /\ table[Key(q)].object = d}}

(* The refcount of an entry is exactly the number of those who will give   *)
(* one up, so PschQueryInternAcquire and ReleaseRef never let it reach     *)
(* zero early or stay above zero for good.                                 *)
RefcountExact ==
  /\ TypeOK
  /\ \A k \in Entries : table[k].refcount = Cardinality(Holders(table[k].object))

(* A reference in a slot leads to the text of that slot's event, not to a  *)
(* freed chunk, to a chunk reused for another text, or to the text that a  *)
(* key collision hides; and that text, or none, is what is dequeued.       *)
RightTextOrNone ==
  /\ \A i \in Referencing : queue[i].ref # NoPtr => mem[queue[i].ref] = queue[i].text
  /\ \A p \in Backends : slot[p].ref # NoPtr => mem[slot[p].ref] = slot[p].text
  /\ \A p \in Backends :
       ppc[p] = "ReadObject" => /\ table[Key(p)] # NoEntry
                                /\ mem[table[Key(p)].object] = slot[p].text
  /\ got # NoText => got = Head(queue).text

(* Everyone who must free the chunk d.                                     *)
Owners(d) ==
  {<<"slot", i>> : i \in {j \in Carrying : queue[j].err = d}}
  \cup {<<"filling", p>> : p \in {q \in Backends : slot[q].err = d}}
  \cup {<<"new", p>> : p \in {q \in Backends : new_dp[q] = d}}
  \cup {<<"entry", k>> : k \in {l \in Entries : table[l].object = d}}
  \cup {<<"freeing">> : x \in {y \in {1} : freed_dp = d}}

(* A chunk of the DSA area in use has exactly one owner and a free one has *)
(* none: nothing leaks, whichever lookup is lost, and nothing is freed     *)
(* twice.                                                                  *)
NothingLeaksOrDangles ==
  \A d \in Ptrs : Cardinality(Owners(d)) = IF mem[d] = Free THEN 0 ELSE 1
=============================================================================
