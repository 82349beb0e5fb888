----------------------------- MODULE RingQueue ------------------------------
(***************************************************************************)
(* The shared-memory event queue (src/src/queue/shmem.c) together with the *)
(* per-backend buffer in front of it (src/src/queue/local_batch.c).        *)
(*                                                                         *)
(* Backends are stepped through PschEnqueueEvent and PschEnqueueBatch at   *)
(* the grain of their accesses to shared memory: each atomic read or write *)
(* is one step, the process-local work between two of them is folded into  *)
(* the step before.  The single consumer runs PschDequeueEvent without the *)
(* lock; pg_stat_ch_reset() runs PschResetStats under it.                  *)
(***************************************************************************)
EXTENDS Integers, Sequences, FiniteSets

CONSTANTS
  Producers,       \* backends that report events
  Capacity,        \* psch_shared_state->capacity, slots of the ring
  Modulus,         \* the width of head and tail: 2^64 in the code
  BatchCapacity,   \* PSCH_LOCAL_BATCH_CAPACITY
  ForceOverflow,   \* backends with pg_stat_ch.debug_force_locked_overflow
  Toggling,        \* backends whose pg_stat_ch.enabled is reloaded
  MaxEvents,       \* bound: events a backend reports
  MaxResets,       \* bound: calls of pg_stat_ch_reset()
  NoOne,           \* the lock is free
  Resetter         \* the backend running pg_stat_ch_reset()

ASSUME ProducersAssumption ==
  /\ NoOne \notin Producers
  /\ Resetter \notin Producers
  /\ NoOne # Resetter
  /\ ForceOverflow \subseteq Producers
  /\ Toggling \subseteq Producers

ASSUME CapacityAssumption ==
  /\ Capacity \in Nat \ {0}
  /\ Modulus \in Nat \ {0}
  /\ Modulus % Capacity = 0
  /\ Capacity < Modulus

ASSUME BoundsAssumption ==
  /\ BatchCapacity \in Nat \ {0}
  /\ MaxEvents \in Nat
  /\ MaxResets \in Nat

VARIABLES
  (* PschSharedState *)
  head, tail,          \* producer and consumer positions, unsigned
  ring,                \* the slots
  holder,              \* who holds psch_shared_state->lock exclusively
  enqueued, dropped, exported,   \* the counters of pg_stat_ch_stats()
  overflow_logged,     \* the warn-once flag
  (* each backend *)
  pc,                  \* where it is
  call,                \* "event": PschEnqueueEvent, "batch": PschEnqueueBatch
  work,                \* the events of the call still to be pushed
  headSeen,            \* its local variable head
  local_batch,         \* the process-local buffer
  adding,              \* the event PschLocalBatchAdd appends after a flush
  exiting,             \* running its on_shmem_exit callbacks
  psch_enabled,        \* its copy of pg_stat_ch.enabled
  made,                \* events it has reported so far
  (* the background worker *)
  cpc, copied,         \* where PschDequeueEvent is, and its copy of the slot
  inBatch,             \* events dequeued and not yet exported
  (* pg_stat_ch_reset() *)
  rpc, resets,
  (* history *)
  delivered,           \* events dequeued, in order
  lost,                \* events dropped and counted as such
  discarded            \* events given up without being counted

counters == <<enqueued, dropped, exported, overflow_logged>>
shared  == <<head, tail, ring, holder, counters>>
session == <<exiting, psch_enabled, made>>
backend == <<pc, call, work, headSeen, local_batch, adding, session>>
worker  == <<cpc, copied, inBatch>>
reset   == <<rpc, resets>>
history == <<delivered, lost, discarded>>
vars == <<shared, backend, worker, reset, history>>

Events == Producers \X (1..MaxEvents)

NoEvent == <<>>

PCs == {"Idle", "ReadTail", "TryLock", "Lock", "Check", "Fill", "Publish",
        "Count", "Overflow", "Warn", "Unlock", "Exited"}

-----------------------------------------------------------------------------
(* Unsigned arithmetic on the positions.                                   *)

Sub(a, b) == (a - b) % Modulus

Inc(a) == (a + 1) % Modulus

(* head & (capacity - 1)                                                   *)
Slot(i) == i % Capacity

Occupancy == Sub(head, tail)

(* The unread part of the ring, oldest event first.                        *)
Unread == [i \in 1..Occupancy |-> ring[Slot(tail + i - 1)]]

RangeOf(s) == {s[i] : i \in 1..Len(s)}

-----------------------------------------------------------------------------
Init ==
  /\ head = 0 /\ tail = 0
  /\ ring = [i \in 0..Capacity-1 |-> NoEvent]
  /\ holder = NoOne
  /\ enqueued = 0 /\ dropped = 0 /\ exported = 0
  /\ overflow_logged = FALSE
  /\ pc = [p \in Producers |-> "Idle"]
  /\ call = [p \in Producers |-> "event"]
  /\ work = [p \in Producers |-> <<>>]
  /\ headSeen = [p \in Producers |-> 0]
  /\ local_batch = [p \in Producers |-> <<>>]
  /\ adding = [p \in Producers |-> <<>>]
  /\ exiting = [p \in Producers |-> FALSE]
  /\ psch_enabled = [p \in Producers |-> TRUE]
  /\ made = [p \in Producers |-> 0]
  /\ cpc = "Idle" /\ copied = NoEvent /\ inBatch = 0
  /\ rpc = "Idle" /\ resets = 0
  /\ delivered = <<>> /\ lost = {} /\ discarded = {}

-----------------------------------------------------------------------------
(* A backend reports an event.                                             *)

Goto(p, label) == pc' = [pc EXCEPT ![p] = label]

(* The local variable head is not used again.                              *)
ForgetHead(p) == headSeen' = [headSeen EXCEPT ![p] = 0]

(* Entry of both enqueue functions up to the unlocked read of head.        *)
StartCall(p, kind, events) ==
  /\ call' = [call EXCEPT ![p] = kind]
  /\ work' = [work EXCEPT ![p] = events]
  /\ headSeen' = [headSeen EXCEPT ![p] = head]
  /\ Goto(p, "ReadTail")

(* PschEnqueueEvent, called by a hook.                                     *)
Report(p) ==
  /\ pc[p] = "Idle"
  /\ psch_enabled[p]
  /\ made[p] < MaxEvents
  /\ made' = [made EXCEPT ![p] = @ + 1]
  /\ StartCall(p, "event", <<<<p, made[p] + 1>>>>)
  /\ UNCHANGED <<shared, local_batch, adding, exiting, psch_enabled, worker,
                 reset, history>>

(* The unlocked test for a full queue: head was read a step ago, tail is   *)
(* read now.                                                               *)
ReadTail(p) ==
  /\ pc[p] = "ReadTail"
  /\ Goto(p, IF Sub(headSeen[p], tail) >= Capacity THEN "Overflow"
             ELSE IF call[p] = "event" THEN "TryLock" ELSE "Lock")
  /\ ForgetHead(p)
  /\ UNCHANGED <<shared, call, work, local_batch, adding, session,
                 worker, reset, history>>

TakeLock(p) ==
  /\ holder = NoOne
  /\ holder' = p
  /\ Goto(p, "Check")
  /\ UNCHANGED <<head, tail, ring, counters, call, work, headSeen, local_batch, adding, session,
                 worker, reset, history>>

(* LWLockConditionalAcquire succeeds.                                      *)
TryLockOk(p) == pc[p] = "TryLock" /\ TakeLock(p)

(* It fails: PschLocalBatchAdd with room in the buffer...                  *)
AddToBatch(p) ==
  /\ pc[p] = "TryLock"
  /\ holder # NoOne
  /\ Len(local_batch[p]) < BatchCapacity
  /\ local_batch' = [local_batch EXCEPT ![p] = @ \o work[p]]
  /\ work' = [work EXCEPT ![p] = <<>>]
  /\ Goto(p, "Idle")
  /\ UNCHANGED <<shared, call, headSeen, adding, session,
                 worker, reset, history>>

(* ... and with a full one, which is flushed before the event is appended. *)
AddToFullBatch(p) ==
  /\ pc[p] = "TryLock"
  /\ holder # NoOne
  /\ Len(local_batch[p]) >= BatchCapacity
  /\ adding' = [adding EXCEPT ![p] = work[p]]
  /\ local_batch' = [local_batch EXCEPT ![p] = <<>>]
  /\ StartCall(p, "batch", local_batch[p])
  /\ UNCHANGED <<shared, session, worker, reset, history>>

(* LWLockAcquire of PschEnqueueBatch: waits for the lock.                  *)
Lock(p) == pc[p] = "Lock" /\ TakeLock(p)

-----------------------------------------------------------------------------
(* TryEnqueueLocked, for the first event of work[p].                       *)

(* Variant: off by one.                                                    *)
CheckOffByOne(p) ==
  /\ pc[p] = "Check"
  /\ headSeen' = [headSeen EXCEPT ![p] = head]
  /\ Goto(p, IF Occupancy > Capacity \/ p \in ForceOverflow
             THEN "Overflow" ELSE "Fill")
  /\ UNCHANGED <<shared, call, work, local_batch, adding, session,
                 worker, reset, history>>

(* The second test for a full queue, with the lock held.                   *)
Check(p) ==
  /\ pc[p] = "Check"
  /\ headSeen' = [headSeen EXCEPT ![p] = head]
  /\ Goto(p, IF Occupancy >= Capacity \/ p \in ForceOverflow
             THEN "Overflow" ELSE "Fill")
  /\ UNCHANGED <<shared, call, work, local_batch, adding, session,
                 worker, reset, history>>

(* The copy into the slot, string storage included.                        *)
Fill(p) ==
  /\ pc[p] = "Fill"
  /\ ring' = [ring EXCEPT ![Slot(headSeen[p])] = Head(work[p])]
  /\ Goto(p, "Publish")
  /\ UNCHANGED <<head, tail, holder, counters, call, work, headSeen,
                 local_batch, adding, session, worker, reset, history>>

(* Variants: no PG_FINALLY around the locked section; an error raised only *)
(* after the store to head.                                                *)
ThrowKeepsLock(p) ==
  /\ pc[p] = "Publish"
  /\ discarded' = discarded \cup RangeOf(work[p]) \cup RangeOf(adding[p])
  /\ work' = [work EXCEPT ![p] = <<>>]
  /\ adding' = [adding EXCEPT ![p] = <<>>]
  /\ Goto(p, IF exiting[p] THEN "Exited" ELSE "Idle")
  /\ UNCHANGED <<shared, call, headSeen, local_batch, session, worker, reset,
                 delivered, lost>>

ThrowAfterPublish(p) ==
  /\ pc[p] = "Publish"
  /\ head' = Inc(headSeen[p])
  /\ discarded' = discarded \cup RangeOf(work[p]) \cup RangeOf(adding[p])
  /\ work' = [work EXCEPT ![p] = <<>>]
  /\ adding' = [adding EXCEPT ![p] = <<>>]
  /\ Goto(p, "Unlock")
  /\ UNCHANGED <<tail, ring, holder, counters, call, headSeen, local_batch,
                 session, worker, reset, delivered, lost>>

(* An error raised while the strings are stored: PG_FINALLY releases the   *)
(* lock and the events of the call are never retried.                      *)
Throw(p) ==
  /\ pc[p] = "Publish"
  /\ discarded' = discarded \cup RangeOf(work[p]) \cup RangeOf(adding[p])
  /\ work' = [work EXCEPT ![p] = <<>>]
  /\ adding' = [adding EXCEPT ![p] = <<>>]
  /\ Goto(p, "Unlock")
  /\ ForgetHead(p)
  /\ UNCHANGED <<shared, call, local_batch, session, worker, reset, delivered,
                 lost>>

(* The store to head that makes the slot visible to the consumer.          *)
Publish(p) ==
  /\ pc[p] = "Publish"
  /\ head' = Inc(headSeen[p])
  /\ work' = [work EXCEPT ![p] = Tail(@)]
  /\ Goto(p, "Count")
  /\ ForgetHead(p)
  /\ UNCHANGED <<tail, ring, holder, counters, call, local_batch, adding,
                 session, worker, reset, history>>

(* With the lock held: the next event of a batch, or the end of the call.  *)
NextLocked(p) == IF work[p] = <<>> THEN "Unlock" ELSE "Check"

Count(p) ==
  /\ pc[p] = "Count"
  /\ enqueued' = enqueued + 1
  /\ Goto(p, NextLocked(p))
  /\ UNCHANGED <<head, tail, ring, holder, dropped, exported, overflow_logged,
                 call, work, headSeen, local_batch, adding, session, worker,
                 reset, history>>

-----------------------------------------------------------------------------
(* HandleOverflow, for the first event of work[p]: called without the lock *)
(* once per event of the call, or with the lock for one event.             *)

(* Variant: each call of HandleOverflow counts all events of the batch.    *)
OverflowCountsCall(p) ==
  /\ pc[p] = "Overflow"
  /\ dropped' = dropped + Len(work[p]) + Len(adding[p])
  /\ lost' = lost \cup {Head(work[p])}
  /\ work' = [work EXCEPT ![p] = Tail(@)]
  /\ Goto(p, "Warn")
  /\ UNCHANGED <<head, tail, ring, holder, enqueued, exported, overflow_logged,
                 call, headSeen, local_batch, adding, session, worker, reset,
                 delivered, discarded>>

Overflow(p) ==
  /\ pc[p] = "Overflow"
  /\ dropped' = dropped + 1
  /\ lost' = lost \cup {Head(work[p])}
  /\ work' = [work EXCEPT ![p] = Tail(@)]
  /\ Goto(p, "Warn")
  /\ ForgetHead(p)
  /\ UNCHANGED <<head, tail, ring, holder, enqueued, exported, overflow_logged,
                 call, local_batch, adding, session, worker, reset, delivered,
                 discarded>>

(* The caller is done: PschLocalBatchAdd appends the event it was flushing *)
(* for, an exit callback ends the backend. Between calls call is "event".  *)
Return(p) ==
  /\ call' = [call EXCEPT ![p] = "event"]
  /\ local_batch' = [local_batch EXCEPT ![p] = @ \o adding[p]]
  /\ adding' = [adding EXCEPT ![p] = <<>>]
  /\ Goto(p, IF exiting[p] THEN "Exited" ELSE "Idle")

Warn(p) ==
  /\ pc[p] = "Warn"
  /\ overflow_logged' = TRUE
  /\ \/ /\ holder = p
        /\ Goto(p, NextLocked(p))
        /\ UNCHANGED <<call, local_batch, adding>>
     \/ /\ holder # p
        /\ work[p] # <<>>
        /\ Goto(p, "Overflow")
        /\ UNCHANGED <<call, local_batch, adding>>
     \/ /\ holder # p
        /\ work[p] = <<>>
        /\ Return(p)
  /\ UNCHANGED <<head, tail, ring, holder, enqueued, dropped, exported,
                 work, headSeen, session, worker, reset, history>>

(* The warning, logged once, ends with CHECK_FOR_INTERRUPTS: a cancelled   *)
(* query leaves the call, and what is left of it is never retried.         *)
(* Interrupts are held off under the lock and while a transaction or the   *)
(* backend ends.                                                           *)
Cancel(p) ==
  /\ pc[p] = "Warn"
  /\ holder # p
  /\ call[p] = "event" \/ adding[p] # <<>>
  /\ ~overflow_logged
  /\ overflow_logged' = TRUE
  /\ discarded' = discarded \cup RangeOf(work[p]) \cup RangeOf(adding[p])
  /\ work' = [work EXCEPT ![p] = <<>>]
  /\ adding' = [adding EXCEPT ![p] = <<>>]
  /\ call' = [call EXCEPT ![p] = "event"]
  /\ Goto(p, "Idle")
  /\ UNCHANGED <<head, tail, ring, holder, enqueued, dropped, exported, headSeen,
                 local_batch, session, worker, reset, delivered, lost>>

(* LWLockRelease in PG_FINALLY.                                            *)
Unlock(p) ==
  /\ pc[p] = "Unlock"
  /\ holder' = NoOne
  /\ Return(p)
  /\ UNCHANGED <<head, tail, ring, counters, work, headSeen, session, worker,
                 reset, history>>

-----------------------------------------------------------------------------
(* The local buffer is flushed at the end of a transaction and at exit.    *)

(* Variant: local_batch_count is not reset.                                *)
FlushKeepsBuffer(p) ==
  /\ local_batch[p] # <<>>
  /\ psch_enabled[p]
  /\ StartCall(p, "batch", local_batch[p])
  /\ UNCHANGED <<local_batch, discarded>>

(* PschLocalBatchFlush of a buffer that is not empty.  The count is reset  *)
(* before PschEnqueueBatch looks at pg_stat_ch.enabled.                    *)
Flush(p) ==
  /\ local_batch[p] # <<>>
  /\ local_batch' = [local_batch EXCEPT ![p] = <<>>]
  /\ \/ /\ psch_enabled[p]
        /\ StartCall(p, "batch", local_batch[p])
        /\ UNCHANGED discarded
     \/ /\ ~psch_enabled[p]
        /\ discarded' = discarded \cup RangeOf(local_batch[p])
        /\ Goto(p, IF exiting'[p] THEN "Exited" ELSE "Idle")
        /\ UNCHANGED <<call, work, headSeen>>

(* PschXactCallback                                                        *)
TxnEnd(p) ==
  /\ pc[p] = "Idle"
  /\ UNCHANGED exiting
  /\ Flush(p)
  /\ UNCHANGED <<shared, adding, psch_enabled, made, worker, reset, delivered,
                 lost>>

(* Variant: no PschLocalBatchShutdown.                                     *)
ExitWithoutFlush(p) ==
  /\ pc[p] = "Idle"
  /\ exiting' = [exiting EXCEPT ![p] = TRUE]
  /\ Goto(p, "Exited")
  /\ UNCHANGED <<shared, call, work, headSeen, local_batch, adding,
                 psch_enabled, made, worker, reset, history>>

(* proc_exit runs PschLocalBatchShutdown.                                  *)
Exit(p) ==
  /\ pc[p] = "Idle"
  /\ exiting' = [exiting EXCEPT ![p] = TRUE]
  /\ \/ Flush(p)
     \/ /\ local_batch[p] = <<>>
        /\ Goto(p, "Exited")
        /\ UNCHANGED <<call, work, headSeen, local_batch, discarded>>
  /\ UNCHANGED <<shared, adding, psch_enabled, made, worker, reset, delivered,
                 lost>>

(* A configuration reload between two commands changes pg_stat_ch.enabled. *)
Reload(p) ==
  /\ pc[p] = "Idle"
  /\ p \in Toggling
  /\ psch_enabled' = [psch_enabled EXCEPT ![p] = ~@]
  /\ UNCHANGED <<shared, pc, call, work, headSeen, local_batch, adding,
                 exiting, made, worker, reset, history>>

-----------------------------------------------------------------------------
(* PschDequeueEvent.  Only the consumer writes tail, so reading head is    *)
(* the step that decides whether there is something to dequeue.            *)

(* Variant: the last event is left in the ring.                            *)
DequeueStartLeavesOne ==
  /\ cpc = "Idle"
  /\ Sub(head, tail) > 1
  /\ cpc' = "Copy"
  /\ UNCHANGED <<shared, backend, copied, inBatch, reset, history>>

DequeueStart ==
  /\ cpc = "Idle"
  /\ head # tail
  /\ cpc' = "Copy"
  /\ UNCHANGED <<shared, backend, copied, inBatch, reset, history>>

DequeueCopy ==
  /\ cpc = "Copy"
  /\ copied' = ring[Slot(tail)]
  /\ cpc' = "Advance"
  /\ UNCHANGED <<shared, backend, inBatch, reset, history>>

DequeueAdvance ==
  /\ cpc = "Advance"
  /\ tail' = Inc(tail)
  /\ delivered' = Append(delivered, copied)
  /\ inBatch' = inBatch + 1
  /\ copied' = NoEvent
  /\ cpc' = "Idle"
  /\ UNCHANGED <<head, ring, holder, counters, backend, reset, lost,
                 discarded>>

(* PschExportBatch hands what was dequeued to the backend and, if that     *)
(* took it, adds it to the exported counter.                               *)
ExportBatch(ok) ==
  /\ cpc = "Idle"
  /\ inBatch > 0
  /\ exported' = IF ok THEN exported + inBatch ELSE exported
  /\ inBatch' = 0
  /\ UNCHANGED <<head, tail, ring, holder, enqueued, dropped, overflow_logged,
                 backend, cpc, copied, reset, history>>

-----------------------------------------------------------------------------
(* PschResetStats: one store per counter, all under the lock.  Only the    *)
(* holder of the lock writes enqueued, so that store needs no step of its  *)
(* own; dropped, exported and overflow_logged change under its feet.       *)

ResetBegin ==
  /\ rpc = "Idle"
  /\ resets < MaxResets
  /\ holder = NoOne
  /\ holder' = Resetter
  /\ enqueued' = 0
  /\ resets' = resets + 1
  /\ rpc' = "Dropped"
  /\ UNCHANGED <<head, tail, ring, dropped, exported, overflow_logged, backend,
                 worker, history>>

ResetDropped ==
  /\ rpc = "Dropped"
  /\ dropped' = 0
  /\ rpc' = "Exported"
  /\ UNCHANGED <<head, tail, ring, holder, enqueued, exported, overflow_logged,
                 backend, worker, resets, history>>

ResetExported ==
  /\ rpc = "Exported"
  /\ exported' = 0
  /\ rpc' = "Flag"
  /\ UNCHANGED <<head, tail, ring, holder, enqueued, dropped, overflow_logged,
                 backend, worker, resets, history>>

ResetFlag ==
  /\ rpc = "Flag"
  /\ overflow_logged' = FALSE
  /\ holder' = NoOne
  /\ rpc' = "Idle"
  /\ UNCHANGED <<head, tail, ring, enqueued, dropped, exported, backend, worker,
                 resets, history>>

-----------------------------------------------------------------------------
(* What a backend does inside a call it has started.                       *)
InCall(p) ==
  \/ ReadTail(p) \/ TryLockOk(p) \/ AddToBatch(p) \/ AddToFullBatch(p)
  \/ Lock(p) \/ Check(p) \/ Fill(p) \/ Throw(p) \/ Publish(p) \/ Count(p)
  \/ Overflow(p) \/ Warn(p) \/ Cancel(p) \/ Unlock(p)

Backend(p) ==
  Report(p) \/ InCall(p) \/ TxnEnd(p) \/ Exit(p) \/ Reload(p)

Dequeue == DequeueStart \/ DequeueCopy \/ DequeueAdvance

Worker == Dequeue \/ \E ok \in BOOLEAN : ExportBatch(ok)

InReset == ResetDropped \/ ResetExported \/ ResetFlag

Next ==
  \/ \E p \in Producers : Backend(p)
  \/ Worker
  \/ ResetBegin \/ InReset

Spec == Init /\ [][Next]_vars

(* A backend inside a call and a reset inside its critical section keep    *)
(* running; the worker comes back to the queue every flush interval.       *)
(* Nobody owes the queue another event, transaction end, exit or reset.    *)
FairSpec ==
  /\ Spec
  /\ \A p \in Producers : WF_vars(InCall(p))
  /\ WF_vars(Dequeue)
  /\ WF_vars(InReset)

-----------------------------------------------------------------------------
(* Properties.                                                             *)

TypeOK ==
  /\ head \in 0..Modulus-1 /\ tail \in 0..Modulus-1
  /\ ring \in [0..Capacity-1 -> Events \cup {NoEvent}]
  /\ holder \in Producers \cup {NoOne, Resetter}
  /\ enqueued \in Nat /\ dropped \in Nat /\ exported \in Nat
  /\ overflow_logged \in BOOLEAN
  /\ pc \in [Producers -> PCs]
  /\ call \in [Producers -> {"event", "batch"}]
  /\ work \in [Producers -> Seq(Events)]
  /\ headSeen \in [Producers -> 0..Modulus-1]
  /\ local_batch \in [Producers -> Seq(Events)]
  /\ adding \in [Producers -> Seq(Events)]
  /\ exiting \in [Producers -> BOOLEAN]
  /\ psch_enabled \in [Producers -> BOOLEAN]
  /\ made \in [Producers -> 0..MaxEvents]
  /\ cpc \in {"Idle", "Copy", "Advance"}
  /\ copied \in Events \cup {NoEvent}
  /\ inBatch \in Nat
  /\ rpc \in {"Idle", "Dropped", "Exported", "Flag"}
  /\ resets \in 0..MaxResets
  /\ delivered \in Seq(Events)
  /\ lost \subseteq Events
  /\ discarded \subseteq Events

(* The ring never holds more than Capacity unread events, whatever the     *)
(* lock-free tests of PschEnqueueEvent and PschEnqueueBatch saw and        *)
(* wherever head and tail wrap around.                                     *)
Bounded == Occupancy <= Capacity

(* A slot that TryEnqueueLocked is filling is never the slot that          *)
(* PschDequeueEvent is copying, although the consumer takes no lock.       *)
NoSlotRace ==
  \A p \in Producers :
    pc[p] \in {"Fill", "Publish"} /\ cpc \in {"Copy", "Advance"}
      => Slot(headSeen[p]) # Slot(tail)

Distinct(s) == \A i, j \in 1..Len(s) : s[i] = s[j] => i = j

(* What a backend still has in its own memory, in the order of pushing.    *)
Held(p) == work[p] \o local_batch[p] \o adding[p]

Published == delivered \o Unread

Reported == {e \in Events : e[2] <= made[e[1]]}

(* Wherever a backend, the ring and the worker are, every event a hook     *)
(* reported is in exactly one place: held by its backend, published (in    *)
(* the ring or already dequeued), dropped or discarded.                    *)
EventsConserved ==
  /\ Reported = (UNION {RangeOf(Held(p)) : p \in Producers})
                  \cup RangeOf(Published) \cup lost \cup discarded
  /\ Distinct(Published)
  /\ lost \cap discarded = {}
  /\ RangeOf(Published) \cap (lost \cup discarded) = {}
  /\ \A p \in Producers :
       /\ Distinct(Held(p))
       /\ RangeOf(Held(p)) \subseteq {p} \X (1..MaxEvents)
       /\ RangeOf(Held(p)) \cap (RangeOf(Published) \cup lost \cup discarded) = {}

(* The counters pg_stat_ch_stats() reports never run ahead of what they    *)
(* count, and are exact as long as nobody calls pg_stat_ch_reset(), but    *)
(* for the event between the store to head and the increment.              *)
CountersSound ==
  LET counting == Cardinality({p \in Producers : pc[p] = "Count"})
  IN  /\ enqueued + counting <= Len(Published)
      /\ dropped <= Cardinality(lost)
      /\ exported + inBatch <= Len(delivered)
      /\ resets = 0 => /\ enqueued + counting = Len(Published)
                       /\ dropped = Cardinality(lost)

(* A backend that has run its exit callbacks leaves nothing behind in its  *)
(* process-local memory.                                                   *)
ExitedClean == \A p \in Producers : pc[p] = "Exited" => Held(p) = <<>>

(* The queue implements the abstract channel: published events come out    *)
(* once, in order and uncorrupted, and given-up events never come out.     *)
Channel == INSTANCE EventChannel
             WITH chan <- Unread, out <- delivered, lost <- lost \cup discarded

ImplementsChannel == Channel!Spec

(* Every event published in the ring is eventually dequeued.               *)
PublishedIsDelivered ==
  \A e \in Events : e \in RangeOf(Unread) ~> e \in RangeOf(delivered)

(* A backend that waits for the lock to flush its buffer gets through.     *)
FlushReturns ==
  \A p \in Producers : pc[p] = "Lock" ~> pc[p] \in {"Idle", "Exited"}

(* An event is dropped only when the ring is full at the moment the        *)
(* producer decides to drop it.                                            *)
DroppedOnlyWhenFull ==
  [][\A p \in Producers :
       pc[p] \in {"ReadTail", "Check"} /\ pc'[p] = "Overflow"
         => Occupancy >= Capacity]_vars

-----------------------------------------------------------------------------
(* The inductive invariant behind TypeOK, Bounded and NoSlotRace.          *)

LockedPCs == {"Check", "Fill", "Publish", "Count", "Unlock"}

LockInv ==
  /\ \A p \in Producers :
       /\ pc[p] \in LockedPCs => holder = p
       /\ holder = p => pc[p] \in LockedPCs \cup {"Overflow", "Warn"}
  /\ holder = Resetter <=> rpc # "Idle"

WorkInv ==
  \A p \in Producers :
    /\ pc[p] \in {"ReadTail", "TryLock", "Lock", "Check", "Fill", "Publish", "Overflow"}
         => work[p] # <<>>
    /\ pc[p] \in {"Idle", "Unlock", "Exited"} => work[p] = <<>>
    /\ pc[p] \in {"TryLock", "Idle", "Exited"} => adding[p] = <<>>
    /\ pc[p] = "ReadTail" /\ call[p] = "event" => adding[p] = <<>>

FillInv ==
  \A p \in Producers :
    /\ pc[p] \in {"Fill", "Publish"} => headSeen[p] = head /\ Occupancy < Capacity
    /\ pc[p] = "Publish" => ring[Slot(head)] = Head(work[p])

ConsumerInv ==
  /\ cpc \in {"Copy", "Advance"} => head # tail
  /\ cpc = "Advance" => copied = ring[Slot(tail)]

ExitInv ==
  \A p \in Producers :
    /\ pc[p] = "Exited" => exiting[p]
    /\ exiting[p] => /\ pc[p] \notin {"Idle", "TryLock"}
                     /\ pc[p] # "Exited" => call[p] = "batch"
                     /\ local_batch[p] = <<>> /\ adding[p] = <<>>

UnreadInv == \A i \in 1..Occupancy : ring[Slot(tail + i - 1)] \in Events

IInv ==
  /\ TypeOK
  /\ LockInv
  /\ WorkInv
  /\ FillInv
  /\ ExitInv
  /\ ConsumerInv
  /\ Bounded
  /\ UnreadInv
=============================================================================
