----------------------------- MODULE QueueStats -----------------------------
(***************************************************************************)
(* pg_stat_ch_stats() beside the queue: PschGetStats                       *)
(* (src/src/queue/shmem.c) reads the counters, then the two positions, one *)
(* atomic at a time and without the lock, while backends, the worker and   *)
(* pg_stat_ch_reset() go on.                                               *)
(***************************************************************************)
EXTENDS RingQueue

CONSTANT SizeModulus   \* queue_size is cut to this width: 2^32 in the code

ASSUME SizeModulusAssumption ==
  /\ SizeModulus \in Nat \ {0}
  /\ Modulus % SizeModulus = 0
  /\ 2 * Capacity < SizeModulus

VARIABLES spc,         \* where PschGetStats is
          row,         \* the row it is filling
          publishedThen  \* history: events published when head was read

statsVars == <<spc, row, publishedThen>>

EmptyRow == [enqueued |-> 0, dropped |-> 0, exported |-> 0, head |-> 0,
             queue_size |-> 0]

StatsInit ==
  /\ Init
  /\ spc = "Idle"
  /\ row = EmptyRow
  /\ publishedThen = 0

(* One atomic read into a field of the row.                                *)
Fetch(from, field, value, to) ==
  /\ spc = from
  /\ row' = [row EXCEPT ![field] = value]
  /\ spc' = to
  /\ UNCHANGED <<vars, publishedThen>>

StatsEnqueued == Fetch("Idle", "enqueued", enqueued, "Dropped")
StatsDropped  == Fetch("Dropped", "dropped", dropped, "Exported")
StatsExported == Fetch("Exported", "exported", exported, "Head")

StatsHead ==
  /\ spc = "Head"
  /\ row' = [row EXCEPT !.head = head]
  /\ publishedThen' = Len(Published)
  /\ spc' = "Tail"
  /\ UNCHANGED vars

(* (uint32)(head - tail)                                                   *)
StatsTail ==
  Fetch("Tail", "queue_size", Sub(row.head, tail) % SizeModulus, "Text")

(* The error text and timestamps are copied under the lock in shared mode, *)
(* and the row is returned.                                                *)
StatsReturn ==
  /\ spc = "Text"
  /\ holder = NoOne
  /\ spc' = "Idle"
  /\ row' = EmptyRow
  /\ publishedThen' = 0
  /\ UNCHANGED vars

(* Variant: the positions are read before the counters.                    *)
GetStatsPositionsFirst ==
  \/ /\ spc = "Idle"
     /\ row' = [row EXCEPT !.head = head]
     /\ publishedThen' = Len(Published)
     /\ spc' = "Tail"
     /\ UNCHANGED vars
  \/ Fetch("Tail", "queue_size", Sub(row.head, tail) % SizeModulus, "Enqueued")
  \/ Fetch("Enqueued", "enqueued", enqueued, "Text")
  \/ StatsReturn

(* Variant: the tail is read before the head.                              *)
GetStatsTailFirst ==
  \/ StatsEnqueued \/ StatsDropped \/ StatsExported
  \/ /\ spc = "Head"
     /\ row' = [row EXCEPT !.head = tail]
     /\ publishedThen' = Len(Published)
     /\ spc' = "Tail"
     /\ UNCHANGED vars
  \/ Fetch("Tail", "queue_size", Sub(head, row.head) % SizeModulus, "Text")
  \/ StatsReturn

GetStats ==
  \/ StatsEnqueued \/ StatsDropped \/ StatsExported
  \/ StatsHead \/ StatsTail \/ StatsReturn

StatsNext ==
  \/ Next /\ UNCHANGED statsVars
  \/ GetStats

StatsSpec == StatsInit /\ [][StatsNext]_<<vars, statsVars>>

(* The queue's own fairness; nobody owes a call of pg_stat_ch_stats().     *)
FairStatsSpec ==
  /\ StatsSpec
  /\ \A p \in Producers : WF_vars(InCall(p))
  /\ WF_vars(Dequeue)
  /\ WF_vars(InReset)

-----------------------------------------------------------------------------
(* The snapshot the comment on PschGetStats asks for: the counters reflect *)
(* the same or an earlier state than the positions, so a row never counts  *)
(* an event that the head it was computed from does not cover.             *)
CountersNotAheadOfPositions ==
  spc \in {"Tail", "Text"} => row.enqueued <= publishedThen

(* queue_size as pg_stat_ch_stats() shows it, an int4.                     *)
Signed(n) == IF 2 * n < SizeModulus THEN n ELSE n - SizeModulus

(* The head and the tail are read apart, yet queue_size never exceeds the  *)
(* capacity, and what it falls short of zero is at most what has been      *)
(* published, and dequeued, since the head was read.                       *)
QueueSizeBounded ==
  spc = "Text" =>
    Signed(row.queue_size) \in (publishedThen - Len(Published))..Capacity
=============================================================================
