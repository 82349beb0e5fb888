---------------------------- MODULE ExportBatch -----------------------------
(***************************************************************************)
(* What happens to the events once the worker takes them off the ring:     *)
(* PschExportBatch (src/src/export/stats_exporter.cc) over the three       *)
(* exporters, the drain loop that repeats it and the sleep that follows.   *)
(*                                                                         *)
(* The exporters are                                                       *)
(*   clickhouse   one INSERT per batch (clickhouse_exporter.cc),           *)
(*   otel         one gRPC request per chunk of the batch,                 *)
(*   arrow        one gRPC request per Arrow block (otel_exporter.cc).     *)
(* Events are numbered in the order in which the ring accepted them.  This *)
(* is one life of the worker: a worker terminated with a batch in hand     *)
(* takes it along uncounted (BgWorker).                                    *)
(***************************************************************************)
EXTENDS OTelChunk, ArrowBatch

CONSTANTS
  Kinds,             \* the exporters to consider
  RowBytes,          \* what the values of a row may take in a request
  kMinBlockBytes,    \* 65536 in the code
  psch_otel_max_block_bytes,
  MaxEvents,         \* bound on the events accepted
  BatchMax,          \* psch_batch_max
  MaxFailures,       \* bound on the failures
  FlushInterval      \* psch_flush_interval_ms

ASSUME ExportAssumption ==
  /\ Kinds \subseteq {"clickhouse", "otel", "arrow"}
  /\ {MaxEvents, BatchMax, FlushInterval} \subseteq Nat \ {0}
  /\ {MaxFailures, kMinBlockBytes, psch_otel_max_block_bytes} \subseteq Nat
  /\ kIpcEnvelopeBytes < kMinBlockBytes
  /\ RowBytes \subseteq Nat
  /\ \E b \in RowBytes : \A c \in RowBytes : c =< b  \* no field is unlimited

VARIABLES
  kind,                  \* psch_use_otel, psch_otel_arrow_passthrough
  queue, made,           \* the ring; how many events it has accepted
  pc, sleep_ms,          \* where the worker is; how long it sleeps
  events, rest,          \* the batch in hand; its rows not yet begun
  rows,                  \* the rows begun and not yet sent
  columns_,              \* ClickHouse: what its columns hold, batch after batch
  chunk, batch_failed_,  \* OTel: the request under construction
  builder,               \* Arrow: the block under construction
  exported_count,        \* exporter->NumExported(); total_exported for arrow
  result,                \* what PschExportBatch returned
  connected,             \* exporter->IsConnected()
  consecutive_failures,
  exported, send_failures,   \* the shared counters
  outcome,               \* of the last attempt (ghost)
  block,                 \* the last block handed over, its rows (ghost)
  acked, stored,         \* rows confirmed; rows at the receiver (ghosts)
  late                   \* requests not confirmed that may yet arrive (ghost)

ring == <<kind, queue, made>>
building == <<columns_, chunk, batch_failed_, builder>>
counters == <<exported, send_failures>>
remote == <<acked, stored, late>>
vars == <<ring, pc, sleep_ms, events, rest, rows, building, exported_count,
          result, connected, consecutive_failures, counters, outcome, block,
          remote>>

-----------------------------------------------------------------------------
(* The sleep, in milliseconds: PschGetRetryDelayMs and CalculateSleepMs.   *)

kBaseDelayMs == 1000
kMaxDelayMs == 60000
kMaxConsecutiveFailures == 10

RetryDelayMs(failures) ==
  IF failures = 0 THEN 0
  ELSE Least(kMaxDelayMs,
             kBaseDelayMs * 2^(Least(failures, kMaxConsecutiveFailures) - 1))

SleepMs(failures) == Greatest(FlushInterval, RetryDelayMs(failures))

-----------------------------------------------------------------------------
NoBlock == [num_rows |-> 0, columns |-> [i \in Columns |-> <<>>],
            dictionaries |-> [i \in Dictionaries |-> {}], rows |-> <<>>]

Init ==
  /\ kind \in Kinds
  /\ queue = <<>> /\ made = 0
  /\ pc = "sleep" /\ sleep_ms = FlushInterval
  /\ events = <<>> /\ rest = <<>> /\ rows = <<>>
  /\ columns_ = [i \in Columns |-> <<>>]
  /\ chunk = NoChunk /\ batch_failed_ = FALSE
  /\ builder = NewBuilder
  /\ exported_count = 0 /\ result = 0
  /\ connected \in BOOLEAN           \* PschExporterInit has tried
  /\ consecutive_failures = 0
  /\ exported = 0 /\ send_failures = 0
  /\ outcome = "none" /\ block = NoBlock
  /\ acked = 0 /\ stored = <<>> /\ late = {}

(* The ring accepts an event from a backend.                               *)
Produce ==
  /\ made < MaxEvents
  /\ made' = made + 1
  /\ queue' = Append(queue, made + 1)
  /\ UNCHANGED <<kind, pc, sleep_ms, events, rest, rows, building,
                 exported_count, result, connected, consecutive_failures,
                 counters, outcome, block, remote>>

(* RunExportCycle: the sleep is over, or cut short, and a reload of the    *)
(* configuration may have switched otel_arrow_passthrough.                 *)
Wake ==
  /\ pc = "sleep"
  /\ pc' = "begin"
  /\ kind' \in IF kind = "clickhouse" THEN {kind} ELSE Kinds \ {"clickhouse"}
  /\ UNCHANGED <<queue, made, sleep_ms, events, rest, rows, building,
                 exported_count, result, connected, consecutive_failures,
                 counters, outcome, block, remote>>

-----------------------------------------------------------------------------
(* Leaving PschExportBatch: the batch vector is destroyed, sent or not.    *)

ReturnWith(n) ==
  /\ result' = n
  /\ pc' = "returned"
  /\ events' = <<>>
  /\ rest' = <<>>
  /\ rows' = <<>>

(* PschRecordExportFailure, n times                                        *)
Failed(what, n) ==
  /\ send_failures + n =< MaxFailures
  /\ send_failures' = send_failures + n
  /\ outcome' = what
  /\ UNCHANGED exported

(* IsConnected, EstablishNewConnection                                     *)
Connect ==
  /\ pc = "begin"
  /\ connected' = TRUE
  /\ pc' = "dequeue"
  /\ UNCHANGED <<ring, sleep_ms, events, rest, rows, building, exported_count,
                 result, consecutive_failures, counters, outcome, block,
                 remote>>

ConnectFails ==
  /\ pc = "begin"
  /\ ~connected
  /\ Failed("connect", 1)
  /\ ReturnWith(0)
  /\ UNCHANGED <<ring, sleep_ms, building, exported_count, connected,
                 consecutive_failures, block, remote>>

(* DequeueEvents: one more event.                                          *)
Dequeue ==
  /\ pc = "dequeue"
  /\ Len(events) < BatchMax
  /\ queue # <<>>
  /\ events' = Append(events, Head(queue))
  /\ queue' = Tail(queue)
  /\ UNCHANGED <<kind, made, pc, sleep_ms, rest, rows, building,
                 exported_count, result, connected, consecutive_failures,
                 counters, outcome, block, remote>>

(* ... or its vector cannot be allocated, before the first one.            *)
DequeueThrows ==
  /\ pc = "dequeue"
  /\ events = <<>>
  /\ Failed("memory", 1)
  /\ ReturnWith(0)
  /\ UNCHANGED <<ring, sleep_ms, building, exported_count, connected,
                 consecutive_failures, block, remote>>

NothingToExport ==
  /\ pc = "dequeue"
  /\ events = <<>>
  /\ queue = <<>>
  /\ ReturnWith(0)
  /\ UNCHANGED <<ring, sleep_ms, building, exported_count, connected,
                 consecutive_failures, counters, outcome, block, remote>>

(* BeginBatch of the two exporters, or the Arrow builder's constructor.    *)
BeginBatch ==
  /\ pc = "dequeue"
  /\ events # <<>>
  /\ Len(events) = BatchMax \/ queue = <<>>
  /\ rest' = events
  /\ exported_count' = 0
  /\ pc' = "rows"
  /\ block' = NoBlock
  /\ columns_' = IF kind = "clickhouse" THEN [i \in Columns |-> <<>>]
                                        ELSE columns_
  /\ IF kind = "otel" THEN chunk' = ResetChunk /\ batch_failed_' = FALSE
                      ELSE UNCHANGED <<chunk, batch_failed_>>
  /\ builder' = IF kind = "arrow" THEN NewBuilder ELSE builder
  /\ UNCHANGED <<ring, sleep_ms, events, rows, result, connected,
                 consecutive_failures, counters, outcome, remote>>

-----------------------------------------------------------------------------
(* What a request comes to: confirmed, or not, and then it may arrive all  *)
(* the same, before the next one or after it.                              *)

Confirmed ==
  /\ stored' = stored \o rows
  /\ acked' = acked + Len(rows)
  /\ UNCHANGED late

Unconfirmed(sent) ==
  /\ late' = IF sent = <<>> THEN late ELSE late \cup {sent}
  /\ UNCHANGED <<acked, stored>>

Arrive(r) ==
  /\ late' = late \ {r}
  /\ stored' = stored \o r
  /\ UNCHANGED <<ring, pc, sleep_ms, events, rest, rows, building,
                 exported_count, result, connected, consecutive_failures,
                 counters, outcome, block, acked>>

(* PschExportBatch, on an exporter's success: PschRecordExportSuccess      *)
Success(n) ==
  /\ exported' = exported + n
  /\ consecutive_failures' = 0
  /\ outcome' = "success"
  /\ ReturnWith(n)
  /\ UNCHANGED send_failures

(* Variants: what was not confirmed goes back into the queue; no backoff.  *)
SendFailedRequeues(sent, reports) ==
  /\ Failed("send", reports)
  /\ consecutive_failures' = consecutive_failures + 1
  /\ Unconfirmed(sent)
  /\ queue' = rows \o rest \o queue
  /\ UNCHANGED <<kind, made>>

SendFailedUncounted(sent, reports) ==
  /\ Failed("send", reports)
  /\ Unconfirmed(sent)
  /\ UNCHANGED <<ring, consecutive_failures>>

(* RecordFailure, FlushChunk, SendArrowBatch: a request is not confirmed.  *)
SendFailed(sent, reports) ==
  /\ Failed("send", reports)
  /\ consecutive_failures' = consecutive_failures + 1
  /\ Unconfirmed(sent)
  /\ UNCHANGED ring

(* Variant: the exception is swallowed.                                    *)
BuildThrowsSilently ==
  /\ pc = "rows"
  /\ columns_' \in IF kind = "clickhouse" /\ rest # <<>>
                     THEN {Appended(columns_, Head(rest), k) : k \in Columns}
                     ELSE {columns_}
  /\ ReturnWith(0)
  /\ UNCHANGED <<ring, sleep_ms, chunk, batch_failed_, builder, exported_count,
                 connected, consecutive_failures, counters, outcome, block,
                 remote>>

(* A C++ exception while rows are built (the barriers of ExportEventStats  *)
(* and ExportEventsAsArrow): some columns of the row may be there.         *)
BuildThrows ==
  /\ pc = "rows"
  /\ Failed("build", 1)
  /\ columns_' \in IF kind = "clickhouse" /\ rest # <<>>
                     THEN {Appended(columns_, Head(rest), k) : k \in Columns}
                     ELSE {columns_}
  /\ ReturnWith(0)
  /\ UNCHANGED <<ring, sleep_ms, chunk, batch_failed_, builder, exported_count,
                 connected, consecutive_failures, block, remote>>

-----------------------------------------------------------------------------
(* ClickHouse: rows are counted when they begin.                           *)

ClickHouseRow ==
  /\ kind = "clickhouse" /\ pc = "rows" /\ rest # <<>>
  /\ exported_count' = exported_count + 1
  /\ columns_' = Appended(columns_, Head(rest), NColumns)
  /\ rows' = Append(rows, Head(rest))
  /\ rest' = Tail(rest)
  /\ UNCHANGED <<ring, pc, sleep_ms, events, chunk, batch_failed_, builder,
                 result, connected, consecutive_failures, counters, outcome,
                 block, remote>>

(* Crunch: the columns as they are make the block.                         *)
ClickHouseBlock ==
  [NoBlock EXCEPT !.num_rows = exported_count, !.columns = columns_,
                  !.rows = rows]

CommitInsert ==
  /\ kind = "clickhouse" /\ pc = "rows" /\ rest = <<>>
  /\ block' = ClickHouseBlock
  /\ Confirmed
  /\ Success(exported_count)
  /\ UNCHANGED <<ring, sleep_ms, building, exported_count, connected>>

(* SendInsert fails: the connection is dropped, and with it what the       *)
(* server may still do with the rows.                                      *)
CommitInsertFails ==
  /\ kind = "clickhouse" /\ pc = "rows" /\ rest = <<>>
  /\ block' = ClickHouseBlock
  /\ SendFailed(rows, 1)
  /\ connected' = FALSE
  /\ ReturnWith(exported_count)
  /\ UNCHANGED <<sleep_ms, building, exported_count>>

(* CommitBatch cannot build the block: no bytes sent, connection kept.     *)
CommitUnsent ==
  /\ kind = "clickhouse" /\ pc = "rows" /\ rest = <<>>
  /\ SendFailed(<<>>, 1)
  /\ ReturnWith(exported_count)
  /\ UNCHANGED <<sleep_ms, building, exported_count, connected, block>>

-----------------------------------------------------------------------------
(* OTel: BeginRow sends the chunk when it is full; rows are counted when   *)
(* their chunk is confirmed.                                               *)

BeginRow(bytes) ==
  /\ kind = "otel" /\ pc = "rows" /\ rest # <<>>
  /\ ~batch_failed_
  /\ IF ChunkFull(chunk)
       THEN /\ Confirmed
            /\ exported_count' = exported_count + chunk.chunk_count
            /\ chunk' = AddLogRecord(ResetChunk, bytes)
            /\ rows' = <<Head(rest)>>
       ELSE /\ chunk' = AddLogRecord(chunk, bytes)
            /\ rows' = Append(rows, Head(rest))
            /\ UNCHANGED <<exported_count, remote>>
  /\ rest' = Tail(rest)
  /\ UNCHANGED <<ring, pc, sleep_ms, events, columns_, batch_failed_, builder,
                 result, connected, consecutive_failures, counters, outcome,
                 block>>

(* Variant: the batch goes on after a chunk that was not confirmed.        *)
BeginRowFailsGoesOn ==
  /\ kind = "otel" /\ pc = "rows" /\ rest # <<>>
  /\ ~batch_failed_ /\ ChunkFull(chunk)
  /\ SendFailed(rows, 1)
  /\ chunk' = Refused(chunk)
  /\ rows' = <<>>
  /\ rest' = Tail(rest)
  /\ UNCHANGED <<pc, sleep_ms, events, columns_, batch_failed_, builder,
                 exported_count, result, connected, block>>

BeginRowFails ==
  /\ kind = "otel" /\ pc = "rows" /\ rest # <<>>
  /\ ~batch_failed_ /\ ChunkFull(chunk)
  /\ SendFailed(rows, 1)
  /\ chunk' = Refused(chunk)
  /\ batch_failed_' = TRUE
  /\ rows' = <<>>
  /\ rest' = Tail(rest)
  /\ UNCHANGED <<pc, sleep_ms, events, columns_, builder, exported_count,
                 result, connected, block>>

(* FlushChunk itself throws, through BeginRow, to ExportEventStats.        *)
BeginRowThrows ==
  /\ kind = "otel" /\ pc = "rows" /\ rest # <<>>
  /\ ~batch_failed_ /\ ChunkFull(chunk)
  /\ Failed("build", 1)
  /\ Unconfirmed(rows)
  /\ chunk' = Thrown(chunk)
  /\ ReturnWith(0)
  /\ UNCHANGED <<ring, sleep_ms, columns_, batch_failed_, builder,
                 exported_count, connected, consecutive_failures, block>>

(* The rest of a failed batch is not built, and CommitBatch returns false. *)
BeginRowSkips ==
  /\ kind = "otel" /\ pc = "rows" /\ rest # <<>>
  /\ batch_failed_
  /\ rest' = Tail(rest)
  /\ UNCHANGED <<ring, pc, sleep_ms, events, rows, building, exported_count,
                 result, connected, consecutive_failures, counters, outcome,
                 block, remote>>

CommitFailedBatch ==
  /\ kind = "otel" /\ pc = "rows" /\ rest = <<>>
  /\ batch_failed_
  /\ ReturnWith(exported_count)
  /\ UNCHANGED <<ring, sleep_ms, building, exported_count, connected,
                 consecutive_failures, counters, outcome, block, remote>>

(* Variant: the rows of the batch are counted, those sent before too.      *)
CommitChunkCountsBatch ==
  /\ kind = "otel" /\ pc = "rows" /\ rest = <<>>
  /\ ~batch_failed_
  /\ Confirmed
  /\ chunk' = Sent(chunk)
  /\ exported_count' = exported_count + Len(events)
  /\ Success(exported_count')
  /\ UNCHANGED <<ring, sleep_ms, columns_, batch_failed_, builder, connected,
                 block>>

CommitChunk ==
  /\ kind = "otel" /\ pc = "rows" /\ rest = <<>>
  /\ ~batch_failed_
  /\ Confirmed
  /\ chunk' = Sent(chunk)
  /\ exported_count' = exported_count + chunk.chunk_count
  /\ Success(exported_count')
  /\ UNCHANGED <<ring, sleep_ms, columns_, batch_failed_, builder, connected,
                 block>>

(* CommitBatch reports an exception like a refusal.                        *)
CommitChunkFails ==
  /\ kind = "otel" /\ pc = "rows" /\ rest = <<>>
  /\ ~batch_failed_
  /\ SendFailed(rows, 1)
  /\ chunk' \in {Refused(chunk), Thrown(chunk)}
  /\ ReturnWith(exported_count)
  /\ UNCHANGED <<sleep_ms, columns_, batch_failed_, builder, exported_count,
                 connected, block>>

-----------------------------------------------------------------------------
(* Arrow: a block is sent when it is large enough, and at the end.         *)

max_block_bytes == Greatest(kMinBlockBytes, psch_otel_max_block_bytes)

BlockFull == builder.estimated_bytes >= max_block_bytes

FlushDue ==
  /\ kind = "arrow" /\ pc = "rows"
  /\ builder.num_rows > 0
  /\ BlockFull \/ rest = <<>>

AppendEvent(bytes) ==
  /\ kind = "arrow" /\ pc = "rows" /\ rest # <<>>
  /\ ~BlockFull
  /\ builder' = AppendRow(builder, Head(rest), bytes)
  /\ rows' = Append(rows, Head(rest))
  /\ rest' = Tail(rest)
  /\ UNCHANGED <<ring, pc, sleep_ms, events, columns_, chunk, batch_failed_,
                 exported_count, result, connected, consecutive_failures,
                 counters, outcome, block, remote>>

(* Append refuses a column, or Finish does: export_failed.                 *)
AppendEventFails(k) ==
  /\ kind = "arrow" /\ pc = "rows" /\ rest # <<>>
  /\ ~BlockFull
  /\ builder' = AppendColumns(builder, Head(rest), k - 1)
  /\ Failed("build", 1)
  /\ ReturnWith(exported_count)
  /\ UNCHANGED <<ring, sleep_ms, columns_, chunk, batch_failed_,
                 exported_count, connected, consecutive_failures, block,
                 remote>>

FinishFails(k) ==
  /\ FlushDue
  /\ builder' = FinishColumns(builder, k)
  /\ Failed("build", 1)
  /\ ReturnWith(exported_count)
  /\ UNCHANGED <<ring, sleep_ms, columns_, chunk, batch_failed_,
                 exported_count, connected, consecutive_failures, block,
                 remote>>

(* Finish has finished every column.                                       *)
ArrowBlock ==
  [num_rows |-> builder.num_rows, columns |-> builder.columns,
   dictionaries |-> builder.memo, rows |-> rows]

(* flush_builder, and Reset when there may be more rows.                   *)
FlushBuilder ==
  /\ FlushDue
  /\ block' = ArrowBlock
  /\ Confirmed
  /\ exported_count' = exported_count + builder.num_rows
  /\ IF BlockFull
       THEN /\ builder' = ResetBuilder(FinishColumns(builder, NColumns))
            /\ rows' = <<>>
            /\ consecutive_failures' = 0
            /\ UNCHANGED <<pc, events, rest, result, counters, outcome>>
       ELSE /\ builder' = FinishColumns(builder, NColumns)
            /\ Success(exported_count')
  /\ UNCHANGED <<ring, sleep_ms, columns_, chunk, batch_failed_, connected>>

(* A failure is recorded by SendArrowBatch and again after the loop.       *)
FlushBuilderFails ==
  /\ FlushDue
  /\ block' = ArrowBlock
  /\ builder' = FinishColumns(builder, NColumns)
  /\ SendFailed(rows, 2)
  /\ ReturnWith(exported_count)
  /\ UNCHANGED <<sleep_ms, columns_, chunk, batch_failed_, exported_count,
                 connected>>

(* The last row filled a block: there is nothing left to flush.            *)
ArrowDone ==
  /\ kind = "arrow" /\ pc = "rows" /\ rest = <<>>
  /\ builder.num_rows = 0
  /\ Success(exported_count)
  /\ UNCHANGED <<ring, sleep_ms, building, exported_count, connected, block,
                 remote>>

-----------------------------------------------------------------------------
(* ExportBatchWithRecovery: again after a full batch, else to sleep.       *)
Loop ==
  /\ pc = "returned"
  /\ IF result < BatchMax
       THEN pc' = "sleep" /\ sleep_ms' = SleepMs(consecutive_failures)
       ELSE pc' = "begin" /\ UNCHANGED sleep_ms
  /\ UNCHANGED <<ring, events, rest, rows, building, exported_count, result,
                 connected, consecutive_failures, counters, outcome, block,
                 remote>>

Next ==
  \/ Produce \/ Wake \/ Connect \/ ConnectFails
  \/ Dequeue \/ DequeueThrows \/ NothingToExport \/ BeginBatch \/ BuildThrows
  \/ ClickHouseRow \/ CommitInsert \/ CommitInsertFails \/ CommitUnsent
  \/ \E bytes \in RowBytes : BeginRow(bytes)
  \/ BeginRowFails \/ BeginRowThrows \/ BeginRowSkips
  \/ CommitFailedBatch \/ CommitChunk \/ CommitChunkFails
  \/ \E bytes \in RowBytes : AppendEvent(bytes)
  \/ \E k \in Columns : AppendEventFails(k)
  \/ \E k \in 0..NColumns : FinishFails(k)
  \/ FlushBuilder \/ FlushBuilderFails \/ ArrowDone
  \/ \E r \in late : Arrive(r)
  \/ Loop

Spec == Init /\ [][Next]_vars

-----------------------------------------------------------------------------
(* Properties.                                                             *)

TypeOK ==
  /\ kind \in Kinds
  /\ queue \in Seq(1..MaxEvents)
  /\ events \in Seq(1..MaxEvents)
  /\ rest \in Seq(1..MaxEvents)
  /\ rows \in Seq(1..MaxEvents)
  /\ stored \in Seq(1..MaxEvents)
  /\ made \in 0..MaxEvents
  /\ pc \in {"sleep", "begin", "dequeue", "rows", "returned"}
  /\ sleep_ms \in Nat
  /\ chunk \in Chunk
  /\ exported_count \in 0..BatchMax
  /\ result \in 0..BatchMax
  /\ connected \in BOOLEAN
  /\ batch_failed_ \in BOOLEAN
  /\ consecutive_failures \in 0..MaxFailures
  /\ exported \in 0..MaxEvents
  /\ acked \in 0..MaxEvents
  /\ send_failures \in 0..MaxFailures
  /\ late \subseteq Seq(1..MaxEvents)
  /\ outcome \in {"none", "success", "connect", "memory", "send", "build"}

InHand == IF pc = "rows" THEN rows \o rest ELSE events

(* An OTel batch that has failed is given up at once, though its rows are  *)
(* yet to be gone through.                                                 *)
Undelivered ==
  IF kind = "otel" /\ pc = "rows" /\ batch_failed_ THEN queue
                                                   ELSE InHand \o queue

Delivery ==
  INSTANCE EventDelivery WITH
    accepted <- made,
    pending  <- Undelivered,
    underway <- late,
    failures <- send_failures

(* No retry sends an event a second time and no event overtakes another,   *)
(* whichever exporter it is, whichever sends failed and whenever what they *)
(* had sent arrives: the export is an at-most-once delivery in order.      *)
ImplementsDelivery == Delivery!Spec

(* exported_events never counts an event that the receiver does not have.  *)
ExportedNotAhead == TypeOK /\ exported =< acked /\ acked =< Len(stored)

(* Every event that is gone is covered by a recorded failure: at most one  *)
(* batch for each send_failures.                                           *)
LossReported ==
  made - Len(stored \o InHand \o queue) =< BatchMax * send_failures

(* A worker that goes to sleep after a failed send backs off, also when    *)
(* the drain loop has gone round again since.                              *)
BacksOffAfterSend == pc = "sleep" /\ outcome = "send" => sleep_ms >= kBaseDelayMs

(* A block that is handed over (CommitBatch, SendArrowBatch) holds exactly *)
(* the rows begun since the last one, in every column, and its             *)
(* dictionaries no value besides, whatever an earlier batch or block left  *)
(* behind half built.                                                      *)
BlocksSound ==
  /\ block.num_rows = Len(block.rows)
  /\ \A i \in Columns : block.columns[i] = block.rows
  /\ \A i \in Dictionaries : kind = "arrow" =>
       block.dictionaries[i] = Range(block.rows)

LargestRow == CHOOSE b \in RowBytes : \A c \in RowBytes : c =< b

(* The request of an OTel batch that goes on is the live one, FlushChunk   *)
(* having moved its predecessor away, and holds the rows begun; in a batch *)
(* that does not, no column of a skipped row writes anywhere.  No request  *)
(* and no Arrow block outgrows its limits by more than the row that        *)
(* reached them, and otel_log_batch_size by none.                          *)
RequestsSound ==
  /\ kind = "otel" /\ pc = "rows" =>
       IF batch_failed_ THEN ~chunk.in_row
       ELSE chunk.request = "live" /\ chunk.chunk_count = Len(rows)
  /\ chunk.chunk_count =< psch_otel_log_batch_size
  /\ chunk.chunk_bytes < max_chunk_bytes + kLogRecordOverheadBytes + LargestRow
  /\ builder.estimated_bytes < max_block_bytes + kFixedBytesPerRow + LargestRow
=============================================================================
