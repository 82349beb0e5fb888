------------------------- MODULE ExportBatchProofs --------------------------
(***************************************************************************)
(* Proofs about ExportBatch, for every size of the batches, the chunks and *)
(* the blocks, any number of columns and any events and failures: the      *)
(* export delivers at most once and in order, counts no event that did not *)
(* arrive and loses none without a failure, backs off, and builds requests *)
(* and blocks that hold the rows they should.                              *)
(***************************************************************************)
EXTENDS ExportBatch, SequenceTheorems, TLAPS

(* The inductive invariant.                                                *)

Builder ==
  [columns : [Columns -> Seq(1..MaxEvents)],
   memo : [Dictionaries -> SUBSET (1..MaxEvents)],
   num_rows : Nat, estimated_bytes : Nat]

Typed == TypeOK /\ builder \in Builder

(* What the worker holds where.                                            *)
Places ==
  /\ pc # "rows" => rows = <<>> /\ rest = <<>>
  /\ pc \notin {"dequeue", "rows"} => events = <<>>

GivenUp == kind = "otel" /\ batch_failed_

(* The number of events in hand, and of those that may yet be sent.        *)
Held == IF pc = "rows" THEN Len(rows) + Len(rest) ELSE Len(events)
Kept == IF pc = "rows" /\ GivenUp THEN 0 ELSE Held

(* Of the events accepted, those confirmed, those in hand and those in the *)
(* ring are different ones, and what is missing was taken by a failure.    *)
Conserved ==
  /\ Held =< BatchMax
  /\ acked + Held + Len(queue) =< made
  /\ acked =< Len(stored)
  /\ made =< Len(stored) + Kept + Len(queue) + BatchMax * send_failures

(* The rows counted: at once for ClickHouse, with their chunk or block for *)
(* the others.                                                             *)
Counted ==
  /\ exported =< acked
  /\ pc = "rows" /\ kind = "clickhouse" => exported_count = Len(rows)
  /\ pc = "rows" /\ kind # "clickhouse" =>
       /\ exported + exported_count =< acked
       /\ exported_count + Held =< BatchMax
  /\ pc = "rows" /\ GivenUp => rows = <<>>

(* A column has the rows begun, and a dictionary their values.             *)
Filled ==
  /\ pc = "rows" /\ kind = "clickhouse" => \A i \in Columns : columns_[i] = rows
  /\ pc = "rows" /\ kind = "arrow" =>
       /\ builder.num_rows = Len(rows)
       /\ \A i \in Columns : builder.columns[i] = rows
       /\ \A i \in Dictionaries : builder.memo[i] = Range(rows)

(* The last block of an OTel exporter was as it should be, also when it is *)
(* switched to records and back since.                                     *)
Handed ==
  /\ BlocksSound
  /\ kind # "clickhouse" =>
       \A i \in Dictionaries : block.dictionaries[i] = Range(block.rows)

(* A failed send is remembered until the worker sleeps; only an Arrow      *)
(* batch clears the count before it knows how it ends.                     *)
Remembered ==
  /\ consecutive_failures =< send_failures
  /\ outcome = "send" =>
       consecutive_failures > 0 \/ (pc = "rows" /\ kind = "arrow")
  /\ pc = "sleep" /\ consecutive_failures > 0 => sleep_ms >= kBaseDelayMs

IInv ==
  /\ Typed /\ Places /\ Conserved /\ Counted
  /\ Filled /\ Handed /\ Remembered /\ RequestsSound

-----------------------------------------------------------------------------
(* The constants and the operators of the model.                           *)

(* The constants are numbers.                                              *)
LEMMA ConstantTypes ==
  /\ MaxEvents \in Nat \ {0} /\ BatchMax \in Nat \ {0}
  /\ FlushInterval \in Nat \ {0} /\ MaxFailures \in Nat
  /\ NColumns \in Nat \ {0} /\ Dictionaries \subseteq Columns
  /\ \A b \in RowBytes : b \in Nat
  BY ExportAssumption, ArrowAssumption, Zenon DEF Columns

(* A fresh request and a fresh block are within the limits, and a chunk    *)
(* that is not full has room for a record in otel_log_batch_size.          *)
LEMMA Limits ==
  /\ max_chunk_bytes \in Nat /\ kRequestOverheadBytes \in Nat
  /\ kLogRecordOverheadBytes \in Nat
  /\ kRequestOverheadBytes < max_chunk_bytes
  /\ psch_otel_log_batch_size \in Nat
  /\ max_chunk_records \in 1..psch_otel_log_batch_size
  /\ max_block_bytes \in Nat /\ kIpcEnvelopeBytes \in Nat
  /\ kFixedBytesPerRow \in Nat
  /\ kIpcEnvelopeBytes < max_block_bytes
  /\ LargestRow \in Nat
  /\ \A b \in RowBytes : b \in Nat /\ b =< LargestRow
<1>1. /\ max_chunk_bytes \in Nat /\ kRequestOverheadBytes \in Nat
      /\ kLogRecordOverheadBytes \in Nat
      /\ kRequestOverheadBytes < max_chunk_bytes
  BY OTelAssumption DEF max_chunk_bytes, Greatest
<1>2. /\ psch_otel_log_batch_size \in Nat
      /\ max_chunk_records \in 1..psch_otel_log_batch_size
  <2> DEFINE d == max_chunk_bytes \div kMinBytesPerRecord
  <2>1. psch_otel_log_batch_size \in Nat \ {0} /\ kMinBytesPerRecord \in Nat \ {0}
    BY OTelAssumption, Zenon
  <2>2. d \in Nat
    BY <1>1, <2>1
  <2> HIDE DEF d
  <2> QED
    BY <2>1, <2>2 DEF max_chunk_records, Greatest, Least, d
<1>3. /\ max_block_bytes \in Nat /\ kIpcEnvelopeBytes \in Nat
      /\ kFixedBytesPerRow \in Nat
      /\ kIpcEnvelopeBytes < max_block_bytes
  BY ExportAssumption, ArrowAssumption DEF max_block_bytes, Greatest
<1>4. LargestRow \in RowBytes /\ \A b \in RowBytes : b =< LargestRow
  BY ExportAssumption, Zenon DEF LargestRow
<1>5. \A b \in RowBytes : b \in Nat
  BY ExportAssumption, Zenon
<1> QED
  BY <1>1, <1>2, <1>3, <1>4, <1>5, Zenon

(* The powers of two the back-off multiplies by.                           *)
LEMMA Powers ==
  ASSUME NEW n \in 0..9
  PROVE  2^n \in Nat /\ 2^n >= 1
<1>1. CASE n = 0
  BY <1>1
<1>2. CASE n = 1
  BY <1>2
<1>3. CASE n = 2
  BY <1>3
<1>4. CASE n = 3
  BY <1>4
<1>5. CASE n = 4
  BY <1>5
<1>6. CASE n = 5
  BY <1>6
<1>7. CASE n = 6
  BY <1>7
<1>8. CASE n = 7
  BY <1>8
<1>9. CASE n = 8
  BY <1>9
<1>10. CASE n = 9
  BY <1>10
<1> QED
  BY <1>1, <1>2, <1>3, <1>4, <1>5, <1>6, <1>7, <1>8, <1>9, <1>10

(* CalculateSleepMs backs off after any number of failures but none.       *)
LEMMA SleepBacksOff ==
  ASSUME NEW f \in Nat
  PROVE  SleepMs(f) \in Nat /\ (f > 0 => SleepMs(f) >= kBaseDelayMs)
<1>1. FlushInterval \in Nat
  BY ConstantTypes
<1>2. ASSUME f > 0
      PROVE  RetryDelayMs(f) \in Nat /\ RetryDelayMs(f) >= kBaseDelayMs
  <2> DEFINE n == Least(f, 10) - 1
  <2>1. n \in 0..9
    BY <1>2 DEF Least
  <2> DEFINE p == 2^n
  <2>2. RetryDelayMs(f) = Least(60000, 1000 * p)
    BY <1>2
       DEF RetryDelayMs, kMaxDelayMs, kBaseDelayMs, kMaxConsecutiveFailures
  <2> HIDE DEF n
  <2>3. p \in Nat /\ p >= 1
    BY <2>1, Powers, Zenon
  <2> HIDE DEF p
  <2> QED
    BY <2>2, <2>3 DEF Least, kBaseDelayMs
<1>3. CASE f = 0
  BY <1>1, <1>3 DEF SleepMs, RetryDelayMs, Greatest
<1>4. CASE f > 0
  BY <1>1, <1>2, <1>4 DEF SleepMs, Greatest, kBaseDelayMs
<1> QED
  BY <1>3, <1>4

(* Taking the next event from one sequence to the other.                   *)
LEMMA Moved ==
  ASSUME NEW S, NEW s \in Seq(S), NEW t \in Seq(S), t # <<>>
  PROVE  /\ Len(s) \in Nat /\ Len(t) \in Nat \ {0}
         /\ Head(t) \in S
         /\ Append(s, Head(t)) \in Seq(S)
         /\ Len(Append(s, Head(t))) = Len(s) + 1
         /\ Tail(t) \in Seq(S)
         /\ Len(Tail(t)) = Len(t) - 1
         /\ Append(s, Head(t)) \o Tail(t) = s \o t
<1>1. Len(s) \in Nat /\ Len(t) \in Nat \ {0}
  BY EmptySeq
<1>2. /\ Head(t) \in S /\ Tail(t) \in Seq(S) /\ Len(Tail(t)) = Len(t) - 1
      /\ <<Head(t)>> \o Tail(t) = t
  <2>1. /\ Head(t) \in S /\ Tail(t) \in Seq(S) /\ Len(Tail(t)) = Len(t) - 1
        /\ Head(t) = t[1]
    BY <1>1, HeadTailProperties
  <2>2. Tail(t) = SubSeq(t, 2, Len(t))
    BY TailIsSubSeq, Zenon
  <2>3. SubSeq(t, 1, Len(t)) = t
    BY SubSeqFull, Zenon
  <2>4. SubSeq(t, 1, Len(t)) = <<t[1]>> \o SubSeq(t, 1 + 1, Len(t))
    BY <1>1, SubSeqRecursiveFirst
  <2> QED
    BY <2>1, <2>2, <2>3, <2>4
<1>3. Append(s, Head(t)) \in Seq(S) /\ Len(Append(s, Head(t))) = Len(s) + 1
  BY <1>2, AppendProperties
<1>4. Append(s, Head(t)) = s \o <<Head(t)>>
  BY <1>2, AppendIsConcat, Zenon
<1>5. (s \o <<Head(t)>>) \o Tail(t) = s \o (<<Head(t)>> \o Tail(t))
  <2>1. <<Head(t)>> \in Seq(S)
    BY <1>2
  <2> QED
    BY <1>2, <2>1, ConcatAssociative
<1> QED
  BY <1>1, <1>2, <1>3, <1>4, <1>5, Zenon

(* The sizes are numbers, and what is in hand is no more than a batch.     *)
LEMMA Sizes ==
  ASSUME Typed
  PROVE  /\ Len(queue) \in Nat /\ Len(events) \in Nat /\ Len(rest) \in Nat
         /\ Len(rows) \in Nat /\ Len(stored) \in Nat
         /\ Held \in Nat /\ Kept \in 0..Held
         /\ made \in Nat /\ acked \in Nat /\ exported \in Nat
         /\ exported_count \in Nat /\ send_failures \in Nat
         /\ consecutive_failures \in Nat
         /\ chunk.chunk_count \in Nat /\ chunk.chunk_bytes \in Nat
         /\ builder.num_rows \in Nat /\ builder.estimated_bytes \in Nat
<1>1. /\ Len(queue) \in Nat /\ Len(events) \in Nat /\ Len(rest) \in Nat
      /\ Len(rows) \in Nat /\ Len(stored) \in Nat
  BY LenProperties, Zenon DEF Typed, TypeOK
<1>2. /\ made \in Nat /\ acked \in Nat /\ exported \in Nat
      /\ exported_count \in Nat /\ send_failures \in Nat
      /\ consecutive_failures \in Nat
  BY DEF Typed, TypeOK
<1>3. /\ chunk.chunk_count \in Nat /\ chunk.chunk_bytes \in Nat
      /\ builder.num_rows \in Nat /\ builder.estimated_bytes \in Nat
  BY Zenon DEF Typed, TypeOK, Chunk, Builder
<1>4. Held \in Nat /\ Kept \in 0..Held
  BY <1>1 DEF Held, Kept
<1> QED
  BY <1>1, <1>2, <1>3, <1>4, Zenon

(* A failure more covers a batch more.                                     *)
LEMMA OneMoreBatch ==
  ASSUME NEW f \in Nat, NEW g \in Nat, f =< g
  PROVE  /\ BatchMax * f \in Nat /\ BatchMax * g \in Nat
         /\ BatchMax * f =< BatchMax * g
         /\ f < g => BatchMax * f + BatchMax =< BatchMax * g
<1>1. BatchMax \in Nat
  BY ConstantTypes, Zenon
<1> QED
  BY <1>1

-----------------------------------------------------------------------------
(* What a step does to the batch in hand: it is gone, with a failure if    *)
(* there was something left to send, ...                                   *)
LEMMA BatchGone ==
  ASSUME IInv, NEW n \in 0..BatchMax, ReturnWith(n),
         UNCHANGED <<ring, sleep_ms, exported_count, exported, acked, stored>>,
         late' \subseteq Seq(1..MaxEvents),
         chunk' \in Chunk, builder' \in Builder,
         batch_failed_' \in BOOLEAN, connected' \in BOOLEAN,
         send_failures' \in send_failures..MaxFailures,
         consecutive_failures' \in 0..send_failures',
         outcome' \in {"none", "success", "connect", "memory", "send", "build"},
         Kept > 0 => send_failures < send_failures'
  PROVE  Typed' /\ Places' /\ Conserved' /\ Counted'
<1>1. /\ Held \in Nat /\ Kept \in 0..Held /\ Len(queue) \in Nat
      /\ Len(stored) \in Nat
      /\ made \in Nat /\ acked \in Nat /\ exported \in Nat
      /\ send_failures \in Nat /\ send_failures' \in Nat
      /\ MaxFailures \in Nat /\ BatchMax \in Nat
  <2>1. MaxFailures \in Nat /\ BatchMax \in Nat
    BY ConstantTypes, Zenon
  <2> QED
    BY <2>1, Sizes DEF IInv
<1>2. /\ pc' = "returned" /\ result' = n
      /\ events' = <<>> /\ rest' = <<>> /\ rows' = <<>>
  BY Zenon DEF ReturnWith
<1>3. Typed'
  <2>1. consecutive_failures' \in 0..MaxFailures
    BY <1>1
  <2>2. TypeOK
    BY Zenon DEF IInv, Typed
  <2>3. UNCHANGED <<kind, queue, made>>
    BY Zenon DEF ring
  <2>4. <<>> \in Seq(1..MaxEvents)
    BY EmptySeq, Zenon
  <2>5. /\ events' \in Seq(1..MaxEvents) /\ rest' \in Seq(1..MaxEvents)
        /\ rows' \in Seq(1..MaxEvents) /\ stored' \in Seq(1..MaxEvents)
        /\ queue' \in Seq(1..MaxEvents)
    BY <1>2, <2>2, <2>3, <2>4, Zenon DEF TypeOK
  <2>6. send_failures' \in 0..MaxFailures
    BY <1>1
  <2> QED
    BY <1>2, <2>1, <2>2, <2>3, <2>5, <2>6, Zenon DEF Typed, TypeOK
<1>4. Held' = 0 /\ Kept' = 0
  BY <1>2, Zenon DEF Held, Kept
<1>5. Places'
  BY <1>2, Zenon DEF Places
<1>6. Conserved'
  <2>1. /\ Held =< BatchMax /\ acked + Held + Len(queue) =< made
        /\ acked =< Len(stored)
        /\ made =< Len(stored) + Kept + Len(queue) + BatchMax * send_failures
    BY Zenon DEF IInv, Conserved
  <2>2. UNCHANGED <<acked, queue, stored, made>>
    BY Zenon DEF ring
  <2> DEFINE before == BatchMax * send_failures
             after == BatchMax * send_failures'
  <2>3. /\ before \in Nat /\ after \in Nat /\ before =< after
        /\ send_failures < send_failures' => before + BatchMax =< after
    <3>1. send_failures =< send_failures'
      BY <1>1
    <3> QED
      BY <1>1, <3>1, OneMoreBatch, Zenon
  <2> HIDE DEF before, after
  <2>4. made =< Len(stored) + Kept + Len(queue) + before
    BY <2>1, Zenon DEF before
  <2>5. made =< Len(stored) + Len(queue) + after
    BY <1>1, <2>1, <2>3, <2>4
  <2>6. made' =< Len(stored') + Kept' + Len(queue') + after
    BY <1>1, <1>4, <2>2, <2>3, <2>5
  <2> QED
    BY <1>1, <1>4, <2>1, <2>2, <2>6 DEF Conserved, after
<1>7. Counted'
  BY <1>2, Zenon DEF IInv, Counted
<1> QED
  BY <1>3, <1>5, <1>6, <1>7, Zenon

(* ... one of its rows is begun, ...                                       *)
LEMMA RowBegun ==
  ASSUME IInv, pc = "rows", rest # <<>>, ~GivenUp,
         rows' = Append(rows, Head(rest)), rest' = Tail(rest),
         exported_count' = IF kind = "clickhouse" THEN exported_count + 1
                                                  ELSE exported_count,
         UNCHANGED <<ring, pc, sleep_ms, events, batch_failed_, result,
                     connected, consecutive_failures, counters, outcome,
                     remote>>,
         chunk' \in Chunk, builder' \in Builder
  PROVE  Typed' /\ Places' /\ Conserved' /\ Counted'
<1>1. /\ Held \in Nat /\ Len(rows) \in Nat /\ exported_count \in Nat
      /\ BatchMax \in Nat /\ Held =< BatchMax
      /\ TypeOK
  <2>1. BatchMax \in Nat
    BY ConstantTypes, Zenon
  <2> QED
    BY <2>1, Sizes, Zenon DEF IInv, Conserved, Typed
<1>2. UNCHANGED <<kind, queue, made, exported, send_failures, acked, stored, late>>
  BY Zenon DEF ring, counters, remote
<1>3. /\ Len(rest) \in Nat \ {0}
      /\ rows' \in Seq(1..MaxEvents) /\ Len(rows') = Len(rows) + 1
      /\ rest' \in Seq(1..MaxEvents) /\ Len(rest') = Len(rest) - 1
  BY <1>1, Moved, Zenon DEF TypeOK
<1>4. ~GivenUp' /\ Held' = Held /\ Kept' = Kept
  <2>1. ~GivenUp'
    BY <1>2, Zenon DEF GivenUp
  <2>2. Held' = Held
    BY <1>1, <1>3 DEF Held
  <2> QED
    BY <2>1, <2>2, Zenon DEF Kept
<1>5. exported_count' \in 0..BatchMax
  <2>1. CASE kind = "clickhouse"
    <3>1. exported_count = Len(rows) /\ Held = Len(rows) + Len(rest)
      BY <2>1, Zenon DEF IInv, Counted, Held
    <3> QED
      BY <1>1, <1>3, <2>1, <3>1
  <2>2. CASE kind # "clickhouse"
    BY <1>1, <2>2, Zenon DEF TypeOK
  <2> QED
    BY <2>1, <2>2, Zenon
<1>6. Typed'
  BY <1>1, <1>2, <1>3, <1>5, Zenon DEF Typed, TypeOK
<1>7. Places'
  BY Zenon DEF IInv, Places
<1>8. Conserved'
  BY <1>2, <1>4, Zenon DEF IInv, Conserved
<1>9. Counted'
  <2>1. pc' = "rows" /\ kind' = kind
    BY <1>2, Zenon
  <2>2. kind = "clickhouse" => exported_count' = Len(rows')
    BY <1>1, <1>3, Zenon DEF IInv, Counted
  <2>3. kind # "clickhouse" =>
          /\ exported' + exported_count' =< acked'
          /\ exported_count' + Held' =< BatchMax
    BY <1>2, <1>4, Zenon DEF IInv, Counted
  <2>4. exported' =< acked'
    BY <1>2, Zenon DEF IInv, Counted
  <2> QED
    BY <1>4, <2>1, <2>2, <2>3, <2>4, Zenon DEF Counted
<1> QED
  BY <1>6, <1>7, <1>8, <1>9, Zenon

(* Confirming the rows begun.                                              *)
LEMMA Confirming ==
  ASSUME IInv, pc = "rows", Confirmed
  PROVE  /\ Held = Len(rows) + Len(rest)
         /\ Len(rows) \in Nat /\ Len(rest) \in Nat /\ Len(queue) \in Nat
         /\ stored' \in Seq(1..MaxEvents)
         /\ Len(stored) \in Nat /\ Len(stored') = Len(stored) + Len(rows)
         /\ acked' = acked + Len(rows) /\ acked' \in 0..MaxEvents
         /\ acked' =< Len(stored')
         /\ acked \in Nat /\ made \in 0..MaxEvents /\ MaxEvents \in Nat
         /\ late' = late
<1>1. /\ Held = Len(rows) + Len(rest)
      /\ Len(rows) \in Nat /\ Len(rest) \in Nat /\ Len(queue) \in Nat
      /\ Len(stored) \in Nat
      /\ acked \in Nat /\ made \in 0..MaxEvents /\ MaxEvents \in Nat
  <2>1. MaxEvents \in Nat
    BY ConstantTypes, Zenon
  <2>2. Held = Len(rows) + Len(rest)
    BY Zenon DEF Held
  <2>3. made \in 0..MaxEvents
    BY Zenon DEF IInv, Typed, TypeOK
  <2> QED
    BY <2>1, <2>2, <2>3, Sizes, Zenon DEF IInv
<1>2. stored' \in Seq(1..MaxEvents) /\ Len(stored') = Len(stored) + Len(rows)
  <2>1. rows \in Seq(1..MaxEvents) /\ stored \in Seq(1..MaxEvents)
    BY Zenon DEF IInv, Typed, TypeOK
  <2> QED
    BY <2>1, ConcatProperties, Zenon DEF Confirmed
<1>3. acked' = acked + Len(rows) /\ late' = late
  BY Zenon DEF Confirmed
<1>4. acked + Held + Len(queue) =< made /\ acked =< Len(stored)
  BY Zenon DEF IInv, Conserved
<1>5. acked' \in 0..MaxEvents /\ acked' =< Len(stored')
  BY <1>1, <1>2, <1>3, <1>4
<1> QED
  BY <1>1, <1>2, <1>3, <1>5, Zenon

(* ... those begun are confirmed and the batch goes on, perhaps with the   *)
(* next row, ...                                                           *)
LEMMA PartConfirmed ==
  ASSUME IInv, pc = "rows", kind # "clickhouse", ~GivenUp, Confirmed,
         exported_count' = exported_count + Len(rows),
         \/ rows' = <<>> /\ rest' = rest
         \/ rest # <<>> /\ rows' = <<Head(rest)>> /\ rest' = Tail(rest),
         consecutive_failures' \in {0, consecutive_failures},
         UNCHANGED <<ring, pc, sleep_ms, events, batch_failed_, result,
                     connected, counters, outcome>>,
         chunk' \in Chunk, builder' \in Builder
  PROVE  Typed' /\ Places' /\ Conserved' /\ Counted'
<1>1. /\ Held = Len(rows) + Len(rest)
      /\ Len(rows) \in Nat /\ Len(rest) \in Nat /\ Len(queue) \in Nat
      /\ stored' \in Seq(1..MaxEvents)
      /\ Len(stored) \in Nat /\ Len(stored') = Len(stored) + Len(rows)
      /\ acked' = acked + Len(rows) /\ acked' \in 0..MaxEvents
      /\ acked' =< Len(stored')
      /\ acked \in Nat /\ made \in 0..MaxEvents /\ MaxEvents \in Nat
      /\ late' = late
  BY Confirming, Zenon
<1>2. /\ TypeOK /\ BatchMax \in Nat /\ exported_count \in Nat
      /\ exported \in Nat /\ send_failures \in Nat
  <2>1. BatchMax \in Nat
    BY ConstantTypes, Zenon
  <2> QED
    BY <2>1, Sizes, Zenon DEF IInv, Typed
<1>3. UNCHANGED <<kind, queue, made, exported, send_failures>>
  BY Zenon DEF ring, counters
<1>4. /\ rows' \in Seq(1..MaxEvents) /\ rest' \in Seq(1..MaxEvents)
      /\ Len(rows') \in Nat /\ Len(rest') \in Nat
      /\ Len(rows') + Len(rest') = Len(rest)
  <2>1. CASE rows' = <<>> /\ rest' = rest
    <3>1. rows' \in Seq(1..MaxEvents) /\ Len(rows') = 0
      BY <2>1, EmptySeq, Zenon
    <3> QED
      BY <1>1, <1>2, <2>1, <3>1 DEF TypeOK
  <2>2. CASE rest # <<>> /\ rows' = <<Head(rest)>> /\ rest' = Tail(rest)
    <3>1. rest \in Seq(1..MaxEvents) /\ rows \in Seq(1..MaxEvents)
      BY <1>2, Zenon DEF TypeOK
    <3>2. /\ Head(rest) \in 1..MaxEvents /\ Len(rest) \in Nat \ {0}
          /\ Tail(rest) \in Seq(1..MaxEvents) /\ Len(Tail(rest)) = Len(rest) - 1
      BY <2>2, <3>1, Moved, Zenon
    <3>3. rows' \in Seq(1..MaxEvents) /\ Len(rows') = 1
      BY <2>2, <3>2
    <3> QED
      BY <2>2, <3>2, <3>3
  <2> QED
    BY <2>1, <2>2, Zenon
<1>5. /\ Held' = Len(rest) /\ Kept' = Len(rest) /\ ~GivenUp'
      /\ Kept = Len(rows) + Len(rest)
  <2>1. ~GivenUp'
    BY <1>3, Zenon DEF GivenUp
  <2> QED
    BY <1>1, <1>4, <2>1, Zenon DEF Held, Kept
<1>6. /\ Held =< BatchMax /\ acked + Held + Len(queue) =< made
      /\ exported =< acked
      /\ exported + exported_count =< acked
      /\ exported_count + Held =< BatchMax
  BY Zenon DEF IInv, Conserved, Counted
<1>7. exported_count' \in 0..BatchMax
  <2>1. exported_count + Len(rows) =< exported_count + Held
    BY <1>1, <1>2
  <2>2. exported_count + Len(rows) \in Nat /\ exported_count + Held \in Nat
    BY <1>1, <1>2
  <2> QED
    BY <1>2, <1>6, <2>1, <2>2
<1>8. consecutive_failures' \in 0..MaxFailures
  <2>1. MaxFailures \in Nat
    BY ConstantTypes, Zenon
  <2> QED
    BY <1>2, <2>1 DEF TypeOK
<1>9. Typed'
  BY <1>1, <1>2, <1>3, <1>4, <1>7, <1>8, Zenon DEF Typed, TypeOK
<1>10. Places'
  BY Zenon DEF IInv, Places
<1>11. Conserved'
  <2> DEFINE covered == BatchMax * send_failures
  <2>1. covered \in Nat /\ made =< Len(stored) + Kept + Len(queue) + covered
    BY <1>2 DEF IInv, Conserved
  <2>2. covered' = covered
    BY <1>3, Zenon
  <2> HIDE DEF covered
  <2>3. made' =< Len(stored') + Kept' + Len(queue') + covered'
    BY <1>1, <1>3, <1>5, <2>1, <2>2
  <2>4. /\ Held' =< BatchMax /\ acked' + Held' + Len(queue') =< made'
        /\ acked' =< Len(stored')
    BY <1>1, <1>2, <1>3, <1>5, <1>6
  <2> QED
    BY <2>3, <2>4, Zenon DEF Conserved, covered
<1>12. Counted'
  <2>1. pc' = "rows" /\ kind' # "clickhouse"
    BY <1>3, Zenon
  <2>2. exported' =< acked'
    <3>1. \A n \in Nat : exported =< acked + n
      BY <1>1, <1>2, <1>6
    <3> QED
      BY <1>1, <1>3, <3>1, Zenon
  <2>3. exported' + exported_count' =< acked'
    <3>1. \A n \in Nat : exported + (exported_count + n) =< acked + n
      BY <1>1, <1>2, <1>6
    <3> QED
      BY <1>1, <1>3, <3>1, Zenon
  <2>4. exported_count' + Held' =< BatchMax
    BY <1>1, <1>2, <1>5, <1>6
  <2> QED
    BY <1>5, <2>1, <2>2, <2>3, <2>4, Zenon DEF Counted
<1> QED
  BY <1>9, <1>10, <1>11, <1>12, Zenon

(* ... or all of them are, and that was the batch.                         *)
LEMMA BatchDone ==
  ASSUME IInv, pc = "rows", rest = <<>>, ~GivenUp, Confirmed,
         NEW n, Success(n),
         n = IF kind = "clickhouse" THEN exported_count
                                    ELSE exported_count + Len(rows),
         exported_count' = n,
         UNCHANGED <<ring, sleep_ms, batch_failed_, connected>>,
         chunk' \in Chunk, builder' \in Builder
  PROVE  Typed' /\ Places' /\ Conserved' /\ Counted'
<1>1. /\ Held = Len(rows) + Len(rest)
      /\ Len(rows) \in Nat /\ Len(rest) \in Nat /\ Len(queue) \in Nat
      /\ stored' \in Seq(1..MaxEvents)
      /\ Len(stored) \in Nat /\ Len(stored') = Len(stored) + Len(rows)
      /\ acked' = acked + Len(rows) /\ acked' \in 0..MaxEvents
      /\ acked' =< Len(stored')
      /\ acked \in Nat /\ made \in 0..MaxEvents /\ MaxEvents \in Nat
      /\ late' = late
  BY Confirming, Zenon
<1>2. /\ TypeOK /\ BatchMax \in Nat /\ exported_count \in Nat
      /\ exported \in Nat /\ send_failures \in Nat
  <2>1. BatchMax \in Nat
    BY ConstantTypes, Zenon
  <2> QED
    BY <2>1, Sizes, Zenon DEF IInv, Typed
<1>3. /\ UNCHANGED <<kind, queue, made, send_failures>>
      /\ exported' = exported + n /\ consecutive_failures' = 0
      /\ outcome' = "success"
      /\ pc' = "returned" /\ result' = n
      /\ events' = <<>> /\ rest' = <<>> /\ rows' = <<>>
  BY Zenon DEF ring, Success, ReturnWith
<1>4. Len(rest) = 0
  BY Zenon
<1>5. /\ Held =< BatchMax /\ acked + Held + Len(queue) =< made
      /\ exported =< acked
  BY Zenon DEF IInv, Conserved, Counted
<1>6. n \in 0..BatchMax /\ exported + n =< acked + Len(rows)
  <2>1. CASE kind = "clickhouse"
    BY <1>1, <1>2, <1>5, <2>1 DEF IInv, Counted
  <2>2. CASE kind # "clickhouse"
    <3>1. exported + exported_count =< acked /\ exported_count + Held =< BatchMax
      BY <2>2, Zenon DEF IInv, Counted
    <3> QED
      BY <1>1, <1>2, <2>2, <3>1
  <2> QED
    BY <2>1, <2>2, Zenon
<1>7. Typed'
  <2>1. <<>> \in Seq(1..MaxEvents)
    BY EmptySeq, Zenon
  <2>2. exported' \in 0..MaxEvents
    BY <1>1, <1>2, <1>3, <1>6
  <2>3. consecutive_failures' \in 0..MaxFailures
    BY <1>3, ConstantTypes
  <2> QED
    BY <1>1, <1>2, <1>3, <1>6, <2>1, <2>2, <2>3, Zenon DEF Typed, TypeOK
<1>8. Places'
  BY <1>3, Zenon DEF Places
<1>9. Held' = 0 /\ Kept' = 0 /\ Kept = Len(rows)
  BY <1>1, <1>3, <1>4 DEF Held, Kept
<1>10. Conserved'
  <2> DEFINE covered == BatchMax * send_failures
  <2>1. covered \in Nat /\ made =< Len(stored) + Kept + Len(queue) + covered
    BY <1>2 DEF IInv, Conserved
  <2>2. covered' = covered
    BY <1>3, Zenon
  <2> HIDE DEF covered
  <2>3. made' =< Len(stored') + Kept' + Len(queue') + covered'
    BY <1>1, <1>3, <1>9, <2>1, <2>2
  <2>4. /\ Held' =< BatchMax /\ acked' + Held' + Len(queue') =< made'
        /\ acked' =< Len(stored')
    BY <1>1, <1>2, <1>3, <1>4, <1>5, <1>9
  <2> QED
    BY <2>3, <2>4, Zenon DEF Conserved, covered
<1>11. Counted'
  BY <1>1, <1>3, <1>6, Zenon DEF Counted
<1> QED
  BY <1>7, <1>8, <1>10, <1>11, Zenon

-----------------------------------------------------------------------------
(* The invariant is inductive, action by action.                           *)

(* The invariant holds initially.                                          *)
LEMMA InitIInv == Init => IInv
<1> SUFFICES ASSUME Init PROVE IInv
  BY Zenon
<1>1. /\ <<>> \in Seq(1..MaxEvents) /\ Len(<<>>) = 0
      /\ MaxEvents \in Nat /\ BatchMax \in Nat /\ MaxFailures \in Nat
      /\ FlushInterval \in Nat
  BY EmptySeq, ConstantTypes, Zenon
<1>2. Range(<<>>) = {}
  BY DEF Range
<1>3. /\ queue = <<>> /\ made = 0 /\ pc = "sleep"
      /\ events = <<>> /\ rest = <<>> /\ rows = <<>>
      /\ chunk = NoChunk /\ builder = NewBuilder
      /\ exported_count = 0 /\ consecutive_failures = 0
      /\ exported = 0 /\ send_failures = 0
      /\ outcome = "none" /\ block = NoBlock
      /\ acked = 0 /\ stored = <<>> /\ late = {}
  BY Zenon DEF Init
<1>4. builder \in Builder /\ builder.estimated_bytes = kIpcEnvelopeBytes
  BY <1>1, <1>3, Limits, Zenon DEF NewBuilder, ResetBuilder, Builder
<1>5. chunk \in Chunk
  BY <1>3, Zenon DEF NoChunk, Chunk
<1>6. TypeOK
  <2>1. /\ kind \in Kinds /\ sleep_ms = FlushInterval /\ result = 0
        /\ batch_failed_ = FALSE /\ connected \in BOOLEAN
    BY Zenon DEF Init
  <2>2. /\ 0 \in 0..MaxEvents /\ 0 \in 0..BatchMax /\ 0 \in 0..MaxFailures
    BY <1>1
  <2> QED
    BY <1>1, <1>3, <1>5, <2>1, <2>2, Zenon DEF TypeOK
<1>7. Held = 0 /\ Kept = 0
  BY <1>1, <1>3, Zenon DEF Held, Kept
<1>8. Conserved
  BY <1>1, <1>3, <1>7 DEF Conserved
<1>9. Handed
  BY <1>1, <1>2, <1>3, Zenon DEF Handed, BlocksSound, NoBlock
<1>10. RequestsSound
  <2>1. chunk.chunk_count = 0 /\ chunk.chunk_bytes = 0
    BY <1>3, Zenon DEF NoChunk
  <2> QED
    BY <1>3, <1>4, <2>1, Limits DEF RequestsSound
<1>11. Places /\ Counted /\ Filled
  BY <1>3 DEF Places, Counted, Filled
<1>12. Remembered
  BY <1>3 DEF Remembered
<1> QED
  BY <1>4, <1>6, <1>8, <1>9, <1>10, <1>11, <1>12, Zenon DEF IInv, Typed

(* A batch that ends without success.                                      *)
LEMMA Abandoned ==
  ASSUME IInv, NEW n \in 0..BatchMax, ReturnWith(n),
         UNCHANGED <<ring, sleep_ms, exported_count, exported, acked, stored>>,
         late' \subseteq Seq(1..MaxEvents),
         chunk' \in Chunk, builder' \in Builder,
         chunk'.chunk_count = chunk.chunk_count,
         chunk'.chunk_bytes = chunk.chunk_bytes,
         builder'.estimated_bytes = builder.estimated_bytes,
         batch_failed_' \in BOOLEAN, connected' \in BOOLEAN,
         send_failures' \in send_failures..MaxFailures,
         consecutive_failures' \in 0..send_failures',
         outcome' \in {"none", "success", "connect", "memory", "send", "build"},
         Kept > 0 => send_failures < send_failures',
         outcome' = "send" => consecutive_failures' > 0,
         Handed'
  PROVE  IInv'
<1>1. Typed' /\ Places' /\ Conserved' /\ Counted'
  BY BatchGone, Zenon
<1>2. pc' = "returned"
  BY Zenon DEF ReturnWith
<1>3. Filled'
  BY <1>2, Zenon DEF Filled
<1>4. Remembered'
  <2>1. send_failures \in Nat /\ MaxFailures \in Nat
    BY Sizes, ConstantTypes, Zenon DEF IInv
  <2> QED
    BY <1>2, <2>1 DEF Remembered
<1>5. RequestsSound'
  BY <1>2, Zenon DEF IInv, RequestsSound
<1> QED
  BY <1>1, <1>3, <1>4, <1>5, Zenon DEF IInv

(* The builder after a part of a row, or of Finish.                        *)
LEMMA BuilderParts ==
  ASSUME builder \in Builder, NEW k \in Int, NEW e \in 1..MaxEvents
  PROVE  /\ AppendColumns(builder, e, k) \in Builder
         /\ AppendColumns(builder, e, k).estimated_bytes = builder.estimated_bytes
         /\ AppendColumns(builder, e, k).num_rows = builder.num_rows
         /\ FinishColumns(builder, k) \in Builder
         /\ FinishColumns(builder, k).estimated_bytes = builder.estimated_bytes
<1>1. /\ builder.columns \in [Columns -> Seq(1..MaxEvents)]
      /\ builder.memo \in [Dictionaries -> SUBSET (1..MaxEvents)]
  BY Zenon DEF Builder
<1>2. Appended(builder.columns, e, k) \in [Columns -> Seq(1..MaxEvents)]
  <2>1. \A i \in Columns : Append(builder.columns[i], e) \in Seq(1..MaxEvents)
    BY <1>1, AppendProperties, Zenon
  <2> QED
    BY <1>1, <2>1, Zenon DEF Appended
<1>3. [i \in Dictionaries |-> IF i =< k THEN builder.memo[i] \union {e}
                                        ELSE builder.memo[i]]
        \in [Dictionaries -> SUBSET (1..MaxEvents)]
  BY <1>1, Zenon
<1>4. [i \in Columns |-> IF i =< k THEN <<>> ELSE builder.columns[i]]
        \in [Columns -> Seq(1..MaxEvents)]
  BY <1>1, EmptySeq, Zenon
<1>5. /\ AppendColumns(builder, e, k) \in Builder
      /\ AppendColumns(builder, e, k).estimated_bytes = builder.estimated_bytes
      /\ AppendColumns(builder, e, k).num_rows = builder.num_rows
  BY <1>2, <1>3, Zenon DEF AppendColumns, Builder
<1>6. /\ FinishColumns(builder, k) \in Builder
      /\ FinishColumns(builder, k).estimated_bytes = builder.estimated_bytes
  BY <1>4, Zenon DEF FinishColumns, Builder
<1> QED
  BY <1>5, <1>6, Zenon

(* What a failure leaves.                                                  *)
LEMMA Failing ==
  ASSUME IInv, NEW what, NEW m \in {1, 2}, Failed(what, m)
  PROVE  /\ send_failures \in Nat /\ consecutive_failures \in Nat
         /\ send_failures' \in send_failures..MaxFailures
         /\ send_failures < send_failures'
         /\ consecutive_failures \in 0..send_failures'
         /\ consecutive_failures + 1 \in 0..send_failures'
         /\ consecutive_failures + 1 > 0
         /\ outcome' = what /\ UNCHANGED exported
<1>1. /\ send_failures \in Nat /\ consecutive_failures \in Nat
      /\ MaxFailures \in Nat
  BY Sizes, ConstantTypes, Zenon DEF IInv
<1>2. consecutive_failures =< send_failures
  BY Zenon DEF IInv, Remembered
<1> QED
  BY <1>1, <1>2 DEF Failed

(* A step that hands over no block.                                        *)
LEMMA StillHanded ==
  ASSUME IInv, UNCHANGED <<kind, block>>
  PROVE  Handed'
  BY Zenon DEF IInv, Handed, BlocksSound

(* Failures before anything is sent.                                       *)
LEMMA ConnectFailsSound ==
  ASSUME IInv, ConnectFails \/ DequeueThrows PROVE IInv'
<1>1. /\ ReturnWith(0)
      /\ UNCHANGED <<ring, sleep_ms, building, exported_count, connected,
                     consecutive_failures, block, remote>>
      /\ Failed("connect", 1) \/ Failed("memory", 1)
  BY Zenon DEF ConnectFails, DequeueThrows
<1>2. UNCHANGED <<kind, chunk, batch_failed_, builder, acked, stored, late>>
  BY <1>1, Zenon DEF ring, building, remote
<1>3. /\ send_failures' \in send_failures..MaxFailures
      /\ send_failures < send_failures'
      /\ consecutive_failures' \in 0..send_failures'
      /\ outcome' \in {"connect", "memory"} /\ UNCHANGED exported
  BY <1>1, Failing, Zenon
<1>4. Handed'
  BY <1>1, <1>2, StillHanded, Zenon
<1>5. TypeOK /\ builder \in Builder /\ 0 \in 0..BatchMax
  BY ConstantTypes DEF IInv, Typed
<1>6. /\ chunk' \in Chunk /\ late' \subseteq Seq(1..MaxEvents)
      /\ batch_failed_' \in BOOLEAN /\ connected' \in BOOLEAN
  BY <1>1, <1>2, <1>5, Zenon DEF TypeOK
<1> QED
  BY <1>1, <1>2, <1>3, <1>4, <1>5, <1>6, Abandoned, Zenon

(* An error while the block is built.                                      *)
LEMMA BuildThrowsSound ==
  ASSUME IInv, BuildThrows PROVE IInv'
<1>1. /\ ReturnWith(0) /\ Failed("build", 1)
      /\ UNCHANGED <<ring, sleep_ms, chunk, batch_failed_, builder,
                     exported_count, connected, consecutive_failures, block,
                     remote>>
  BY Zenon DEF BuildThrows
<1>2. UNCHANGED <<kind, acked, stored, late>>
  BY <1>1, Zenon DEF ring, remote
<1>3. /\ send_failures' \in send_failures..MaxFailures
      /\ send_failures < send_failures'
      /\ consecutive_failures' \in 0..send_failures'
      /\ outcome' = "build" /\ UNCHANGED exported
  BY <1>1, Failing, Zenon
<1>4. Handed'
  BY <1>1, <1>2, StillHanded, Zenon
<1>5. TypeOK /\ builder \in Builder /\ 0 \in 0..BatchMax
  BY ConstantTypes DEF IInv, Typed
<1>6. /\ chunk' \in Chunk /\ late' \subseteq Seq(1..MaxEvents)
      /\ batch_failed_' \in BOOLEAN /\ connected' \in BOOLEAN
  BY <1>1, <1>2, <1>5, Zenon DEF TypeOK
<1> QED
  BY <1>1, <1>2, <1>3, <1>4, <1>5, <1>6, Abandoned, Zenon

(* A column of the Arrow builder that refuses an event or fails to finish. *)
LEMMA AppendEventFailsSound ==
  ASSUME IInv,
         \/ \E k \in Columns : AppendEventFails(k)
         \/ \E k \in 0..NColumns : FinishFails(k)
  PROVE  IInv'
<1>1. /\ ReturnWith(exported_count) /\ Failed("build", 1)
      /\ UNCHANGED <<ring, sleep_ms, columns_, chunk, batch_failed_,
                     exported_count, connected, consecutive_failures, block,
                     remote>>
  BY Zenon DEF AppendEventFails, FinishFails
<1>2. UNCHANGED <<kind, acked, stored, late>>
  BY <1>1, Zenon DEF ring, remote
<1>3. /\ send_failures' \in send_failures..MaxFailures
      /\ send_failures < send_failures'
      /\ consecutive_failures' \in 0..send_failures'
      /\ outcome' = "build" /\ UNCHANGED exported
  BY <1>1, Failing, Zenon
<1>4. Handed'
  BY <1>1, <1>2, StillHanded, Zenon
<1>5. TypeOK /\ builder \in Builder /\ exported_count \in 0..BatchMax
  BY Zenon DEF IInv, Typed, TypeOK
<1>6. /\ chunk' \in Chunk /\ late' \subseteq Seq(1..MaxEvents)
      /\ batch_failed_' \in BOOLEAN /\ connected' \in BOOLEAN
  BY <1>1, <1>2, <1>5, Zenon DEF TypeOK
<1>7. builder' \in Builder /\ builder'.estimated_bytes = builder.estimated_bytes
  <2>1. 1 \in 1..MaxEvents /\ NColumns \in Nat
    BY ConstantTypes
  <2>2. ASSUME NEW k \in Columns, AppendEventFails(k)
        PROVE  /\ builder' \in Builder
               /\ builder'.estimated_bytes = builder.estimated_bytes
    <3>1. k - 1 \in Int
      BY <2>1 DEF Columns
    <3>2. rest \in Seq(1..MaxEvents) /\ rows \in Seq(1..MaxEvents) /\ rest # <<>>
      BY <1>5, <2>2, Zenon DEF TypeOK, AppendEventFails
    <3>3. Head(rest) \in 1..MaxEvents
      BY <3>2, Moved, Zenon
    <3> QED
      BY <1>5, <2>2, <3>1, <3>3, BuilderParts, Zenon DEF AppendEventFails
  <2>3. ASSUME NEW k \in 0..NColumns, FinishFails(k)
        PROVE  /\ builder' \in Builder
               /\ builder'.estimated_bytes = builder.estimated_bytes
    <3>1. k \in Int
      BY <2>1
    <3> QED
      BY <1>5, <2>1, <2>3, <3>1, BuilderParts, Zenon DEF FinishFails
  <2> QED
    BY <2>2, <2>3, Zenon
<1> QED
  BY <1>1, <1>2, <1>3, <1>4, <1>5, <1>6, <1>7, Abandoned, Zenon

(* Returning with nothing left to send.                                    *)
LEMMA NothingToExportSound ==
  ASSUME IInv, NothingToExport \/ CommitFailedBatch PROVE IInv'
<1>1. /\ ReturnWith(0) \/ ReturnWith(exported_count)
      /\ UNCHANGED <<ring, sleep_ms, building, exported_count, connected,
                     consecutive_failures, counters, outcome, block, remote>>
  BY Zenon DEF NothingToExport, CommitFailedBatch
<1>2. UNCHANGED <<kind, chunk, batch_failed_, builder, exported, send_failures,
                  acked, stored, late>>
  BY <1>1, Zenon DEF ring, building, counters, remote
<1>3. Kept = 0
  <2>1. CASE NothingToExport
    <3>1. pc # "rows" /\ Len(events) = 0
      BY <2>1, Zenon DEF NothingToExport
    <3> QED
      BY <3>1, Zenon DEF Kept, Held
  <2>2. CASE CommitFailedBatch
    BY <2>2, Zenon DEF CommitFailedBatch, Kept, GivenUp
  <2> QED
    BY <2>1, <2>2, Zenon
<1>4. Handed'
  BY <1>1, <1>2, StillHanded, Zenon
<1>5. /\ TypeOK /\ builder \in Builder
      /\ 0 \in 0..BatchMax /\ exported_count \in 0..BatchMax
  BY ConstantTypes DEF IInv, Typed, TypeOK
<1>6. /\ chunk' \in Chunk /\ late' \subseteq Seq(1..MaxEvents)
      /\ batch_failed_' \in BOOLEAN /\ connected' \in BOOLEAN
      /\ outcome' \in {"none", "success", "connect", "memory", "send", "build"}
  BY <1>1, <1>2, <1>5, Zenon DEF TypeOK
<1>7. /\ send_failures' \in send_failures..MaxFailures
      /\ consecutive_failures' \in 0..send_failures'
      /\ outcome' = "send" => consecutive_failures' > 0
  <2>1. send_failures \in 0..MaxFailures /\ consecutive_failures \in Nat
    BY <1>5, Sizes, Zenon DEF TypeOK, IInv
  <2>2. /\ consecutive_failures =< send_failures
        /\ outcome = "send" => consecutive_failures > 0
    BY Zenon DEF IInv, Remembered, NothingToExport, CommitFailedBatch
  <2>3. MaxFailures \in Nat
    BY ConstantTypes, Zenon
  <2> QED
    BY <1>1, <1>2, <2>1, <2>2, <2>3
<1> QED
  BY <1>1, <1>2, <1>3, <1>4, <1>5, <1>6, <1>7, Abandoned

(* The blocks handed over.                                                 *)
LEMMA ClickHouseBlockSound ==
  ASSUME IInv, pc = "rows", kind = "clickhouse",
         block' = ClickHouseBlock, kind' = kind
  PROVE  Handed'
<1>1. exported_count = Len(rows) /\ \A i \in Columns : columns_[i] = rows
  BY Zenon DEF IInv, Counted, Filled
<1>2. block'.num_rows = exported_count /\ block'.columns = columns_ /\ block'.rows = rows
  BY Zenon DEF ClickHouseBlock, NoBlock
<1> QED
  BY <1>1, <1>2, Zenon DEF Handed, BlocksSound

(* The block the Arrow path hands over holds its rows.                     *)
LEMMA ArrowBlockSound ==
  ASSUME IInv, pc = "rows", kind = "arrow", block' = ArrowBlock
  PROVE  Handed'
<1>1. /\ builder.num_rows = Len(rows)
      /\ \A i \in Columns : builder.columns[i] = rows
      /\ \A i \in Dictionaries : builder.memo[i] = Range(rows)
  BY Zenon DEF IInv, Filled
<1> QED
  BY <1>1, Zenon DEF ArrowBlock, Handed, BlocksSound

(* A request that is not confirmed.                                        *)
LEMMA Sending ==
  ASSUME IInv, NEW sent \in {<<>>, rows}, Unconfirmed(sent)
  PROVE  late' \subseteq Seq(1..MaxEvents) /\ UNCHANGED <<acked, stored>>
<1>1. late \subseteq Seq(1..MaxEvents) /\ rows \in Seq(1..MaxEvents)
  BY Zenon DEF IInv, Typed, TypeOK
<1> QED
  BY <1>1, Zenon DEF Unconfirmed

(* A failed INSERT of the native path.                                     *)
LEMMA CommitInsertFailsSound ==
  ASSUME IInv, CommitInsertFails \/ CommitUnsent PROVE IInv'
<1>1. /\ ReturnWith(exported_count)
      /\ SendFailed(rows, 1) \/ SendFailed(<<>>, 1)
      /\ pc = "rows" /\ kind = "clickhouse"
      /\ UNCHANGED <<sleep_ms, building, exported_count>>
      /\ connected' = FALSE \/ UNCHANGED connected
      /\ block' = ClickHouseBlock \/ UNCHANGED block
  BY Zenon DEF CommitInsertFails, CommitUnsent
<1>2. /\ Failed("send", 1) /\ consecutive_failures' = consecutive_failures + 1
      /\ Unconfirmed(rows) \/ Unconfirmed(<<>>)
      /\ UNCHANGED ring
  BY <1>1, Zenon DEF SendFailed
<1>3. UNCHANGED <<kind, chunk, batch_failed_, builder>>
  BY <1>1, <1>2, Zenon DEF ring, building
<1>4. /\ send_failures' \in send_failures..MaxFailures
      /\ send_failures < send_failures'
      /\ consecutive_failures' \in 0..send_failures'
      /\ consecutive_failures' > 0
      /\ outcome' = "send" /\ UNCHANGED exported
  BY <1>2, Failing, Zenon
<1>5. late' \subseteq Seq(1..MaxEvents) /\ UNCHANGED <<acked, stored>>
  BY <1>2, Sending, Zenon
<1>6. Handed'
  BY <1>1, <1>3, StillHanded, ClickHouseBlockSound, Zenon
<1>7. TypeOK /\ builder \in Builder /\ exported_count \in 0..BatchMax
  BY Zenon DEF IInv, Typed, TypeOK
<1>8. chunk' \in Chunk /\ batch_failed_' \in BOOLEAN /\ connected' \in BOOLEAN
  BY <1>1, <1>3, <1>7, Zenon DEF TypeOK
<1> QED
  BY <1>1, <1>2, <1>3, <1>4, <1>5, <1>6, <1>7, <1>8, Abandoned, Zenon

(* An error at the start of an OTel row.                                   *)
LEMMA BeginRowThrowsSound ==
  ASSUME IInv, BeginRowThrows PROVE IInv'
<1>1. /\ ReturnWith(0) /\ Failed("build", 1) /\ Unconfirmed(rows)
      /\ chunk' = Thrown(chunk)
      /\ UNCHANGED <<ring, sleep_ms, columns_, batch_failed_, builder,
                     exported_count, connected, consecutive_failures, block>>
  BY Zenon DEF BeginRowThrows
<1>2. UNCHANGED kind
  BY <1>1, Zenon DEF ring
<1>3. /\ send_failures' \in send_failures..MaxFailures
      /\ send_failures < send_failures'
      /\ consecutive_failures' \in 0..send_failures'
      /\ outcome' = "build" /\ UNCHANGED exported
  BY <1>1, Failing, Zenon
<1>4. late' \subseteq Seq(1..MaxEvents) /\ UNCHANGED <<acked, stored>>
  BY <1>1, Sending, Zenon
<1>5. Handed'
  BY <1>1, <1>2, StillHanded, Zenon
<1>6. TypeOK /\ builder \in Builder /\ 0 \in 0..BatchMax
  BY ConstantTypes DEF IInv, Typed
<1>7. batch_failed_' \in BOOLEAN /\ connected' \in BOOLEAN
  BY <1>1, <1>6, Zenon DEF TypeOK
<1>8. /\ chunk' \in Chunk
      /\ chunk'.chunk_count = chunk.chunk_count
      /\ chunk'.chunk_bytes = chunk.chunk_bytes
  BY <1>1, <1>6, Zenon DEF TypeOK, Chunk, Thrown
<1> QED
  BY <1>1, <1>2, <1>3, <1>4, <1>5, <1>6, <1>7, <1>8, Abandoned, Zenon

(* A failed OTel request.                                                  *)
LEMMA CommitChunkFailsSound ==
  ASSUME IInv, CommitChunkFails PROVE IInv'
<1>1. /\ ReturnWith(exported_count) /\ SendFailed(rows, 1)
      /\ chunk' \in {Refused(chunk), Thrown(chunk)}
      /\ UNCHANGED <<sleep_ms, columns_, batch_failed_, builder,
                     exported_count, connected, block>>
  BY Zenon DEF CommitChunkFails
<1>2. /\ Failed("send", 1) /\ consecutive_failures' = consecutive_failures + 1
      /\ Unconfirmed(rows) /\ UNCHANGED ring /\ UNCHANGED kind
  BY <1>1, Zenon DEF SendFailed, ring
<1>3. /\ send_failures' \in send_failures..MaxFailures
      /\ send_failures < send_failures'
      /\ consecutive_failures' \in 0..send_failures'
      /\ consecutive_failures' > 0
      /\ outcome' = "send" /\ UNCHANGED exported
  BY <1>2, Failing, Zenon
<1>4. late' \subseteq Seq(1..MaxEvents) /\ UNCHANGED <<acked, stored>>
  BY <1>2, Sending, Zenon
<1>5. Handed'
  BY <1>1, <1>2, StillHanded, Zenon
<1>6. TypeOK /\ builder \in Builder /\ exported_count \in 0..BatchMax
  BY Zenon DEF IInv, Typed, TypeOK
<1>7. batch_failed_' \in BOOLEAN /\ connected' \in BOOLEAN
  BY <1>1, <1>6, Zenon DEF TypeOK
<1>8. /\ chunk' \in Chunk
      /\ chunk'.chunk_count = chunk.chunk_count
      /\ chunk'.chunk_bytes = chunk.chunk_bytes
  BY <1>1, <1>6, Zenon DEF TypeOK, Chunk, Thrown, Refused
<1> QED
  BY <1>1, <1>2, <1>3, <1>4, <1>5, <1>6, <1>7, <1>8, Abandoned, Zenon

(* A failed send of the Arrow path.                                        *)
LEMMA FlushBuilderFailsSound ==
  ASSUME IInv, FlushBuilderFails PROVE IInv'
<1>1. /\ pc = "rows" /\ kind = "arrow"
      /\ ReturnWith(exported_count) /\ SendFailed(rows, 2)
      /\ block' = ArrowBlock /\ builder' = FinishColumns(builder, NColumns)
      /\ UNCHANGED <<sleep_ms, columns_, chunk, batch_failed_,
                     exported_count, connected>>
  BY Zenon DEF FlushBuilderFails, FlushDue
<1>2. /\ Failed("send", 2) /\ consecutive_failures' = consecutive_failures + 1
      /\ Unconfirmed(rows) /\ UNCHANGED ring
  BY <1>1, Zenon DEF SendFailed
<1>3. /\ send_failures' \in send_failures..MaxFailures
      /\ send_failures < send_failures'
      /\ consecutive_failures' \in 0..send_failures'
      /\ consecutive_failures' > 0
      /\ outcome' = "send" /\ UNCHANGED exported
  BY <1>2, Failing, Zenon
<1>4. late' \subseteq Seq(1..MaxEvents) /\ UNCHANGED <<acked, stored>>
  BY <1>2, Sending, Zenon
<1>5. Handed'
  BY <1>1, ArrowBlockSound, Zenon
<1>6. TypeOK /\ builder \in Builder /\ exported_count \in 0..BatchMax
  BY Zenon DEF IInv, Typed, TypeOK
<1>7. /\ batch_failed_' \in BOOLEAN /\ connected' \in BOOLEAN
      /\ chunk' \in Chunk
  BY <1>1, <1>6, Zenon DEF TypeOK
<1>8. builder' \in Builder /\ builder'.estimated_bytes = builder.estimated_bytes
  <2>1. 1 \in 1..MaxEvents /\ NColumns \in Int
    BY ConstantTypes
  <2> QED
    BY <1>1, <1>6, <2>1, BuilderParts, Zenon
<1> QED
  BY <1>1, <1>2, <1>3, <1>4, <1>5, <1>6, <1>7, <1>8, Abandoned, Zenon

(* A batch that ends with success.                                         *)
LEMMA Succeeded ==
  ASSUME IInv, Typed', Places', Conserved', Counted', Handed',
         NEW n, Success(n),
         \/ chunk' = chunk
         \/ chunk'.chunk_count = 0 /\ chunk'.chunk_bytes = 0,
         builder'.estimated_bytes = builder.estimated_bytes
  PROVE  IInv'
<1>1. /\ pc' = "returned" /\ consecutive_failures' = 0
      /\ outcome' = "success" /\ UNCHANGED send_failures
  BY Zenon DEF Success, ReturnWith
<1>2. Filled'
  BY <1>1, Zenon DEF Filled
<1>3. Remembered'
  <2>1. send_failures \in Nat
    BY Sizes, Zenon DEF IInv
  <2> QED
    BY <1>1, <2>1 DEF Remembered
<1>4. RequestsSound'
  BY <1>1, Limits DEF IInv, RequestsSound
<1> QED
  BY <1>2, <1>3, <1>4, Zenon DEF IInv

(* An acknowledged INSERT.                                                 *)
LEMMA CommitInsertSound ==
  ASSUME IInv, CommitInsert PROVE IInv'
<1>1. /\ kind = "clickhouse" /\ pc = "rows" /\ rest = <<>> /\ ~GivenUp
      /\ Confirmed /\ Success(exported_count) /\ block' = ClickHouseBlock
      /\ UNCHANGED <<ring, sleep_ms, building, exported_count, connected>>
  BY Zenon DEF CommitInsert, GivenUp
<1>2. UNCHANGED <<kind, chunk, batch_failed_, builder>>
  BY <1>1, Zenon DEF ring, building
<1>3. chunk' \in Chunk /\ builder' \in Builder
  BY <1>2, Zenon DEF IInv, Typed, TypeOK
<1>4. Typed' /\ Places' /\ Conserved' /\ Counted'
  BY <1>1, <1>2, <1>3, BatchDone, Zenon
<1>5. Handed'
  BY <1>1, <1>2, ClickHouseBlockSound, Zenon
<1> QED
  BY <1>1, <1>2, <1>4, <1>5, Succeeded, Zenon

(* An acknowledged OTel request.                                           *)
LEMMA CommitChunkSound ==
  ASSUME IInv, CommitChunk PROVE IInv'
<1>1. /\ kind = "otel" /\ pc = "rows" /\ rest = <<>> /\ ~GivenUp
      /\ Confirmed /\ chunk' = Sent(chunk)
      /\ exported_count' = exported_count + chunk.chunk_count
      /\ Success(exported_count')
      /\ UNCHANGED <<ring, sleep_ms, columns_, batch_failed_, builder,
                     connected, block>>
  BY Zenon DEF CommitChunk, GivenUp
<1>2. kind' = kind
  BY <1>1, Zenon DEF ring
<1>3. chunk.chunk_count = Len(rows)
  BY <1>1, Zenon DEF IInv, RequestsSound, GivenUp
<1>4. /\ chunk' \in Chunk /\ builder' \in Builder
      /\ chunk'.chunk_count = 0 /\ chunk'.chunk_bytes = 0
  BY <1>1, Zenon DEF IInv, Typed, TypeOK, Chunk, Sent
<1>5. Typed' /\ Places' /\ Conserved' /\ Counted'
  BY <1>1, <1>3, <1>4, BatchDone, Zenon
<1>6. Handed'
  BY <1>1, <1>2, StillHanded, Zenon
<1> QED
  BY <1>1, <1>4, <1>5, <1>6, Succeeded, Zenon

(* The end of an Arrow batch.                                              *)
LEMMA ArrowDoneSound ==
  ASSUME IInv, ArrowDone PROVE IInv'
<1>1. /\ kind = "arrow" /\ pc = "rows" /\ rest = <<>> /\ ~GivenUp
      /\ builder.num_rows = 0 /\ Success(exported_count)
      /\ UNCHANGED <<ring, sleep_ms, building, exported_count, connected,
                     block, remote>>
  BY Zenon DEF ArrowDone, GivenUp
<1>2. UNCHANGED <<kind, chunk, batch_failed_, builder, acked, stored, late>>
  BY <1>1, Zenon DEF ring, building, remote
<1>3. /\ rows = <<>> /\ Len(rows) = 0
      /\ exported_count \in Nat /\ acked \in Nat /\ stored \in Seq(1..MaxEvents)
  <2>1. Len(rows) = 0
    BY <1>1, Zenon DEF IInv, Filled
  <2>2. rows \in Seq(1..MaxEvents) /\ stored \in Seq(1..MaxEvents)
    BY Zenon DEF IInv, Typed, TypeOK
  <2>3. rows = <<>>
    BY <2>1, <2>2, EmptySeq, Zenon
  <2> QED
    BY <2>1, <2>2, <2>3, Sizes, Zenon DEF IInv
<1>4. Confirmed
  <2>1. stored \o <<>> = stored
    BY <1>3, ConcatEmptySeq, Zenon
  <2> QED
    BY <1>2, <1>3, <2>1 DEF Confirmed
<1>5. chunk' \in Chunk /\ builder' \in Builder
  BY <1>2, Zenon DEF IInv, Typed, TypeOK
<1>6. exported_count = exported_count + Len(rows)
  BY <1>3
<1>7. Typed' /\ Places' /\ Conserved' /\ Counted'
  BY <1>1, <1>2, <1>4, <1>5, <1>6, BatchDone, Zenon
<1>8. Handed'
  BY <1>1, <1>2, StillHanded, Zenon
<1> QED
  BY <1>1, <1>2, <1>7, <1>8, Succeeded, Zenon

(* An empty builder.                                                       *)
LEMMA EmptyBuilder ==
  ASSUME NEW b \in Builder
  PROVE  /\ ResetBuilder(b) \in Builder
         /\ ResetBuilder(b).num_rows = 0
         /\ ResetBuilder(b).estimated_bytes = kIpcEnvelopeBytes
         /\ \A i \in Columns : ResetBuilder(b).columns[i] = <<>>
         /\ \A i \in Dictionaries : ResetBuilder(b).memo[i] = Range(<<>>)
<1>1. <<>> \in Seq(1..MaxEvents) /\ Range(<<>>) = {}
  BY EmptySeq DEF Range
<1> QED
  BY <1>1, Limits, Zenon DEF ResetBuilder, Builder

(* An acknowledged send of the Arrow path.                                 *)
LEMMA FlushBuilderSound ==
  ASSUME IInv, FlushBuilder PROVE IInv'
<1>1. /\ kind = "arrow" /\ pc = "rows" /\ ~GivenUp
      /\ block' = ArrowBlock /\ Confirmed
      /\ exported_count' = exported_count + builder.num_rows
      /\ UNCHANGED <<ring, sleep_ms, columns_, chunk, batch_failed_, connected>>
  BY Zenon DEF FlushBuilder, FlushDue, GivenUp
<1>2. kind' = kind
  BY <1>1, Zenon DEF ring
<1>3. builder.num_rows = Len(rows)
  BY <1>1, Zenon DEF IInv, Filled
<1>4. chunk' \in Chunk /\ builder \in Builder
  BY <1>1, Zenon DEF IInv, Typed, TypeOK
<1>5. /\ FinishColumns(builder, NColumns) \in Builder
      /\ FinishColumns(builder, NColumns).estimated_bytes
           = builder.estimated_bytes
  <2>1. 1 \in 1..MaxEvents /\ NColumns \in Int
    BY ConstantTypes
  <2> QED
    BY <1>4, <2>1, BuilderParts, Zenon
<1>6. Handed'
  BY <1>1, ArrowBlockSound, Zenon
<1>7. CASE BlockFull
  <2>1. /\ builder' = ResetBuilder(FinishColumns(builder, NColumns))
        /\ rows' = <<>> /\ consecutive_failures' = 0
        /\ UNCHANGED <<pc, events, rest, result, counters, outcome>>
    BY <1>7, Zenon DEF FlushBuilder
  <2>2. /\ builder' \in Builder /\ builder'.num_rows = 0
        /\ builder'.estimated_bytes = kIpcEnvelopeBytes
        /\ \A i \in Columns : builder'.columns[i] = <<>>
        /\ \A i \in Dictionaries : builder'.memo[i] = Range(<<>>)
    BY <1>5, <2>1, EmptyBuilder, Zenon
  <2>3. Typed' /\ Places' /\ Conserved' /\ Counted'
    BY <1>1, <1>3, <1>4, <2>1, <2>2, PartConfirmed, Zenon
  <2>4. Filled'
    <3>1. Len(<<>>) = 0
      BY Zenon
    <3> QED
      BY <1>1, <1>2, <2>1, <2>2, <3>1, Zenon DEF Filled
  <2>5. Remembered'
    <3>1. send_failures \in Nat /\ UNCHANGED send_failures
      BY <2>1, Sizes, Zenon DEF IInv, counters
    <3> QED
      BY <1>1, <1>2, <2>1, <3>1 DEF Remembered
  <2>6. RequestsSound'
    BY <1>1, <1>2, <2>2, Limits DEF IInv, RequestsSound
  <2> QED
    BY <1>6, <2>3, <2>4, <2>5, <2>6, Zenon DEF IInv
<1>8. CASE ~BlockFull
  <2>1. /\ builder' = FinishColumns(builder, NColumns)
        /\ Success(exported_count') /\ rest = <<>>
    BY <1>8, Zenon DEF FlushBuilder, FlushDue
  <2>2. Typed' /\ Places' /\ Conserved' /\ Counted'
    BY <1>1, <1>3, <1>4, <1>5, <2>1, BatchDone, Zenon
  <2> QED
    BY <1>1, <1>5, <1>6, <2>1, <2>2, Succeeded, Zenon
<1> QED
  BY <1>7, <1>8, Zenon

(* A record more in a request, and a row more in a block.                  *)
LEMMA RecordAdded ==
  ASSUME NEW c \in Chunk, NEW bytes \in Nat
  PROVE  /\ AddLogRecord(c, bytes) \in Chunk
         /\ AddLogRecord(c, bytes).request = c.request
         /\ AddLogRecord(c, bytes).chunk_count = c.chunk_count + 1
         /\ AddLogRecord(c, bytes).chunk_bytes
              = c.chunk_bytes + kLogRecordOverheadBytes + bytes
<1>1. c.chunk_count \in Nat /\ c.chunk_bytes \in Nat /\ c.request \in {"null", "live", "moved"}
  BY Zenon DEF Chunk
<1> DEFINE n == c.chunk_count + 1
           m == c.chunk_bytes + kLogRecordOverheadBytes + bytes
<1>2. n \in Nat /\ m \in Nat
  BY <1>1, Limits
<1>3. AddLogRecord(c, bytes) = [c EXCEPT !.in_row = TRUE, !.chunk_count = n,
                                         !.chunk_bytes = m]
  BY Zenon DEF AddLogRecord
<1> HIDE DEF n, m
<1>4. /\ AddLogRecord(c, bytes) \in Chunk
      /\ AddLogRecord(c, bytes).request = c.request
      /\ AddLogRecord(c, bytes).chunk_count = n
      /\ AddLogRecord(c, bytes).chunk_bytes = m
  BY <1>2, <1>3, Zenon DEF Chunk
<1> QED
  BY <1>4, Zenon DEF n, m

(* A row added to the Arrow builder.                                       *)
LEMMA RowAdded ==
  ASSUME NEW b \in Builder, NEW bytes \in Nat, NEW c,
         c = [b EXCEPT !.estimated_bytes = @ + kFixedBytesPerRow + bytes,
                       !.num_rows = @ + 1]
  PROVE  /\ c \in Builder
         /\ c.num_rows = b.num_rows + 1
         /\ c.estimated_bytes = b.estimated_bytes + kFixedBytesPerRow + bytes
         /\ c.columns = b.columns /\ c.memo = b.memo
<1>1. b.num_rows \in Nat /\ b.estimated_bytes \in Nat
  BY Zenon DEF Builder
<1> DEFINE n == b.num_rows + 1
           m == b.estimated_bytes + kFixedBytesPerRow + bytes
<1>2. n \in Nat /\ m \in Nat
  BY <1>1, Limits
<1>3. c = [b EXCEPT !.estimated_bytes = m, !.num_rows = n]
  BY Zenon
<1> HIDE DEF n, m
<1>4. /\ c \in Builder /\ c.num_rows = n /\ c.estimated_bytes = m
      /\ c.columns = b.columns /\ c.memo = b.memo
  BY <1>2, <1>3, Zenon DEF Builder
<1> QED
  BY <1>4, Zenon DEF n, m

(* The rows.                                                               *)
LEMMA ClickHouseRowSound ==
  ASSUME IInv, ClickHouseRow PROVE IInv'
<1>1. /\ kind = "clickhouse" /\ pc = "rows" /\ rest # <<>> /\ ~GivenUp
      /\ exported_count' = exported_count + 1
      /\ columns_' = Appended(columns_, Head(rest), NColumns)
      /\ rows' = Append(rows, Head(rest)) /\ rest' = Tail(rest)
      /\ UNCHANGED <<ring, pc, sleep_ms, events, chunk, batch_failed_, builder,
                     result, connected, consecutive_failures, counters, outcome,
                     block, remote>>
  BY Zenon DEF ClickHouseRow, GivenUp
<1>2. kind' = kind /\ UNCHANGED send_failures
  BY <1>1, Zenon DEF ring, counters
<1>3. chunk' \in Chunk /\ builder' \in Builder
  BY <1>1, Zenon DEF IInv, Typed, TypeOK
<1>4. Typed' /\ Places' /\ Conserved' /\ Counted'
  BY <1>1, <1>3, RowBegun, Zenon
<1>5. Filled'
  <2>1. \A i \in Columns : columns_[i] = rows
    BY <1>1, Zenon DEF IInv, Filled
  <2>2. \A i \in Columns : i =< NColumns
    BY ConstantTypes DEF Columns
  <2>3. \A i \in Columns : columns_'[i] = rows'
    BY <1>1, <2>1, <2>2, Zenon DEF Appended
  <2> QED
    BY <1>1, <1>2, <2>3, Zenon DEF Filled
<1>6. Handed'
  BY <1>1, <1>2, StillHanded, Zenon
<1>7. Remembered'
  BY <1>1, <1>2, Zenon DEF IInv, Remembered
<1>8. RequestsSound'
  BY <1>1, <1>2, Zenon DEF IInv, RequestsSound
<1> QED
  BY <1>4, <1>5, <1>6, <1>7, <1>8, Zenon DEF IInv

(* The start of an OTel row.                                               *)
LEMMA BeginRowSound ==
  ASSUME IInv, NEW bytes \in RowBytes, BeginRow(bytes) PROVE IInv'
<1>1. /\ kind = "otel" /\ pc = "rows" /\ rest # <<>>
      /\ ~GivenUp /\ ~batch_failed_ /\ rest' = Tail(rest)
      /\ UNCHANGED <<ring, pc, sleep_ms, events, columns_, batch_failed_,
                     builder, result, connected, consecutive_failures,
                     counters, outcome, block>>
  BY Zenon DEF BeginRow, GivenUp
<1>2. kind' = kind /\ UNCHANGED send_failures
  BY <1>1, Zenon DEF ring, counters
<1>3. /\ chunk \in Chunk /\ builder' \in Builder
      /\ rows \in Seq(1..MaxEvents) /\ rest \in Seq(1..MaxEvents)
      /\ chunk.request = "live" /\ chunk.chunk_count = Len(rows)
      /\ chunk.chunk_count \in Nat /\ chunk.chunk_bytes \in Nat
      /\ builder.estimated_bytes < max_block_bytes + kFixedBytesPerRow + LargestRow
  <2>1. chunk.chunk_count \in Nat /\ chunk.chunk_bytes \in Nat
    BY Sizes, Zenon DEF IInv
  <2>2. chunk.request = "live" /\ chunk.chunk_count = Len(rows)
    BY <1>1, Zenon DEF IInv, RequestsSound
  <2> QED
    BY <1>1, <2>1, <2>2, Zenon DEF IInv, Typed, TypeOK, RequestsSound
<1>4. /\ Filled' /\ Handed' /\ Remembered'
  <2>1. Filled'
    BY <1>1, <1>2, Zenon DEF Filled
  <2>2. Handed'
    BY <1>1, <1>2, StillHanded, Zenon
  <2>3. Remembered'
    BY <1>1, <1>2, Zenon DEF IInv, Remembered
  <2> QED
    BY <2>1, <2>2, <2>3, Zenon
<1>5. bytes \in Nat /\ bytes =< LargestRow
  BY Limits, Zenon
<1>6. CASE ChunkFull(chunk)
  <2>1. /\ Confirmed
        /\ exported_count' = exported_count + chunk.chunk_count
        /\ chunk' = AddLogRecord(ResetChunk, bytes)
        /\ rows' = <<Head(rest)>>
    BY <1>6, Zenon DEF BeginRow
  <2>2. /\ chunk' \in Chunk /\ chunk'.request = "live"
        /\ chunk'.chunk_count = 1
        /\ chunk'.chunk_bytes
             = kRequestOverheadBytes + kLogRecordOverheadBytes + bytes
    <3>1. /\ ResetChunk \in Chunk /\ ResetChunk.request = "live"
          /\ ResetChunk.chunk_count = 0
          /\ ResetChunk.chunk_bytes = kRequestOverheadBytes
      BY Limits, Zenon DEF ResetChunk, Chunk
    <3>2. /\ chunk' \in Chunk /\ chunk'.request = ResetChunk.request
          /\ chunk'.chunk_count = ResetChunk.chunk_count + 1
          /\ chunk'.chunk_bytes
               = ResetChunk.chunk_bytes + kLogRecordOverheadBytes + bytes
      BY <1>5, <2>1, <3>1, RecordAdded, Zenon
    <3> QED
      BY <3>1, <3>2
  <2>3. Typed' /\ Places' /\ Conserved' /\ Counted'
    <3>1. /\ kind # "clickhouse"
          /\ exported_count' = exported_count + Len(rows)
          /\ consecutive_failures' \in {0, consecutive_failures}
          /\ rest # <<>> /\ rows' = <<Head(rest)>> /\ rest' = Tail(rest)
      BY <1>1, <1>3, <2>1, Zenon
    <3>2. chunk' \in Chunk /\ builder' \in Builder
      BY <1>3, <2>2, Zenon
    <3> QED
      BY <1>1, <2>1, <3>1, <3>2, PartConfirmed, Zenon
  <2>4. RequestsSound'
    <3>1. Len(rows') = 1
      BY <2>1, Zenon
    <3>2. /\ chunk'.chunk_count =< psch_otel_log_batch_size
          /\ chunk'.chunk_bytes
               < max_chunk_bytes + kLogRecordOverheadBytes + LargestRow
      BY <1>5, <2>2, Limits
    <3> QED
      BY <1>1, <1>3, <2>2, <3>1, <3>2, Zenon DEF RequestsSound
  <2> QED
    BY <1>4, <2>3, <2>4, Zenon DEF IInv
<1>7. CASE ~ChunkFull(chunk)
  <2>1. /\ chunk' = AddLogRecord(chunk, bytes)
        /\ rows' = Append(rows, Head(rest))
        /\ UNCHANGED <<exported_count, remote>>
    BY <1>7, Zenon DEF BeginRow
  <2>2. /\ chunk' \in Chunk /\ chunk'.request = "live"
        /\ chunk'.chunk_count = chunk.chunk_count + 1
        /\ chunk'.chunk_bytes
             = chunk.chunk_bytes + kLogRecordOverheadBytes + bytes
    BY <1>3, <1>5, <2>1, RecordAdded, Zenon
  <2>3. Typed' /\ Places' /\ Conserved' /\ Counted'
    <3>1. exported_count' = IF kind = "clickhouse" THEN exported_count + 1
                                                   ELSE exported_count
      BY <1>1, <2>1, Zenon
    <3>2. chunk' \in Chunk /\ builder' \in Builder
      BY <1>3, <2>2, Zenon
    <3> QED
      BY <1>1, <2>1, <3>1, <3>2, RowBegun, Zenon
  <2>4. RequestsSound'
    <3>1. Len(rows') = Len(rows) + 1
      BY <1>1, <1>3, <2>1, Moved
    <3>2. /\ chunk.chunk_count < max_chunk_records
          /\ chunk.chunk_bytes < max_chunk_bytes
      BY <1>3, <1>7, Limits DEF ChunkFull
    <3>3. /\ chunk'.chunk_count =< psch_otel_log_batch_size
          /\ chunk'.chunk_bytes
               < max_chunk_bytes + kLogRecordOverheadBytes + LargestRow
      BY <1>3, <1>5, <2>2, <3>2, Limits
    <3> QED
      BY <1>1, <1>3, <2>2, <3>1, <3>3, Zenon DEF RequestsSound
  <2> QED
    BY <1>4, <2>3, <2>4, Zenon DEF IInv
<1> QED
  BY <1>6, <1>7, Zenon

(* An event appended to the Arrow builder.                                 *)
LEMMA AppendEventSound ==
  ASSUME IInv, NEW bytes \in RowBytes, AppendEvent(bytes) PROVE IInv'
<1>1. /\ kind = "arrow" /\ pc = "rows" /\ rest # <<>> /\ ~GivenUp
      /\ ~BlockFull
      /\ builder' = AppendRow(builder, Head(rest), bytes)
      /\ rows' = Append(rows, Head(rest)) /\ rest' = Tail(rest)
      /\ UNCHANGED <<ring, pc, sleep_ms, events, columns_, chunk,
                     batch_failed_, exported_count, result, connected,
                     consecutive_failures, counters, outcome, block, remote>>
  BY Zenon DEF AppendEvent, GivenUp
<1>2. kind' = kind /\ UNCHANGED send_failures
  BY <1>1, Zenon DEF ring, counters
<1>3. /\ chunk' \in Chunk /\ builder \in Builder
      /\ rows \in Seq(1..MaxEvents) /\ rest \in Seq(1..MaxEvents)
      /\ builder.num_rows \in Nat /\ builder.estimated_bytes \in Nat
      /\ bytes \in Nat /\ bytes =< LargestRow
  <2>1. builder.num_rows \in Nat /\ builder.estimated_bytes \in Nat
    BY Sizes, Zenon DEF IInv
  <2> QED
    BY <1>1, <2>1, Limits, Zenon DEF IInv, Typed, TypeOK
<1>4. Head(rest) \in 1..MaxEvents /\ NColumns \in Int /\ Len(rows') = Len(rows) + 1
  BY <1>1, <1>3, Moved, ConstantTypes
<1> DEFINE b == AppendColumns(builder, Head(rest), NColumns)
<1>5. /\ b \in Builder /\ b.estimated_bytes = builder.estimated_bytes
      /\ b.num_rows = builder.num_rows
  BY <1>3, <1>4, BuilderParts, Zenon
<1>6. /\ b.columns = Appended(builder.columns, Head(rest), NColumns)
      /\ b.memo = [i \in Dictionaries |->
                     IF i =< NColumns THEN builder.memo[i] \union {Head(rest)}
                                      ELSE builder.memo[i]]
  BY <1>3, Zenon DEF AppendColumns, Builder
<1>7. /\ builder' \in Builder
      /\ builder'.num_rows = builder.num_rows + 1
      /\ builder'.estimated_bytes
           = builder.estimated_bytes + kFixedBytesPerRow + bytes
      /\ builder'.columns = b.columns /\ builder'.memo = b.memo
  <2>1. builder' = [b EXCEPT !.estimated_bytes = @ + kFixedBytesPerRow + bytes,
                             !.num_rows = @ + 1]
    BY <1>1, Zenon DEF AppendRow
  <2> HIDE DEF b
  <2> QED
    <3>1. b \in Builder
      BY <1>5, Zenon
    <3>2. bytes \in Nat
      BY <1>3, Zenon
    <3>3. /\ builder' \in Builder
          /\ builder'.num_rows = b.num_rows + 1
          /\ builder'.estimated_bytes
               = b.estimated_bytes + kFixedBytesPerRow + bytes
          /\ builder'.columns = b.columns /\ builder'.memo = b.memo
      BY <2>1, <3>1, <3>2, RowAdded, Zenon
    <3> QED
      BY <1>5, <3>3, Zenon
<1>8. Typed' /\ Places' /\ Conserved' /\ Counted'
  BY <1>1, <1>3, <1>7, RowBegun, Zenon
<1>9. Filled'
  <2> HIDE DEF b
  <2>1. /\ builder.num_rows = Len(rows)
        /\ \A i \in Columns : builder.columns[i] = rows
        /\ \A i \in Dictionaries : builder.memo[i] = Range(rows)
    BY <1>1, Zenon DEF IInv, Filled
  <2>2. /\ \A i \in Columns : i =< NColumns
        /\ \A i \in Dictionaries : i =< NColumns
    BY ConstantTypes DEF Columns
  <2>3. \A i \in Columns : builder'.columns[i] = rows'
    BY <1>1, <1>6, <1>7, <2>1, <2>2, Zenon DEF Appended
  <2>4. Range(rows') = Range(rows) \union {Head(rest)}
    <3>1. /\ Len(rows) \in Nat /\ DOMAIN rows = 1..Len(rows)
          /\ DOMAIN rows' = 1..Len(rows) + 1
          /\ \A i \in 1..Len(rows) : rows'[i] = rows[i]
          /\ rows'[Len(rows) + 1] = Head(rest)
      <4> DEFINE r == rows
                 e == Head(rest)
      <4>1. r \in Seq(1..MaxEvents) /\ e \in 1..MaxEvents
        BY <1>3, <1>4, Zenon
      <4>2. rows' = Append(r, e)
        BY <1>1, Zenon
      <4> HIDE DEF r, e
      <4>3. Len(r) \in Nat /\ DOMAIN r = 1..Len(r)
        BY <4>1, LenProperties, Zenon
      <4>4. /\ Append(r, e) \in Seq(1..MaxEvents)
            /\ Len(Append(r, e)) = Len(r) + 1
            /\ \A i \in 1..Len(r) : Append(r, e)[i] = r[i]
            /\ Append(r, e)[Len(r) + 1] = e
        BY <4>1, AppendProperties
      <4>5. DOMAIN Append(r, e) = 1..Len(r) + 1
        BY <4>4, LenProperties, Zenon
      <4> QED
        BY <4>2, <4>3, <4>4, <4>5, Zenon DEF r, e
    <3>2. 1..Len(rows) + 1 = (1..Len(rows)) \union {Len(rows) + 1}
      BY <3>1
    <3> QED
      BY <3>1, <3>2 DEF Range
  <2>5. \A i \in Dictionaries : builder'.memo[i] = Range(rows')
    BY <1>6, <1>7, <2>1, <2>2, <2>4, Zenon
  <2> QED
    BY <1>1, <1>2, <1>4, <1>7, <2>1, <2>3, <2>5, Zenon DEF Filled
<1>10. Handed'
  BY <1>1, <1>2, StillHanded, Zenon
<1>11. Remembered'
  BY <1>1, <1>2, Zenon DEF IInv, Remembered
<1>12. RequestsSound'
  <2>1. builder.estimated_bytes < max_block_bytes
    BY <1>1, <1>3, Limits DEF BlockFull
  <2>2. builder'.estimated_bytes < max_block_bytes + kFixedBytesPerRow + LargestRow
    BY <1>3, <1>7, <2>1, Limits
  <2> QED
    BY <1>1, <1>2, <2>2, Zenon DEF IInv, RequestsSound
<1> QED
  BY <1>8, <1>9, <1>10, <1>11, <1>12, Zenon DEF IInv

(* A chunk is refused: the batch is given up, row after row.               *)
LEMMA BeginRowFailsSound ==
  ASSUME IInv, BeginRowFails PROVE IInv'
<1>1. /\ kind = "otel" /\ pc = "rows" /\ rest # <<>> /\ ~batch_failed_
      /\ SendFailed(rows, 1) /\ chunk' = Refused(chunk)
      /\ batch_failed_' = TRUE /\ rows' = <<>> /\ rest' = Tail(rest)
      /\ UNCHANGED <<pc, sleep_ms, events, columns_, builder, exported_count,
                     result, connected, block>>
  BY Zenon DEF BeginRowFails
<1>2. /\ Failed("send", 1) /\ consecutive_failures' = consecutive_failures + 1
      /\ Unconfirmed(rows) /\ UNCHANGED <<kind, queue, made>>
  BY <1>1, Zenon DEF SendFailed, ring
<1>3. /\ send_failures \in Nat /\ send_failures' \in send_failures..MaxFailures
      /\ send_failures < send_failures'
      /\ consecutive_failures' \in 0..send_failures'
      /\ consecutive_failures' > 0
      /\ outcome' = "send" /\ UNCHANGED exported
  BY <1>2, Failing, Zenon
<1>4. late' \subseteq Seq(1..MaxEvents) /\ UNCHANGED <<acked, stored>>
  BY <1>2, Sending, Zenon
<1>5. /\ TypeOK /\ builder \in Builder /\ chunk \in Chunk
      /\ rows \in Seq(1..MaxEvents) /\ rest \in Seq(1..MaxEvents)
      /\ Held \in Nat /\ Len(rows) \in Nat /\ Len(queue) \in Nat
      /\ Len(stored) \in Nat /\ acked \in Nat /\ made \in Nat
      /\ exported_count \in Nat
      /\ BatchMax \in Nat /\ MaxFailures \in Nat
  <2>1. BatchMax \in Nat /\ MaxFailures \in Nat
    BY ConstantTypes, Zenon
  <2> QED
    BY <2>1, Sizes, Zenon DEF IInv, Typed, TypeOK
<1>6. /\ Len(rest) \in Nat \ {0} /\ rest' \in Seq(1..MaxEvents)
      /\ Len(rest') = Len(rest) - 1
      /\ rows' \in Seq(1..MaxEvents) /\ Len(rows') = 0
  BY <1>1, <1>5, Moved, EmptySeq, Zenon
<1>7. GivenUp' /\ Held' = Len(rest) - 1 /\ Kept' = 0 /\ Held = Len(rows) + Len(rest)
  BY <1>1, <1>2, <1>6 DEF GivenUp, Held, Kept
<1>8. /\ chunk' \in Chunk /\ ~chunk'.in_row
      /\ chunk'.chunk_count = chunk.chunk_count
      /\ chunk'.chunk_bytes = chunk.chunk_bytes
  BY <1>1, <1>5, Zenon DEF Chunk, Refused
<1>9. Typed'
  <2>1. consecutive_failures' \in 0..MaxFailures /\ send_failures' \in 0..MaxFailures
    BY <1>3, <1>5
  <2> QED
    BY <1>1, <1>2, <1>3, <1>4, <1>5, <1>6, <1>8, <2>1, Zenon DEF Typed, TypeOK
<1>10. Places'
  BY <1>1, Zenon DEF IInv, Places
<1>11. Held =< BatchMax /\ acked + Held + Len(queue) =< made /\ acked =< Len(stored)
  BY Zenon DEF IInv, Conserved
<1>12. Conserved'
  <2> DEFINE before == BatchMax * send_failures
             after == BatchMax * send_failures'
  <2>1. /\ before \in Nat /\ after \in Nat /\ before + BatchMax =< after
    <3>1. send_failures =< send_failures' /\ send_failures' \in Nat
      BY <1>3, <1>5
    <3> QED
      BY <1>3, <3>1, OneMoreBatch, Zenon
  <2>2. made =< Len(stored) + Kept + Len(queue) + before
    BY Zenon DEF IInv, Conserved
  <2>3. Kept = Held
    BY <1>1, Zenon DEF Kept, GivenUp
  <2> HIDE DEF before, after
  <2>4. made' =< Len(stored') + Kept' + Len(queue') + after
    BY <1>2, <1>4, <1>5, <1>7, <1>11, <2>1, <2>2, <2>3
  <2>5. /\ Held' =< BatchMax /\ acked' + Held' + Len(queue') =< made'
        /\ acked' =< Len(stored')
    BY <1>2, <1>4, <1>5, <1>6, <1>7, <1>11
  <2> QED
    BY <2>4, <2>5, Zenon DEF Conserved, after
<1>13. Counted'
  <2>1. /\ exported =< acked /\ exported + exported_count =< acked
        /\ exported_count + Held =< BatchMax
    BY <1>1, Zenon DEF IInv, Counted
  <2>2. exported_count' + Held' =< BatchMax
    BY <1>1, <1>5, <1>6, <1>7, <2>1
  <2> QED
    BY <1>1, <1>2, <1>3, <1>4, <2>1, <2>2, Zenon DEF Counted
<1>14. Filled'
  BY <1>1, <1>2, Zenon DEF Filled
<1>15. Handed'
  BY <1>1, <1>2, StillHanded, Zenon
<1>16. Remembered'
  BY <1>1, <1>2, <1>3 DEF Remembered
<1>17. RequestsSound'
  BY <1>1, <1>2, <1>8, Zenon DEF IInv, RequestsSound
<1> QED
  BY <1>9, <1>10, <1>12, <1>13, <1>14, <1>15, <1>16, <1>17, Zenon DEF IInv

(* An OTel row after a request of the batch failed.                        *)
LEMMA BeginRowSkipsSound ==
  ASSUME IInv, BeginRowSkips PROVE IInv'
<1>1. /\ kind = "otel" /\ pc = "rows" /\ rest # <<>> /\ batch_failed_
      /\ rest' = Tail(rest)
      /\ UNCHANGED <<ring, pc, sleep_ms, events, rows, building,
                     exported_count, result, connected, consecutive_failures,
                     counters, outcome, block, remote>>
  BY Zenon DEF BeginRowSkips
<1>2. UNCHANGED <<kind, queue, made, columns_, chunk, batch_failed_, builder,
                  exported, send_failures, acked, stored, late>>
  BY <1>1, Zenon DEF ring, building, counters, remote
<1>3. /\ TypeOK /\ builder \in Builder
      /\ rows \in Seq(1..MaxEvents) /\ rest \in Seq(1..MaxEvents)
      /\ Held \in Nat /\ Len(rows) \in Nat /\ Len(queue) \in Nat
      /\ acked \in Nat /\ made \in Nat /\ exported_count \in Nat
      /\ BatchMax \in Nat
  <2>1. BatchMax \in Nat
    BY ConstantTypes, Zenon
  <2> QED
    BY <2>1, Sizes, Zenon DEF IInv, Typed, TypeOK
<1>4. /\ Len(rest) \in Nat \ {0} /\ rest' \in Seq(1..MaxEvents)
      /\ Len(rest') = Len(rest) - 1
  BY <1>1, <1>3, Moved, Zenon
<1>5. GivenUp' /\ Held' = Held - 1 /\ Kept' = Kept
  <2>1. GivenUp /\ GivenUp'
    BY <1>1, <1>2, Zenon DEF GivenUp
  <2>2. Held' = Held - 1
    BY <1>1, <1>3, <1>4 DEF Held
  <2> QED
    BY <1>1, <2>1, <2>2, Zenon DEF Kept
<1>6. Typed'
  BY <1>1, <1>2, <1>3, <1>4, Zenon DEF Typed, TypeOK
<1>7. Places'
  BY <1>1, Zenon DEF IInv, Places
<1>8. Conserved'
  <2>1. Held =< BatchMax /\ acked + Held + Len(queue) =< made
    BY Zenon DEF IInv, Conserved
  <2>2. Held' =< BatchMax /\ acked' + Held' + Len(queue') =< made'
    BY <1>2, <1>3, <1>5, <2>1
  <2> QED
    BY <1>2, <1>5, <2>2, Zenon DEF IInv, Conserved
<1>9. Counted'
  <2>1. exported_count + Held =< BatchMax
    BY <1>1, Zenon DEF IInv, Counted
  <2>2. exported_count' + Held' =< BatchMax
    BY <1>1, <1>3, <1>5, <2>1
  <2> QED
    BY <1>1, <1>2, <2>2, Zenon DEF IInv, Counted, GivenUp
<1>10. Filled'
  BY <1>1, <1>2, Zenon DEF Filled
<1>11. Handed'
  BY <1>1, <1>2, StillHanded, Zenon
<1>12. Remembered'
  BY <1>1, <1>2, Zenon DEF IInv, Remembered
<1>13. RequestsSound'
  BY <1>1, <1>2, Zenon DEF IInv, RequestsSound
<1> QED
  BY <1>6, <1>7, <1>8, <1>9, <1>10, <1>11, <1>12, <1>13, Zenon DEF IInv

(* The ring, the loop and the requests that arrive late.                   *)
LEMMA ProduceSound ==
  ASSUME IInv, Produce PROVE IInv'
<1>1. /\ made < MaxEvents /\ made' = made + 1
      /\ queue' = Append(queue, made + 1)
      /\ UNCHANGED <<kind, pc, sleep_ms, events, rest, rows, building,
                     exported_count, result, connected, consecutive_failures,
                     counters, outcome, block, remote>>
  BY Zenon DEF Produce
<1>2. UNCHANGED <<columns_, chunk, batch_failed_, builder, exported,
                  send_failures, acked, stored, late>>
  BY <1>1, Zenon DEF building, counters, remote
<1>3. /\ TypeOK /\ builder \in Builder /\ queue \in Seq(1..MaxEvents)
      /\ Held \in Nat /\ Kept \in Nat /\ Len(queue) \in Nat
      /\ Len(stored) \in Nat /\ acked \in Nat
      /\ made \in Nat /\ send_failures \in Nat /\ BatchMax \in Nat
      /\ MaxEvents \in Nat
  <2>1. BatchMax \in Nat /\ MaxEvents \in Nat
    BY ConstantTypes, Zenon
  <2>2. /\ Held \in Nat /\ Kept \in Nat /\ Len(queue) \in Nat
        /\ Len(stored) \in Nat /\ acked \in Nat
        /\ made \in Nat /\ send_failures \in Nat
    BY Sizes DEF IInv
  <2>3. TypeOK /\ builder \in Builder
    BY Zenon DEF IInv, Typed
  <2>4. queue \in Seq(1..MaxEvents)
    BY <2>3, Zenon DEF TypeOK
  <2> QED
    BY <2>1, <2>2, <2>3, <2>4, Zenon
<1>4. /\ queue' \in Seq(1..MaxEvents) /\ Len(queue') = Len(queue) + 1
      /\ made' \in 0..MaxEvents
  <2>1. made + 1 \in 1..MaxEvents
    BY <1>1, <1>3
  <2> QED
    BY <1>1, <1>3, <2>1, AppendProperties
<1>5. Held' = Held /\ Kept' = Kept
  BY <1>1, <1>2, Zenon DEF Held, Kept, GivenUp
<1>6. Typed'
  BY <1>1, <1>2, <1>3, <1>4, Zenon DEF Typed, TypeOK
<1>7. Places'
  BY <1>1, Zenon DEF IInv, Places
<1>8. Conserved'
  <2> DEFINE covered == BatchMax * send_failures
  <2>1. covered \in Nat /\ made =< Len(stored) + Kept + Len(queue) + covered
    BY <1>3 DEF IInv, Conserved
  <2>2. covered' = covered
    BY <1>2, Zenon
  <2> HIDE DEF covered
  <2>3. made' =< Len(stored') + Kept' + Len(queue') + covered'
    BY <1>1, <1>2, <1>3, <1>4, <1>5, <2>1, <2>2
  <2>4. /\ Held =< BatchMax /\ acked + Held + Len(queue) =< made
        /\ acked =< Len(stored)
    BY Zenon DEF IInv, Conserved
  <2>5. /\ Held' =< BatchMax /\ acked' + Held' + Len(queue') =< made'
        /\ acked' =< Len(stored')
    BY <1>1, <1>2, <1>3, <1>4, <1>5, <2>4
  <2> QED
    BY <2>3, <2>5, Zenon DEF Conserved, covered
<1>9. Counted'
  BY <1>1, <1>2, <1>5, Zenon DEF IInv, Counted, GivenUp
<1>10. Filled'
  BY <1>1, <1>2, Zenon DEF IInv, Filled
<1>11. Handed'
  BY <1>1, StillHanded, Zenon
<1>12. Remembered'
  BY <1>1, <1>2, Zenon DEF IInv, Remembered
<1>13. RequestsSound'
  BY <1>1, <1>2, Zenon DEF IInv, RequestsSound
<1> QED
  BY <1>6, <1>7, <1>8, <1>9, <1>10, <1>11, <1>12, <1>13, Zenon DEF IInv

(* A request that arrives after its deadline.                              *)
LEMMA ArriveSound ==
  ASSUME IInv, NEW r \in late, Arrive(r) PROVE IInv'
<1>1. /\ late' = late \ {r} /\ stored' = stored \o r
      /\ UNCHANGED <<ring, pc, sleep_ms, events, rest, rows, building,
                     exported_count, result, connected, consecutive_failures,
                     counters, outcome, block, acked>>
  BY Zenon DEF Arrive
<1>2. UNCHANGED <<kind, queue, made, columns_, chunk, batch_failed_, builder,
                  exported, send_failures>>
  BY <1>1, Zenon DEF ring, building, counters
<1>3. /\ TypeOK /\ builder \in Builder
      /\ stored \in Seq(1..MaxEvents) /\ r \in Seq(1..MaxEvents)
      /\ Held \in Nat /\ Kept \in Nat /\ Len(queue) \in Nat
      /\ acked \in Nat /\ made \in Nat
      /\ send_failures \in Nat /\ BatchMax \in Nat
  <2>1. BatchMax \in Nat
    BY ConstantTypes, Zenon
  <2>2. /\ Held \in Nat /\ Kept \in Nat /\ Len(queue) \in Nat
        /\ acked \in Nat /\ made \in Nat /\ send_failures \in Nat
    BY Sizes DEF IInv
  <2>3. TypeOK /\ builder \in Builder
    BY Zenon DEF IInv, Typed
  <2>4. stored \in Seq(1..MaxEvents) /\ r \in Seq(1..MaxEvents)
    BY <2>3, Zenon DEF TypeOK
  <2> QED
    BY <2>1, <2>2, <2>3, <2>4, Zenon
<1>4. /\ stored' \in Seq(1..MaxEvents)
      /\ Len(stored) \in Nat /\ Len(r) \in Nat
      /\ Len(stored') = Len(stored) + Len(r)
  BY <1>1, <1>3, ConcatProperties, LenProperties, Zenon
<1>5. Held' = Held /\ Kept' = Kept
  BY <1>1, <1>2, Zenon DEF Held, Kept, GivenUp
<1>6. Typed'
  <2>1. late' \subseteq Seq(1..MaxEvents)
    BY <1>1, <1>3, Zenon DEF TypeOK
  <2> QED
    BY <1>1, <1>2, <1>3, <1>4, <2>1, Zenon DEF Typed, TypeOK
<1>7. Places'
  BY <1>1, Zenon DEF IInv, Places
<1>8. Conserved'
  <2> DEFINE covered == BatchMax * send_failures
  <2>1. covered \in Nat /\ made =< Len(stored) + Kept + Len(queue) + covered
    BY <1>3 DEF IInv, Conserved
  <2>2. covered' = covered
    BY <1>2, Zenon
  <2> HIDE DEF covered
  <2>3. made' =< Len(stored') + Kept' + Len(queue') + covered'
    BY <1>2, <1>3, <1>4, <1>5, <2>1, <2>2
  <2>4. /\ Held =< BatchMax /\ acked + Held + Len(queue) =< made
        /\ acked =< Len(stored)
    BY Zenon DEF IInv, Conserved
  <2>5. /\ Held' =< BatchMax /\ acked' + Held' + Len(queue') =< made'
        /\ acked' =< Len(stored')
    BY <1>1, <1>2, <1>3, <1>4, <1>5, <2>4
  <2> QED
    BY <2>3, <2>5, Zenon DEF Conserved, covered
<1>9. Counted'
  BY <1>1, <1>2, <1>5, Zenon DEF IInv, Counted, GivenUp
<1>10. Filled'
  BY <1>1, <1>2, Zenon DEF IInv, Filled
<1>11. Handed'
  BY <1>1, <1>2, StillHanded, Zenon
<1>12. Remembered'
  BY <1>1, <1>2, Zenon DEF IInv, Remembered
<1>13. RequestsSound'
  BY <1>1, <1>2, Zenon DEF IInv, RequestsSound
<1> QED
  BY <1>6, <1>7, <1>8, <1>9, <1>10, <1>11, <1>12, <1>13, Zenon DEF IInv

(* Moving on between the batches: Wake, Connect and Loop.                  *)
LEMMA BetweenSound ==
  ASSUME IInv, Wake \/ Connect \/ Loop PROVE IInv'
<1>1. /\ pc \in {"sleep", "begin", "returned"}
      /\ pc' \in {"sleep", "begin", "dequeue"}
      /\ UNCHANGED <<queue, made, events, rest, rows, building, exported_count,
                     result, consecutive_failures, counters, outcome, block,
                     remote>>
  BY Zenon DEF Wake, Connect, Loop, ring
<1>2. UNCHANGED <<columns_, chunk, batch_failed_, builder, exported,
                  send_failures, acked, stored, late>>
  BY <1>1, Zenon DEF building, counters, remote
<1>3. TypeOK /\ builder \in Builder
  BY Zenon DEF IInv, Typed
<1>4. /\ kind' \in Kinds
      /\ kind' = kind \/ (kind # "clickhouse" /\ kind' # "clickhouse")
  BY <1>3, Zenon DEF Wake, Connect, Loop, ring, TypeOK
<1>5. connected' \in BOOLEAN
  BY <1>3, Zenon DEF Wake, Connect, Loop, TypeOK
<1>6. /\ sleep_ms' \in Nat
      /\ pc' = "sleep" /\ consecutive_failures > 0 => sleep_ms' >= kBaseDelayMs
  <2>1. CASE Wake \/ Connect
    BY <1>3, <2>1, Zenon DEF Wake, Connect, TypeOK
  <2>2. CASE Loop
    <3>1. sleep_ms \in Nat /\ consecutive_failures \in Nat
      BY <1>3, Sizes, Zenon DEF TypeOK, IInv
    <3>2. /\ SleepMs(consecutive_failures) \in Nat
          /\ consecutive_failures > 0 =>
               SleepMs(consecutive_failures) >= kBaseDelayMs
      BY <3>1, SleepBacksOff, Zenon
    <3> QED
      BY <2>2, <3>1, <3>2, Zenon DEF Loop
  <2> QED
    BY <2>1, <2>2, Zenon
<1>7. Held' = Held /\ Kept' = Kept
  BY <1>1, Zenon DEF Held, Kept
<1>8. Typed'
  BY <1>1, <1>2, <1>3, <1>4, <1>5, <1>6, Zenon DEF Typed, TypeOK
<1>9. Places'
  BY <1>1, Zenon DEF IInv, Places
<1>10. Conserved'
  BY <1>1, <1>2, <1>7, Zenon DEF IInv, Conserved
<1>11. Counted'
  BY <1>1, <1>2, Zenon DEF IInv, Counted
<1>12. Filled'
  BY <1>1, Zenon DEF Filled
<1>13. Handed'
  BY <1>1, <1>4, Zenon DEF IInv, Handed, BlocksSound
<1>14. Remembered'
  BY <1>1, <1>2, <1>6, Zenon DEF IInv, Remembered
<1>15. RequestsSound'
  BY <1>1, <1>2, Zenon DEF IInv, RequestsSound
<1> QED
  BY <1>8, <1>9, <1>10, <1>11, <1>12, <1>13, <1>14, <1>15, Zenon DEF IInv

(* An event taken from the queue.                                          *)
LEMMA DequeueSound ==
  ASSUME IInv, Dequeue PROVE IInv'
<1>1. /\ pc = "dequeue" /\ Len(events) < BatchMax /\ queue # <<>>
      /\ events' = Append(events, Head(queue)) /\ queue' = Tail(queue)
      /\ UNCHANGED <<kind, made, pc, sleep_ms, rest, rows, building,
                     exported_count, result, connected, consecutive_failures,
                     counters, outcome, block, remote>>
  BY Zenon DEF Dequeue
<1>2. UNCHANGED <<columns_, chunk, batch_failed_, builder, exported,
                  send_failures, acked, stored, late>>
  BY <1>1, Zenon DEF building, counters, remote
<1>3. /\ TypeOK /\ builder \in Builder
      /\ queue \in Seq(1..MaxEvents) /\ events \in Seq(1..MaxEvents)
      /\ Len(stored) \in Nat /\ acked \in Nat /\ made \in Nat
      /\ send_failures \in Nat /\ BatchMax \in Nat
  <2>1. BatchMax \in Nat
    BY ConstantTypes, Zenon
  <2> QED
    BY <2>1, Sizes, Zenon DEF IInv, Typed, TypeOK
<1>4. /\ events' \in Seq(1..MaxEvents) /\ queue' \in Seq(1..MaxEvents)
      /\ Len(events) \in Nat /\ Len(queue) \in Nat \ {0}
      /\ Len(events') = Len(events) + 1 /\ Len(queue') = Len(queue) - 1
  BY <1>1, <1>3, Moved, Zenon
<1>5. /\ Held = Len(events) /\ Kept = Len(events)
      /\ Held' = Len(events) + 1 /\ Kept' = Len(events) + 1
  BY <1>1, <1>4, Zenon DEF Held, Kept
<1>6. Typed'
  BY <1>1, <1>2, <1>3, <1>4, Zenon DEF Typed, TypeOK
<1>7. Places'
  BY <1>1, Zenon DEF IInv, Places
<1>8. Conserved'
  <2> DEFINE covered == BatchMax * send_failures
  <2>1. covered \in Nat /\ made =< Len(stored) + Kept + Len(queue) + covered
    BY <1>3 DEF IInv, Conserved
  <2>2. covered' = covered
    BY <1>2, Zenon
  <2> HIDE DEF covered
  <2>3. made' =< Len(stored') + Kept' + Len(queue') + covered'
    BY <1>1, <1>2, <1>3, <1>4, <1>5, <2>1, <2>2
  <2>4. acked + Held + Len(queue) =< made /\ acked =< Len(stored)
    BY Zenon DEF IInv, Conserved
  <2>5. /\ Held' =< BatchMax /\ acked' + Held' + Len(queue') =< made'
        /\ acked' =< Len(stored')
    BY <1>1, <1>2, <1>3, <1>4, <1>5, <2>4
  <2> QED
    BY <2>3, <2>5, Zenon DEF Conserved, covered
<1>9. Counted'
  BY <1>1, <1>2, Zenon DEF IInv, Counted
<1>10. Filled'
  BY <1>1, Zenon DEF Filled
<1>11. Handed'
  BY <1>1, StillHanded, Zenon
<1>12. Remembered'
  BY <1>1, <1>2, Zenon DEF IInv, Remembered
<1>13. RequestsSound'
  BY <1>1, <1>2, Zenon DEF IInv, RequestsSound
<1> QED
  BY <1>6, <1>7, <1>8, <1>9, <1>10, <1>11, <1>12, <1>13, Zenon DEF IInv

(* BeginBatch clears what an earlier batch left in the columns, the chunk  *)
(* or the builder.                                                         *)
LEMMA BeginBatchSound ==
  ASSUME IInv, BeginBatch PROVE IInv'
<1>1. /\ pc = "dequeue" /\ rest' = events /\ exported_count' = 0
      /\ pc' = "rows" /\ block' = NoBlock
      /\ columns_' = IF kind = "clickhouse" THEN [i \in Columns |-> <<>>]
                                            ELSE columns_
      /\ IF kind = "otel" THEN chunk' = ResetChunk /\ batch_failed_' = FALSE
                          ELSE UNCHANGED <<chunk, batch_failed_>>
      /\ builder' = IF kind = "arrow" THEN NewBuilder ELSE builder
      /\ UNCHANGED <<ring, sleep_ms, events, rows, result, connected,
                     consecutive_failures, counters, outcome, remote>>
  BY Zenon DEF BeginBatch
<1>2. UNCHANGED <<kind, queue, made, exported, send_failures, acked, stored,
                  late>>
  BY <1>1, Zenon DEF ring, counters, remote
<1>3. /\ TypeOK /\ builder \in Builder /\ events \in Seq(1..MaxEvents)
      /\ rows = <<>> /\ rows' = <<>>
      /\ Len(rows') = 0 /\ Len(events) \in Nat /\ BatchMax \in Nat
      /\ acked \in Nat /\ exported \in Nat
  <2>1. BatchMax \in Nat
    BY ConstantTypes, Zenon
  <2>2. rows = <<>>
    BY <1>1, Zenon DEF IInv, Places
  <2> QED
    BY <1>1, <2>1, <2>2, Sizes, Zenon DEF IInv, Typed, TypeOK
<1>4. Range(<<>>) = {}
  BY DEF Range
<1>5. /\ builder' \in Builder
      /\ kind = "arrow" =>
           /\ builder'.num_rows = 0
           /\ \A i \in Columns : builder'.columns[i] = <<>>
           /\ \A i \in Dictionaries : builder'.memo[i] = Range(<<>>)
      /\ \/ builder'.estimated_bytes = builder.estimated_bytes
         \/ builder'.estimated_bytes = kIpcEnvelopeBytes
  <2>1. CASE kind = "arrow"
    <3> DEFINE b == [columns |-> [i \in Columns |-> <<>>],
                     memo |-> [i \in Dictionaries |-> {}],
                     num_rows |-> 0, estimated_bytes |-> 0]
    <3>1. b \in Builder
      BY EmptySeq, Zenon DEF Builder
    <3>2. builder' = ResetBuilder(b)
      BY <1>1, <2>1, Zenon DEF NewBuilder
    <3> HIDE DEF b
    <3> QED
      BY <3>1, <3>2, EmptyBuilder, Zenon
  <2>2. CASE kind # "arrow"
    BY <1>1, <1>3, <2>2, Zenon
  <2> QED
    BY <2>1, <2>2, Zenon
<1>6. /\ chunk' \in Chunk /\ batch_failed_' \in BOOLEAN
      /\ kind = "otel" => ~batch_failed_' /\ chunk'.request = "live"
                          /\ chunk'.chunk_count = 0
      /\ \/ UNCHANGED chunk
         \/ /\ chunk'.chunk_count = 0
            /\ chunk'.chunk_bytes = kRequestOverheadBytes
  <2>1. /\ ResetChunk \in Chunk /\ ResetChunk.request = "live"
        /\ ResetChunk.chunk_count = 0
        /\ ResetChunk.chunk_bytes = kRequestOverheadBytes
    BY Limits, Zenon DEF ResetChunk, Chunk
  <2>2. CASE kind = "otel"
    BY <1>1, <2>1, <2>2, Zenon
  <2>3. CASE kind # "otel"
    BY <1>1, <1>3, <2>3, Zenon DEF TypeOK
  <2> QED
    BY <2>2, <2>3, Zenon
<1>7. ~GivenUp' /\ Held' = Held /\ Kept' = Kept /\ Held = Len(events)
  <2>1. ~GivenUp'
    BY <1>2, <1>6, Zenon DEF GivenUp
  <2>2. Held' = Len(events) /\ Held = Len(events)
    BY <1>1, <1>3 DEF Held
  <2> QED
    BY <1>1, <2>1, <2>2, Zenon DEF Kept
<1>8. Typed'
  <2>1. exported_count' \in 0..BatchMax
    BY <1>1, <1>3
  <2> QED
    BY <1>1, <1>2, <1>3, <1>5, <1>6, <2>1, Zenon DEF Typed, TypeOK
<1>9. Places'
  BY <1>1, Zenon DEF Places
<1>10. Conserved'
  BY <1>2, <1>7, Zenon DEF IInv, Conserved
<1>11. Counted'
  <2>1. exported =< acked /\ Held =< BatchMax
    BY Zenon DEF IInv, Conserved, Counted
  <2>2. /\ exported' + exported_count' =< acked'
        /\ exported_count' + Held' =< BatchMax
    BY <1>1, <1>2, <1>3, <1>7, <2>1
  <2> QED
    BY <1>1, <1>2, <1>3, <1>7, <2>1, <2>2, Zenon DEF Counted
<1>12. Filled'
  BY <1>1, <1>2, <1>3, <1>5, Zenon DEF Filled
<1>13. Handed'
  BY <1>1, <1>4, Zenon DEF Handed, BlocksSound, NoBlock
<1>14. Remembered'
  BY <1>1, <1>2, Zenon DEF IInv, Remembered
<1>15. RequestsSound'
  <2>1. kind = "otel" => ~batch_failed_' /\ chunk'.request = "live"
                         /\ chunk'.chunk_count = Len(rows')
    BY <1>3, <1>6, Zenon
  <2>2. /\ chunk'.chunk_count =< psch_otel_log_batch_size
        /\ chunk'.chunk_bytes
             < max_chunk_bytes + kLogRecordOverheadBytes + LargestRow
    BY <1>6, Limits DEF IInv, RequestsSound
  <2>3. builder'.estimated_bytes < max_block_bytes + kFixedBytesPerRow + LargestRow
    BY <1>5, Limits DEF IInv, RequestsSound
  <2> QED
    BY <1>2, <2>1, <2>2, <2>3, Zenon DEF RequestsSound
<1> QED
  BY <1>8, <1>9, <1>10, <1>11, <1>12, <1>13, <1>14, <1>15, Zenon DEF IInv

(* Every step keeps the invariant.                                         *)
LEMMA NextIInv == IInv /\ [Next]_vars => IInv'
<1> SUFFICES ASSUME IInv, [Next]_vars PROVE IInv'
  BY Zenon
<1>1. CASE UNCHANGED vars
  <2>1. UNCHANGED <<kind, queue, made, pc, sleep_ms, events, rest, rows,
                    columns_, chunk, batch_failed_, builder, exported_count,
                    result, connected, consecutive_failures, exported,
                    send_failures, outcome, block, acked, stored, late>>
    BY <1>1, Zenon DEF vars, ring, building, counters, remote
  <2>2. Typed' /\ Places'
    BY <2>1, Zenon DEF IInv, Typed, TypeOK, Places
  <2>3. Held' = Held /\ Kept' = Kept
    BY <2>1, Zenon DEF Held, Kept, GivenUp
  <2>4. Conserved' /\ Counted'
    BY <2>1, <2>3, Zenon DEF IInv, Conserved, Counted, GivenUp
  <2>5. Filled' /\ Remembered' /\ RequestsSound'
    BY <2>1, Zenon DEF IInv, Filled, Remembered, RequestsSound
  <2>6. Handed'
    BY <2>1, StillHanded, Zenon
  <2> QED
    BY <2>2, <2>4, <2>5, <2>6, Zenon DEF IInv
<1>2. CASE Next
  BY <1>2, ProduceSound, BetweenSound, ConnectFailsSound, DequeueSound,
     NothingToExportSound, BeginBatchSound, BuildThrowsSound,
     ClickHouseRowSound, CommitInsertSound, CommitInsertFailsSound,
     BeginRowSound, BeginRowFailsSound, BeginRowThrowsSound,
     BeginRowSkipsSound, CommitChunkSound, CommitChunkFailsSound,
     AppendEventSound, AppendEventFailsSound, FlushBuilderSound,
     FlushBuilderFailsSound, ArrowDoneSound, ArriveSound
  DEF Next
<1> QED
  BY <1>1, <1>2, Zenon

-----------------------------------------------------------------------------
(* The invariant holds of every run of the export.                         *)
THEOREM ExportInvariance == Spec => []IInv
  BY InitIInv, NextIInv, PTL DEF Spec

(* PschRecordExportSuccess never counts an event that the receiver does    *)
(* not have, whichever chunks, blocks or inserts of its batch failed.      *)
THEOREM CountsNoMoreThanStored == Spec => []ExportedNotAhead
<1>1. IInv => ExportedNotAhead
  BY Zenon DEF IInv, Typed, Conserved, Counted, ExportedNotAhead
<1> QED
  BY <1>1, ExportInvariance, PTL

(* Events that are in no queue, in no batch and not at the receiver were   *)
(* lost in recorded failures, at most a batch in each.                     *)
THEOREM NoSilentLoss == Spec => []LossReported
<1>1. ASSUME IInv PROVE LossReported
  <2> DEFINE covered == BatchMax * send_failures
  <2>1. /\ stored \in Seq(1..MaxEvents) /\ queue \in Seq(1..MaxEvents)
        /\ rows \in Seq(1..MaxEvents) /\ rest \in Seq(1..MaxEvents)
        /\ events \in Seq(1..MaxEvents)
    BY <1>1, Zenon DEF IInv, Typed, TypeOK
  <2>2. InHand \in Seq(1..MaxEvents) /\ Len(InHand) = Held
    <3>1. /\ rows \o rest \in Seq(1..MaxEvents)
          /\ Len(rows \o rest) = Len(rows) + Len(rest)
      BY <2>1, ConcatProperties, Zenon
    <3> QED
      BY <2>1, <3>1, Zenon DEF InHand, Held
  <2>3. Len(stored \o InHand \o queue) = Len(stored) + Len(InHand) + Len(queue)
    <3>1. /\ stored \o InHand \in Seq(1..MaxEvents)
          /\ Len(stored \o InHand) = Len(stored) + Len(InHand)
      BY <2>1, <2>2, ConcatProperties, Zenon
    <3> QED
      BY <2>1, <3>1, ConcatProperties
  <2>4. /\ Kept \in 0..Held /\ Held \in Nat /\ Len(stored) \in Nat
        /\ Len(queue) \in Nat /\ made \in Nat /\ send_failures \in Nat
        /\ BatchMax \in Nat
    <3>1. BatchMax \in Nat
      BY ConstantTypes, Zenon
    <3> QED
      BY <1>1, <3>1, Sizes, Zenon DEF IInv
  <2>5. covered \in Nat /\ made =< Len(stored) + Kept + Len(queue) + covered
    BY <1>1, <2>4 DEF IInv, Conserved
  <2> HIDE DEF covered
  <2>6. made - Len(stored \o InHand \o queue) =< covered
    BY <2>2, <2>3, <2>4, <2>5
  <2> QED
    BY <2>6, Zenon DEF LossReported, covered
<1> QED
  BY <1>1, ExportInvariance, PTL

(* After a failed send CalculateSleepMs backs off, also when the drain     *)
(* loop has gone round in between.                                         *)
THEOREM FailedSendBacksOff == Spec => []BacksOffAfterSend
<1>1. IInv => BacksOffAfterSend
  BY Zenon DEF IInv, Remembered, BacksOffAfterSend
<1> QED
  BY <1>1, ExportInvariance, PTL

(* A block handed over has the rows begun since the last one in every      *)
(* column, although BeginBatch and Reset start from what a failed batch    *)
(* left.                                                                   *)
THEOREM BlocksHoldTheirRows == Spec => []BlocksSound
<1>1. IInv => BlocksSound
  BY Zenon DEF IInv, Handed
<1> QED
  BY <1>1, ExportInvariance, PTL

(* A row of an OTel batch goes into a live request, and no request or      *)
(* block outgrows its limits by more than a row.                           *)
THEOREM RequestsWithinLimits == Spec => []RequestsSound
<1>1. IInv => RequestsSound
  BY Zenon DEF IInv
<1> QED
  BY <1>1, ExportInvariance, PTL

-----------------------------------------------------------------------------
(* The export implements the delivery of events.                           *)

(* The two parts of a concatenation.                                       *)
LEMMA Parts ==
  ASSUME NEW S, NEW s \in Seq(S), NEW t \in Seq(S)
  PROVE  /\ s \o t \in Seq(S) /\ Len(s) \in Nat /\ Len(t) \in Nat
         /\ Len(s \o t) = Len(s) + Len(t)
         /\ SubSeq(s \o t, 1, Len(s)) = s
         /\ SubSeq(s \o t, Len(s) + 1, Len(s \o t)) = t
<1> DEFINE u == s \o t
           a == SubSeq(u, 1, Len(s))
           b == SubSeq(u, Len(s) + 1, Len(u))
<1>1. /\ u \in Seq(S) /\ Len(s) \in Nat /\ Len(t) \in Nat
      /\ Len(u) = Len(s) + Len(t)
      /\ \A i \in 1..Len(s) : u[i] = s[i]
      /\ \A i \in 1..Len(t) : u[Len(s) + i] = t[i]
  <2>1. Len(s) \in Nat /\ Len(t) \in Nat
    BY LenProperties, Zenon
  <2>2. /\ u \in Seq(S) /\ Len(u) = Len(s) + Len(t)
        /\ \A i \in 1..Len(s) + Len(t) :
             u[i] = IF i <= Len(s) THEN s[i] ELSE t[i - Len(s)]
    BY ConcatProperties, Zenon
  <2> HIDE DEF u
  <2>3. ASSUME NEW i \in 1..Len(s) PROVE u[i] = s[i]
    <3>1. i \in 1..Len(s) + Len(t) /\ i <= Len(s)
      BY <2>1
    <3> QED
      BY <2>2, <3>1, Zenon
  <2>4. ASSUME NEW i \in 1..Len(t) PROVE u[Len(s) + i] = t[i]
    <3>1. /\ Len(s) + i \in 1..Len(s) + Len(t)
          /\ ~(Len(s) + i <= Len(s)) /\ (Len(s) + i) - Len(s) = i
      BY <2>1
    <3> QED
      BY <2>2, <3>1, Zenon
  <2> QED
    BY <2>1, <2>2, <2>3, <2>4, Zenon
<1> HIDE DEF u
<1>2. \A i \in 1..Len(u) : u[i] \in S
  BY <1>1, ElementOfSeq, Zenon
<1>3. /\ a \in Seq(S) /\ Len(a) = Len(s)
      /\ \A i \in 1..Len(s) : a[i] = u[i]
  <2>1. \A i \in 1..Len(s) : u[i] \in S
    BY <1>1, <1>2
  <2>2. /\ a \in Seq(S) /\ Len(a) = IF 1 <= Len(s) THEN Len(s) - 1 + 1 ELSE 0
        /\ \A i \in 1..Len(s) - 1 + 1 : a[i] = u[1 + i - 1]
    BY <1>1, <2>1, SubSeqProperties
  <2> HIDE DEF a
  <2> QED
    BY <1>1, <2>2
<1>4. /\ b \in Seq(S) /\ Len(b) = Len(t)
      /\ \A i \in 1..Len(t) : b[i] = u[Len(s) + i]
  <2>1. \A i \in Len(s) + 1 .. Len(u) : u[i] \in S
    BY <1>1, <1>2
  <2>2. /\ b \in Seq(S)
        /\ Len(b) = IF Len(s) + 1 <= Len(u) THEN Len(u) - (Len(s) + 1) + 1 ELSE 0
        /\ \A i \in 1..Len(u) - (Len(s) + 1) + 1 : b[i] = u[(Len(s) + 1) + i - 1]
    BY <1>1, <2>1, SubSeqProperties
  <2> HIDE DEF b
  <2>3. ASSUME NEW i \in 1..Len(t) PROVE b[i] = u[Len(s) + i]
    <3>1. /\ i \in 1..Len(u) - (Len(s) + 1) + 1
          /\ (Len(s) + 1) + i - 1 = Len(s) + i
      BY <1>1
    <3> QED
      BY <2>2, <3>1, Zenon
  <2>4. Len(b) = Len(t)
    BY <1>1, <2>2
  <2> QED
    BY <2>2, <2>3, <2>4, Zenon
<1> HIDE DEF a, b
<1>5. a = s
  BY <1>1, <1>3, SeqEqual, Zenon
<1>6. b = t
  BY <1>1, <1>4, SeqEqual, Zenon
<1> QED
  BY <1>1, <1>5, <1>6, Zenon DEF a, b, u

(* The events in hand that may yet be sent; the rows begun are the first.  *)
Hand == IF pc = "rows" /\ GivenUp THEN <<>> ELSE InHand

(* The types of the mapped variables.                                      *)
LEMMA MappedTypes ==
  ASSUME IInv
  PROVE  /\ Hand \in Seq(1..MaxEvents) /\ queue \in Seq(1..MaxEvents)
         /\ rows \in Seq(1..MaxEvents) /\ rest \in Seq(1..MaxEvents)
         /\ events \in Seq(1..MaxEvents)
         /\ Undelivered = Hand \o queue
         /\ Len(Hand) \in Nat /\ Len(Hand) =< BatchMax
         /\ pc = "rows" /\ ~GivenUp => Hand = rows \o rest
         /\ pc # "rows" => Hand = events /\ rows = <<>>
         /\ pc = "rows" /\ GivenUp => Hand = <<>> /\ rows = <<>>
<1>1. /\ queue \in Seq(1..MaxEvents)
      /\ rows \in Seq(1..MaxEvents) /\ rest \in Seq(1..MaxEvents)
      /\ events \in Seq(1..MaxEvents) /\ <<>> \in Seq(1..MaxEvents)
  BY EmptySeq, Zenon DEF IInv, Typed, TypeOK
<1>2. /\ rows \o rest \in Seq(1..MaxEvents)
      /\ Len(rows \o rest) = Len(rows) + Len(rest)
  BY <1>1, ConcatProperties, Zenon
<1>3. <<>> \o queue = queue
  BY <1>1, ConcatEmptySeq, Zenon
<1>4. Undelivered = Hand \o queue
  BY <1>3, Zenon DEF Undelivered, Hand, GivenUp
<1>5. Len(Hand) = Kept /\ Hand \in Seq(1..MaxEvents)
  <2>1. Len(<<>>) = 0
    BY Zenon
  <2>2. CASE pc = "rows"
    <3>1. CASE GivenUp
      <4>1. Hand = <<>> /\ Kept = 0
        BY <2>2, <3>1, Zenon DEF Hand, Kept
      <4> QED
        BY <1>1, <2>1, <4>1, Zenon
    <3>2. CASE ~GivenUp
      <4>1. Hand = rows \o rest /\ Kept = Len(rows) + Len(rest)
        BY <2>2, <3>2, Zenon DEF Hand, InHand, Kept, Held
      <4> QED
        BY <1>2, <4>1, Zenon
    <3> QED
      BY <3>1, <3>2, Zenon
  <2>3. CASE pc # "rows"
    BY <1>1, <2>3, Zenon DEF Hand, InHand, Kept, Held
  <2> QED
    BY <2>2, <2>3, Zenon
<1>6. Len(Hand) \in Nat /\ Len(Hand) =< BatchMax
  <2>1. Kept \in 0..Held /\ Held \in Nat /\ Held =< BatchMax /\ BatchMax \in Nat
    <3>1. BatchMax \in Nat
      BY ConstantTypes, Zenon
    <3> QED
      BY <3>1, Sizes, Zenon DEF IInv, Conserved
  <2> QED
    BY <1>5, <2>1
<1>7. /\ pc = "rows" /\ ~GivenUp => Hand = rows \o rest
      /\ pc # "rows" => Hand = events /\ rows = <<>>
      /\ pc = "rows" /\ GivenUp => Hand = <<>> /\ rows = <<>>
  BY Zenon DEF Hand, InHand, IInv, Places, Counted
<1> QED
  BY <1>1, <1>4, <1>5, <1>6, <1>7, Zenon

(* A step that moves events within the worker is none of the delivery.     *)
LEMMA NoDelivery ==
  ASSUME Undelivered' = Undelivered, UNCHANGED <<made, send_failures, late, stored>>
  PROVE  UNCHANGED Delivery!deliveryVars
  BY Zenon DEF Delivery!deliveryVars

(* One that confirms the rows begun stores them, ...                       *)
LEMMA RowsStored ==
  ASSUME IInv, pc = "rows", ~GivenUp, Confirmed,
         Undelivered' = rest \o queue, UNCHANGED <<made, send_failures>>
  PROVE  [Delivery!Next]_(Delivery!deliveryVars)
<1>1. /\ rows \in Seq(1..MaxEvents) /\ rest \in Seq(1..MaxEvents)
      /\ queue \in Seq(1..MaxEvents) /\ Undelivered = (rows \o rest) \o queue
  BY MappedTypes, Zenon
<1>2. rest \o queue \in Seq(1..MaxEvents)
  BY <1>1, ConcatProperties, Zenon
<1>3. Undelivered = rows \o (rest \o queue)
  BY <1>1, ConcatAssociative
<1> DEFINE k == Len(rows)
<1>4. /\ k \in Nat /\ k =< Len(Undelivered) /\ Len(Undelivered) \in Nat
      /\ SubSeq(Undelivered, 1, k) = rows
      /\ SubSeq(Undelivered, k + 1, Len(Undelivered)) = rest \o queue
  <2> DEFINE t == rest \o queue
  <2> HIDE DEF t
  <2>1. t \in Seq(1..MaxEvents) /\ Undelivered = rows \o t
    BY <1>2, <1>3, Zenon DEF t
  <2>2. /\ Len(rows) \in Nat /\ Len(t) \in Nat
        /\ Len(rows \o t) = Len(rows) + Len(t)
        /\ SubSeq(rows \o t, 1, Len(rows)) = rows
        /\ SubSeq(rows \o t, Len(rows) + 1, Len(rows \o t)) = t
    BY <1>1, <2>1, Parts
  <2>3. /\ k \in Nat /\ k =< Len(Undelivered) /\ Len(Undelivered) \in Nat
        /\ SubSeq(Undelivered, 1, k) = rows
        /\ SubSeq(Undelivered, k + 1, Len(Undelivered)) = t
    BY <2>1, <2>2
  <2> QED
    BY <2>3, Zenon DEF t
<1>5. stored' = stored \o rows /\ UNCHANGED late
  BY Zenon DEF Confirmed
<1>6. CASE k = 0
  <2>1. rows = <<>>
    BY <1>1, <1>6, EmptySeq, Zenon
  <2>2. stored' = stored
    <3>1. stored \in Seq(1..MaxEvents)
      BY Zenon DEF IInv, Typed, TypeOK
    <3> QED
      BY <1>5, <2>1, <3>1, ConcatEmptySeq, Zenon
  <2>3. Undelivered' = Undelivered
    <3>1. rows \o (rest \o queue) = rest \o queue
      BY <1>2, <2>1, ConcatEmptySeq, Zenon
    <3> QED
      BY <1>3, <3>1, Zenon
  <2> QED
    BY <1>5, <2>2, <2>3, NoDelivery, Zenon
<1>7. CASE k # 0
  <2>1. Delivery!First(k) = rows /\ Delivery!Without(k) = rest \o queue
    BY <1>4, Zenon DEF Delivery!First, Delivery!Without
  <2>2. Delivery!Store(k)
    BY <1>5, <2>1, Zenon DEF Delivery!Store
  <2>3. k \in 1..Len(Undelivered)
    BY <1>4, <1>7
  <2> QED
    BY <2>2, <2>3, Zenon DEF Delivery!Next
<1> QED
  BY <1>6, <1>7, Zenon

(* ... and one that fails gives up what is in hand, perhaps with the rows  *)
(* begun sent.                                                             *)
LEMMA HandGivenUp ==
  ASSUME IInv, NEW sent \in {<<>>, rows}, Unconfirmed(sent),
         Undelivered' = queue, send_failures' > send_failures, UNCHANGED made
  PROVE  Delivery!Next
<1>1. /\ Hand \in Seq(1..MaxEvents) /\ queue \in Seq(1..MaxEvents)
      /\ rows \in Seq(1..MaxEvents) /\ rest \in Seq(1..MaxEvents)
      /\ Undelivered = Hand \o queue
      /\ Len(Hand) \in Nat /\ Len(Hand) =< BatchMax
  BY MappedTypes, Zenon
<1> DEFINE k == Len(Hand)
<1>2. /\ k \in Nat /\ k =< Len(Undelivered) /\ Len(Undelivered) \in Nat
      /\ SubSeq(Undelivered, k + 1, Len(Undelivered)) = queue
  <2>1. /\ Len(Hand) \in Nat /\ Len(queue) \in Nat
        /\ Len(Hand \o queue) = Len(Hand) + Len(queue)
        /\ SubSeq(Hand \o queue, Len(Hand) + 1, Len(Hand \o queue)) = queue
    BY <1>1, Parts
  <2> QED
    BY <1>1, <2>1
<1>3. UNCHANGED stored
  BY Zenon DEF Unconfirmed
<1>4. k \in 0..Len(Undelivered)
  BY <1>2
<1>5. Delivery!Without(k) = queue
  BY <1>2, Zenon DEF Delivery!Without
<1>6. CASE sent = <<>>
  <2>1. late' = late
    BY <1>6, Zenon DEF Unconfirmed
  <2>2. Delivery!GiveUp(0, k)
    BY <1>1, <1>3, <1>5, <2>1, Zenon DEF Delivery!GiveUp
  <2>3. 0 \in 0..k
    BY <1>2
  <2> QED
    BY <1>4, <2>2, <2>3, Zenon DEF Delivery!Next
<1>7. CASE sent # <<>>
  <2>1. sent = rows /\ late' = late \cup {rows} /\ rows # <<>>
    BY <1>7, Zenon DEF Unconfirmed
  <2>2. Hand = rows \o rest
    BY <2>1, MappedTypes, Zenon
  <2>3. rest \o queue \in Seq(1..MaxEvents)
    BY <1>1, ConcatProperties, Zenon
  <2>4. Undelivered = rows \o (rest \o queue)
    BY <1>1, <2>2, ConcatAssociative
  <2>5. SubSeq(rows \o (rest \o queue), 1, Len(rows)) = rows
    BY <1>1, <2>3, Parts
  <2>6. Delivery!First(Len(rows)) = rows
    BY <2>4, <2>5, Zenon DEF Delivery!First
  <2>7. Len(rows) \in Nat \ {0} /\ Len(rows) \in 0..k
    <3>1. Len(rows) \in Nat \ {0} /\ Len(rest) \in Nat
      BY <1>1, <2>1, EmptySeq
    <3>2. k = Len(rows) + Len(rest)
      BY <1>1, <2>2, ConcatProperties, Zenon
    <3> QED
      BY <3>1, <3>2
  <2>8. Delivery!GiveUp(Len(rows), k)
    BY <1>1, <1>3, <1>5, <2>1, <2>6, <2>7, Zenon DEF Delivery!GiveUp
  <2> QED
    BY <1>4, <2>7, <2>8, Zenon DEF Delivery!Next
<1> QED
  BY <1>6, <1>7, Zenon

(* Between the batches nothing but the ring is undelivered.                *)
LEMMA NothingInHand ==
  ASSUME IInv, rows' = <<>>, rest' = <<>>, events' = <<>>, queue' = queue
  PROVE  Undelivered' = queue
<1>1. <<>> \o queue = queue /\ <<>> \o <<>> = <<>>
  BY EmptySeq, ConcatEmptySeq, Zenon DEF IInv, Typed, TypeOK
<1>2. InHand' = <<>>
  BY <1>1, Zenon DEF InHand
<1> QED
  BY <1>1, <1>2, Zenon DEF Undelivered

(* A row that is begun stays in hand.                                      *)
LEMMA RowStaysInHand ==
  ASSUME IInv, pc = "rows", ~GivenUp, rest # <<>>,
         rows' = Append(rows, Head(rest)), rest' = Tail(rest),
         UNCHANGED <<kind, pc, batch_failed_, queue>>
  PROVE  Undelivered' = Undelivered
<1>1. rows \in Seq(1..MaxEvents) /\ rest \in Seq(1..MaxEvents)
  BY MappedTypes, Zenon
<1>2. rows' \o rest' = rows \o rest
  BY <1>1, Moved
<1> QED
  BY <1>2, Zenon DEF Undelivered, InHand

(* What each step of the worker is to the delivery.                        *)
LEMMA StepStays ==
  ASSUME IInv,
         \/ Wake \/ Connect \/ Loop \/ NothingToExport \/ CommitFailedBatch
         \/ BeginRowSkips \/ ArrowDone
         \/ Dequeue \/ BeginBatch \/ ClickHouseRow
         \/ \E bytes \in RowBytes : AppendEvent(bytes)
  PROVE  UNCHANGED Delivery!deliveryVars
<1>1. /\ rows \in Seq(1..MaxEvents) /\ rest \in Seq(1..MaxEvents)
      /\ events \in Seq(1..MaxEvents) /\ queue \in Seq(1..MaxEvents)
      /\ <<>> \o queue = queue /\ <<>> \o events = events
      /\ <<>> \o <<>> = <<>>
  <2>1. /\ rows \in Seq(1..MaxEvents) /\ rest \in Seq(1..MaxEvents)
        /\ events \in Seq(1..MaxEvents) /\ queue \in Seq(1..MaxEvents)
    BY MappedTypes, Zenon
  <2> QED
    BY <2>1, EmptySeq, ConcatEmptySeq, Zenon
<1>2. UNCHANGED <<made, send_failures, late, stored>>
  <2>1. CASE ArrowDone
    BY <2>1, Zenon DEF ArrowDone, Success, ring, remote
  <2> QED
    BY <2>1, Zenon DEF Wake, Connect, Loop, NothingToExport, CommitFailedBatch,
      BeginRowSkips, Dequeue, BeginBatch, ClickHouseRow, AppendEvent,
      ring, counters, remote
<1>3. Undelivered' = Undelivered
  <2>1. CASE Wake \/ Connect \/ Loop
    BY <2>1, Zenon DEF Wake, Connect, Loop, ring, Undelivered, InHand
  <2>2. CASE NothingToExport \/ CommitFailedBatch \/ ArrowDone
    <3>1. Undelivered' = queue
      BY <2>2, NothingInHand, Zenon
      DEF NothingToExport, CommitFailedBatch, ArrowDone, Success, ReturnWith,
      ring
    <3>2. CASE NothingToExport
      BY <1>1, <3>1, <3>2, Zenon DEF NothingToExport, Undelivered, InHand
    <3>3. CASE CommitFailedBatch
      BY <3>1, <3>3, Zenon DEF CommitFailedBatch, Undelivered
    <3>4. CASE ArrowDone
      <4>1. kind = "arrow" /\ pc = "rows" /\ rest = <<>> /\ Len(rows) = 0
        BY <3>4, Zenon DEF ArrowDone, IInv, Filled
      <4>2. rows = <<>>
        BY <1>1, <4>1, EmptySeq, Zenon
      <4> QED
        BY <1>1, <3>1, <4>1, <4>2, Zenon DEF Undelivered, InHand
    <3> QED
      BY <2>2, <3>2, <3>3, <3>4, Zenon
  <2>3. CASE BeginRowSkips
    BY <2>3, Zenon DEF BeginRowSkips, ring, building, Undelivered
  <2>4. CASE Dequeue
    <3>1. /\ pc = "dequeue" /\ pc' = "dequeue" /\ queue # <<>>
          /\ events' = Append(events, Head(queue)) /\ queue' = Tail(queue)
      BY <2>4, Zenon DEF Dequeue
    <3>2. events' \o queue' = events \o queue
      BY <1>1, <3>1, Moved
    <3> QED
      BY <3>1, <3>2, Zenon DEF Undelivered, InHand
  <2>5. CASE BeginBatch
    <3>1. /\ pc = "dequeue" /\ pc' = "rows" /\ rest' = events
          /\ rows' = rows /\ rows = <<>> /\ queue' = queue /\ kind' = kind
          /\ ~(kind = "otel" /\ batch_failed_')
      BY <2>5, Zenon DEF BeginBatch, ring, IInv, Places
    <3> QED
      BY <1>1, <3>1, Zenon DEF Undelivered, InHand
  <2>6. CASE ClickHouseRow
    BY <2>6, RowStaysInHand, Zenon DEF ClickHouseRow, GivenUp, ring
  <2>7. CASE \E bytes \in RowBytes : AppendEvent(bytes)
    BY <2>7, RowStaysInHand, Zenon DEF AppendEvent, GivenUp, ring
  <2> QED
    BY <2>1, <2>2, <2>3, <2>4, <2>5, <2>6, <2>7, Zenon
<1> QED
  BY <1>2, <1>3, NoDelivery, Zenon

(* Producing an event is Accept.                                           *)
LEMMA ProduceDelivers ==
  ASSUME IInv, Produce PROVE Delivery!Accept
<1>1. /\ made' = made + 1 /\ queue' = Append(queue, made + 1)
      /\ UNCHANGED <<kind, pc, batch_failed_, events, rows, rest, send_failures,
                     late, stored>>
  BY Zenon DEF Produce, building, counters, remote
<1>2. /\ Hand \in Seq(1..MaxEvents) /\ queue \in Seq(1..MaxEvents)
      /\ Undelivered = Hand \o queue
  BY MappedTypes, Zenon
<1>3. made + 1 \in 1..MaxEvents
  BY ConstantTypes DEF Produce, IInv, Typed, TypeOK
<1>4. Undelivered' = Hand \o queue'
  <2>1. /\ queue' \in Seq(1..MaxEvents)
    BY <1>1, <1>2, <1>3, AppendProperties, Zenon
  <2>2. <<>> \o queue' = queue'
    BY <2>1, ConcatEmptySeq, Zenon
  <2> QED
    BY <1>1, <2>2, Zenon DEF Undelivered, Hand, InHand, GivenUp
<1>5. Hand \o queue' = Append(Undelivered, made + 1)
  <2> DEFINE e == made + 1
  <2>1. e \in 1..MaxEvents /\ queue' = Append(queue, e)
    BY <1>1, <1>3, Zenon
  <2> HIDE DEF e
  <2>2. <<e>> \in Seq(1..MaxEvents)
    BY <2>1
  <2>3. Append(queue, e) = queue \o <<e>>
    BY <1>2, <2>1, AppendIsConcat, Zenon
  <2>4. Hand \o queue \in Seq(1..MaxEvents)
    BY <1>2, ConcatProperties, Zenon
  <2>5. Append(Hand \o queue, e) = (Hand \o queue) \o <<e>>
    BY <2>1, <2>4, AppendIsConcat, Zenon
  <2>6. (Hand \o queue) \o <<e>> = Hand \o (queue \o <<e>>)
    BY <1>2, <2>2, ConcatAssociative
  <2>7. Hand \o queue' = Append(Undelivered, e)
    BY <1>2, <2>1, <2>3, <2>5, <2>6, Zenon
  <2> QED
    BY <2>7, Zenon DEF e
<1> QED
  BY <1>1, <1>4, <1>5, Zenon DEF Delivery!Accept

(* A failed send is GiveUp, or nothing.                                    *)
LEMMA FailureDelivers ==
  ASSUME IInv,
         \/ ConnectFails \/ DequeueThrows \/ BuildThrows
         \/ CommitInsertFails \/ CommitUnsent
         \/ BeginRowFails \/ BeginRowThrows \/ CommitChunkFails
         \/ \E k \in Columns : AppendEventFails(k)
         \/ \E k \in 0..NColumns : FinishFails(k)
         \/ FlushBuilderFails
  PROVE  Delivery!Next
<1>1. UNCHANGED <<queue, made>>
  BY Zenon DEF ConnectFails, DequeueThrows, BuildThrows, CommitInsertFails,
         CommitUnsent, BeginRowFails, BeginRowThrows, CommitChunkFails,
         AppendEventFails, FinishFails, FlushBuilderFails, SendFailed, ring
<1>2. \E sent \in {<<>>, rows} : Unconfirmed(sent)
  <2>1. CASE \/ ConnectFails \/ DequeueThrows \/ BuildThrows
             \/ \E k \in Columns : AppendEventFails(k)
             \/ \E k \in 0..NColumns : FinishFails(k)
    <3>1. UNCHANGED <<late, acked, stored>>
      BY <2>1, Zenon
         DEF ConnectFails, DequeueThrows, BuildThrows, AppendEventFails,
                  FinishFails, remote
    <3> QED
      BY <3>1, Zenon DEF Unconfirmed
  <2>2. CASE \/ CommitInsertFails \/ CommitUnsent \/ BeginRowFails
             \/ BeginRowThrows \/ CommitChunkFails \/ FlushBuilderFails
    BY <2>2, Zenon DEF CommitInsertFails, CommitUnsent, BeginRowFails,
                BeginRowThrows, CommitChunkFails, FlushBuilderFails, SendFailed
  <2> QED
    BY <2>1, <2>2, Zenon
<1>3. \E what : \E m \in {1, 2} : Failed(what, m)
  BY Zenon DEF ConnectFails, DequeueThrows, BuildThrows, CommitInsertFails,
         CommitUnsent, BeginRowFails, BeginRowThrows, CommitChunkFails,
         AppendEventFails, FinishFails, FlushBuilderFails, SendFailed
<1>4. send_failures' > send_failures
  <2>1. send_failures \in Nat
    BY Sizes, Zenon DEF IInv
  <2> QED
    BY <1>3, <2>1 DEF Failed
<1>5. Undelivered' = queue
  <2>1. CASE BeginRowFails
    BY <1>1, <2>1, Zenon DEF BeginRowFails, SendFailed, ring, Undelivered
  <2>2. CASE ~BeginRowFails
    <3>1. \E n : ReturnWith(n)
      BY <2>2, Zenon
         DEF ConnectFails, DequeueThrows, BuildThrows, CommitInsertFails,
                  CommitUnsent, BeginRowThrows, CommitChunkFails,
                  AppendEventFails, FinishFails, FlushBuilderFails
    <3>2. rows' = <<>> /\ rest' = <<>> /\ events' = <<>>
      BY <3>1, Zenon DEF ReturnWith
    <3> QED
      BY <1>1, <3>2, NothingInHand, Zenon
  <2> QED
    BY <2>1, <2>2, Zenon
<1> QED
  BY <1>1, <1>2, <1>4, <1>5, HandGivenUp, Zenon

(* The start of a row is Store when it sends the full request before it.   *)
LEMMA BeginRowDelivers ==
  ASSUME IInv, NEW bytes \in RowBytes, BeginRow(bytes)
  PROVE  [Delivery!Next]_(Delivery!deliveryVars)
<1>1. /\ kind = "otel" /\ pc = "rows" /\ rest # <<>> /\ ~GivenUp
      /\ ~batch_failed_ /\ rest' = Tail(rest)
      /\ UNCHANGED <<kind, queue, made, pc, batch_failed_, send_failures>>
  BY Zenon DEF BeginRow, GivenUp, ring, counters
<1>2. CASE ChunkFull(chunk)
  <2>1. Confirmed /\ rows' = <<Head(rest)>>
    BY <1>2, Zenon DEF BeginRow
  <2>2. rows' \o rest' = rest
    <3>1. rest \in Seq(1..MaxEvents) /\ <<>> \in Seq(1..MaxEvents)
      BY MappedTypes, EmptySeq, Zenon
    <3>2. Append(<<>>, Head(rest)) \o Tail(rest) = <<>> \o rest
      BY <1>1, <3>1, Moved
    <3>3. Append(<<>>, Head(rest)) = <<Head(rest)>> /\ <<>> \o rest = rest
      BY <3>1, ConcatEmptySeq
    <3> QED
      BY <1>1, <2>1, <3>2, <3>3, Zenon
  <2>3. Undelivered' = rest \o queue
    BY <1>1, <2>2, Zenon DEF Undelivered, InHand
  <2> QED
    BY <1>1, <2>1, <2>3, RowsStored, Zenon
<1>3. CASE ~ChunkFull(chunk)
  <2>1. rows' = Append(rows, Head(rest)) /\ UNCHANGED <<stored, late>>
    BY <1>3, Zenon DEF BeginRow, remote
  <2>2. Undelivered' = Undelivered
    BY <1>1, <2>1, RowStaysInHand, Zenon
  <2> QED
    BY <1>1, <2>1, <2>2, NoDelivery, Zenon
<1> QED
  BY <1>2, <1>3, Zenon

(* An acknowledged send is Store.                                          *)
LEMMA CommitDelivers ==
  ASSUME IInv, CommitInsert \/ CommitChunk \/ FlushBuilder
  PROVE  [Delivery!Next]_(Delivery!deliveryVars)
<1>1. /\ pc = "rows" /\ ~GivenUp /\ Confirmed
      /\ UNCHANGED <<kind, queue, made, send_failures>>
  BY Zenon
     DEF CommitInsert, CommitChunk, FlushBuilder, FlushDue, GivenUp, Success,
         ring, counters
<1>2. Undelivered' = rest \o queue
  <2>1. CASE \E n : Success(n) /\ rest = <<>>
    <3>1. Undelivered' = queue /\ rest = <<>>
      BY <1>1, <2>1, NothingInHand, Zenon DEF Success, ReturnWith
    <3>2. <<>> \o queue = queue
      BY MappedTypes, ConcatEmptySeq, Zenon
    <3> QED
      BY <3>1, <3>2, Zenon
  <2>2. CASE FlushBuilder /\ BlockFull
    <3>1. kind = "arrow" /\ pc' = "rows" /\ rows' = <<>> /\ rest' = rest
      BY <2>2, Zenon DEF FlushBuilder, FlushDue
    <3>2. <<>> \o rest = rest
      BY MappedTypes, ConcatEmptySeq, Zenon
    <3> QED
      BY <1>1, <3>1, <3>2, Zenon DEF Undelivered, InHand
  <2> QED
    BY <2>1, <2>2, Zenon DEF CommitInsert, CommitChunk, FlushBuilder, FlushDue
<1> QED
  BY <1>1, <1>2, RowsStored, Zenon

(* A late arrival is Arrive.                                               *)
LEMMA ArriveDelivers ==
  ASSUME IInv, NEW r \in late, Arrive(r) PROVE Delivery!Next
<1>1. /\ late' = late \ {r} /\ stored' = stored \o r
      /\ UNCHANGED <<kind, queue, made, pc, batch_failed_, events, rows, rest,
                     send_failures>>
  BY Zenon DEF Arrive, ring, building, counters
<1>2. Undelivered' = Undelivered
  BY <1>1, Zenon DEF Undelivered, InHand
<1>3. Delivery!Arrive(r)
  BY <1>1, <1>2, Zenon DEF Delivery!Arrive
<1> QED
  BY <1>3, Zenon DEF Delivery!Next

(* Every step is a step of the delivery, or none.                          *)
LEMMA StepDelivers ==
  ASSUME IInv, [Next]_vars
  PROVE  [Delivery!Next]_(Delivery!deliveryVars)
<1>1. CASE UNCHANGED vars
  <2>1. UNCHANGED <<kind, queue, made, pc, batch_failed_, events, rows, rest,
                    send_failures, late, stored>>
    BY <1>1, Zenon DEF vars, ring, building, counters, remote
  <2>2. Undelivered' = Undelivered
    BY <2>1, Zenon DEF Undelivered, InHand
  <2> QED
    BY <2>1, <2>2, NoDelivery, Zenon
<1>2. CASE Produce
  BY <1>2, ProduceDelivers, Zenon DEF Delivery!Next
<1>3. CASE \/ Wake \/ Connect \/ Loop \/ NothingToExport \/ CommitFailedBatch
           \/ BeginRowSkips \/ ArrowDone \/ Dequeue \/ BeginBatch
           \/ ClickHouseRow \/ \E bytes \in RowBytes : AppendEvent(bytes)
  BY <1>3, StepStays, Zenon
<1>4. CASE \/ ConnectFails \/ DequeueThrows \/ BuildThrows
           \/ CommitInsertFails \/ CommitUnsent
           \/ BeginRowFails \/ BeginRowThrows \/ CommitChunkFails
           \/ \E k \in Columns : AppendEventFails(k)
           \/ \E k \in 0..NColumns : FinishFails(k)
           \/ FlushBuilderFails
  BY <1>4, FailureDelivers, Zenon
<1>5. CASE \E bytes \in RowBytes : BeginRow(bytes)
  BY <1>5, BeginRowDelivers, Zenon
<1>6. CASE CommitInsert \/ CommitChunk \/ FlushBuilder
  BY <1>6, CommitDelivers, Zenon
<1>7. CASE \E r \in late : Arrive(r)
  BY <1>7, ArriveDelivers, Zenon
<1> QED
  BY <1>1, <1>2, <1>3, <1>4, <1>5, <1>6, <1>7, Zenon DEF Next

(* Every step of the export, whichever the exporter, is a step of an       *)
(* at-most-once delivery in order, or none.                                *)
THEOREM ExportDelivers == Spec => ImplementsDelivery
<1>1. Init => Delivery!Init
  <2> SUFFICES ASSUME Init PROVE Delivery!Init
    BY Zenon
  <2>1. /\ queue = <<>> /\ events = <<>> /\ made = 0 /\ pc = "sleep"
        /\ late = {} /\ stored = <<>> /\ send_failures = 0
    BY Zenon DEF Init
  <2>2. <<>> \o <<>> = <<>> /\ <<>> \in Seq(Nat)
    BY EmptySeq, ConcatEmptySeq, Zenon
  <2>3. Undelivered = <<>>
    BY <2>1, <2>2, Zenon DEF Undelivered, InHand
  <2>4. Len(Undelivered) = 0 /\ <<>> = [i \in 1..0 |-> i]
    BY <2>3
  <2> QED
    BY <2>1, <2>2, <2>3, <2>4, Zenon DEF Delivery!Init
<1>2. IInv /\ [Next]_vars => [Delivery!Next]_(Delivery!deliveryVars)
  BY StepDelivers, Zenon
<1> QED
  BY <1>1, <1>2, ExportInvariance, PTL
  DEF Spec, ImplementsDelivery, Delivery!Spec

(* The facts proved of every delivery.                                     *)
DeliveryFacts ==
  INSTANCE EventDeliveryProofs WITH
    accepted <- made,
    pending  <- Undelivered,
    underway <- late,
    failures <- send_failures

(* No event is stored twice, and none that is stored or on its way will be *)
(* sent again: a failed insert, chunk or block is never retried.           *)
THEOREM ExportedOnce == Spec => []Delivery!AtMostOnce
<1>1. Delivery!Init => DeliveryFacts!Init
  BY Zenon DEF Delivery!Init, DeliveryFacts!Init
<1>2. [Delivery!Next]_(Delivery!deliveryVars)
        => [DeliveryFacts!Next]_(DeliveryFacts!deliveryVars)
  BY Zenon DEF Delivery!deliveryVars, DeliveryFacts!deliveryVars,
         Delivery!Next, DeliveryFacts!Next,
         Delivery!Accept, DeliveryFacts!Accept,
         Delivery!Store, DeliveryFacts!Store,
         Delivery!GiveUp, DeliveryFacts!GiveUp,
         Delivery!Arrive, DeliveryFacts!Arrive,
         Delivery!First, DeliveryFacts!First,
         Delivery!Without, DeliveryFacts!Without
<1>3. DeliveryFacts!Spec => []DeliveryFacts!AtMostOnce
  BY DeliveryFacts!DeliveredAtMostOnce, Zenon
<1>4. DeliveryFacts!AtMostOnce => Delivery!AtMostOnce
  BY Zenon DEF DeliveryFacts!AtMostOnce, Delivery!AtMostOnce,
         DeliveryFacts!Distinct, Delivery!Distinct
<1> QED
  BY <1>1, <1>2, <1>3, <1>4, ExportDelivers, PTL
  DEF ImplementsDelivery, Delivery!Spec, DeliveryFacts!Spec

=============================================================================
