----------------------------- MODULE OTelChunk ------------------------------
(***************************************************************************)
(* The request under construction in the OTel exporter                     *)
(* (src/src/export/otel_exporter.cc): a protobuf message in an arena of    *)
(* its own.  Sending moves the message and the arena away, so that every   *)
(* pointer into them is dead until ResetChunk makes new ones.              *)
(***************************************************************************)
EXTENDS Integers

CONSTANTS
  psch_otel_log_max_bytes,
  psch_otel_log_batch_size,
  kMinBytesPerRecord,      \* 1200 in the code
  kRequestOverheadBytes,   \* 512
  kLogRecordOverheadBytes  \* 128

ASSUME OTelAssumption ==
  /\ {psch_otel_log_max_bytes, kRequestOverheadBytes,
      kLogRecordOverheadBytes} \subseteq Nat
  /\ {psch_otel_log_batch_size, kMinBytesPerRecord} \subseteq Nat \ {0}
  /\ kRequestOverheadBytes < kMinBytesPerRecord

Least(a, b) == IF a < b THEN a ELSE b
Greatest(a, b) == IF a < b THEN b ELSE a

(* ConfigureLogExport                                                      *)
max_chunk_bytes == Greatest(kMinBytesPerRecord, psch_otel_log_max_bytes)

max_chunk_records ==
  Greatest(1, Least(psch_otel_log_batch_size,
                    max_chunk_bytes \div kMinBytesPerRecord))

(* request is what request_, scope_logs_ and current_record_ point to:     *)
(* nothing, the message in the live arena, or one that has been moved away.*)
Chunk == [request : {"null", "live", "moved"}, in_row : BOOLEAN,
          chunk_count : Nat, chunk_bytes : Nat]

(* The exporter as it is constructed.                                      *)
NoChunk == [request |-> "null", in_row |-> FALSE, chunk_count |-> 0,
            chunk_bytes |-> 0]

ResetChunk == [request |-> "live", in_row |-> FALSE, chunk_count |-> 0,
               chunk_bytes |-> kRequestOverheadBytes]

ChunkFull(c) ==
  \/ c.chunk_count >= max_chunk_records
  \/ c.chunk_bytes >= max_chunk_bytes

(* add_log_records, and the columns of the row: attributes of so many bytes*)
AddLogRecord(c, bytes) ==
  [c EXCEPT !.in_row = TRUE, !.chunk_count = @ + 1,
            !.chunk_bytes = @ + kLogRecordOverheadBytes + bytes]

(* FlushChunk has sent the chunk, and then: the status is OK; it is not;   *)
(* or there is none, an exception having left everything as it was.        *)
Sent(c) == [c EXCEPT !.request = "null", !.in_row = FALSE, !.chunk_count = 0,
                     !.chunk_bytes = 0]
Refused(c) == [c EXCEPT !.request = "null", !.in_row = FALSE]
Thrown(c) == [c EXCEPT !.request = "moved"]
=============================================================================
