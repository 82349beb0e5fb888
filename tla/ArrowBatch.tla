----------------------------- MODULE ArrowBatch -----------------------------
(***************************************************************************)
(* ArrowBatchBuilder (src/src/export/arrow_batch.cc): a builder for every  *)
(* column of the block, filled and emptied one after the other, so that a  *)
(* failure in the middle leaves some columns a row ahead of the others.    *)
(* A row is an event; a column holds the events whose values it has.       *)
(***************************************************************************)
EXTENDS Integers, Sequences, FiniteSets, Functions

CONSTANTS
  NColumns,           \* 56 in the code
  Dictionaries,       \* those built by a StringDictionary32Builder
  kIpcEnvelopeBytes,  \* 1024
  kFixedBytesPerRow   \* 512

ASSUME ArrowAssumption ==
  /\ NColumns \in Nat \ {0}
  /\ Dictionaries \subseteq 1..NColumns
  /\ {kIpcEnvelopeBytes, kFixedBytesPerRow} \subseteq Nat

Columns == 1..NColumns

(* Variant: Reset where ResetFull is needed.                               *)
ResetBuilderKeepsDictionaries(b) ==
  [b EXCEPT !.columns = [i \in Columns |-> <<>>],
            !.num_rows = 0, !.estimated_bytes = kIpcEnvelopeBytes]

(* Reset: a dictionary builder has, besides its rows, a memo of the values *)
(* it has seen, which only ResetFull clears.                               *)
ResetBuilder(b) ==
  [b EXCEPT !.columns = [i \in Columns |-> <<>>],
            !.memo = [i \in Dictionaries |-> {}],
            !.num_rows = 0, !.estimated_bytes = kIpcEnvelopeBytes]

(* The constructor and Init.                                               *)
NewBuilder ==
  ResetBuilder([columns |-> [i \in Columns |-> <<>>],
                memo |-> [i \in Dictionaries |-> {}],
                num_rows |-> 0, estimated_bytes |-> 0])

(* The first k columns have a row more.                                    *)
Appended(columns, event, k) ==
  [i \in Columns |-> IF i =< k THEN Append(columns[i], event) ELSE columns[i]]

(* Append, the first k columns of it; the row counts only with the last.   *)
AppendColumns(b, event, k) ==
  [b EXCEPT
     !.columns = Appended(@, event, k),
     !.memo = [i \in Dictionaries |->
                    IF i =< k THEN @[i] \union {event} ELSE @[i]]]

AppendRow(b, event, bytes) ==
  [AppendColumns(b, event, NColumns) EXCEPT
     !.estimated_bytes = @ + kFixedBytesPerRow + bytes,
     !.num_rows = @ + 1]

(* Finish, the first k columns of it: the builder of a finished array      *)
(* starts over, but keeps its memo.                                        *)
FinishColumns(b, k) ==
  [b EXCEPT !.columns = [i \in Columns |-> IF i =< k THEN <<>> ELSE @[i]]]
=============================================================================
