-------------------------- MODULE ClickHouseInsert --------------------------
(***************************************************************************)
(* The ClickHouse exporter's connection, the block it builds and its       *)
(* INSERT dialogue (src/src/export/clickhouse_exporter.cc): query, header, *)
(* rows, empty block, end of stream.  The server, the network and the      *)
(* clickhouse-c library are external.                                      *)
(*                                                                         *)
(* A batch is its number: batches are committed once each, in order.       *)
(***************************************************************************)
EXTENDS Integers, Sequences, FiniteSets

CONSTANTS
  MaxBatches,       \* bound on the batches committed
  MaxConnects,      \* bound on the connections attempted
  NColumns,         \* the columns of the block, each of a type of its own
  kMaxRecvPackets,  \* packets RecvUntil looks at before it gives up
  Tls               \* psch_clickhouse_use_tls

ASSUME InsertAssumption ==
  /\ {MaxBatches, MaxConnects, NColumns, kMaxRecvPackets} \subseteq Nat \ {0}
  /\ Tls \in BOOLEAN

VARIABLES
  pc,          \* where the worker is
  client_,     \* is there a client?
  fd_, ssl_, ssl_ctx_,  \* open sockets, TLS sessions, TLS contexts (numbers)
  contexts,    \* MemoryContextsReady()
  conn_cxt_,   \* the types allocated in the connection's memory context
  types_,      \* the types ResolveType remembers
  col,         \* columns crunched so far
  build_err_,  \* has one of them failed?
  batch,       \* the batch being committed; the number of batches so far
  seen,        \* packets RecvUntil has looked at
  connects,
  toServer, toClient,   \* packets on the way, on the open connection
  srv,         \* the server's end of it: "idle", "rows", "end"
  rows,        \* the batch whose rows it has received, or 0
  late,        \* complete inserts on connections that are closed
  stored,      \* the batches stored, in order (with repetitions)
  acked        \* the batches CommitBatch reported as exported

link == <<toServer, toClient, srv, rows>>
handles == <<client_, fd_, ssl_, ssl_ctx_>>
memory == <<contexts, conn_cxt_, types_>>
block == <<col, build_err_>>
vars == <<pc, handles, memory, block, batch, seen, connects, link, late, stored,
          acked>>

Init ==
  /\ pc = "idle"
  /\ client_ = FALSE /\ fd_ = 0 /\ ssl_ = 0 /\ ssl_ctx_ = 0
  /\ contexts = FALSE /\ conn_cxt_ = {} /\ types_ = {}
  /\ col = 0 /\ build_err_ = FALSE
  /\ batch = 0 /\ seen = 0 /\ connects = 0
  /\ toServer = <<>> /\ toClient = <<>> /\ srv = "idle" /\ rows = 0
  /\ late = {} /\ stored = <<>> /\ acked = {}

-----------------------------------------------------------------------------
(* The connection.                                                         *)

(* Insert(b) has been sent to its end on the link and not been decided.    *)
Undecided ==
  {b \in 1..MaxBatches :
     /\ \E i \in 1..Len(toServer) : toServer[i] = <<"end", b>>
     /\ \/ rows = b
        \/ \E i \in 1..Len(toServer) : toServer[i] = <<"rows", b>>}

(* Variant: the types are not forgotten.                                   *)
ResetConnectionContextKeepsTypes ==
  /\ conn_cxt_' = {}
  /\ UNCHANGED types_

(* ClearTypes, and MemoryContextReset frees whatever else there is.        *)
ResetConnectionContext ==
  /\ types_' = {}
  /\ conn_cxt_' = {}

(* CloseConnection frees what there is; the server may go on with what it  *)
(* has been sent.                                                          *)
CloseConnection ==
  /\ client_' = FALSE /\ fd_' = 0 /\ ssl_' = 0 /\ ssl_ctx_' = 0
  /\ ResetConnectionContext
  /\ UNCHANGED contexts
  /\ toServer' = <<>> /\ toClient' = <<>> /\ srv' = "idle" /\ rows' = 0
  /\ late' = late \cup Undecided

(* EnsureMemoryContexts fails: neither context is kept.                    *)
EstablishOom ==
  /\ pc = "idle"
  /\ ~contexts
  /\ connects < MaxConnects
  /\ connects' = connects + 1
  /\ UNCHANGED <<pc, handles, memory, block, batch, seen, link, late, stored,
                 acked>>

(* EstablishNewConnection: EnsureMemoryContexts, CloseConnection, then     *)
(* TcpConnect, which leaves a socket or none.                              *)
Establish ==
  /\ pc = "idle"
  /\ ~client_
  /\ connects < MaxConnects
  /\ connects' = connects + 1
  /\ contexts' = TRUE
  /\ ResetConnectionContext
  /\ client_' = FALSE /\ ssl_' = 0 /\ ssl_ctx_' = 0
  /\ \/ fd_' = 1 /\ pc' = IF Tls THEN "context" ELSE "hello"
     \/ fd_' = 0 /\ pc' = "idle"
  /\ UNCHANGED <<block, batch, seen, link, late, stored, acked>>

(* TlsConnect: the context, then the session and its handshake.            *)
TlsContext ==
  /\ pc = "context"
  /\ ssl_ctx_' = ssl_ctx_ + 1
  /\ pc' = "session"
  /\ UNCHANGED <<client_, fd_, ssl_, memory, block, batch, seen, connects,
                 link, late, stored, acked>>

TlsSession ==
  /\ pc = "session"
  /\ ssl_' = ssl_ + 1
  /\ pc' = "hello"
  /\ UNCHANGED <<client_, fd_, ssl_ctx_, memory, block, batch, seen, connects,
                 link, late, stored, acked>>

(* TlsConnect fails at any of its calls, or chc_client_init does: close.   *)
EstablishFails ==
  /\ pc \in {"context", "session", "hello"}
  /\ CloseConnection
  /\ pc' = "idle"
  /\ UNCHANGED <<block, batch, seen, connects, stored, acked>>

(* chc_client_init                                                         *)
Hello ==
  /\ pc = "hello"
  /\ client_' = TRUE
  /\ pc' = "idle"
  /\ UNCHANGED <<fd_, ssl_, ssl_ctx_, memory, block, batch, seen, connects,
                 link, late, stored, acked>>

-----------------------------------------------------------------------------
(* CommitBatch builds the block, column after column.                      *)

CommitBatch ==
  /\ pc = "idle"
  /\ client_
  /\ batch < MaxBatches
  /\ batch' = batch + 1
  /\ col' = 0
  /\ build_err_' = FALSE
  /\ pc' = "crunch"
  /\ UNCHANGED <<handles, memory, seen, connects, link, late, stored, acked>>

(* chc_block_builder_init fails.                                           *)
BuilderInitFails ==
  /\ pc = "idle"
  /\ client_
  /\ batch < MaxBatches
  /\ batch' = batch + 1
  /\ UNCHANGED <<pc, handles, memory, block, seen, connects, link, late,
                 stored, acked>>

(* ResolveType remembers the type it has parsed, or fails.                 *)
ResolveType(t) ==
  \/ /\ t \in types_
     /\ UNCHANGED <<memory, build_err_>>
  \/ /\ t \notin types_
     /\ conn_cxt_' = conn_cxt_ \cup {t}
     /\ types_' = types_ \cup {t}
     /\ UNCHANGED <<contexts, build_err_>>
  \/ /\ t \notin types_
     /\ build_err_' = TRUE
     /\ UNCHANGED memory

(* Crunch: AppendFixed and AppendString do nothing once one has failed.    *)
Crunch ==
  /\ pc = "crunch"
  /\ col < NColumns
  /\ col' = col + 1
  /\ IF build_err_ THEN UNCHANGED <<memory, build_err_>>
                   ELSE ResolveType(col + 1)
  /\ UNCHANGED <<pc, handles, batch, seen, connects, link, late, stored,
                 acked>>

(* A chc_block_builder_append fails with the type resolved.                *)
CrunchFails ==
  /\ pc = "crunch"
  /\ col < NColumns
  /\ ~build_err_
  /\ conn_cxt_' = conn_cxt_ \cup {col + 1}
  /\ types_' = types_ \cup {col + 1}
  /\ col' = col + 1
  /\ build_err_' = TRUE
  /\ UNCHANGED <<pc, handles, contexts, batch, seen, connects, link, late,
                 stored, acked>>

(* The block is not complete: reported, and nothing is closed ...          *)
BuildFails ==
  /\ pc = "crunch"
  /\ col = NColumns
  /\ build_err_
  /\ pc' = "idle"
  /\ UNCHANGED <<handles, memory, block, batch, seen, connects, link, late,
                 stored, acked>>

(* ... but an exception, of the map of types say, is reported by the catch *)
(* of CommitBatch, which closes.                                           *)
BuildThrows ==
  /\ pc = "crunch"
  /\ CloseConnection
  /\ pc' = "idle"
  /\ UNCHANGED <<block, batch, seen, connects, stored, acked>>

-----------------------------------------------------------------------------
(* SendInsert.                                                             *)

(* chc_client_send_query                                                   *)
SendQuery ==
  /\ pc = "crunch"
  /\ col = NColumns
  /\ ~build_err_
  /\ seen' = 0
  /\ toServer' = Append(toServer, <<"query", batch>>)
  /\ pc' = "header"
  /\ UNCHANGED <<handles, memory, block, batch, connects, toClient, srv, rows,
                 late, stored, acked>>

(* RecvUntil: a packet that is neither the one awaited nor an exception.   *)
Awaited == IF pc = "header" THEN "header" ELSE "eos"

RecvOther ==
  /\ pc \in {"header", "ack"}
  /\ toClient # <<>>
  /\ Head(toClient) \notin {Awaited, "exception"}
  /\ seen + 1 < kMaxRecvPackets
  /\ seen' = seen + 1
  /\ toClient' = Tail(toClient)
  /\ UNCHANGED <<pc, handles, memory, block, batch, connects, toServer, srv,
                 rows, late, stored, acked>>

(* RecvUntil(CHC_PKT_DATA)                                                 *)
RecvHeader ==
  /\ pc = "header"
  /\ toClient # <<>>
  /\ Head(toClient) = "header"
  /\ toClient' = Tail(toClient)
  /\ pc' = "rows"
  /\ UNCHANGED <<handles, memory, block, batch, seen, connects, toServer, srv,
                 rows, late, stored, acked>>

(* chc_client_send_data, twice: the rows, then the empty block.            *)
SendRows ==
  /\ pc = "rows"
  /\ toServer' = Append(toServer, <<"rows", batch>>)
  /\ pc' = "end"
  /\ UNCHANGED <<handles, memory, block, batch, seen, connects, toClient, srv,
                 rows, late, stored, acked>>

SendEnd ==
  /\ pc = "end"
  /\ toServer' = Append(toServer, <<"end", batch>>)
  /\ seen' = 0
  /\ pc' = "ack"
  /\ UNCHANGED <<handles, memory, block, batch, connects, toClient, srv, rows,
                 late, stored, acked>>

(* RecvUntil(CHC_PKT_END_OF_STREAM), and CommitBatch returns true.         *)
RecvEos ==
  /\ pc = "ack"
  /\ toClient # <<>>
  /\ Head(toClient) = "eos"
  /\ toClient' = Tail(toClient)
  /\ acked' = acked \cup {batch}
  /\ pc' = "idle"
  /\ UNCHANGED <<handles, memory, block, batch, seen, connects, toServer, srv,
                 rows, late, stored>>

(* Variants: the connection is kept; the batch is tried again.             *)
RecordFailureKeepsConnection ==
  /\ pc \in {"header", "rows", "end", "ack"}
  /\ pc' = "idle"
  /\ UNCHANGED <<handles, memory, block, batch, seen, connects, link, late,
                 stored, acked>>

RecordFailureRetries ==
  /\ pc \in {"header", "rows", "end", "ack"}
  /\ CloseConnection
  /\ batch' = batch - 1
  /\ pc' = "idle"
  /\ UNCHANGED <<block, seen, connects, stored, acked>>

(* RecordFailure: a send or a receive fails at any point of the dialogue   *)
(* (an exception, a deadline, a lost connection, too many packets, a       *)
(* SIGTERM that PschChcCheckCancel notices).                               *)
RecordFailure ==
  /\ pc \in {"header", "rows", "end", "ack"}
  /\ CloseConnection
  /\ pc' = "idle"
  /\ UNCHANGED <<block, batch, seen, connects, stored, acked>>

-----------------------------------------------------------------------------
(* The server.  A reply may be preceded by progress, log or profile        *)
(* packets; an exception ends the insert.                                  *)

Replies(last) ==
  {<<last>>, <<"other", last>>, <<"other", "other", last>>, <<"exception">>}

ServerQuery ==
  /\ srv = "idle"
  /\ toServer # <<>>
  /\ toServer' = Tail(toServer)
  /\ \E r \in Replies("header") :
       /\ toClient' = toClient \o r
       /\ srv' = IF Head(toServer)[1] = "query" /\ r # <<"exception">>
                   THEN "rows" ELSE "idle"
  /\ UNCHANGED <<pc, handles, memory, block, batch, seen, connects, rows, late,
                 stored, acked>>

ServerRows ==
  /\ srv = "rows"
  /\ toServer # <<>>
  /\ toServer' = Tail(toServer)
  /\ rows' = Head(toServer)[2]
  /\ srv' = "end"
  /\ UNCHANGED <<pc, handles, memory, block, batch, seen, connects, toClient,
                 late, stored, acked>>

ServerEnd ==
  /\ srv = "end"
  /\ toServer # <<>>
  /\ toServer' = Tail(toServer)
  /\ \E r \in Replies("eos") :
       /\ toClient' = toClient \o r
       /\ stored' = IF r = <<"exception">> THEN stored ELSE Append(stored, rows)
  /\ srv' = "idle"
  /\ rows' = 0
  /\ UNCHANGED <<pc, handles, memory, block, batch, seen, connects, late,
                 acked>>

(* It decides an insert whose connection is gone.                          *)
ServerLate ==
  /\ \E b \in late :
       /\ late' = late \ {b}
       /\ stored' \in {stored, Append(stored, b)}
  /\ UNCHANGED <<pc, handles, memory, block, batch, seen, connects, link,
                 acked>>

-----------------------------------------------------------------------------
Next ==
  \/ Establish \/ EstablishOom \/ TlsContext \/ TlsSession \/ EstablishFails
  \/ Hello
  \/ CommitBatch \/ BuilderInitFails \/ Crunch \/ CrunchFails \/ BuildFails
  \/ BuildThrows
  \/ SendQuery \/ RecvOther \/ RecvHeader \/ SendRows \/ SendEnd \/ RecvEos
  \/ RecordFailure
  \/ ServerQuery \/ ServerRows \/ ServerEnd \/ ServerLate

Spec == Init /\ [][Next]_vars

-----------------------------------------------------------------------------
(* Properties.                                                             *)

WorkerType ==
  /\ pc \in {"idle", "context", "session", "hello", "crunch", "header", "rows",
             "end", "ack"}
  /\ client_ \in BOOLEAN /\ contexts \in BOOLEAN /\ build_err_ \in BOOLEAN
  /\ fd_ \in Nat /\ ssl_ \in Nat /\ ssl_ctx_ \in Nat
  /\ conn_cxt_ \subseteq 1..NColumns /\ types_ \subseteq 1..NColumns
  /\ col \in 0..NColumns
  /\ batch \in 0..MaxBatches
  /\ seen \in 0..kMaxRecvPackets-1
  /\ connects \in 0..MaxConnects

LinkType ==
  /\ toServer \in Seq({"query", "rows", "end"} \X (1..MaxBatches))
  /\ toClient \in Seq({"header", "eos", "other", "exception"})
  /\ srv \in {"idle", "rows", "end"}
  /\ rows \in 0..MaxBatches
  /\ late \subseteq 1..MaxBatches
  /\ stored \in Seq(1..MaxBatches)
  /\ acked \subseteq 1..MaxBatches

TypeOK == WorkerType /\ LinkType

Stored(b) == \E i \in 1..Len(stored) : stored[i] = b

(* A batch reported as exported is stored, whatever failed before on this  *)
(* or an earlier connection: no stale reply is taken for an answer.        *)
AckedIsStored == \A b \in acked : Stored(b)

(* A batch that CommitBatch has begun with and not returned from.          *)
Taken == pc \in {"crunch", "header", "rows", "end", "ack"}

(* The batches that are neither stored nor given up.                       *)
From(n) == [i \in 1..MaxBatches + 1 - n |-> n + i - 1]

FirstUnresolved == IF Taken /\ ~Stored(batch) THEN batch ELSE batch + 1

Unresolved == From(FirstUnresolved)

(* CommitBatch has returned false so many times.                           *)
NotAcked ==
  batch - Cardinality(acked) - IF Taken THEN 1 ELSE 0

Delivery ==
  INSTANCE EventDelivery WITH
    BatchMax <- 1,
    accepted <- MaxBatches,
    pending  <- Unresolved,
    underway <- {<<b>> : b \in late},
    failures <- NotAcked

(* A batch is stored at most once and in its turn, but for one that was    *)
(* given up with its rows on the way: dropping the connection makes the    *)
(* dialogue an at-most-once delivery of whole batches.                     *)
ImplementsDelivery == Delivery!Spec

(* Nothing outlives its connection: however far an attempt to connect or   *)
(* an insert got, what it opened is closed before the next one, and a type *)
(* that ResolveType remembers has not been freed with the memory of an     *)
(* earlier connection.                                                     *)
NothingOutlivesConnection ==
  /\ TypeOK
  /\ types_ \subseteq conn_cxt_
  /\ client_ => contexts
  /\ pc = "idle" =>
       LET n == IF client_ THEN 1 ELSE 0
           t == IF Tls THEN n ELSE 0
       IN  /\ fd_ = n /\ ssl_ = t /\ ssl_ctx_ = t
           /\ client_ \/ conn_cxt_ = {}
=============================================================================
