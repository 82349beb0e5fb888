---------------------------- MODULE WorkerProofs ----------------------------
(***************************************************************************)
(* Proofs about the background worker, for every number of sessions that   *)
(* call pg_stat_ch_flush(), every size of the ring and of a batch, and any *)
(* number of restarts; and about its ClickHouse connection and INSERT      *)
(* dialogue, for every number of batches, connections and columns, with or *)
(* without TLS.                                                            *)
(***************************************************************************)
EXTENDS BgWorker, ClickHouseInsert, TLAPS

-----------------------------------------------------------------------------
(* The background worker: the inductive invariant.                         *)

(* A flag that is set with the latch reset is one that this cycle of the   *)
(* loop has yet to look at, or the worker is on its way out.               *)
Attended ==
  /\ ProcDiePending \/ BarrierPending =>
       latch \/ wpc \in {"signals", "exiting", "leaving"}
  /\ ConfigReloadPending =>
       latch \/ wpc \in {"signals", "config", "exiting", "leaving"}

(* A pid is that of a worker there has been; a session is about to clear   *)
(* only that of one that is gone.                                          *)
PidsPast ==
  /\ bgworker_pid =< lives
  /\ Alive => lives # 0
  /\ \A s \in Sessions :
       /\ pid[s] =< lives
       /\ spc[s] \in {"kill", "clear"} => pid[s] # 0
       /\ spc[s] = "clear" /\ pid[s] = lives => ~Alive

WorkerInv == RunningIsFound /\ Attended /\ PidsPast

-----------------------------------------------------------------------------
(* The invariant holds when the worker is started.                         *)
LEMMA InitWorker == WorkerInit => WorkerInv
<1> SUFFICES ASSUME WorkerInit PROVE WorkerInv
  BY Zenon
<1>1. WorkerTypeOK
  <2>1. {lives, bgworker_pid} \subseteq 0..MaxLives /\ exported \in 0..BatchMax
        /\ {size, owed} \subseteq 0..Capacity
    BY WorkerAssumption DEF WorkerInit
  <2>2. pid \in [Sessions -> 0..MaxLives]
    BY WorkerAssumption DEF WorkerInit
  <2>3. spc \in [Sessions -> {"idle", "kill", "clear"}]
    BY Zenon DEF WorkerInit
  <2>4. {latch, ProcDiePending, BarrierPending, ConfigReloadPending, conf,
         psch_enabled} \subseteq BOOLEAN
    BY Zenon DEF WorkerInit
  <2> QED
    BY <2>1, <2>2, <2>3, <2>4, Zenon DEF WorkerInit, WorkerTypeOK
<1>2. Attended
  BY Zenon DEF WorkerInit, Attended
<1>3. ~Looping /\ ~Alive
  BY Zenon DEF WorkerInit, Looping, Alive
<1>4. PidsPast
  BY <1>3 DEF WorkerInit, PidsPast
<1> QED
  BY <1>1, <1>2, <1>3, <1>4, Zenon DEF WorkerInv, RunningIsFound

(* A worker that goes, orderly or not, leaves a pid that nobody has.       *)
LEMMA VanishKeeps ==
  ASSUME WorkerInv, Vanish
  PROVE  WorkerInv'
<1>1. WorkerTypeOK'
  <2>1. {owed', exported'} = {0}
    BY Zenon DEF Vanish
  <2>2. {latch, ProcDiePending, BarrierPending, ConfigReloadPending, conf,
         psch_enabled}' \subseteq BOOLEAN
    BY Zenon DEF Vanish, WorkerInv, RunningIsFound, WorkerTypeOK
  <2> QED
    BY <2>1, <2>2, WorkerAssumption
    DEF Vanish, WorkerInv, RunningIsFound, WorkerTypeOK, Looping, life,
    sessions
<1>2. ~Looping' /\ ~Alive'
  BY Zenon DEF Vanish, Looping, Alive
<1>3. Attended'
  BY Zenon DEF Vanish, Attended
<1>4. PidsPast'
  BY <1>2, Zenon DEF Vanish, WorkerInv, PidsPast, life, sessions
<1> QED
  BY <1>1, <1>2, <1>3, <1>4, Zenon DEF WorkerInv, RunningIsFound

(* What other processes do to the worker: they set a flag and its latch,   *)
(* read its pid, and clear that of a dead one.                             *)
LEMMA OthersKeep ==
  ASSUME WorkerInv,
         \/ Produce \/ Terminate \/ Barrier \/ Reload
         \/ \E s \in Sessions : ReadPid(s) \/ Call(s)
  PROVE  WorkerInv'
<1> USE WorkerAssumption
    DEF WorkerInv, RunningIsFound, WorkerTypeOK, Attended, PidsPast, Alive,
        Looping, signals, life, sessions
<1>1. CASE Produce
  BY <1>1 DEF Produce
<1>2. CASE Terminate
  BY <1>2, Zenon DEF Terminate
<1>3. CASE Barrier
  BY <1>3, Zenon DEF Barrier
<1>4. CASE Reload
  BY <1>4, Zenon DEF Reload
<1>5. ASSUME NEW s \in Sessions, ReadPid(s) PROVE WorkerInv'
  BY <1>5, Zenon DEF ReadPid
<1>6. ASSUME NEW s \in Sessions, Kill(s) PROVE WorkerInv'
  BY <1>6 DEF Kill
<1>7. ASSUME NEW s \in Sessions, KillFails(s) PROVE WorkerInv'
  BY <1>7, Zenon DEF KillFails, MyProcPid
<1>8. ASSUME NEW s \in Sessions, ClearStale(s) PROVE WorkerInv'
  BY <1>8 DEF ClearStale
<1> QED
  <2> HIDE DEF WorkerInv
  <2> QED
    BY <1>1, <1>2, <1>3, <1>4, <1>5, <1>6, <1>7, <1>8, Zenon DEF Call

(* HandleConfigReload comes after the flags of the first half: they were   *)
(* set with the latch, since, if they are set.                             *)
LEMMA ConfigKeeps ==
  ASSUME WorkerInv, Config
  PROVE  WorkerInv'
<1>1. psch_enabled' \in BOOLEAN
  BY Zenon DEF Config, WorkerInv, RunningIsFound, WorkerTypeOK
<1>2. wpc' \in {"batch", "wait"} /\ wpc = "config"
  BY Zenon DEF Config
<1>3. WorkerTypeOK'
  <2>1. owed' \in 0..Capacity
    BY WorkerAssumption DEF Config, WorkerInv, RunningIsFound, WorkerTypeOK
  <2> QED
    BY <1>1, <1>2, <2>1, Zenon
    DEF Config, WorkerInv, RunningIsFound, WorkerTypeOK, Looping, life,
    sessions
<1>4. Attended'
  BY <1>2, Zenon DEF Config, WorkerInv, Attended
<1>5. Looping /\ bgworker_pid' = lives'
  BY <1>2, Zenon DEF Config, WorkerInv, RunningIsFound, Looping, life
<1>6. PidsPast'
  BY <1>2, Zenon DEF Config, WorkerInv, PidsPast, Alive, life, sessions
<1> QED
  BY <1>3, <1>4, <1>5, <1>6, Zenon DEF WorkerInv, RunningIsFound

(* The worker's own steps.                                                 *)
LEMMA WorkerKeeps ==
  ASSUME WorkerInv, Start \/ Dies \/ Worker \/ Timeout
  PROVE  WorkerInv'
<1>1. CASE Dies \/ Gone
  BY <1>1, VanishKeeps, Zenon DEF Dies, Gone
<1>2. CASE Config
  BY <1>2, ConfigKeeps, Zenon
<1> USE WorkerAssumption
    DEF WorkerInv, RunningIsFound, WorkerTypeOK, Attended, PidsPast, Alive,
        Looping, signals, life, sessions
<1>3. CASE Start
  BY <1>3 DEF Start
<1>4. CASE Stores
  BY <1>4 DEF Stores
<1>5. CASE Wake \/ Timeout
  BY <1>5 DEF Wake, Timeout
<1>6. CASE Reset
  BY <1>6, Zenon DEF Reset
<1>7. CASE Interrupts
  BY <1>7, Zenon DEF Interrupts
<1>8. CASE Batch
  BY <1>8 DEF Batch, Least, Monus
<1>9. CASE BatchFails
  BY <1>9 DEF BatchFails
<1>10. CASE DieInBatch
  BY <1>10 DEF DieInBatch, Monus
<1>11. CASE Returned
  BY <1>11 DEF Returned
<1>12. CASE Shutdown
  BY <1>12 DEF Shutdown
<1> QED
  <2> HIDE DEF WorkerInv
  <2> QED
    BY <1>1, <1>2, <1>3, <1>4, <1>5, <1>6, <1>7, <1>8, <1>9, <1>10, <1>11,
       <1>12, Zenon
    DEF Worker

(* Every step keeps it.                                                    *)
LEMMA NextWorker == WorkerInv /\ [WorkerNext]_workerVars => WorkerInv'
<1> SUFFICES ASSUME WorkerInv, [WorkerNext]_workerVars PROVE WorkerInv'
  BY Zenon
<1>1. CASE UNCHANGED workerVars
  BY <1>1, Zenon
  DEF workerVars, WorkerInv, RunningIsFound, WorkerTypeOK, Attended, PidsPast,
      Alive, Looping, signals, life, sessions
<1> QED
  BY <1>1, OthersKeep, WorkerKeeps, Zenon DEF WorkerNext

-----------------------------------------------------------------------------
(* The invariant holds of every run of the worker.                         *)
THEOREM WorkerInvariance == WorkerSpec => []WorkerInv
  BY InitWorker, NextWorker, PTL DEF WorkerSpec

(* A SIGTERM, a barrier or a reload that arrives at any point of the loop, *)
(* between ResetLatch and the look at its flag included, keeps the worker  *)
(* from going to sleep on it.                                              *)
THEOREM NoWakeupLost == WorkerSpec => []NoLostWakeup
<1>1. WorkerInv => NoLostWakeup
  BY Zenon DEF WorkerInv, Attended, NoLostWakeup
<1> QED
  BY <1>1, WorkerInvariance, PTL

(* While the worker is in its loop, shared memory holds its pid, whichever *)
(* sessions clear the pids of its predecessors, in any interleaving.       *)
THEOREM WorkerFound == WorkerSpec => []RunningIsFound
<1>1. WorkerInv => RunningIsFound
  BY Zenon DEF WorkerInv
<1> QED
  BY <1>1, WorkerInvariance, PTL

-----------------------------------------------------------------------------
(* The ClickHouse exporter: the inductive invariant.                       *)

Connecting == pc \in {"context", "session", "hello"}

(* What is open at each point of EstablishNewConnection and after it.      *)
Handles ==
  /\ Connecting => ~client_ /\ contexts
  /\ Taken => client_
  /\ client_ => contexts
  /\ pc \in {"context", "session"} => Tls
  /\ fd_ = IF client_ \/ Connecting THEN 1 ELSE 0
  /\ ssl_ctx_ = IF Tls /\ (client_ \/ pc \in {"session", "hello"})
                  THEN 1 ELSE 0
  /\ ssl_ = IF Tls /\ (client_ \/ pc = "hello") THEN 1 ELSE 0
  /\ types_ \subseteq conn_cxt_
  /\ ~client_ => conn_cxt_ = {}

(* The packets on the way to the server, or to the client: an answer,      *)
(* after any number of others.                                             *)
Sent(kind) == Len(toServer) = 1 /\ toServer[1] = <<kind, batch>>

SentBoth ==
  /\ Len(toServer) = 2
  /\ toServer[1] = <<"rows", batch>>
  /\ toServer[2] = <<"end", batch>>

Answer(last) ==
  /\ toServer = <<>>
  /\ toClient # <<>>
  /\ toClient[Len(toClient)] = last
  /\ \A i \in 1..Len(toClient)-1 : toClient[i] = "other"

(* Both ends agree on how far the dialogue is, and the link is empty when  *)
(* there is none.                                                          *)
Decided == srv = "idle" /\ rows = 0 /\ (Answer("eos") \/ Answer("exception"))

Dialogue ==
  /\ pc \notin {"header", "rows", "end", "ack"} =>
       toServer = <<>> /\ toClient = <<>> /\ srv = "idle" /\ rows = 0
  /\ pc = "header" =>
       /\ rows = 0
       /\ \/ Sent("query") /\ toClient = <<>> /\ srv = "idle"
          \/ Answer("header") /\ srv = "rows"
          \/ Answer("exception") /\ srv = "idle"
  /\ pc = "rows" =>
       toServer = <<>> /\ toClient = <<>> /\ srv = "rows" /\ rows = 0
  /\ pc = "end" =>
       /\ toClient = <<>>
       /\ \/ Sent("rows") /\ srv = "rows" /\ rows = 0
          \/ toServer = <<>> /\ srv = "end" /\ rows = batch
  /\ pc = "ack" =>
       \/ SentBoth /\ toClient = <<>> /\ srv = "rows" /\ rows = 0
       \/ Sent("end") /\ toClient = <<>> /\ srv = "end" /\ rows = batch
       \/ Decided

(* Batches come in their order: the one being committed is not stored, not *)
(* left behind and not acknowledged before the server has decided on it.   *)
Past ==
  /\ Taken => batch # 0
  /\ \A b \in acked : Stored(b) /\ b =< batch /\ (Taken => b # batch)
  /\ \A b \in late : b =< batch /\ (Taken => b # batch)
  /\ \A i \in 1..Len(stored) : stored[i] =< batch
  /\ Taken /\ Stored(batch) => pc = "ack" /\ Decided
  /\ pc = "ack" /\ Answer("eos") => Stored(batch)

IInv == TypeOK /\ Handles /\ Dialogue /\ Past

-----------------------------------------------------------------------------
(* Sequences of packets.                                                   *)

(* An empty connection carries no packet.                                  *)
LEMMA NoPackets ==
  ASSUME NEW S, NEW s \in Seq(S)
  PROVE  /\ Len(s) \in Nat
         /\ Len(s) = 0 <=> s = <<>>
         /\ \A t \in Seq(S) : s = <<>> => s \o t = t
OBVIOUS

(* What a packet added to a stream adds to it.                             *)
LEMMA Appended ==
  ASSUME NEW S, NEW s \in Seq(S), NEW e \in S
  PROVE  /\ Append(s, e) \in Seq(S)
         /\ Len(Append(s, e)) = Len(s) + 1
         /\ \A i \in 1..Len(s) : Append(s, e)[i] = s[i]
         /\ Append(s, e)[Len(s) + 1] = e
OBVIOUS

(* A packet added to a stream is a stream of one packet after it.          *)
LEMMA AppendedAfter ==
  ASSUME NEW S, NEW s \in Seq(S), NEW e PROVE Append(s, e) = s \o <<e>>
OBVIOUS

(* What taking the first packet leaves.                                    *)
LEMMA Taking ==
  ASSUME NEW S, NEW s \in Seq(S), s # <<>>
  PROVE  /\ Len(s) \in Nat \ {0}
         /\ Head(s) = s[1]
         /\ s[1] \in S
         /\ Tail(s) \in Seq(S)
         /\ Len(Tail(s)) = Len(s) - 1
         /\ \A i \in 1..Len(s) - 1 : Tail(s)[i] = s[i + 1]
         /\ Len(s) = 1 => Tail(s) = <<>>
<1>1. /\ Len(s) \in Nat \ {0}
      /\ Head(s) = s[1]
      /\ s[1] \in S
  OBVIOUS
<1>2. /\ Tail(s) \in Seq(S)
      /\ Len(Tail(s)) = Len(s) - 1
  OBVIOUS
<1>3. \A i \in 1..Len(s) - 1 : Tail(s)[i] = s[i + 1]
  OBVIOUS
<1>4. Len(s) = 1 => Tail(s) = <<>>
  <2>1. Len(s) = 1 => Len(Tail(s)) = 0
    BY <1>2
  <2> QED
    BY <2>1, <1>2, NoPackets, Zenon
<1> QED
  BY <1>1, <1>2, <1>3, <1>4, Zenon

(* A reply is an answer after some others.                                 *)
LEMMA ReplyShape ==
  ASSUME NEW last \in {"header", "eos"}, NEW r \in Replies(last)
  PROVE  /\ r \in Seq({"header", "eos", "other", "exception"})
         /\ r # <<>>
         /\ Len(r) \in Nat \ {0}
         /\ \A i \in 1..Len(r)-1 : r[i] = "other"
         /\ r = <<"exception">> => r[Len(r)] = "exception"
         /\ r # <<"exception">> => r[Len(r)] = last
<1>1. CASE r = <<last>>
  BY <1>1
<1>2. CASE r = <<"other", last>>
  BY <1>2
<1>3. CASE r = <<"other", "other", last>>
  BY <1>3
<1>4. CASE r = <<"exception">>
  BY <1>4
<1> QED
  BY <1>1, <1>2, <1>3, <1>4, Zenon DEF Replies

Packet == {"query", "rows", "end"} \X (1..MaxBatches)
Reply == {"header", "eos", "other", "exception"}

(* Taking a packet off either queue of the link.                           *)
LEMMA LinkQueues ==
  ASSUME TypeOK
  PROVE  /\ toServer \in Seq(Packet) /\ Len(toServer) \in Nat
         /\ toClient \in Seq(Reply) /\ Len(toClient) \in Nat
         /\ Len(toServer) = 0 <=> toServer = <<>>
         /\ Len(toClient) = 0 <=> toClient = <<>>
         /\ toServer # <<>> =>
              /\ Len(toServer) # 0
              /\ Head(toServer) = toServer[1]
              /\ toServer[1] \in Packet
              /\ Tail(toServer) \in Seq(Packet)
              /\ Len(Tail(toServer)) = Len(toServer) - 1
              /\ \A i \in 1..Len(toServer)-1 :
                   Tail(toServer)[i] = toServer[i + 1]
              /\ Len(toServer) = 1 => Tail(toServer) = <<>>
         /\ toClient # <<>> =>
              /\ Len(toClient) # 0
              /\ Head(toClient) = toClient[1]
              /\ Tail(toClient) \in Seq(Reply)
              /\ Len(Tail(toClient)) = Len(toClient) - 1
              /\ \A i \in 1..Len(toClient)-1 :
                   Tail(toClient)[i] = toClient[i + 1]
              /\ Len(toClient) = 1 => Tail(toClient) = <<>>
<1>1. toServer \in Seq(Packet) /\ toClient \in Seq(Reply)
  BY Zenon DEF TypeOK, LinkType, Packet, Reply
<1>2. /\ Len(toServer) \in Nat /\ (Len(toServer) = 0 <=> toServer = <<>>)
      /\ Len(toClient) \in Nat /\ (Len(toClient) = 0 <=> toClient = <<>>)
  BY <1>1, NoPackets, Zenon
<1>3. toServer # <<>> =>
        /\ Len(toServer) # 0
        /\ Head(toServer) = toServer[1]
        /\ toServer[1] \in Packet
        /\ Tail(toServer) \in Seq(Packet)
        /\ Len(Tail(toServer)) = Len(toServer) - 1
        /\ \A i \in 1..Len(toServer)-1 : Tail(toServer)[i] = toServer[i + 1]
        /\ Len(toServer) = 1 => Tail(toServer) = <<>>
  BY <1>1, Taking, Zenon
<1>4. toClient # <<>> =>
        /\ Len(toClient) # 0
        /\ Head(toClient) = toClient[1]
        /\ Tail(toClient) \in Seq(Reply)
        /\ Len(Tail(toClient)) = Len(toClient) - 1
        /\ \A i \in 1..Len(toClient)-1 : Tail(toClient)[i] = toClient[i + 1]
        /\ Len(toClient) = 1 => Tail(toClient) = <<>>
  BY <1>1, Taking, Zenon
<1> QED
  BY <1>1, <1>2, <1>3, <1>4, Zenon

(* Only the batch of a dialogue that has been sent to its end and not been *)
(* decided may still be stored when its connection is closed.              *)
LEMMA UndecidedIsCurrent ==
  ASSUME IInv
  PROVE  /\ Undecided \subseteq {batch}
         /\ Undecided # {} => pc = "ack" /\ ~Stored(batch) /\ batch \in 1..MaxBatches
         /\ batch \in 0..MaxBatches
<1>1. batch \in 0..MaxBatches /\ MaxBatches \in Nat
  BY InsertAssumption, Zenon DEF IInv, TypeOK, WorkerType
<1>2. Len(toServer) \in Nat /\ (toServer = <<>> <=> Len(toServer) = 0)
  BY LinkQueues, Zenon DEF IInv
<1> SUFFICES ASSUME NEW b \in Undecided
             PROVE  b = batch /\ pc = "ack" /\ ~Stored(batch) /\ batch # 0
  BY <1>1
<1>3. PICK i \in 1..Len(toServer) : toServer[i] = <<"end", b>>
  BY Zenon DEF Undecided
<1>4. toServer # <<>>
  BY <1>2, <1>3
<1>5. /\ pc \in {"header", "end", "ack"}
      /\ pc = "header" => Sent("query")
      /\ pc = "end" => Sent("rows")
      /\ pc = "ack" => SentBoth \/ Sent("end")
      /\ ~Decided
  BY <1>4, Zenon DEF IInv, TypeOK, WorkerType, Dialogue, Answer, Decided
<1>6. pc = "ack" /\ b = batch
  <2>1. CASE Sent("query") \/ Sent("rows")
    <3>1. i = 1
      BY <2>1, <1>3 DEF Sent
    <3> QED
      BY <2>1, <3>1, <1>3 DEF Sent
  <2>2. CASE SentBoth
    <3>1. i \in {1, 2}
      BY <2>2, <1>3 DEF SentBoth
    <3> QED
      BY <2>2, <3>1, <1>3, <1>5 DEF SentBoth, Sent
  <2>3. CASE Sent("end")
    <3>1. i = 1
      BY <2>3, <1>3 DEF Sent
    <3> QED
      BY <2>3, <3>1, <1>3, <1>5 DEF Sent
  <2> QED
    BY <1>5, <2>1, <2>2, <2>3, Zenon
<1>7. batch # 0 /\ ~Stored(batch)
  BY <1>5, <1>6, Zenon DEF IInv, Past, Taken
<1> QED
  BY <1>6, <1>7, Zenon

-----------------------------------------------------------------------------
(* The invariant is inductive.                                             *)

(* The invariant holds before the first INSERT.                            *)
LEMMA InitIInv == Init => IInv
<1> SUFFICES ASSUME Init PROVE IInv
  BY Zenon
<1>1. WorkerType
  <2>1. /\ col \in 0..NColumns
        /\ batch \in 0..MaxBatches
        /\ seen \in 0..kMaxRecvPackets-1
        /\ connects \in 0..MaxConnects
    BY InsertAssumption DEF Init
  <2> QED
    BY <2>1, Zenon DEF Init, WorkerType
<1>2. LinkType
  BY InsertAssumption DEF Init, LinkType
<1>3. Handles
  BY Zenon DEF Init, Handles, Connecting, Taken
<1>4. Dialogue
  BY Zenon DEF Init, Dialogue
<1>5. Past
  BY DEF Init, Past, Taken
<1> QED
  BY <1>1, <1>2, <1>3, <1>4, <1>5, Zenon DEF IInv, TypeOK

(* Whatever the dialogue was, closing leaves no connection, no packet and  *)
(* no type, and the batch behind.                                          *)
LEMMA CloseIInv ==
  ASSUME IInv, CloseConnection, pc # "idle", pc' = "idle",
         UNCHANGED <<block, batch, seen, connects, stored, acked>>
  PROVE  IInv'
<1>1. late' \subseteq late \cup {batch} /\ late' \subseteq 1..MaxBatches
  <2>1. late' = late \cup Undecided
    BY Zenon DEF CloseConnection
  <2>2. Undecided \subseteq {batch} /\ Undecided \subseteq 1..MaxBatches
    BY UndecidedIsCurrent, Zenon DEF Undecided
  <2>3. late \subseteq 1..MaxBatches
    BY Zenon DEF IInv, TypeOK, LinkType
  <2> QED
    BY <2>1, <2>2, <2>3, Zenon
<1>2. batch \in 0..MaxBatches
  BY Zenon DEF IInv, TypeOK, WorkerType
<1>3. WorkerType'
  BY Zenon
     DEF CloseConnection, ResetConnectionContext, IInv, TypeOK, WorkerType,
         block
<1>4. LinkType'
  BY <1>1, InsertAssumption DEF CloseConnection, IInv, TypeOK, LinkType
<1>5. Handles'
  BY Zenon
     DEF CloseConnection, ResetConnectionContext, Handles, Connecting, Taken
<1>6. Dialogue'
  BY Zenon DEF CloseConnection, Dialogue
<1>7. Past'
  BY <1>1, <1>2 DEF IInv, Past, Taken, Stored
<1> QED
  BY <1>3, <1>4, <1>5, <1>6, <1>7, Zenon DEF IInv, TypeOK

(* EstablishNewConnection                                                  *)
LEMMA ConnectionIInv ==
  ASSUME IInv,
         Establish \/ EstablishOom \/ TlsContext \/ TlsSession \/ Hello
  PROVE  IInv'
<1> USE InsertAssumption
    DEF Establish, EstablishOom, TlsContext, TlsSession, Hello, handles,
        memory, block, link
<1>1. WorkerType'
  <2>1. connects' \in 0..MaxConnects
    BY DEF IInv, TypeOK, WorkerType
  <2>2. fd_' \in Nat /\ ssl_' \in Nat /\ ssl_ctx_' \in Nat
    BY DEF IInv, TypeOK, WorkerType
  <2> QED
    BY <2>1, <2>2, Zenon DEF IInv, TypeOK, WorkerType, ResetConnectionContext
<1>2. LinkType'
  BY Zenon DEF IInv, TypeOK, LinkType
<1>3. Handles'
  <2> USE DEF IInv, Handles, Connecting, Taken
  <2>1. CASE Establish
    BY <2>1, Zenon DEF ResetConnectionContext
  <2>2. CASE EstablishOom
    BY <2>2, Zenon
  <2>3. CASE TlsContext
    BY <2>3
  <2>4. CASE TlsSession
    BY <2>4
  <2>5. CASE Hello
    BY <2>5, Zenon
  <2> QED
    BY <2>1, <2>2, <2>3, <2>4, <2>5, Zenon
<1>4. Dialogue'
  BY Zenon DEF IInv, Dialogue
<1>5. Past'
  BY Zenon DEF IInv, Past, Taken, Stored
<1> QED
  BY <1>1, <1>2, <1>3, <1>4, <1>5, Zenon DEF IInv, TypeOK

(* A batch is taken, or given up at once: every batch of the past has a    *)
(* smaller number.                                                         *)
LEMMA NextBatch ==
  ASSUME IInv, CommitBatch \/ BuilderInitFails
  PROVE  IInv'
<1> USE DEF CommitBatch, BuilderInitFails, handles, memory, block, link
<1>1. batch \in 0..MaxBatches /\ batch' \in 1..MaxBatches /\ batch' > batch
  BY InsertAssumption DEF IInv, TypeOK, WorkerType
<1>2. WorkerType'
  <2>1. col' \in 0..NColumns
    BY InsertAssumption DEF IInv, TypeOK, WorkerType
  <2>2. CASE CommitBatch
    <3>1. pc' = "crunch" /\ build_err_' \in BOOLEAN
      BY <2>2, Zenon
    <3>2. UNCHANGED <<handles, memory, seen, connects>>
      BY <2>2, Zenon
    <3> HIDE DEF CommitBatch, BuilderInitFails
    <3> QED
      BY <1>1, <2>1, <3>1, <3>2 DEF IInv, TypeOK, WorkerType
  <2>3. CASE BuilderInitFails
    BY <1>1, <2>1, <2>3 DEF IInv, TypeOK, WorkerType
  <2> QED
    BY <2>2, <2>3, Zenon
<1>3. LinkType'
  BY Zenon DEF IInv, TypeOK, LinkType
<1>4. Handles'
  BY Zenon DEF IInv, Handles, Connecting, Taken
<1>5. Dialogue'
  BY Zenon DEF IInv, Dialogue
<1>6. Past'
  <2>1. \A i \in 1..Len(stored) : stored[i] \in 1..MaxBatches
    BY InsertAssumption DEF IInv, TypeOK, LinkType
  <2>2. \A i \in 1..Len(stored) : stored[i] =< batch
    BY Zenon DEF IInv, Past
  <2>3. ~Stored(batch')
    BY <1>1, <2>1, <2>2 DEF Stored
  <2>4. \A b \in acked \cup late : b \in 1..MaxBatches /\ b =< batch
    BY Zenon DEF IInv, TypeOK, LinkType, Past
  <2>5. pc' \in {"idle", "crunch"} /\ UNCHANGED <<stored, acked, late>>
    BY Zenon
  <2>6. \A b \in acked' : Stored(b)'
    BY <2>5, Zenon DEF IInv, Past, Stored
  <2>7. ~Stored(batch)'
    BY <2>3, <2>5, Zenon DEF Stored
  <2> QED
    BY <1>1, <2>1, <2>2, <2>4, <2>5, <2>6, <2>7 DEF Past
<1> QED
  BY <1>2, <1>3, <1>4, <1>5, <1>6, Zenon DEF IInv, TypeOK

(* The block: none of it concerns the link or the batches.                 *)
LEMMA BlockIInv ==
  ASSUME IInv, Crunch \/ CrunchFails \/ BuildFails
  PROVE  IInv'
<1> USE DEF handles, memory, block, link
<1>1. /\ col \in 0..NColumns
      /\ NColumns \in Nat
      /\ pc = "crunch"
      /\ pc' \in {"crunch", "idle"}
  BY InsertAssumption, Zenon
  DEF IInv, TypeOK, WorkerType, Crunch, CrunchFails, BuildFails
<1>2. WorkerType' /\ types_' \subseteq conn_cxt_'
  <2>1. CASE Crunch
    <3>1. col + 1 \in 1..NColumns
      BY <1>1, <2>1 DEF Crunch
    <3>2. CASE UNCHANGED <<memory, build_err_>>
      BY <2>1, <3>1, <3>2
      DEF Crunch, IInv, TypeOK, WorkerType, Handles
    <3>3. CASE /\ conn_cxt_' = conn_cxt_ \cup {col + 1}
               /\ types_' = types_ \cup {col + 1}
               /\ UNCHANGED <<contexts, build_err_>>
      BY <2>1, <3>1, <3>3
      DEF Crunch, IInv, TypeOK, WorkerType, Handles
    <3>4. CASE build_err_' = TRUE /\ UNCHANGED memory
      BY <2>1, <3>1, <3>4
      DEF Crunch, IInv, TypeOK, WorkerType, Handles
    <3> QED
      BY <2>1, <3>2, <3>3, <3>4, Zenon DEF Crunch, ResolveType
  <2>2. CASE CrunchFails
    <3>1. col + 1 \in 1..NColumns
      BY <1>1, <2>2 DEF CrunchFails
    <3> QED
      BY <2>2, <3>1 DEF CrunchFails, IInv, TypeOK, WorkerType, Handles
  <2>3. CASE BuildFails
    BY <2>3, Zenon DEF BuildFails, IInv, TypeOK, WorkerType, Handles
  <2> QED
    BY <2>1, <2>2, <2>3, Zenon
<1>3. UNCHANGED <<handles, contexts, batch, link, late, stored, acked>>
  BY Zenon DEF Crunch, CrunchFails, BuildFails, ResolveType
<1>4. LinkType'
  BY <1>3, Zenon DEF IInv, TypeOK, LinkType
<1>5. Handles'
  BY <1>1, <1>2, <1>3, Zenon DEF IInv, Handles, Connecting, Taken
<1>6. Dialogue'
  BY <1>1, <1>3, Zenon DEF IInv, Dialogue
<1>7. Past'
  BY <1>1, <1>3, Zenon DEF IInv, Past, Taken, Stored
<1> QED
  BY <1>2, <1>4, <1>5, <1>6, <1>7, Zenon DEF IInv, TypeOK

-----------------------------------------------------------------------------
(* SendInsert.                                                             *)

(* What the worker's steps of the dialogue leave as it is.                 *)
LEMMA InsertStep ==
  ASSUME IInv,
         \/ SendQuery \/ RecvOther \/ RecvHeader \/ SendRows \/ SendEnd
         \/ RecvEos
  PROVE  /\ WorkerType'
         /\ Handles'
         /\ Taken /\ batch \in 1..MaxBatches
         /\ UNCHANGED <<batch, srv, rows, late, stored>>
<1> USE DEF handles, memory, block, SendQuery, RecvOther, RecvHeader,
            SendRows, SendEnd, RecvEos
<1>1. Taken /\ UNCHANGED <<batch, srv, rows, late, stored>>
  BY Zenon DEF Taken
<1>2. batch \in 1..MaxBatches
  BY <1>1 DEF IInv, TypeOK, WorkerType, Past
<1>3. WorkerType'
  <2>1. seen' \in 0..kMaxRecvPackets-1
    <3>1. seen \in 0..kMaxRecvPackets-1
      BY Zenon DEF IInv, TypeOK, WorkerType
    <3>2. seen' \in {0, seen} \/ (seen' = seen + 1 /\ seen + 1 < kMaxRecvPackets)
      BY Zenon
    <3> HIDE DEF SendQuery, RecvOther, RecvHeader, SendRows, SendEnd, RecvEos
    <3> QED
      BY <3>1, <3>2, InsertAssumption
  <2> QED
    BY <2>1, Zenon DEF IInv, TypeOK, WorkerType
<1>4. Handles'
  BY Zenon DEF IInv, Handles, Connecting, Taken
<1> QED
  BY <1>1, <1>2, <1>3, <1>4, Zenon

(* Taking one of the others leaves the answer to come, ...                 *)
LEMMA AnswerComes ==
  ASSUME TypeOK, NEW last \in Reply \ {"other"}, Answer(last),
         toClient' = Tail(toClient), UNCHANGED toServer
  PROVE  /\ Head(toClient) \in {"other", last}
         /\ Head(toClient) = "other" => Answer(last)'
         /\ Head(toClient) = last => toClient' = <<>>
<1>1. /\ Len(toClient) \in Nat \ {0}
      /\ Head(toClient) = toClient[1]
      /\ Len(toClient') = Len(toClient) - 1
      /\ \A i \in 1..Len(toClient)-1 : toClient'[i] = toClient[i + 1]
      /\ Len(toClient) = 1 => toClient' = <<>>
      /\ toClient' \in Seq(Reply)
  BY LinkQueues, Zenon DEF Answer
<1>2. /\ toClient[Len(toClient)] = last
      /\ \A i \in 1..Len(toClient)-1 : toClient[i] = "other"
      /\ toServer = <<>>
  BY Zenon DEF Answer
<1>3. CASE Len(toClient) = 1
  BY <1>1, <1>2, <1>3, Zenon DEF Reply
<1>4. CASE Len(toClient) > 1
  <2>1. toClient[1] = "other"
    BY <1>1, <1>2, <1>4
  <2>2. toClient'[Len(toClient')] = last
    BY <1>1, <1>2, <1>4
  <2>3. \A i \in 1..Len(toClient')-1 : toClient'[i] = "other"
    BY <1>1, <1>2, <1>4
  <2>4. toClient' # <<>>
    <3>1. Len(toClient') # 0
      BY <1>1, <1>4
    <3> QED
      BY <3>1, Zenon
  <2> QED
    BY <1>1, <1>2, <2>1, <2>2, <2>3, <2>4, Zenon DEF Answer, Reply
<1> QED
  BY <1>1, <1>3, <1>4

(* ... and sending a packet on an empty link puts it there.                *)
LEMMA PacketSent ==
  ASSUME IInv, batch \in 1..MaxBatches, NEW kind \in {"query", "rows", "end"},
         toServer' = Append(toServer, <<kind, batch>>), UNCHANGED batch
  PROVE  /\ toServer' \in Seq(Packet)
         /\ toServer = <<>> => Sent(kind)'
         /\ Sent("rows") /\ kind = "end" => SentBoth'
<1>1. <<kind, batch>> \in Packet
  BY Zenon DEF Packet
<1>2. toServer \in Seq(Packet) /\ (toServer = <<>> => Len(toServer) = 0)
  BY LinkQueues, Zenon DEF IInv
<1>3. /\ toServer' \in Seq(Packet)
      /\ Len(toServer') = Len(toServer) + 1
      /\ \A i \in 1..Len(toServer) : toServer'[i] = toServer[i]
      /\ toServer'[Len(toServer) + 1] = <<kind, batch>>
  BY <1>1, <1>2, Appended
<1>4. toServer = <<>> => Sent(kind)'
  BY <1>2, <1>3 DEF Sent
<1>5. Sent("rows") /\ kind = "end" => SentBoth'
  BY <1>3 DEF Sent, SentBoth
<1> QED
  BY <1>3, <1>4, <1>5, Zenon

(* The steps of the client that send.                                      *)
LEMMA SendIInv ==
  ASSUME IInv, SendQuery \/ SendRows \/ SendEnd
  PROVE  IInv'
<1>1. /\ WorkerType' /\ Handles'
      /\ Taken /\ batch \in 1..MaxBatches
      /\ UNCHANGED <<batch, srv, rows, late, stored>>
  BY InsertStep, Zenon
<1>2. UNCHANGED <<toClient, acked>> /\ Taken'
  BY Zenon DEF SendQuery, SendRows, SendEnd, Taken
<1>3. toServer' \in Seq(Packet) /\ Dialogue'
  <2>1. CASE SendQuery
    <3>1. toServer' = Append(toServer, <<"query", batch>>) /\ pc' = "header"
      BY <2>1, Zenon DEF SendQuery
    <3>2. toServer = <<>> /\ toClient = <<>> /\ srv = "idle" /\ rows = 0
      BY <2>1, Zenon DEF SendQuery, IInv, Dialogue
    <3>3. toServer' \in Seq(Packet) /\ Sent("query")'
      BY <1>1, <3>1, <3>2, PacketSent, Zenon
    <3> QED
      BY <1>1, <1>2, <3>1, <3>2, <3>3, Zenon DEF Dialogue
  <2>2. CASE SendRows
    <3>1. toServer' = Append(toServer, <<"rows", batch>>) /\ pc' = "end"
      BY <2>2, Zenon DEF SendRows
    <3>2. toServer = <<>> /\ toClient = <<>> /\ srv = "rows" /\ rows = 0
      BY <2>2, Zenon DEF SendRows, IInv, Dialogue
    <3>3. toServer' \in Seq(Packet) /\ Sent("rows")'
      BY <1>1, <3>1, <3>2, PacketSent, Zenon
    <3> QED
      BY <1>1, <1>2, <3>1, <3>2, <3>3, Zenon DEF Dialogue
  <2>3. CASE SendEnd
    <3>1. toServer' = Append(toServer, <<"end", batch>>) /\ pc' = "ack"
      BY <2>3, Zenon DEF SendEnd
    <3>2. /\ toClient = <<>>
          /\ \/ Sent("rows") /\ srv = "rows" /\ rows = 0
             \/ toServer = <<>> /\ srv = "end" /\ rows = batch
      BY <2>3, Zenon DEF SendEnd, IInv, Dialogue
    <3>3. /\ toServer' \in Seq(Packet)
          /\ toServer = <<>> => Sent("end")'
          /\ Sent("rows") => SentBoth'
      BY <1>1, <3>1, PacketSent, Zenon
    <3> QED
      BY <1>1, <1>2, <3>1, <3>2, <3>3, Zenon DEF Dialogue
  <2> QED
    BY <2>1, <2>2, <2>3, Zenon
<1>4. LinkType'
  BY <1>1, <1>2, <1>3, Zenon DEF IInv, TypeOK, LinkType, Packet
<1>5. Past'
  <2>1. toClient = <<>> /\ pc # "ack"
    BY Zenon DEF SendQuery, SendRows, SendEnd, IInv, Dialogue
  <2>2. ~Stored(batch)
    BY <1>1, <2>1, Zenon DEF IInv, Past
  <2>3. ~Stored(batch)' /\ ~Answer("eos")'
    BY <1>1, <1>2, <2>1, <2>2, Zenon DEF Stored, Answer
  <2> QED
    BY <1>1, <1>2, <2>3, Zenon DEF IInv, Past, Stored
<1> QED
  BY <1>1, <1>3, <1>4, <1>5, Zenon DEF IInv, TypeOK

(* The steps of the client that receive.                                   *)
LEMMA RecvIInv ==
  ASSUME IInv, RecvOther \/ RecvHeader \/ RecvEos
  PROVE  IInv'
<1>1. /\ WorkerType' /\ Handles'
      /\ Taken /\ batch \in 1..MaxBatches
      /\ UNCHANGED <<batch, srv, rows, late, stored>>
  BY InsertStep, Zenon
<1>2. /\ UNCHANGED toServer
      /\ toClient # <<>>
      /\ toClient' = Tail(toClient)
      /\ pc \in {"header", "ack"}
  BY Zenon DEF RecvOther, RecvHeader, RecvEos
<1>3. toClient' \in Seq(Reply)
  BY <1>2, LinkQueues, Zenon DEF IInv
<1>4. /\ pc = "header" =>
           rows = 0 /\ (\/ Answer("header") /\ srv = "rows"
                        \/ Answer("exception") /\ srv = "idle")
      /\ pc = "ack" => Decided
  BY <1>2, Zenon DEF IInv, Dialogue
<1>5. \A last \in {"header", "eos", "exception"} : Answer(last) =>
        /\ Head(toClient) \in {"other", last}
        /\ Head(toClient) = "other" => Answer(last)'
        /\ Head(toClient) = last => toClient' = <<>>
  BY <1>2, AnswerComes, Zenon DEF IInv, Reply
<1>6. CASE RecvOther
  <2>1. /\ Head(toClient) \notin {Awaited, "exception"}
        /\ UNCHANGED <<pc, acked>>
    BY <1>6, Zenon DEF RecvOther
  <2>2. pc = "header" =>
          rows = 0 /\ (\/ Answer("header")' /\ srv = "rows"
                       \/ Answer("exception")' /\ srv = "idle")
    BY <1>4, <1>5, <2>1, Zenon DEF Awaited
  <2>3. pc = "ack" => Decided' /\ (Answer("eos")' => Answer("eos"))
    <3>1. Answer("exception")' => ~Answer("eos")'
      BY Zenon DEF Answer
    <3> QED
      BY <1>1, <1>4, <1>5, <2>1, <3>1, Zenon DEF Awaited, Decided
  <2>4. Dialogue'
    BY <1>1, <1>2, <2>1, <2>2, <2>3, Zenon DEF Dialogue
  <2>5. LinkType'
    BY <1>1, <1>2, <1>3, <2>1, Zenon DEF IInv, TypeOK, LinkType, Reply
  <2>6. Past'
    BY <1>1, <1>2, <2>1, <2>3, Zenon DEF IInv, Past, Stored, Taken
  <2> QED
    BY <1>1, <2>4, <2>5, <2>6, Zenon DEF IInv, TypeOK
<1>7. CASE RecvHeader
  <2>1. Head(toClient) = "header" /\ pc = "header" /\ pc' = "rows" /\ UNCHANGED acked
    BY <1>7, Zenon DEF RecvHeader
  <2>2. toClient' = <<>> /\ srv = "rows" /\ rows = 0 /\ toServer = <<>>
    BY <1>4, <1>5, <2>1, Zenon DEF Answer
  <2>3. Dialogue'
    BY <1>1, <1>2, <2>1, <2>2, Zenon DEF Dialogue
  <2>4. LinkType'
    BY <1>1, <1>2, <1>3, <2>1, Zenon DEF IInv, TypeOK, LinkType, Reply
  <2>5. Past'
    BY <1>1, <1>2, <2>1, Zenon DEF IInv, Past, Stored, Taken
  <2> QED
    BY <1>1, <2>3, <2>4, <2>5, Zenon DEF IInv, TypeOK
<1>8. CASE RecvEos
  <2>1. /\ Head(toClient) = "eos" /\ pc = "ack" /\ pc' = "idle"
        /\ acked' = acked \cup {batch}
    BY <1>8, Zenon DEF RecvEos
  <2>2. /\ toClient' = <<>> /\ srv = "idle" /\ rows = 0 /\ toServer = <<>>
        /\ Answer("eos")
    BY <1>4, <1>5, <2>1, Zenon DEF Decided, Answer
  <2>3. Dialogue'
    BY <1>1, <1>2, <2>1, <2>2, Zenon DEF Dialogue
  <2>4. LinkType'
    BY <1>1, <1>2, <1>3, <2>1, Zenon DEF IInv, TypeOK, LinkType, Reply
  <2>5. Past'
    <3>1. Stored(batch)
      BY <2>1, <2>2, Zenon DEF IInv, Past
    <3>2. \A b \in acked' : Stored(b)' /\ b =< batch
      BY <1>1, <2>1, <3>1, Zenon DEF IInv, Past, Stored
    <3> QED
      BY <1>1, <2>1, <3>2, Zenon DEF IInv, Past, Taken
  <2> QED
    BY <1>1, <2>3, <2>4, <2>5, Zenon DEF IInv, TypeOK
<1> QED
  BY <1>6, <1>7, <1>8, Zenon

-----------------------------------------------------------------------------
(* The server.                                                             *)

(* A step of the server on the link belongs to the current dialogue.       *)
LEMMA ServerStep ==
  ASSUME IInv, ServerQuery \/ ServerRows \/ ServerEnd
  PROVE  /\ WorkerType' /\ Handles'
         /\ UNCHANGED <<pc, batch, late, acked>>
         /\ batch \in 1..MaxBatches
         /\ toServer' \in Seq(Packet)
         /\ toClient = <<>>
         /\ ServerQuery => pc = "header" /\ Sent("query") /\ toServer' = <<>> /\ rows = 0
         /\ ServerRows =>
              /\ toServer[1] = <<"rows", batch>>
              /\ \/ pc = "end" /\ toServer' = <<>>
                 \/ pc = "ack" /\ Sent("end")'
         /\ ServerEnd => pc = "ack" /\ toServer' = <<>> /\ rows = batch
<1> USE DEF handles, memory, block, ServerQuery, ServerRows, ServerEnd
<1>1. /\ WorkerType' /\ Handles'
      /\ UNCHANGED <<pc, batch, late, acked>>
      /\ toServer # <<>>
      /\ toServer' = Tail(toServer)
  <2>1. UNCHANGED <<pc, handles, memory, block, batch, seen, connects, late,
                    acked>>
    BY Zenon
  <2>2. toServer # <<>> /\ toServer' = Tail(toServer)
    BY Zenon
  <2> HIDE DEF ServerQuery, ServerRows, ServerEnd
  <2>3. WorkerType'
    BY <2>1, Zenon DEF IInv, TypeOK, WorkerType
  <2>4. Handles'
    BY <2>1, Zenon DEF IInv, Handles, Connecting, Taken
  <2> QED
    BY <2>1, <2>2, <2>3, <2>4, Zenon
<1>2. /\ toServer' \in Seq(Packet)
      /\ Len(toServer') = Len(toServer) - 1
      /\ \A i \in 1..Len(toServer)-1 : toServer'[i] = toServer[i + 1]
      /\ Len(toServer) = 1 => toServer' = <<>>
  BY <1>1, LinkQueues, Zenon DEF IInv
<1>3. /\ pc \in {"header", "end", "ack"}
      /\ pc = "header" => Sent("query") /\ toClient = <<>> /\ srv = "idle" /\ rows = 0
      /\ pc = "end" => Sent("rows") /\ toClient = <<>> /\ srv = "rows"
      /\ pc = "ack" => /\ toClient = <<>>
                       /\ \/ SentBoth /\ srv = "rows"
                          \/ Sent("end") /\ srv = "end" /\ rows = batch
  BY <1>1, Zenon DEF IInv, Dialogue, Answer, Decided
<1>4. batch \in 1..MaxBatches
  BY <1>3 DEF IInv, TypeOK, WorkerType, Past, Taken
<1>5. SentBoth => Sent("end")' /\ toServer[1] = <<"rows", batch>>
  <2> HIDE DEF ServerQuery, ServerRows, ServerEnd
  <2>1. SentBoth => Len(toServer') = 1 /\ toServer'[1] = toServer[1 + 1]
    BY <1>2 DEF SentBoth
  <2> QED
    BY <1>1, <2>1 DEF SentBoth, Sent
<1>6. \A kind \in {"query", "rows", "end"} :
        Sent(kind) => toServer[1] = <<kind, batch>> /\ toServer' = <<>>
  BY <1>2, Zenon DEF Sent
<1> QED
  BY <1>1, <1>2, <1>3, <1>4, <1>5, <1>6, Zenon

(* Its replies are answers.                                                *)
LEMMA Answered ==
  ASSUME IInv, toClient = <<>>, toServer' = <<>>,
         NEW last \in {"header", "eos"}, NEW r \in Replies(last),
         toClient' = toClient \o r
  PROVE  /\ toClient' \in Seq(Reply)
         /\ r = <<"exception">> => Answer("exception")' /\ ~Answer("eos")'
         /\ r # <<"exception">> => Answer(last)'
<1>1. /\ r \in Seq(Reply)
      /\ r # <<>>
      /\ Len(r) \in Nat \ {0}
      /\ \A i \in 1..Len(r)-1 : r[i] = "other"
      /\ r = <<"exception">> => r[Len(r)] = "exception"
      /\ r # <<"exception">> => r[Len(r)] = last
  BY ReplyShape, Zenon DEF Reply
<1>2. toClient' = r
  BY <1>1
<1> QED
  BY <1>1, <1>2, Zenon DEF Answer

(* The steps of the server.                                                *)
LEMMA ServerIInv ==
  ASSUME IInv, ServerQuery \/ ServerRows \/ ServerEnd
  PROVE  IInv'
<1>1. /\ WorkerType' /\ Handles'
      /\ UNCHANGED <<pc, batch, late, acked>>
      /\ batch \in 1..MaxBatches
      /\ toServer' \in Seq(Packet)
      /\ toClient = <<>>
  BY ServerStep, Zenon
<1>2. /\ stored \in Seq(1..MaxBatches)
      /\ late \subseteq 1..MaxBatches
      /\ acked \subseteq 1..MaxBatches
      /\ rows \in 0..MaxBatches
  BY Zenon DEF IInv, TypeOK, LinkType
<1>3. CASE ServerQuery
  <2>1. pc = "header" /\ Sent("query") /\ toServer' = <<>> /\ rows = 0
    BY <1>3, ServerStep, Zenon
  <2>2. PICK r \in Replies("header") :
          /\ toClient' = toClient \o r
          /\ srv' = IF Head(toServer)[1] = "query" /\ r # <<"exception">>
                      THEN "rows" ELSE "idle"
    BY <1>3, Zenon DEF ServerQuery
  <2>3. /\ toClient' \in Seq(Reply)
        /\ r = <<"exception">> => Answer("exception")'
        /\ r # <<"exception">> => Answer("header")'
    BY <1>1, <2>1, <2>2, Answered, Zenon
  <2>4. Head(toServer)[1] = "query"
    <3>1. toServer # <<>>
      BY <1>3, Zenon DEF ServerQuery
    <3>2. Head(toServer) = toServer[1]
      BY <3>1, LinkQueues, Zenon DEF IInv
    <3> QED
      BY <2>1, <3>2 DEF Sent
  <2>5. UNCHANGED <<rows, stored>>
    BY <1>3, Zenon DEF ServerQuery
  <2>6. Dialogue'
    BY <1>1, <2>1, <2>2, <2>3, <2>4, <2>5, Zenon DEF Dialogue
  <2>7. LinkType'
    BY <1>1, <1>2, <2>2, <2>3, <2>5, Zenon DEF LinkType, Packet, Reply
  <2>8. Past'
    BY <1>1, <2>1, <2>5, Zenon DEF IInv, Past, Taken, Stored
  <2> QED
    BY <1>1, <2>6, <2>7, <2>8, Zenon DEF IInv, TypeOK
<1>4. CASE ServerRows
  <2>1. /\ toServer[1] = <<"rows", batch>>
        /\ \/ pc = "end" /\ toServer' = <<>>
           \/ pc = "ack" /\ Sent("end")'
    BY <1>4, ServerStep, Zenon
  <2>2. rows' = batch /\ srv' = "end" /\ UNCHANGED <<toClient, stored>>
    <3>1. Head(toServer) = toServer[1]
      BY <1>4, LinkQueues, Zenon DEF ServerRows, IInv
    <3> QED
      BY <1>4, <2>1, <3>1 DEF ServerRows
  <2>3. Dialogue'
    BY <1>1, <2>1, <2>2, Zenon DEF Dialogue
  <2>4. LinkType'
    BY <1>1, <1>2, <2>2 DEF IInv, TypeOK, LinkType, Packet
  <2>5. ~Stored(batch)
    <3>1. ~Decided
      BY <1>1, Zenon DEF Decided, Answer
    <3> QED
      BY <2>1, <3>1, Zenon DEF IInv, Past, Taken
  <2>6. ~Stored(batch)' /\ ~Answer("eos")'
    BY <1>1, <2>2, <2>5, Zenon DEF Stored, Answer
  <2>7. Past'
    BY <1>1, <2>2, <2>6, Zenon DEF IInv, Past, Taken, Stored
  <2> QED
    BY <1>1, <2>3, <2>4, <2>7, Zenon DEF IInv, TypeOK
<1>5. CASE ServerEnd
  <2>1. pc = "ack" /\ toServer' = <<>> /\ rows = batch
    BY <1>5, ServerStep, Zenon
  <2>2. PICK r \in Replies("eos") :
          /\ toClient' = toClient \o r
          /\ stored' = IF r = <<"exception">> THEN stored ELSE Append(stored, rows)
    BY <1>5, Zenon DEF ServerEnd
  <2>3. /\ toClient' \in Seq(Reply)
        /\ r = <<"exception">> => Answer("exception")' /\ ~Answer("eos")'
        /\ r # <<"exception">> => Answer("eos")'
    BY <1>1, <2>1, <2>2, Answered, Zenon
  <2>4. srv' = "idle" /\ rows' = 0
    BY <1>5, Zenon DEF ServerEnd
  <2>5. Decided'
    BY <2>3, <2>4, Zenon DEF Decided
  <2>6. Dialogue'
    BY <1>1, <2>1, <2>5, Zenon DEF Dialogue
  <2>7. /\ stored' \in Seq(1..MaxBatches)
        /\ Len(stored) \in Nat
        /\ r # <<"exception">> =>
             /\ Len(stored') = Len(stored) + 1
             /\ \A i \in 1..Len(stored) : stored'[i] = stored[i]
             /\ stored'[Len(stored) + 1] = batch
    <3>1. CASE r = <<"exception">>
      BY <1>2, <2>2, <3>1
    <3>2. CASE r # <<"exception">>
      <4>1. stored' = Append(stored, batch) /\ Len(stored) \in Nat
        BY <1>2, <2>1, <2>2, <3>2
      <4> QED
        BY <1>1, <1>2, <4>1, Appended
    <3> QED
      BY <3>1, <3>2, Zenon
  <2>8. LinkType'
    BY <1>1, <1>2, <2>3, <2>4, <2>7, InsertAssumption
       DEF LinkType, Packet, Reply
  <2>9. Past'
    <3>1. CASE r = <<"exception">>
      BY <1>1, <2>1, <2>2, <2>3, <2>5, <3>1, Zenon
         DEF IInv, Past, Stored, Taken
    <3>2. CASE r # <<"exception">>
      <4>1. Stored(batch)'
        BY <1>1, <2>7, <3>2 DEF Stored
      <4>2. \A i \in 1..Len(stored') : stored'[i] =< batch
        BY <1>1, <2>7, <3>2 DEF IInv, Past
      <4>3. \A b \in acked : Stored(b)'
        BY <2>7, <3>2 DEF IInv, Past, Stored
      <4> QED
        BY <1>1, <2>1, <2>5, <4>1, <4>2, <4>3, Zenon DEF IInv, Past, Taken
    <3> QED
      BY <3>1, <3>2, Zenon
  <2> QED
    BY <1>1, <2>6, <2>8, <2>9, Zenon DEF IInv, TypeOK
<1> QED
  BY <1>3, <1>4, <1>5, Zenon

(* A late insert is stored or not; nothing is taken back.                  *)
LEMMA LateIInv ==
  ASSUME IInv, ServerLate
  PROVE  IInv'
<1>1. PICK b \in late :
        late' = late \ {b} /\ stored' \in {stored, Append(stored, b)}
  BY Zenon DEF ServerLate
<1>2. UNCHANGED <<pc, handles, memory, block, batch, seen, connects, link,
                  acked>>
  BY Zenon DEF ServerLate
<1>3. /\ stored \in Seq(1..MaxBatches)
      /\ Len(stored) \in Nat
      /\ b \in 1..MaxBatches
      /\ b =< batch
      /\ Taken => b # batch
  BY DEF IInv, TypeOK, LinkType, Past
<1>4. /\ stored' \in Seq(1..MaxBatches)
      /\ Len(stored') \in Nat
      /\ Len(stored') >= Len(stored)
      /\ \A i \in 1..Len(stored) : stored'[i] = stored[i]
      /\ \A i \in 1..Len(stored') :
           i \in 1..Len(stored) \/ stored'[i] = b
  <2>1. CASE stored' = stored
    BY <1>3, <2>1
  <2>2. CASE stored' = Append(stored, b)
    <3>1. /\ stored' \in Seq(1..MaxBatches)
          /\ Len(stored') = Len(stored) + 1
          /\ \A i \in 1..Len(stored) : stored'[i] = stored[i]
          /\ stored'[Len(stored) + 1] = b
      BY <1>3, <2>2, Appended
    <3> QED
      BY <1>3, <3>1
  <2> QED
    BY <1>1, <2>1, <2>2, Zenon
<1>5. WorkerType'
  BY <1>2, Zenon DEF IInv, TypeOK, WorkerType, handles, memory, block
<1>6. LinkType'
  BY <1>1, <1>2, <1>4, Zenon DEF IInv, TypeOK, LinkType, link
<1>7. Handles'
  BY <1>2, Zenon DEF IInv, Handles, Connecting, Taken, handles, memory
<1>8. Dialogue'
  BY <1>2, Zenon DEF IInv, Dialogue, Sent, SentBoth, Answer, Decided, link
<1>9. Past'
  <2>1. \A c : Stored(c) => Stored(c)'
    BY <1>3, <1>4 DEF Stored
  <2>2. \A c : Stored(c)' => Stored(c) \/ c = b
    BY <1>4, Zenon DEF Stored
  <2>3. \A i \in 1..Len(stored') : stored'[i] =< batch
    BY <1>3, <1>4, Zenon DEF IInv, Past
  <2>4. /\ Taken' = Taken
        /\ Decided' = Decided
        /\ Answer("eos")' = Answer("eos")
        /\ UNCHANGED <<pc, batch, acked>>
    BY <1>2, Zenon DEF Taken, Decided, Answer, link
  <2>5. \A c : Taken' /\ c = batch' /\ Stored(c)' => pc' = "ack" /\ Decided'
    BY <1>3, <2>2, <2>4, Zenon DEF IInv, Past
  <2>6. Taken' /\ Stored(batch)' => pc' = "ack" /\ Decided'
    BY <2>5, Zenon DEF Stored
  <2>7. pc' = "ack" /\ Answer("eos")' => Stored(batch)'
    BY <2>1, <2>4, Zenon DEF IInv, Past, Stored
  <2>8. \A c \in acked' : Stored(c)' /\ c =< batch' /\ (Taken' => c # batch')
    BY <2>1, <2>4, Zenon DEF IInv, Past
  <2>9. \A c \in late' : c =< batch' /\ (Taken' => c # batch')
    BY <1>1, <2>4, Zenon DEF IInv, Past
  <2>10. Taken' => batch' # 0
    BY <2>4, Zenon DEF IInv, Past
  <2> QED
    BY <2>3, <2>4, <2>6, <2>7, <2>8, <2>9, <2>10, Zenon DEF Past
<1> QED
  BY <1>5, <1>6, <1>7, <1>8, <1>9, Zenon DEF IInv, TypeOK

(* Every step keeps the invariant.                                         *)
LEMMA NextIInv == IInv /\ [Next]_vars => IInv'
<1> SUFFICES ASSUME IInv, [Next]_vars PROVE IInv'
  BY Zenon
<1>1. CASE Establish \/ EstablishOom \/ TlsContext \/ TlsSession \/ Hello
  BY <1>1, ConnectionIInv, Zenon
<1>2. CASE EstablishFails \/ BuildThrows \/ RecordFailure
  <2>1. /\ CloseConnection /\ pc # "idle" /\ pc' = "idle"
        /\ UNCHANGED <<block, batch, seen, connects, stored, acked>>
    BY <1>2, Zenon DEF EstablishFails, BuildThrows, RecordFailure
  <2> QED
    BY <2>1, CloseIInv, Zenon
<1>3. CASE CommitBatch \/ BuilderInitFails
  BY <1>3, NextBatch, Zenon
<1>4. CASE Crunch \/ CrunchFails \/ BuildFails
  BY <1>4, BlockIInv, Zenon
<1>5. CASE SendQuery \/ SendRows \/ SendEnd
  BY <1>5, SendIInv, Zenon
<1>6. CASE RecvOther \/ RecvHeader \/ RecvEos
  BY <1>6, RecvIInv, Zenon
<1>7. CASE ServerQuery \/ ServerRows \/ ServerEnd
  BY <1>7, ServerIInv, Zenon
<1>8. CASE ServerLate
  BY <1>8, LateIInv, Zenon
<1>9. CASE UNCHANGED vars
  <2>1. WorkerType'
    BY <1>9, Zenon DEF vars, IInv, TypeOK, WorkerType, handles, memory, block
  <2>2. LinkType'
    BY <1>9, Zenon DEF vars, IInv, TypeOK, LinkType, link
  <2>3. Handles'
    BY <1>9, Zenon DEF vars, IInv, Handles, Connecting, Taken, handles, memory
  <2>4. Dialogue'
    BY <1>9, Zenon
       DEF vars, IInv, Dialogue, Sent, SentBoth, Answer, Decided, link
  <2>5. Past'
    BY <1>9, Zenon DEF vars, IInv, Past, Taken, Stored, Answer, Decided, link
  <2> QED
    BY <2>1, <2>2, <2>3, <2>4, <2>5, Zenon DEF IInv, TypeOK
<1> QED
  BY <1>1, <1>2, <1>3, <1>4, <1>5, <1>6, <1>7, <1>8, <1>9, Zenon DEF Next

-----------------------------------------------------------------------------
(* The invariant holds of every run of the exporter.                       *)
THEOREM InsertInvariance == Spec => []IInv
  BY InitIInv, NextIInv, PTL DEF Spec

(* CommitBatch returns true only for a batch that the server has stored,   *)
(* whatever replies, failures and reconnections came before.               *)
THEOREM AcknowledgedStored == Spec => []AckedIsStored
<1>1. IInv => AckedIsStored
  BY Zenon DEF IInv, Past, AckedIsStored
<1> QED
  BY <1>1, InsertInvariance, PTL

(* CloseConnection and EstablishNewConnection leave no socket, TLS object  *)
(* or type of an earlier connection behind, however far it got.            *)
THEOREM ConnectionClean == Spec => []NothingOutlivesConnection
<1>1. IInv => NothingOutlivesConnection
  BY Zenon DEF IInv, Handles, Connecting, NothingOutlivesConnection
<1> QED
  BY <1>1, InsertInvariance, PTL

-----------------------------------------------------------------------------
INSTANCE FiniteSetTheorems

(* The dialogue implements the delivery of batches.                        *)

(* Taking the first batch off those that are left.                         *)
LEMMA FromSplit ==
  ASSUME NEW n \in 1..MaxBatches + 1
  PROVE  /\ From(n) \in Seq(Nat)
         /\ Len(From(n)) = MaxBatches + 1 - n
         /\ SubSeq(From(n), 1, Len(From(n))) = From(n)
         /\ n =< MaxBatches =>
              /\ SubSeq(From(n), 1, 1) = <<n>>
              /\ SubSeq(From(n), 2, Len(From(n))) = From(n + 1)
<1>1. MaxBatches \in Nat
  BY InsertAssumption, Zenon
<1>2. From(n) \in Seq(Nat) /\ Len(From(n)) = MaxBatches + 1 - n
  BY <1>1 DEF From
<1>3. SubSeq(From(n), 1, Len(From(n))) = From(n)
  BY <1>1, <1>2 DEF From
<1>4. ASSUME n =< MaxBatches
      PROVE  /\ SubSeq(From(n), 1, 1) = <<n>>
             /\ SubSeq(From(n), 2, Len(From(n))) = From(n + 1)
  <2> DEFINE s == SubSeq(From(n), 1, 1)
  <2>1. From(n)[1] = n
    BY <1>1, <1>4 DEF From
  <2>2. s \in Seq(Nat) /\ Len(s) = 1 /\ s[1] = n
    BY <1>1, <1>2, <1>4, <2>1
  <2>3. <<n>> \in Seq(Nat) /\ Len(<<n>>) = 1 /\ <<n>>[1] = n
    OBVIOUS
  <2>4. s = <<n>>
    <3> HIDE DEF s
    <3> QED
      BY <2>2, <2>3
  <2>5. SubSeq(From(n), 2, Len(From(n))) = From(n + 1)
    BY <1>1, <1>2, <1>4 DEF From
  <2> QED
    BY <2>4, <2>5, Zenon
<1> QED
  BY <1>2, <1>3, <1>4, Zenon

(* The first unresolved batch and the failures, as numbers.                *)
LEMMA MappedTypes ==
  ASSUME IInv
  PROVE  /\ MaxBatches \in Nat /\ batch \in 0..MaxBatches
         /\ FirstUnresolved \in 1..MaxBatches + 1
         /\ Len(Unresolved) = MaxBatches + 1 - FirstUnresolved
         /\ IsFiniteSet(acked)
         /\ Cardinality(acked) \in Nat
         /\ NotAcked \in Int
<1>1. /\ MaxBatches \in Nat /\ batch \in 0..MaxBatches
      /\ acked \subseteq 1..MaxBatches
  BY InsertAssumption, Zenon DEF IInv, TypeOK, WorkerType, LinkType
<1>2. FirstUnresolved \in 1..MaxBatches + 1
  BY <1>1 DEF FirstUnresolved, IInv, Past
<1>3. Len(Unresolved) = MaxBatches + 1 - FirstUnresolved
  BY <1>2, FromSplit, Zenon DEF Unresolved
<1>4. IsFiniteSet(acked) /\ Cardinality(acked) \in Nat
  <2>1. IsFiniteSet(1..MaxBatches)
    BY <1>1, FS_Interval
  <2>2. IsFiniteSet(acked)
    BY <1>1, <2>1, FS_Subset, Zenon
  <2> QED
    BY <2>2, FS_CardinalityType, Zenon
<1>5. NotAcked \in Int
  BY <1>1, <1>4 DEF NotAcked
<1> QED
  BY <1>1, <1>2, <1>3, <1>4, <1>5, Zenon

(* A step that leaves the batches where they are is none of the delivery.  *)
LEMMA NoDelivery ==
  ASSUME UNCHANGED <<FirstUnresolved, late, stored, NotAcked>>
  PROVE  UNCHANGED Delivery!deliveryVars
<1>1. UNCHANGED <<Unresolved, {<<b>> : b \in late}>>
  BY Zenon DEF Unresolved, From
<1> QED
  BY <1>1, Zenon DEF Delivery!deliveryVars

(* One that gives up the first batch, with or without its rows sent, ...   *)
LEMMA BatchGivenUp ==
  ASSUME IInv,
         FirstUnresolved \in 1..MaxBatches,
         FirstUnresolved' = FirstUnresolved + 1,
         late' = late \/ late' = late \cup {FirstUnresolved},
         NotAcked' > NotAcked,
         UNCHANGED stored
  PROVE  Delivery!Next
<1> DEFINE under == {<<b>> : b \in late}
           n == FirstUnresolved
<1>1. /\ Len(Unresolved) \in Nat /\ 1 =< Len(Unresolved)
      /\ SubSeq(Unresolved, 1, 1) = <<n>>
      /\ SubSeq(Unresolved, 2, Len(Unresolved)) = From(n + 1)
  BY MappedTypes, FromSplit DEF Unresolved
<1>2. Unresolved' = From(n + 1)
  BY Zenon DEF Unresolved, From
<1>3. CASE late' = late
  <2>1. under' = under
    BY <1>3, Zenon
  <2>2. Delivery!GiveUp(0, 1)
    BY <1>1, <1>2, <2>1 DEF Delivery!GiveUp, Delivery!Without
  <2> QED
    BY <1>1, <2>2 DEF Delivery!Next
<1>4. CASE late' = late \cup {n}
  <2>1. under' = under \cup {<<n>>}
    BY <1>4, Zenon
  <2>2. Delivery!First(1) = <<n>> /\ Delivery!Without(1) = From(n + 1)
    BY <1>1 DEF Delivery!Without, Delivery!First
  <2>3. Delivery!GiveUp(1, 1)
    BY <1>2, <2>1, <2>2 DEF Delivery!GiveUp
  <2> QED
    BY <1>1, <2>3 DEF Delivery!Next
<1> QED
  BY <1>3, <1>4, Zenon

(* ... one that fails after the batch was stored, ...                      *)
LEMMA NothingGivenUp ==
  ASSUME IInv,
         NotAcked' > NotAcked,
         UNCHANGED <<FirstUnresolved, late, stored>>
  PROVE  Delivery!Next
<1>1. /\ Len(Unresolved) \in Nat
      /\ SubSeq(Unresolved, 1, Len(Unresolved)) = Unresolved
  BY MappedTypes, FromSplit DEF Unresolved
<1>2. UNCHANGED <<Unresolved, {<<b>> : b \in late}>>
  BY Zenon DEF Unresolved, From
<1>3. Delivery!GiveUp(0, 0)
  BY <1>1, <1>2 DEF Delivery!GiveUp, Delivery!Without
<1> QED
  BY <1>1, <1>3 DEF Delivery!Next

(* ... one that stores the first batch, ...                                *)
LEMMA BatchStored ==
  ASSUME IInv,
         FirstUnresolved \in 1..MaxBatches,
         FirstUnresolved' = FirstUnresolved + 1,
         stored' = Append(stored, FirstUnresolved),
         UNCHANGED <<late, NotAcked>>
  PROVE  Delivery!Next
<1> DEFINE n == FirstUnresolved
<1>1. /\ Len(Unresolved) \in Nat /\ 1 =< Len(Unresolved)
      /\ SubSeq(Unresolved, 1, 1) = <<n>>
      /\ SubSeq(Unresolved, 2, Len(Unresolved)) = From(n + 1)
  BY MappedTypes, FromSplit DEF Unresolved
<1>2. Unresolved' = From(n + 1) /\ UNCHANGED {<<b>> : b \in late}
  BY Zenon DEF Unresolved, From
<1>3. stored' = stored \o <<n>>
  BY AppendedAfter, Zenon DEF IInv, TypeOK, LinkType
<1>4. Delivery!Store(1)
  <2>1. Delivery!First(1) = <<n>> /\ Delivery!Without(1) = From(n + 1)
    BY <1>1 DEF Delivery!Without, Delivery!First
  <2> QED
    BY <1>2, <1>3, <2>1, Zenon DEF Delivery!Store
<1> QED
  BY <1>1, <1>4 DEF Delivery!Next

(* ... and one in which the server decides a late insert.                  *)
LEMMA LateArrives ==
  ASSUME IInv, NEW b \in late,
         late' = late \ {b},
         stored' \in {stored, Append(stored, b)},
         UNCHANGED <<FirstUnresolved, NotAcked>>
  PROVE  Delivery!Next
<1>1. {<<c>> : c \in late'} = {<<c>> : c \in late} \ {<<b>>}
  OBVIOUS
<1>2. stored' \in {stored, stored \o <<b>>}
  BY AppendedAfter, Zenon DEF IInv, TypeOK, LinkType
<1>3. UNCHANGED Unresolved
  BY Zenon DEF Unresolved, From
<1>4. Delivery!Arrive(<<b>>)
  BY <1>1, <1>2, <1>3, Zenon DEF Delivery!Arrive
<1>5. <<b>> \in {<<c>> : c \in late}
  BY Zenon
<1> QED
  BY <1>4, <1>5, Zenon DEF Delivery!Next

(* What each step of the exporter is to the delivery.                      *)
LEMMA StepDelivers ==
  ASSUME IInv, IInv', [Next]_vars
  PROVE  [Delivery!Next]_(Delivery!deliveryVars)
<1>1. /\ MaxBatches \in Nat /\ batch \in 0..MaxBatches
      /\ IsFiniteSet(acked) /\ Cardinality(acked) \in Nat
  BY MappedTypes, Zenon
<1>2. CASE UNCHANGED <<batch, acked, Taken, stored, late>>
  <2>1. UNCHANGED <<FirstUnresolved, NotAcked>>
    BY <1>2, Zenon DEF FirstUnresolved, NotAcked, Stored
  <2> QED
    BY <1>2, <2>1, NoDelivery, Zenon
<1>3. CASE UNCHANGED vars
  BY <1>2, <1>3, Zenon DEF vars, Taken
<1>4. CASE Establish \/ EstablishOom \/ TlsContext \/ TlsSession \/ Hello
  <2>1. UNCHANGED <<batch, acked, Taken, stored, late>>
    BY <1>4
    DEF Establish, EstablishOom, TlsContext, TlsSession, Hello, Taken
  <2> QED
    BY <1>2, <2>1, Zenon
<1>5. CASE EstablishFails
  <2>1. Undecided = {}
    BY <1>5, UndecidedIsCurrent, Zenon DEF EstablishFails
  <2>2. UNCHANGED <<batch, acked, Taken, stored, late>>
    BY <1>5, <2>1 DEF EstablishFails, CloseConnection, Taken
  <2> QED
    BY <1>2, <2>2, Zenon
<1>6. CASE CommitBatch
  <2>1. ~Taken /\ Taken' /\ batch' = batch + 1 /\ UNCHANGED <<acked, stored, late>>
    BY <1>6, Zenon DEF CommitBatch, Taken
  <2>2. ~Stored(batch)'
    BY <1>6, <2>1, Zenon DEF CommitBatch, IInv, Past
  <2>3. UNCHANGED <<FirstUnresolved, NotAcked>>
    BY <1>1, <2>1, <2>2 DEF FirstUnresolved, NotAcked
  <2> QED
    BY <2>1, <2>3, NoDelivery, Zenon
<1>7. CASE BuilderInitFails
  <2>1. /\ ~Taken /\ ~Taken' /\ batch' = batch + 1 /\ batch < MaxBatches
        /\ UNCHANGED <<acked, stored, late>>
    BY <1>7, Zenon DEF BuilderInitFails, Taken
  <2>2. /\ FirstUnresolved = batch + 1
        /\ FirstUnresolved' = batch + 2
        /\ NotAcked' > NotAcked
    BY <1>1, <2>1 DEF FirstUnresolved, NotAcked
  <2> QED
    BY <1>1, <2>1, <2>2, BatchGivenUp
<1>8. CASE Crunch \/ CrunchFails
  <2>1. UNCHANGED <<batch, acked, Taken, stored, late>>
    BY <1>8, Zenon DEF Crunch, CrunchFails, Taken
  <2> QED
    BY <1>2, <2>1, Zenon
<1>9. CASE SendQuery \/ RecvOther \/ RecvHeader \/ SendRows \/ SendEnd
  <2>1. UNCHANGED <<batch, acked, Taken, stored, late>>
    BY <1>9 DEF SendQuery, RecvOther, RecvHeader, SendRows, SendEnd, Taken
  <2> QED
    BY <1>2, <2>1, Zenon
<1>10. CASE BuildFails \/ BuildThrows \/ RecordFailure
  <2>1. /\ Taken /\ ~Taken'
        /\ UNCHANGED <<batch, acked, stored>>
        /\ late' = late \/ late' = late \cup Undecided
    BY <1>10, Zenon
    DEF BuildFails, BuildThrows, RecordFailure, CloseConnection, Taken
  <2>2. batch \in 1..MaxBatches /\ NotAcked' > NotAcked
    BY <1>1, <2>1 DEF IInv, Past, NotAcked
  <2>3. /\ Undecided \subseteq {batch}
        /\ Stored(batch) => Undecided = {}
    BY UndecidedIsCurrent, Zenon
  <2>4. CASE Stored(batch)
    <3>1. UNCHANGED <<FirstUnresolved, late, stored>>
      BY <2>1, <2>3, <2>4, Zenon DEF FirstUnresolved
    <3> QED
      BY <2>2, <3>1, NothingGivenUp, Zenon
  <2>5. CASE ~Stored(batch)
    <3>1. FirstUnresolved = batch /\ FirstUnresolved' = batch + 1
      BY <2>1, <2>5, Zenon DEF FirstUnresolved
    <3>2. late' = late \/ late' = late \cup {batch}
      BY <2>1, <2>3, Zenon
    <3> QED
      BY <2>1, <2>2, <3>1, <3>2, BatchGivenUp, Zenon
  <2> QED
    BY <2>4, <2>5, Zenon
<1>11. CASE RecvEos
  <2>1. /\ pc = "ack" /\ Taken /\ ~Taken'
        /\ acked' = acked \cup {batch}
        /\ UNCHANGED <<batch, stored, late>>
    BY <1>11, Zenon DEF RecvEos, Taken
  <2>2. batch \notin acked
    BY <2>1, Zenon DEF IInv, Past
  <2>3. Cardinality(acked') = Cardinality(acked) + 1
    BY <1>1, <2>1, <2>2, FS_AddElement, Zenon
  <2>4. Stored(batch)
    BY <2>1, Zenon DEF IInv, Past, AckedIsStored, Stored
  <2>5. UNCHANGED <<FirstUnresolved, NotAcked>>
    BY <1>1, <2>1, <2>3, <2>4 DEF FirstUnresolved, NotAcked
  <2> QED
    BY <2>1, <2>5, NoDelivery, Zenon
<1>12. CASE ServerQuery \/ ServerRows
  <2>1. UNCHANGED <<batch, acked, Taken, stored, late>>
    BY <1>12, Zenon DEF ServerQuery, ServerRows, Taken
  <2> QED
    BY <1>2, <2>1, Zenon
<1>13. CASE ServerEnd
  <2>1. pc = "ack" /\ rows = batch /\ batch \in 1..MaxBatches
    BY <1>13, ServerStep, Zenon
  <2>2. /\ UNCHANGED <<pc, batch, acked, late>>
        /\ stored' = stored \/ stored' = Append(stored, rows)
    BY <1>13, Zenon DEF ServerEnd
  <2>3. CASE stored' = stored
    BY <1>2, <2>2, <2>3, Zenon DEF Taken
  <2>4. CASE stored' = Append(stored, rows)
    <3>1. ~Stored(batch)
      <4>1. ~Decided
        BY <1>13, Zenon DEF ServerEnd, Decided
      <4> QED
        BY <2>1, <4>1, Zenon DEF IInv, Past, Taken
    <3>2. Stored(batch)'
      <4>1. stored \in Seq(1..MaxBatches)
        BY Zenon DEF IInv, TypeOK, LinkType
      <4>2. /\ Len(stored) \in Nat
            /\ Len(stored') = Len(stored) + 1
            /\ stored'[Len(stored) + 1] = batch
        BY <2>1, <2>4, <4>1, Appended
      <4> QED
        BY <2>2, <4>2 DEF Stored
    <3>3. FirstUnresolved = batch /\ FirstUnresolved' = batch + 1
      BY <2>1, <2>2, <3>1, <3>2, Zenon DEF FirstUnresolved, Taken
    <3>4. UNCHANGED NotAcked
      BY <2>2, Zenon DEF NotAcked, Taken
    <3> QED
      BY <2>1, <2>2, <2>4, <3>3, <3>4, BatchStored, Zenon
  <2> QED
    BY <2>2, <2>3, <2>4, Zenon
<1>14. CASE ServerLate
  <2>1. PICK b \in late :
          late' = late \ {b} /\ stored' \in {stored, Append(stored, b)}
    BY <1>14, Zenon DEF ServerLate
  <2>2. UNCHANGED <<pc, batch, acked, link>>
    BY <1>14, Zenon DEF ServerLate
  <2>3. Taken => (Stored(batch) <=> Stored(batch)')
    <3>1. stored \in Seq(1..MaxBatches) /\ b \in 1..MaxBatches /\ (Taken => b # batch)
      BY Zenon DEF IInv, TypeOK, LinkType, Past
    <3>2. CASE stored' = stored
      BY <2>2, <3>2, Zenon DEF Stored
    <3>3. CASE stored' = Append(stored, b)
      <4>1. /\ Len(stored) \in Nat
            /\ Len(stored') = Len(stored) + 1
            /\ \A i \in 1..Len(stored) : stored'[i] = stored[i]
            /\ stored'[Len(stored) + 1] = b
        BY <3>1, <3>3, Appended
      <4> QED
        BY <2>2, <3>1, <4>1 DEF Stored
    <3> QED
      BY <2>1, <3>2, <3>3, Zenon
  <2>4. UNCHANGED <<FirstUnresolved, NotAcked>>
    BY <2>2, <2>3, Zenon DEF FirstUnresolved, NotAcked, Taken
  <2> QED
    BY <2>1, <2>4, LateArrives, Zenon
<1> QED
  BY <1>3, <1>4, <1>5, <1>6, <1>7, <1>8, <1>9, <1>10, <1>11, <1>12, <1>13,
     <1>14, Zenon
  DEF Next

(* The dialogue delivers every batch at most once: each step of the worker *)
(* and of the server is a step of the delivery or none.                    *)
THEOREM InsertDelivers == Spec => ImplementsDelivery
<1>1. Init => Delivery!Init
  <2> SUFFICES ASSUME Init PROVE Delivery!Init
    BY Zenon
  <2>1. batch = 0 /\ ~Taken /\ late = {} /\ stored = <<>> /\ acked = {}
    BY Zenon DEF Init, Taken
  <2>2. MaxBatches \in Nat
    BY InsertAssumption, Zenon
  <2>3. FirstUnresolved = 1
    BY <2>1 DEF FirstUnresolved
  <2>4. Unresolved \in Seq(Nat) /\ Len(Unresolved) = MaxBatches
    BY <2>2, <2>3, FromSplit DEF Unresolved
  <2>5. Unresolved = [i \in 1..Len(Unresolved) |-> i]
    BY <2>2, <2>3, <2>4 DEF Unresolved, From
  <2>6. NotAcked = 0
    BY <2>1, FS_EmptySet DEF NotAcked
  <2> QED
    BY <2>1, <2>4, <2>5, <2>6, Zenon DEF Delivery!Init
<1>2. IInv /\ IInv' /\ [Next]_vars => [Delivery!Next]_(Delivery!deliveryVars)
  BY StepDelivers, Zenon
<1> QED
  BY <1>1, <1>2, InsertInvariance, PTL
  DEF Spec, ImplementsDelivery, Delivery!Spec

(* The facts proved of every delivery.                                     *)
DeliveryFacts ==
  INSTANCE EventDeliveryProofs WITH
    BatchMax <- 1,
    accepted <- MaxBatches,
    pending  <- Unresolved,
    underway <- {<<b>> : b \in late},
    failures <- NotAcked

(* No batch is stored twice, and none that is stored or on its way will be *)
(* sent again, although connections are lost at any point and the server   *)
(* may go on with what it was sent.                                        *)
THEOREM InsertedOnce == Spec => []Delivery!AtMostOnce
<1>1. Delivery!Init => DeliveryFacts!Init
  BY Zenon DEF Delivery!Init, DeliveryFacts!Init
<1>2. [Delivery!Next]_(Delivery!deliveryVars)
        => [DeliveryFacts!Next]_(DeliveryFacts!deliveryVars)
  BY Zenon DEF Delivery!deliveryVars, DeliveryFacts!deliveryVars,
         Delivery!Next, DeliveryFacts!Next,
         Delivery!Accept, DeliveryFacts!Accept,
         Delivery!Store, DeliveryFacts!Store,
         Delivery!GiveUp, DeliveryFacts!GiveUp,
         Delivery!Arrive, DeliveryFacts!Arrive,
         Delivery!First, DeliveryFacts!First,
         Delivery!Without, DeliveryFacts!Without
<1>3. DeliveryFacts!Spec => []DeliveryFacts!AtMostOnce
  BY DeliveryFacts!DeliveredAtMostOnce, Zenon
<1>4. DeliveryFacts!AtMostOnce => Delivery!AtMostOnce
  BY Zenon DEF DeliveryFacts!AtMostOnce, Delivery!AtMostOnce,
         DeliveryFacts!Distinct, Delivery!Distinct
<1> QED
  BY <1>1, <1>2, <1>3, <1>4, InsertDelivers, PTL
  DEF ImplementsDelivery, Delivery!Spec, DeliveryFacts!Spec

=============================================================================
