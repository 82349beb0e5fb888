------------------------------ MODULE BgWorker ------------------------------
(***************************************************************************)
(* The background worker (src/src/worker/bgworker.c): its life cycle, the  *)
(* pid it leaves in shared memory, its main loop, and the sessions that    *)
(* call pg_stat_ch_flush().                                                *)
(*                                                                         *)
(* The ring is its number of events, refilled by backends for ever; a      *)
(* batch is what PschExportBatch does to it, in two steps: connecting or   *)
(* not, and taking up to BatchMax events.  A worker's pid is the number of *)
(* its life: the operating system does not give a pid out again while a    *)
(* session that read it is still in its call.                              *)
(***************************************************************************)
EXTENDS Integers

CONSTANTS
  Capacity,      \* psch_queue_capacity
  BatchMax,      \* psch_batch_max
  Sessions,      \* backends that call pg_stat_ch_flush()
  MaxLives       \* bound: how often the postmaster starts the worker

ASSUME WorkerAssumption == {Capacity, BatchMax, MaxLives} \subseteq Nat \ {0}

VARIABLES
  size,            \* events in the ring
  owed,            \* those still there of the ones a flush request found (ghost;
                   \* a failed export, a worker that leaves or is off end it)
  latch,           \* MyLatch
  ProcDiePending,  \* SIGTERM came
  BarrierPending,  \* ProcSignalBarrierPending
  ConfigReloadPending,
  conf,            \* pg_stat_ch.enabled in the configuration file
  psch_enabled,    \* the worker's value of it
  wpc,             \* where the worker is
  exported,        \* what PschExportBatch returned
  lives,           \* workers started so far; MyProcPid of the latest
  bgworker_pid,    \* in shared memory; 0: none
  spc, pid         \* of a session: where it is, and the pid it read

signals == <<ProcDiePending, BarrierPending, ConfigReloadPending, conf>>
sessions == <<spc, pid>>
life == <<lives, bgworker_pid>>
workerVars == <<size, owed, latch, signals, psch_enabled, wpc, exported, life,
                sessions>>

Least(a, b) == IF a < b THEN a ELSE b
Monus(a, b) == IF a < b THEN 0 ELSE a - b

Alive == wpc # "none"
Looping == wpc \in {"wait", "awake", "signals", "config", "batch", "returned",
                    "between"}
MyProcPid == IF Alive THEN lives ELSE 0

(* The server is up; the worker is not yet.                                *)
WorkerInit ==
  /\ size = 0 /\ owed = 0
  /\ latch = FALSE
  /\ ProcDiePending = FALSE
  /\ BarrierPending = FALSE
  /\ ConfigReloadPending = FALSE
  /\ conf \in BOOLEAN /\ psch_enabled = conf
  /\ wpc = "none" /\ exported = 0
  /\ lives = 0 /\ bgworker_pid = 0
  /\ spc = [s \in Sessions |-> "idle"]
  /\ pid = [s \in Sessions |-> 0]

-----------------------------------------------------------------------------
(* Other processes.                                                        *)

Produce ==
  /\ size < Capacity
  /\ size' = size + 1
  /\ UNCHANGED <<owed, latch, signals, psch_enabled, wpc, exported, life,
                 sessions>>

(* SIGTERM and die()                                                       *)
Terminate ==
  /\ Alive
  /\ ProcDiePending' = TRUE
  /\ latch' = TRUE
  /\ UNCHANGED <<size, owed, BarrierPending, ConfigReloadPending, conf,
                 psch_enabled, wpc, exported, life, sessions>>

(* SIGUSR1 and procsignal_sigusr1_handler                                  *)
Barrier ==
  /\ Alive
  /\ BarrierPending' = TRUE
  /\ latch' = TRUE
  /\ UNCHANGED <<size, owed, ProcDiePending, ConfigReloadPending, conf,
                 psch_enabled, wpc, exported, life, sessions>>

(* The file is edited; SIGHUP and SignalHandlerForConfigReload, if there   *)
(* is a worker to receive it.                                              *)
Reload ==
  /\ conf' \in BOOLEAN
  /\ ConfigReloadPending' = Alive
  /\ latch' = (latch \/ Alive)
  /\ UNCHANGED <<size, owed, ProcDiePending, BarrierPending, psch_enabled,
                 wpc, exported, life, sessions>>

-----------------------------------------------------------------------------
(* PschSignalFlush: PschGetBgworkerPid; with 0 it warns and is done.       *)
ReadPid(s) ==
  /\ spc[s] = "idle"
  /\ bgworker_pid # 0
  /\ pid' = [pid EXCEPT ![s] = bgworker_pid]
  /\ spc' = [spc EXCEPT ![s] = "kill"]
  /\ UNCHANGED <<size, owed, latch, signals, psch_enabled, wpc, exported, life>>

(* kill(pid, SIGUSR2): the worker's HandleFlushSignal sets its latch; ...  *)
Kill(s) ==
  /\ spc[s] = "kill"
  /\ pid[s] = MyProcPid
  /\ latch' = TRUE
  /\ owed' = IF owed = 0 THEN size ELSE owed
  /\ spc' = [spc EXCEPT ![s] = "idle"]
  /\ pid' = [pid EXCEPT ![s] = 0]
  /\ UNCHANGED <<size, signals, psch_enabled, wpc, exported, life>>

(* ... or there is no such process.                                        *)
KillFails(s) ==
  /\ spc[s] = "kill"
  /\ pid[s] # MyProcPid
  /\ spc' = [spc EXCEPT ![s] = "clear"]
  /\ UNCHANGED <<size, owed, latch, signals, psch_enabled, wpc, exported, life,
                 pid>>

(* Variants: a plain store in place of the compare-and-exchange; nothing   *)
(* at all.                                                                 *)
ClearAnyPid(s) ==
  /\ spc[s] = "clear"
  /\ bgworker_pid' = 0
  /\ spc' = [spc EXCEPT ![s] = "idle"]
  /\ pid' = [pid EXCEPT ![s] = 0]
  /\ UNCHANGED <<size, owed, latch, signals, psch_enabled, wpc, exported, lives>>

ClearNothing(s) ==
  /\ spc[s] = "clear"
  /\ spc' = [spc EXCEPT ![s] = "idle"]
  /\ pid' = [pid EXCEPT ![s] = 0]
  /\ UNCHANGED <<size, owed, latch, signals, psch_enabled, wpc, exported, life>>

(* ESRCH: pg_atomic_compare_exchange_u32                                   *)
ClearStale(s) ==
  /\ spc[s] = "clear"
  /\ bgworker_pid' = IF bgworker_pid = pid[s] THEN 0 ELSE bgworker_pid
  /\ spc' = [spc EXCEPT ![s] = "idle"]
  /\ pid' = [pid EXCEPT ![s] = 0]
  /\ UNCHANGED <<size, owed, latch, signals, psch_enabled, wpc, exported, lives>>

-----------------------------------------------------------------------------
(* The worker's life.                                                      *)

(* The postmaster starts it, and starts it again after it has gone.        *)
Start ==
  /\ ~Alive
  /\ lives < MaxLives
  /\ lives' = lives + 1
  /\ psch_enabled' = conf
  /\ wpc' = "starting"
  /\ UNCHANGED <<size, owed, latch, signals, exported, bgworker_pid, sessions>>

(* PschBgworkerMain: handlers, PschBgworkerShutdown, the pid; then it      *)
(* enters its loop.                                                        *)
Stores ==
  /\ wpc = "starting"
  /\ bgworker_pid' = lives
  /\ wpc' = "wait"
  /\ UNCHANGED <<size, owed, latch, signals, psch_enabled, exported, lives,
                 sessions>>

(* PschBgworkerShutdown                                                    *)
Shutdown ==
  /\ wpc = "exiting"
  /\ bgworker_pid' = 0
  /\ wpc' = "leaving"
  /\ UNCHANGED <<size, owed, latch, signals, psch_enabled, exported, lives,
                 sessions>>

(* The process goes, and with it all that is its own.                      *)
Vanish ==
  /\ wpc' = "none"
  /\ owed' = 0 /\ exported' = 0
  /\ latch' = FALSE
  /\ ProcDiePending' = FALSE
  /\ BarrierPending' = FALSE
  /\ ConfigReloadPending' = FALSE
  /\ UNCHANGED <<size, conf, psch_enabled, life, sessions>>

Gone == wpc = "leaving" /\ Vanish

(* "Worker died without running on_proc_exit", or before it registered.    *)
Dies == (Looping \/ wpc = "starting") /\ Vanish

-----------------------------------------------------------------------------
(* The worker's loop.                                                      *)

(* WaitLatch returns: the latch is set, ...                                *)
Wake ==
  /\ wpc = "wait"
  /\ latch
  /\ wpc' = "awake"
  /\ UNCHANGED <<size, owed, latch, signals, psch_enabled, exported, life,
                 sessions>>

(* ... or the sleep is over.                                               *)
Timeout ==
  /\ wpc = "wait"
  /\ ~latch
  /\ wpc' = "awake"
  /\ UNCHANGED <<size, owed, latch, signals, psch_enabled, exported, life,
                 sessions>>

(* ResetLatch                                                              *)
Reset ==
  /\ wpc = "awake"
  /\ latch' = FALSE
  /\ wpc' = "signals"
  /\ UNCHANGED <<size, owed, signals, psch_enabled, exported, life, sessions>>

(* ProcessPendingSignals, first half: the barrier, then interrupts.        *)
Interrupts ==
  /\ wpc \in {"signals", "between"}
  /\ BarrierPending' = FALSE
  /\ wpc' = IF ProcDiePending THEN "exiting" ELSE "config"
  /\ UNCHANGED <<size, owed, latch, ProcDiePending, ConfigReloadPending, conf,
                 psch_enabled, exported, life, sessions>>

(* HandleConfigReload, and the test of psch_enabled that follows it in the *)
(* cycle and in the drain loop alike.                                      *)
Config ==
  /\ wpc = "config"
  /\ ConfigReloadPending' = FALSE
  /\ psch_enabled' = IF ConfigReloadPending THEN conf ELSE psch_enabled
  /\ wpc' = IF psch_enabled' THEN "batch" ELSE "wait"
  /\ owed' = IF psch_enabled' THEN owed ELSE 0
  /\ UNCHANGED <<size, latch, ProcDiePending, BarrierPending, conf, exported,
                 life, sessions>>

(* PschExportBatch takes a batch off the ring; what it returns is the      *)
(* size of the batch, or less when the export fails.                       *)
Batch ==
  /\ wpc = "batch"
  /\ LET n == Least(size, BatchMax) IN
       \E e \in 0..n :
         /\ size' = size - n
         /\ owed' = IF e < n THEN 0 ELSE Monus(owed, n)
         /\ exported' = e
  /\ wpc' = "returned"
  /\ UNCHANGED <<latch, signals, psch_enabled, life, sessions>>

(* ... or fails to connect, or runs out of memory, before that.            *)
BatchFails ==
  /\ wpc = "batch"
  /\ owed' = 0
  /\ exported' = 0
  /\ wpc' = "returned"
  /\ UNCHANGED <<size, latch, signals, psch_enabled, life, sessions>>

(* The warning about a failed export is a point where die() takes effect,  *)
(* with a batch in hand or without.                                        *)
DieInBatch ==
  /\ wpc = "batch"
  /\ ProcDiePending
  /\ size' \in {size, Monus(size, BatchMax)}
  /\ owed' = 0
  /\ wpc' = "exiting"
  /\ UNCHANGED <<latch, signals, psch_enabled, exported, life, sessions>>

(* Variants: the latch is reset before the wait and not after it; the      *)
(* drain loop does not look at signals.                                    *)
ReturnedResetsLatch ==
  /\ wpc = "returned"
  /\ wpc' = IF exported < BatchMax THEN "wait" ELSE "between"
  /\ latch' = IF exported < BatchMax THEN FALSE ELSE latch
  /\ exported' = 0
  /\ UNCHANGED <<size, owed, signals, psch_enabled, life, sessions>>

ReturnedDrainsOn ==
  /\ wpc = "returned"
  /\ wpc' = IF exported < BatchMax THEN "wait" ELSE "batch"
  /\ exported' = 0
  /\ UNCHANGED <<size, owed, latch, signals, psch_enabled, life, sessions>>

(* ExportBatchWithRecovery: a full batch means there may be more.          *)
Returned ==
  /\ wpc = "returned"
  /\ wpc' = IF exported < BatchMax THEN "wait" ELSE "between"
  /\ exported' = 0
  /\ UNCHANGED <<size, owed, latch, signals, psch_enabled, life, sessions>>

-----------------------------------------------------------------------------
Worker ==
  \/ Stores \/ Wake \/ Reset \/ Interrupts \/ Config
  \/ Batch \/ BatchFails \/ DieInBatch \/ Returned
  \/ Shutdown \/ Gone

Call(s) == Kill(s) \/ KillFails(s) \/ ClearStale(s)

WorkerNext ==
  \/ Produce \/ Terminate \/ Barrier \/ Reload
  \/ Start \/ Dies \/ Worker \/ Timeout
  \/ \E s \in Sessions : ReadPid(s) \/ Call(s)

(* The scheduler runs the worker and the sessions that are in a call, and  *)
(* the worker's I/O ends.  Nobody is promised a call, a signal, a restart  *)
(* or the end of a sleep.                                                  *)
WorkerSpec ==
  /\ WorkerInit /\ [][WorkerNext]_workerVars
  /\ WF_workerVars(Worker)
  /\ \A s \in Sessions : WF_workerVars(Call(s))

-----------------------------------------------------------------------------
(* Properties.                                                             *)

WorkerTypeOK ==
  /\ {size, owed} \subseteq 0..Capacity
  /\ {latch, ProcDiePending, BarrierPending, ConfigReloadPending, conf,
      psch_enabled} \subseteq BOOLEAN
  /\ Looping \/ wpc \in {"none", "starting", "exiting", "leaving"}
  /\ exported \in 0..BatchMax
  /\ {lives, bgworker_pid} \subseteq 0..MaxLives
  /\ spc \in [Sessions -> {"idle", "kill", "clear"}]
  /\ pid \in [Sessions -> 0..MaxLives]

(* What a signal asks for is not forgotten while the worker goes to sleep: *)
(* whatever it has left to attend to when it waits, its latch is set.      *)
NoLostWakeup ==
  wpc = "wait" /\ (ProcDiePending \/ BarrierPending \/ ConfigReloadPending)
     => latch

(* A worker in its loop can be found by pg_stat_ch_flush(), although       *)
(* sessions that met a predecessor clean up after it at any time later.    *)
RunningIsFound == WorkerTypeOK /\ (Looping => bgworker_pid = lives)

(* SIGTERM stops the worker, although backends may refill the ring faster  *)
(* than it drains it, and although it may be asleep for the night.         *)
TermStops == ProcDiePending ~> ~Alive

(* Barriers are absorbed and reloads take effect, also from inside the     *)
(* drain loop: DROP DATABASE does not wait for the ring to be empty, and a *)
(* worker that is switched off stops draining.                             *)
SignalsServed ==
  /\ BarrierPending ~> ~BarrierPending
  /\ ConfigReloadPending ~> ~ConfigReloadPending

(* After pg_stat_ch_flush() has found the worker, every event that was in  *)
(* the ring leaves it, at once and not when the sleep is over, unless an   *)
(* export fails, or the worker stops or is switched off.                   *)
FlushServed == owed > 0 ~> owed = 0

(* A pg_stat_ch_flush() that meets the pid of a dead worker does not leave *)
(* it there: the pid is cleared, or a new worker's has replaced it.        *)
StaleIsCleared ==
  \A s \in Sessions, p \in 1..MaxLives :
    (spc[s] = "kill" /\ pid[s] = p /\ p # MyProcPid) ~> bgworker_pid # p
=============================================================================
