------------------------------ MODULE Session -------------------------------
(***************************************************************************)
(* One backend from its first event to its exit: the calls of LogCapture,  *)
(* the backend's handle on the shared DSA area (src/src/queue/psch_dsa.c)  *)
(* and its on_shmem_exit callbacks, which run last-registered-first.  The  *)
(* callback that detaches the area and the one that flushes the local      *)
(* batch (src/src/queue/local_batch.c) are both registered lazily, in      *)
(* either order, and the flush may have to attach the area again.          *)
(*                                                                         *)
(* proc_exit is external.  It aborts the transaction, which flushes the    *)
(* batch too, and runs the callbacks with interrupts off.  An ERROR raised *)
(* in one is promoted to FATAL: no PG_FINALLY is passed, proc_exit starts  *)
(* over with the callbacks that are left, and LWLocks are released at its  *)
(* very end.  Other callbacks may still log something that is captured.    *)
(***************************************************************************)
EXTENDS LogCapture, SessionNames

VARIABLES
  refcnt,         \* references this backend has on the in-place area
  psch_dsa,       \* has it a handle?
  exit_hook,      \* psch_dsa_exit_hook_registered
  batch_init,     \* local_batch_initialized
  callbacks,      \* its exit callbacks, the last one runs first
  phase,          \* "up", "exiting", "gone"
  exit_message    \* one message of another exit callback: "none", "raised",
                  \* or "failed" if its capture ended in an error (history)

area == <<refcnt, psch_dsa, exit_hook>>
session == <<area, batch_init, callbacks, phase, exit_message>>
all == <<vars, session, names>>

SessionInit ==
  /\ Init
  /\ NamesInit
  /\ refcnt = 0
  /\ psch_dsa = FALSE
  /\ exit_hook = FALSE
  /\ batch_init = FALSE
  /\ callbacks = <<>>
  /\ phase = "up"
  /\ exit_message = "none"

-----------------------------------------------------------------------------
(* PschDsaGetArea: attach unless attached, and see to it that the detach   *)
(* callback is on the list.                                                *)
GetArea ==
  /\ psch_dsa' = TRUE
  /\ refcnt' = IF psch_dsa THEN refcnt ELSE refcnt + 1
  /\ exit_hook' = TRUE
  /\ callbacks' =
       IF psch_dsa \/ exit_hook THEN callbacks ELSE Append(callbacks, "detach")

(* The area is needed only if an event has a string and the ring has room. *)
MaybeGetArea == GetArea \/ UNCHANGED <<area, callbacks>>

(* Backends, the worker and another session                                *)
Around ==
  /\ \/ (OtherLocks \/ OtherUnlocks \/ Drain) /\ UNCHANGED names
     \/ DropRole /\ UNCHANGED vars
  /\ UNCHANGED session

(* What begins while no call is in progress: statements run inside         *)
(* transactions, messages come up anywhere.                                *)
Starts ==
  /\ phase = "up"
  /\ Idle
  /\ \/ in_txn /\ Report /\ ResolveNames
     \/ Message /\ UNCHANGED names
     \/ (BeginTxn \/ SetRole) /\ UNCHANGED vars
     \/ EndTxn /\ IF batched = 0 THEN UNCHANGED vars ELSE TxnEnd
  /\ UNCHANGED session

(* The steps of LogCapture that touch neither the area nor a callback list *)
Steps ==
  /\ \/ Capture /\ ResolveNames
     \/ phase = "up" /\ CaptureThrows /\ UNCHANGED names
     \/ /\ \/ EndCapture \/ Overflow \/ Warn \/ Warned \/ Dropped
           \/ TryLock \/ WaitForLock \/ Lock \/ WarnLocked \/ Unlock
           \/ AddToFull \/ Unwind \/ Abort
           \/ phase = "up" /\ Cancel
        /\ UNCHANGED names
  /\ UNCHANGED session

SessionEnqueue ==
  /\ Enqueue
  /\ MaybeGetArea
  /\ UNCHANGED <<batch_init, phase, exit_message, names>>

SessionEnqueueThrows ==
  /\ phase = "up"
  /\ EnqueueThrows
  /\ MaybeGetArea
  /\ UNCHANGED <<batch_init, phase, exit_message, names>>

(* PschLocalBatchInit, the first time                                      *)
SessionAdd ==
  /\ Add
  /\ batch_init' = TRUE
  /\ callbacks' = IF batch_init THEN callbacks ELSE Append(callbacks, "flush")
  /\ UNCHANGED <<area, phase, exit_message, names>>

-----------------------------------------------------------------------------
(* The client leaves, or the backend is terminated between two calls.      *)
StartExit ==
  /\ phase = "up"
  /\ Idle
  /\ phase' = "exiting"
  /\ callbacks' = Append(callbacks, "abort")
  /\ UNCHANGED <<vars, area, batch_init, exit_message, names>>

(* It is terminated where the overflow warning checks for interrupts: the  *)
(* calls in progress are never returned to.                                *)
Terminate ==
  /\ phase = "up"
  /\ \E fn \in QueueCalls : At(fn, "warned")
  /\ stack[1].fn # "PschEnqueueBatch"
  /\ stack' = <<>>
  /\ cancelled' = TRUE
  /\ phase' = "exiting"
  /\ callbacks' = Append(callbacks, "abort")
  /\ UNCHANGED <<disable_error_capture, throwing, lock, full, batched, area,
                 batch_init, exit_message, names>>

(* shmem_exit takes the last callback off the list before it calls it.     *)
NextIs(name) ==
  /\ phase = "exiting"
  /\ Idle
  /\ callbacks # <<>>
  /\ Last(callbacks) = name

(* Variant: psch_dsa_exit_hook_registered stays set.                       *)
DetachKeepsFlag ==
  /\ NextIs("detach")
  /\ psch_dsa' = FALSE
  /\ refcnt' = refcnt - 1
  /\ callbacks' = Front(callbacks)
  /\ UNCHANGED <<vars, exit_hook, batch_init, phase, exit_message, names>>

(* PschDsaDetachOnExit                                                     *)
Detach ==
  /\ NextIs("detach")
  /\ psch_dsa' = FALSE
  /\ refcnt' = refcnt - 1
  /\ exit_hook' = FALSE
  /\ callbacks' = Front(callbacks)
  /\ UNCHANGED <<vars, batch_init, phase, exit_message, names>>

(* Variant: local_batch_count is cleared once the batch is enqueued.       *)
LocalBatchFlushClearsLast ==
  /\ IF batched # 0
       THEN Call("PschEnqueueBatch", stack)
       ELSE UNCHANGED <<disable_error_capture, stack>>
  /\ UNCHANGED <<throwing, full, batched, cancelled>>

(* PschLocalBatchFlush: the count is cleared, then the batch is enqueued.  *)
LocalBatchFlush ==
  /\ IF batched # 0
       THEN Call("PschEnqueueBatch", stack)
       ELSE UNCHANGED <<disable_error_capture, stack>>
  /\ batched' = 0
  /\ UNCHANGED <<throwing, full, cancelled>>

Released == IF lock = "self" THEN "free" ELSE lock

(* If a transaction is open it is aborted: LWLockReleaseAll, and then      *)
(* PschXactCallback.                                                       *)
AbortAtExit ==
  /\ NextIs("abort")
  /\ IF in_txn THEN LocalBatchFlush /\ lock' = Released
               ELSE UNCHANGED vars
  /\ callbacks' = Front(callbacks)
  /\ UNCHANGED <<area, batch_init, phase, exit_message, names>>

(* PschLocalBatchShutdown                                                  *)
FlushAtExit ==
  /\ NextIs("flush")
  /\ LocalBatchFlush
  /\ callbacks' = Front(callbacks)
  /\ UNCHANGED lock
  /\ UNCHANGED <<area, batch_init, phase, exit_message, names>>

(* One of the other callbacks logs something.                              *)
MessageAtExit ==
  /\ phase = "exiting"
  /\ exit_message = "none"
  /\ exit_message' = "raised"
  /\ Message
  /\ UNCHANGED <<area, batch_init, callbacks, phase, names>>

(* An error in a callback: what is on the stack is left as it is.          *)
FatalAtExit ==
  /\ phase = "exiting"
  /\ \/ At("PschEmitLogHook", "capture")
     \/ \E fn \in QueueCalls : At(fn, "locked")
  /\ MaybeGetArea
  /\ stack' = <<>>
  /\ cancelled' = TRUE
  /\ exit_message' = IF Head(stack).fn = "PschEmitLogHook" THEN "failed" ELSE exit_message
  /\ UNCHANGED <<disable_error_capture, throwing, lock, full, batched, batch_init,
                 phase, names>>

Gone ==
  /\ phase = "exiting"
  /\ Idle
  /\ callbacks = <<>>
  /\ phase' = "gone"
  /\ lock' = Released
  /\ UNCHANGED <<disable_error_capture, stack, throwing, full, batched, cancelled,
                 area, batch_init, callbacks, exit_message, names>>

-----------------------------------------------------------------------------
Runs ==
  Steps \/ SessionEnqueue \/ SessionEnqueueThrows \/ SessionAdd \/ FatalAtExit

InExit == Detach \/ AbortAtExit \/ FlushAtExit \/ Gone

SessionNext ==
  \/ Around \/ Starts \/ StartExit \/ Terminate \/ MessageAtExit
  \/ Steps \/ SessionEnqueue \/ SessionEnqueueThrows \/ SessionAdd \/ FatalAtExit
  \/ Detach \/ AbortAtExit \/ FlushAtExit \/ Gone

SessionSpec == SessionInit /\ [][SessionNext]_all

(* The backend runs, also while it exits; LWLocks are handed over to       *)
(* whoever waits, and nobody else keeps the lock.                          *)
FairSessionSpec ==
  /\ SessionSpec
  /\ WF_all(Runs)
  /\ WF_all(InExit)
  /\ SF_all(Lock /\ UNCHANGED <<session, names>>)
  /\ WF_all(OtherUnlocks /\ UNCHANGED <<session, names>>)

-----------------------------------------------------------------------------
(* Properties.                                                             *)

SessionTypeOK ==
  /\ refcnt \in Nat
  /\ psch_dsa \in BOOLEAN
  /\ exit_hook \in BOOLEAN
  /\ batch_init \in BOOLEAN
  /\ callbacks \in Seq({"detach", "flush", "abort"})
  /\ phase \in {"up", "exiting", "gone"}
  /\ exit_message \in {"none", "raised", "failed"}

(* The backend has one reference on the area while it has a handle, and    *)
(* none otherwise, in every order of registration, re-attachment and       *)
(* errors at exit; when it is gone it has left none behind, nor an event   *)
(* in its batch, other than one captured after the batch's last flush.     *)
AttachmentsCounted ==
  /\ SessionTypeOK
  /\ refcnt = IF psch_dsa THEN 1 ELSE 0
  /\ phase = "gone" => ~psch_dsa /\ (batched = 0 \/ exit_message # "none")

(* An event built inside a transaction names the user that its userid      *)
(* says, if that role still exists: whatever roles were set or put back    *)
(* since, inside transactions that were aborted too, and whatever messages *)
(* were captured between transactions, where no name can be looked up.     *)
EventNamesItsUser ==
  [][(Report \/ Capture) /\ in_txn /\ userid \notin dropped
       => initialized' /\ username' = userid]_all

(* An error while the message of another exit callback is captured in the  *)
(* locked section: PostgreSQL may then go on to the flush with the lock    *)
(* still held.  What follows is claimed for everything else.               *)
CaptureFailedAtExit == exit_message = "failed"

(* The backend never waits for the queue lock it has: no message or error  *)
(* raised while the queue is locked leads back into the queue, nor does an *)
(* exit that starts over after a FATAL error in the locked section.        *)
NoSelfDeadlock ==
  lock = "self" /\ ~CaptureFailedAtExit =>
    \A i \in DOMAIN stack : stack[i].at # "lock"

(* A call into the queue comes back, by returning, by throwing or, while   *)
(* the backend exits, by exiting on.                                       *)
CallsReturn == stack # <<>> ~> stack = <<>> \/ CaptureFailedAtExit

(* A backend that exits gets to the end of its list, although callbacks    *)
(* may put others on it while it is being worked off, and although an      *)
(* error in one may leave the queue locked for those that follow.          *)
ExitCompletes == phase = "exiting" ~> phase = "gone" \/ CaptureFailedAtExit
=============================================================================
