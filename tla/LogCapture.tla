----------------------------- MODULE LogCapture -----------------------------
(***************************************************************************)
(* How one backend's calls into the queue and its emit_log_hook call one   *)
(* another (src/src/hooks/hooks.c, src/src/queue/shmem.c): enqueuing may   *)
(* log or throw, logging calls the hook, the hook captures the message by  *)
(* enqueuing an event.  disable_error_capture cuts the recursion.          *)
(*                                                                         *)
(* The stack of calls is explicit.  An error being thrown takes frames off *)
(* it until one catches it.  errfinish is external: it calls the hook for  *)
(* every report, then longjmps for an ERROR and, for a lesser one, checks  *)
(* for interrupts, which are held off while an LWLock is held.             *)
(***************************************************************************)
EXTENDS Integers, Sequences

CONSTANT BatchCapacity   \* PSCH_LOCAL_BATCH_CAPACITY

ASSUME CaptureAssumption == BatchCapacity \in Nat \ {0}

VARIABLES
  disable_error_capture,
  stack,      \* frames [fn, at, saved], innermost last
  throwing,   \* is an error on its way up?
  lock,       \* who has the queue's LWLock: "free", "self", "other"
  full,       \* is the ring full?
  batched,    \* local_batch_count
  cancelled   \* history: has control left a call without a return or an error?

vars == <<disable_error_capture, stack, throwing, lock, full, batched, cancelled>>

Init ==
  /\ disable_error_capture = FALSE
  /\ stack = <<>>
  /\ throwing = FALSE
  /\ lock = "free"
  /\ full \in BOOLEAN
  /\ batched = 0
  /\ cancelled = FALSE

-----------------------------------------------------------------------------
Last(s) == s[Len(s)]
Front(s) == SubSeq(s, 1, Len(s) - 1)

Top == Last(stack)
Idle == stack = <<>> /\ ~throwing
At(fn, at) == stack # <<>> /\ ~throwing /\ Top.fn = fn /\ Top.at = at

GoTo(at) == stack' = Front(stack) \o <<[Top EXCEPT !.at = at]>>
Pop == stack' = Front(stack)
Frame(fn, at) == [fn |-> fn, at |-> at, saved |-> disable_error_capture]

(* Variant: the queue is called with capture enabled.                      *)
CallUnguarded(fn, frames) ==
  /\ stack' = Append(frames, Frame(fn, "check"))
  /\ UNCHANGED disable_error_capture

(* Calling into the queue: PschSuppressErrorCapture(true).                 *)
Call(fn, frames) ==
  /\ stack' = Append(frames, Frame(fn, "check"))
  /\ disable_error_capture' = TRUE

(* errfinish calls PschEmitLogHook: nothing if ShouldCaptureLog says no,   *)
(* else the capture begins.                                                *)
EmitLog(frames) ==
  IF disable_error_capture
    THEN stack' = frames /\ UNCHANGED disable_error_capture
    ELSE /\ stack' = Append(frames, Frame("PschEmitLogHook", "capture"))
         /\ disable_error_capture' = TRUE

-----------------------------------------------------------------------------
(* Everybody else.                                                         *)

OtherLocks ==
  /\ lock = "free"
  /\ lock' = "other"
  /\ UNCHANGED <<disable_error_capture, stack, throwing, full, batched, cancelled>>

OtherUnlocks ==
  /\ lock = "other"
  /\ lock' = "free"
  /\ full' \in BOOLEAN
  /\ UNCHANGED <<disable_error_capture, stack, throwing, batched, cancelled>>

(* The worker makes room.                                                  *)
Drain ==
  /\ full
  /\ full' = FALSE
  /\ UNCHANGED <<disable_error_capture, stack, throwing, lock, batched, cancelled>>

-----------------------------------------------------------------------------
(* The backend, outside the extension.                                     *)

(* ExecutorEnd or ProcessUtility has an event.                             *)
Report ==
  /\ Idle
  /\ Call("PschEnqueueEvent", stack)
  /\ UNCHANGED <<throwing, lock, full, batched, cancelled>>

(* Somebody reports an error or a message worth capturing.                 *)
Message ==
  /\ Idle
  /\ EmitLog(stack)
  /\ UNCHANGED <<throwing, lock, full, batched, cancelled>>

(* PschXactCallback: PschLocalBatchFlush                                   *)
TxnEnd ==
  /\ Idle
  /\ batched # 0
  /\ batched' = 0
  /\ Call("PschEnqueueBatch", stack)
  /\ UNCHANGED <<throwing, lock, full, cancelled>>

-----------------------------------------------------------------------------
(* The hook.                                                               *)

(* CaptureLogEvent resolves names, which may throw, and enqueues.          *)
CaptureThrows ==
  /\ At("PschEmitLogHook", "capture")
  /\ EmitLog(stack)
  /\ throwing' = TRUE
  /\ UNCHANGED <<lock, full, batched, cancelled>>

Capture ==
  /\ At("PschEmitLogHook", "capture")
  /\ Call("PschEnqueueEvent", Front(stack) \o <<[Top EXCEPT !.at = "captured"]>>)
  /\ UNCHANGED <<throwing, lock, full, batched, cancelled>>

EndCapture ==
  /\ At("PschEmitLogHook", "captured")
  /\ Pop
  /\ disable_error_capture' = FALSE
  /\ UNCHANGED <<throwing, lock, full, batched, cancelled>>

-----------------------------------------------------------------------------
(* PschEnqueueEvent and PschEnqueueBatch.                                  *)

QueueCalls == {"PschEnqueueEvent", "PschEnqueueBatch"}

Restore == disable_error_capture' = Top.saved

(* Variant: the call waits for room.                                       *)
OverflowWaits ==
  /\ \E fn \in QueueCalls : At(fn, "check")
  /\ full
  /\ UNCHANGED vars

(* The ring is full: HandleOverflow, which may have to warn.               *)
Overflow ==
  /\ \E fn \in QueueCalls : At(fn, "check")
  /\ full
  /\ GoTo("dropped") \/ GoTo("warn")
  /\ UNCHANGED <<disable_error_capture, throwing, lock, full, batched, cancelled>>

Warn ==
  /\ \E fn \in QueueCalls : At(fn, "warn")
  /\ EmitLog(Front(stack) \o <<[Top EXCEPT !.at = "warned"]>>)
  /\ UNCHANGED <<throwing, lock, full, batched, cancelled>>

(* The end of errfinish: CHECK_FOR_INTERRUPTS.  Interrupts are held off    *)
(* while a transaction ends, as they are under an LWLock.                  *)
Warned ==
  /\ \E fn \in QueueCalls : At(fn, "warned")
  /\ GoTo("dropped")
  /\ UNCHANGED <<disable_error_capture, throwing, lock, full, batched, cancelled>>

Cancel ==
  /\ \E fn \in QueueCalls : At(fn, "warned")
  /\ stack[1].fn # "PschEnqueueBatch"
  /\ throwing' = TRUE
  /\ cancelled' = TRUE
  /\ UNCHANGED <<disable_error_capture, stack, lock, full, batched>>

Dropped ==
  /\ \E fn \in QueueCalls : At(fn, "dropped")
  /\ Restore
  /\ Pop
  /\ UNCHANGED <<throwing, lock, full, batched, cancelled>>

(* LWLockConditionalAcquire                                                *)
TryLock ==
  /\ At("PschEnqueueEvent", "check")
  /\ ~full
  /\ IF lock = "free"
       THEN lock' = "self" /\ GoTo("locked") /\ UNCHANGED disable_error_capture
       ELSE UNCHANGED lock /\ GoTo("add") /\ Restore
  /\ UNCHANGED <<throwing, full, batched, cancelled>>

(* LWLockAcquire                                                           *)
WaitForLock ==
  /\ At("PschEnqueueBatch", "check")
  /\ ~full
  /\ GoTo("lock")
  /\ UNCHANGED <<disable_error_capture, throwing, lock, full, batched, cancelled>>

Lock ==
  /\ At("PschEnqueueBatch", "lock")
  /\ lock = "free"
  /\ lock' = "self"
  /\ GoTo("locked")
  /\ UNCHANGED <<disable_error_capture, throwing, full, batched, cancelled>>

(* TryEnqueueLocked: the event goes in, or it is dropped with a warning.   *)
Enqueue ==
  /\ \E fn \in QueueCalls : At(fn, "locked")
  /\ full' \in BOOLEAN
  /\ GoTo("unlock")
  /\ UNCHANGED <<disable_error_capture, throwing, lock, batched, cancelled>>

WarnLocked ==
  /\ \E fn \in QueueCalls : At(fn, "locked")
  /\ full
  /\ EmitLog(Front(stack) \o <<[Top EXCEPT !.at = "unlock"]>>)
  /\ UNCHANGED <<throwing, lock, full, batched, cancelled>>

(* ... or an error is thrown in there: it is reported before the longjmp.  *)
EnqueueThrows ==
  /\ \E fn \in QueueCalls : At(fn, "locked")
  /\ EmitLog(Front(stack) \o <<[Top EXCEPT !.at = "unlock"]>>)
  /\ throwing' = TRUE
  /\ UNCHANGED <<lock, full, batched, cancelled>>

(* PG_FINALLY, without an error                                            *)
Unlock ==
  /\ \E fn \in QueueCalls : At(fn, "unlock")
  /\ lock' = "free"
  /\ Restore
  /\ Pop
  /\ UNCHANGED <<throwing, full, batched, cancelled>>

(* PschLocalBatchAdd: flush first if the batch is full.                    *)
Add ==
  /\ At("PschEnqueueEvent", "add")
  /\ batched < BatchCapacity
  /\ batched' = batched + 1
  /\ Pop
  /\ UNCHANGED <<disable_error_capture, throwing, lock, full, cancelled>>

AddToFull ==
  /\ At("PschEnqueueEvent", "add")
  /\ batched >= BatchCapacity
  /\ batched' = 0
  /\ Call("PschEnqueueBatch", stack)
  /\ UNCHANGED <<throwing, lock, full, cancelled>>

-----------------------------------------------------------------------------
(* Variant: PG_FINALLY releases the lock and leaves capture disabled.      *)
UnwindKeepsGuard ==
  /\ throwing
  /\ stack # <<>>
  /\ Pop
  /\ throwing' = (Top.fn # "PschEmitLogHook")
  /\ lock' = IF Top.at = "unlock" THEN "free" ELSE lock
  /\ disable_error_capture' =
       IF Top.fn = "PschEmitLogHook" THEN FALSE ELSE disable_error_capture
  /\ UNCHANGED <<full, batched, cancelled>>

(* An error on its way up: PG_FINALLY of the locked section, PG_CATCH of   *)
(* the hook, nothing elsewhere; in the end the transaction aborts.         *)
Unwind ==
  /\ throwing
  /\ stack # <<>>
  /\ Pop
  /\ throwing' = (Top.fn # "PschEmitLogHook")
  /\ lock' = IF Top.at = "unlock" THEN "free" ELSE lock
  /\ disable_error_capture' =
       CASE Top.at = "unlock" -> Top.saved
         [] Top.fn = "PschEmitLogHook" -> FALSE
         [] OTHER -> disable_error_capture
  /\ UNCHANGED <<full, batched, cancelled>>

Abort ==
  /\ throwing
  /\ stack = <<>>
  /\ throwing' = FALSE
  /\ UNCHANGED <<disable_error_capture, stack, lock, full, batched, cancelled>>

-----------------------------------------------------------------------------
Self ==
  \/ CaptureThrows \/ Capture \/ EndCapture
  \/ Overflow \/ Warn \/ Warned \/ Cancel \/ Dropped
  \/ TryLock \/ WaitForLock \/ Lock
  \/ Enqueue \/ WarnLocked \/ EnqueueThrows \/ Unlock
  \/ Add \/ AddToFull
  \/ Unwind \/ Abort

Next ==
  \/ OtherLocks \/ OtherUnlocks \/ Drain
  \/ Report \/ Message \/ TxnEnd
  \/ Self

Spec == Init /\ [][Next]_vars

(* The backend runs, LWLocks are handed over to whoever waits, and nobody  *)
(* keeps the lock.                                                         *)
FairSpec ==
  Spec /\ WF_vars(Self) /\ SF_vars(Lock) /\ WF_vars(OtherUnlocks)

-----------------------------------------------------------------------------
(* Properties.                                                             *)

Frames ==
  [fn : QueueCalls \cup {"PschEmitLogHook"},
   at : {"check", "warn", "warned", "dropped", "locked", "unlock", "lock", "add",
         "capture", "captured"},
   saved : BOOLEAN]

TypeOK ==
  /\ disable_error_capture \in BOOLEAN
  /\ stack \in Seq(Frames)
  /\ throwing \in BOOLEAN
  /\ lock \in {"free", "self", "other"}
  /\ full \in BOOLEAN
  /\ batched \in 0..BatchCapacity
  /\ cancelled \in BOOLEAN

(* hooks.c and shmem.c: capture is not left disabled for the rest of the   *)
(* backend's lifetime, whichever way a call ends.                          *)
CaptureEnabledWhenIdle == Idle => ~disable_error_capture

(* So it is, unless a query is cancelled inside the extension: PG_FINALLY  *)
(* of the locked sections, PG_CATCH of the hook and the returns without an *)
(* error all give back the guard they found.                               *)
CaptureRestored ==
  TypeOK /\ (Idle /\ ~cancelled => ~disable_error_capture)
=============================================================================
