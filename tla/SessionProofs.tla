--------------------------- MODULE SessionProofs ----------------------------
(***************************************************************************)
(* Proofs about Session and LogCapture, for every BatchCapacity and every  *)
(* set of roles.                                                           *)
(*                                                                         *)
(* What makes them go through is the shape of the stack of calls: capture  *)
(* is disabled whenever one of the extension's functions could log, so the *)
(* hook is only ever entered from outside, and a call of PschEnqueueBatch  *)
(* calls nothing.  All else says who owns the queue lock, what is left on  *)
(* the list of exit callbacks, and what the cached name is the name of.    *)
(***************************************************************************)
EXTENDS Session, TLAPS

Hook == "PschEmitLogHook"

(* Frame g is directly on top of f: the hook captures a message, or an     *)
(* event goes to a full local batch.                                       *)
Over(f, g) ==
  IF f.fn = Hook
    THEN f.at = "captured" /\ g.fn = "PschEnqueueEvent" /\ g.saved
    ELSE /\ f.fn = "PschEnqueueEvent"
         /\ f.at = "add"
         /\ g.fn = "PschEnqueueBatch"
         /\ g.saved = f.saved

(* The hook is the outermost call or not there, and found capture enabled. *)
Outermost(f, i) == f.fn = Hook => i = 1 /\ ~f.saved

AtHook == {"capture", "captured"}

Chained(s) ==
  \A i \in 1..Len(s) :
    /\ Outermost(s[i], i)
    /\ s[i].fn = Hook <=> s[i].at \in AtHook
    /\ i > 1 => Over(s[i - 1], s[i])

(* The guard, for a stack: a call has it set until it gives it back.       *)
GuardOf(f) == IF f.at = "add" THEN f.saved ELSE TRUE

Guarded ==
  /\ stack # <<>> /\ ~(throwing /\ cancelled) => disable_error_capture = GuardOf(Last(stack))
  /\ ~cancelled => IF stack = <<>> THEN ~disable_error_capture ELSE ~stack[1].saved
  /\ throwing /\ stack # <<>> =>
       \/ Last(stack).at \in {"unlock", "capture", "captured", "add"}
       \/ Last(stack).at = "warned" /\ cancelled

CallStack ==
  /\ disable_error_capture \in BOOLEAN
  /\ stack \in Seq(Frames)
  /\ throwing \in BOOLEAN
  /\ cancelled \in BOOLEAN
  /\ Chained(stack)
  /\ Guarded

InSection(f) == f.at \in {"locked", "unlock"}

(* Who has the lock is in the locked section, or was there when an error   *)
(* made the exit start over: with capture disabled and nothing to flush.   *)
Owned ==
  lock = "self" /\ ~CaptureFailedAtExit =>
    \/ stack # <<>> /\ InSection(Last(stack))
    \/ stack = <<>> /\ phase # "up" /\ disable_error_capture /\ batched = 0

(* A call in progress during the exit is a flush or captures a message.    *)
AtExit ==
  /\ phase = "gone" => stack = <<>>
  /\ phase # "up" =>
       /\ ~throwing
       /\ \/ stack = <<>>
          \/ stack[1].fn = Hook /\ exit_message # "none"
          \/ stack[1].fn = "PschEnqueueBatch" /\ batched = 0

Listed(name) == \E i \in 1..Len(callbacks) : callbacks[i] = name

DetachOnce ==
  \A i, j \in 1..Len(callbacks) :
    callbacks[i] = "detach" /\ callbacks[j] = "detach" => i = j

(* The detach callback is on the list, once, while there is a handle; the  *)
(* flush callback, until it runs, from the first event in the batch on.    *)
Registered ==
  /\ exit_hook = psch_dsa
  /\ refcnt = IF psch_dsa THEN 1 ELSE 0
  /\ psch_dsa <=> Listed("detach")
  /\ DetachOnce
  /\ batched # 0 => batch_init
  /\ phase = "up" /\ batch_init => Listed("flush")
  /\ phase # "gone" /\ exit_message = "none" /\ batched # 0 => Listed("flush")
  /\ phase = "gone" => callbacks = <<>> /\ (batched = 0 \/ exit_message # "none")

(* The cached name is that of the cached user, or there was none.          *)
NameCached == initialized => username = cached_userid \/ cached_userid \in dropped

CallsInv == TypeOK /\ CallStack /\ Owned /\ AtExit

IInv == CallsInv /\ SessionTypeOK /\ Registered /\ NameCached


-----------------------------------------------------------------------------
(* What is left of a sequence when its last element is taken off.          *)
LEMMA FrontIs ==
  ASSUME NEW S, NEW s \in Seq(S), s # <<>>
  PROVE  /\ Front(s) \in Seq(S)
         /\ Len(Front(s)) = Len(s) - 1
         /\ \A i \in 1..(Len(s) - 1) : Front(s)[i] = s[i]
<1>1. Len(s) \in Nat \ {0} /\ \A i \in 1..(Len(s) - 1) : s[i] \in S
  OBVIOUS
<1> DEFINE n == Len(s) - 1
<1>2. n \in Nat /\ 1 \in Int /\ n \in Int
  BY <1>1
<1> HIDE DEF n
<1>3. /\ SubSeq(s, 1, n) \in Seq(S)
      /\ Len(SubSeq(s, 1, n)) = IF 1 <= n THEN n - 1 + 1 ELSE 0
      /\ \A i \in 1..(n - 1 + 1) : SubSeq(s, 1, n)[i] = s[1 + i - 1]
  BY <1>1, <1>2 DEF n
<1>4. /\ SubSeq(s, 1, n) \in Seq(S)
      /\ Len(SubSeq(s, 1, n)) = n
      /\ \A i \in 1..n : SubSeq(s, 1, n)[i] = s[i]
  BY <1>2, <1>3
<1> QED
  BY <1>4, Zenon DEF n, Front

(* The stack.  Its last frame goes to another place, ...                   *)
LEMMA Replaced ==
  ASSUME NEW s \in Seq(Frames), s # <<>>, Chained(s), NEW f \in Frames,
         f.fn = Last(s).fn, f.saved = Last(s).saved,
         f.fn = Hook <=> f.at \in AtHook
  PROVE  LET t == Front(s) \o <<f>>
         IN  /\ t \in Seq(Frames) /\ Len(t) = Len(s) /\ Last(t) = f /\ t # <<>>
             /\ t[1].fn = s[1].fn /\ t[1].saved = s[1].saved
             /\ Chained(t)
<1> DEFINE t == Front(s) \o <<f>>
<1>0. Len(s) \in Nat \ {0}
  OBVIOUS
<1>1. Front(s) \in Seq(Frames) /\ Len(Front(s)) = Len(s) - 1
      /\ \A i \in 1..(Len(s) - 1) : Front(s)[i] = s[i]
  BY <1>0, FrontIs, Zenon
<1>2. t \in Seq(Frames) /\ Len(t) = Len(s) /\ t[Len(s)] = f
      /\ \A i \in 1..(Len(s) - 1) : t[i] = s[i]
  BY <1>0, <1>1
<1>3. Last(t) = f /\ t # <<>> /\ Last(s) = s[Len(s)]
  BY <1>0, <1>2, Zenon DEF Last
<1>4. t[1].fn = s[1].fn /\ t[1].saved = s[1].saved
  BY <1>0, <1>2, <1>3
<1>5. ASSUME NEW i \in 1..Len(t)
      PROVE  /\ Outermost(t[i], i)
             /\ t[i].fn = Hook <=> t[i].at \in AtHook
             /\ i > 1 => Over(t[i - 1], t[i])
  <2>1. /\ Outermost(s[i], i)
        /\ s[i].fn = Hook <=> s[i].at \in AtHook
        /\ i > 1 => Over(s[i - 1], s[i])
    BY <1>2, <1>5, Zenon DEF Chained
  <2>2. t[i].fn = s[i].fn /\ t[i].saved = s[i].saved
        /\ (t[i].fn = Hook <=> t[i].at \in AtHook)
    BY <1>0, <1>2, <1>3, <1>5, <2>1
  <2>3. i > 1 => t[i - 1] = s[i - 1]
    BY <1>0, <1>2, <1>5
  <2> QED
    BY <2>1, <2>2, <2>3, Zenon DEF Outermost, Over
<1> QED
  BY <1>2, <1>3, <1>4, <1>5, Zenon DEF Chained

(* ... comes off, ...                                                      *)
LEMMA Popped ==
  ASSUME NEW s \in Seq(Frames), s # <<>>, Chained(s)
  PROVE  /\ Front(s) \in Seq(Frames) /\ Len(Front(s)) = Len(s) - 1
         /\ Chained(Front(s))
         /\ Front(s) = <<>> => s[1] = Last(s)
         /\ Front(s) # <<>> =>
              /\ Front(s)[1] = s[1]
              /\ Over(Last(Front(s)), Last(s))
              /\ Last(s).fn # Hook
<1>0. Len(s) \in Nat \ {0}
  OBVIOUS
<1>1. Front(s) \in Seq(Frames) /\ Len(Front(s)) = Len(s) - 1
      /\ \A i \in 1..(Len(s) - 1) : Front(s)[i] = s[i]
  BY <1>0, FrontIs, Zenon
<1>2. Chained(Front(s))
  BY <1>0, <1>1 DEF Chained
<1>3. ASSUME Front(s) = <<>>
      PROVE  s[1] = Last(s)
  <2>1. Len(Front(s)) = 0
    BY <1>3
  <2>2. Len(s) = 1
    BY <1>0, <1>1, <2>1
  <2> QED
    BY <2>2, Zenon DEF Last
<1>4. ASSUME Front(s) # <<>>
      PROVE  /\ Front(s)[1] = s[1]
             /\ Over(Last(Front(s)), Last(s))
             /\ Last(s).fn # Hook
  <2>1. Len(Front(s)) # 0
    BY <1>1, <1>4
  <2>2. Len(s) \in 1..Len(s) /\ Len(s) > 1
    BY <1>0, <1>1, <2>1
  <2>3. Over(s[Len(s) - 1], s[Len(s)]) /\ Outermost(s[Len(s)], Len(s))
    BY <2>2, Zenon DEF Chained
  <2>4. Last(Front(s)) = s[Len(s) - 1] /\ Front(s)[1] = s[1]
    BY <1>0, <1>1, <2>2 DEF Last
  <2> QED
    BY <2>2, <2>3, <2>4 DEF Last, Outermost
<1> QED
  BY <1>1, <1>2, <1>3, <1>4, Zenon

(* ... or another one goes on top of it.                                   *)
LEMMA Pushed ==
  ASSUME NEW s \in Seq(Frames), Chained(s), NEW f \in Frames,
         f.fn = Hook <=> f.at \in AtHook,
         \/ s = <<>> /\ (f.fn = Hook => ~f.saved)
         \/ s # <<>> /\ Over(Last(s), f) /\ f.fn # Hook
  PROVE  LET t == Append(s, f)
         IN  /\ t \in Seq(Frames) /\ Len(t) = Len(s) + 1 /\ Last(t) = f /\ t # <<>>
             /\ t[1] = IF s = <<>> THEN f ELSE s[1]
             /\ Chained(t)
<1> DEFINE t == Append(s, f)
<1>0. Len(s) \in Nat /\ (s # <<>> <=> Len(s) # 0)
  OBVIOUS
<1>1. t \in Seq(Frames) /\ Len(t) = Len(s) + 1 /\ t[Len(s) + 1] = f
      /\ \A i \in 1..Len(s) : t[i] = s[i]
  BY <1>0
<1>2. Last(t) = f /\ t # <<>>
  BY <1>0, <1>1 DEF Last
<1>3. t[1] = IF s = <<>> THEN f ELSE s[1]
  BY <1>0, <1>1
<1>4. ASSUME NEW i \in 1..Len(t)
      PROVE  /\ Outermost(t[i], i)
             /\ t[i].fn = Hook <=> t[i].at \in AtHook
             /\ i > 1 => Over(t[i - 1], t[i])
  <2>1. CASE i =< Len(s)
    BY <1>0, <1>1, <1>4, <2>1 DEF Chained
  <2>2. CASE i = Len(s) + 1
    <3>1. t[i] = f /\ (i > 1 => t[i - 1] = Last(s) /\ s # <<>>)
      BY <1>0, <1>1, <2>2 DEF Last
    <3>2. s = <<>> => i = 1
      BY <1>0, <2>2
    <3> QED
      BY <3>1, <3>2, Zenon DEF Outermost
  <2> QED
    BY <1>0, <1>1, <1>4, <2>1, <2>2
<1> QED
  BY <1>1, <1>2, <1>3, <1>4, Zenon DEF Chained

-----------------------------------------------------------------------------
(* The calls.  One in progress has the guard set until it gives it back.   *)
LEMMA InCall ==
  ASSUME CallStack, stack # <<>>, ~throwing
  PROVE  Last(stack) \in Frames /\ disable_error_capture = GuardOf(Last(stack))
<1>1. Len(stack) \in 1..Len(stack)
  BY DEF CallStack
<1>2. Last(stack) \in Frames
  BY <1>1 DEF CallStack, Last
<1> QED
  BY <1>2, Zenon DEF CallStack, Guarded

QueuePlaces == {"warn", "warned", "dropped", "locked", "unlock", "lock", "add"}

(* A call that goes on.                                                    *)
LEMMA CallMoves ==
  ASSUME CallStack, NEW fn \in QueueCalls, NEW at, At(fn, at),
         NEW to \in QueuePlaces, GoTo(to),
         disable_error_capture' = IF to = "add" THEN Last(stack).saved ELSE TRUE,
         throwing' \in BOOLEAN, throwing' => to = "unlock",
         UNCHANGED cancelled
  PROVE  /\ CallStack'
         /\ stack' # <<>>
         /\ stack'[1].fn = stack[1].fn
         /\ Last(stack').at = to
<1> DEFINE f == [Last(stack) EXCEPT !.at = to]
<1>1. stack # <<>> /\ Last(stack) \in Frames /\ Last(stack).fn = fn
  BY InCall, Zenon DEF At, Top
<1>2. f \in Frames /\ f.fn = Last(stack).fn /\ f.saved = Last(stack).saved /\ f.at = to
  BY <1>1, Zenon DEF Frames, QueuePlaces
<1>3. f.fn = Hook <=> f.at \in AtHook
  BY <1>1, <1>2, Zenon DEF QueuePlaces, QueueCalls, AtHook, Hook
<1>4. stack \in Seq(Frames) /\ Chained(stack)
  BY Zenon DEF CallStack
<1>5. stack' = Front(stack) \o <<f>>
  BY Zenon DEF GoTo, Top
<1> HIDE DEF f
<1>6. /\ stack' \in Seq(Frames) /\ Last(stack') = f /\ stack' # <<>>
      /\ stack'[1].fn = stack[1].fn /\ stack'[1].saved = stack[1].saved
      /\ Chained(stack')
  BY <1>1, <1>2, <1>3, <1>4, <1>5, Replaced, Zenon
<1>7. disable_error_capture' \in BOOLEAN
  BY <1>1, Zenon DEF Frames
<1>8. Guarded'
  <2>1. disable_error_capture' = GuardOf(Last(stack'))
    BY <1>2, <1>6, Zenon DEF GuardOf
  <2>2. ~cancelled' => ~stack'[1].saved
    BY <1>1, <1>6, Zenon DEF CallStack, Guarded
  <2>3. throwing' => Last(stack').at = "unlock"
    BY <1>2, <1>6, Zenon
  <2> QED
    BY <1>6, <2>1, <2>2, <2>3, Zenon DEF Guarded
<1> QED
  BY <1>2, <1>6, <1>7, <1>8, Zenon DEF CallStack

(* A call that returns.                                                    *)
LEMMA CallReturns ==
  ASSUME CallStack, NEW fn \in QueueCalls, NEW at, At(fn, at), Pop,
         disable_error_capture' = Last(stack).saved,
         UNCHANGED <<throwing, cancelled>>
  PROVE  /\ CallStack'
         /\ stack' = <<>> => stack[1] = Last(stack)
         /\ stack' # <<>> =>
              /\ stack'[1] = stack[1]
              /\ Last(stack').at \in {"captured", "add"}
<1>1. stack # <<>> /\ ~throwing /\ Last(stack) \in Frames /\ Last(stack).fn = fn
  BY InCall, Zenon DEF At, Top
<1>2. stack \in Seq(Frames) /\ Chained(stack) /\ stack' = Front(stack)
  BY Zenon DEF CallStack, Pop
<1>3. /\ stack' \in Seq(Frames)
      /\ Chained(stack')
      /\ stack' = <<>> => stack[1] = Last(stack)
      /\ stack' # <<>> => stack'[1] = stack[1] /\ Over(Last(stack'), Last(stack))
  BY <1>1, <1>2, Popped, Zenon
<1>4. disable_error_capture' \in BOOLEAN
  BY <1>1, Zenon DEF Frames
<1>5. stack' # <<>> =>
        /\ Last(stack').at \in {"captured", "add"}
        /\ disable_error_capture' = GuardOf(Last(stack'))
  BY <1>3, <1>4, Zenon DEF Over, GuardOf
<1>6. ~cancelled => ~stack[1].saved
  BY <1>1, Zenon DEF CallStack, Guarded
<1>7. Guarded'
  BY <1>1, <1>3, <1>5, <1>6, Zenon DEF Guarded
<1> QED
  BY <1>3, <1>4, <1>5, <1>7, Zenon DEF CallStack

(* A call from outside the extension, ...                                  *)
LEMMA FirstCall ==
  ASSUME CallStack, Idle, NEW fn \in QueueCalls, Call(fn, stack),
         UNCHANGED <<throwing, cancelled>>
  PROVE  /\ CallStack'
         /\ stack' # <<>> /\ stack'[1].fn = fn /\ Last(stack').at = "check"
<1> DEFINE f == Frame(fn, "check")
<1>1. f \in Frames /\ f.fn = fn /\ f.at = "check" /\ f.saved = disable_error_capture
  BY Zenon DEF CallStack, Frame, Frames
<1>2. f.fn # Hook /\ f.at \notin AtHook
  BY <1>1, Zenon DEF QueueCalls, Hook, AtHook
<1>3. stack = <<>> /\ ~throwing /\ stack \in Seq(Frames) /\ Chained(stack)
  BY Zenon DEF CallStack, Idle
<1>4. stack' = Append(stack, f) /\ disable_error_capture' = TRUE
  BY Zenon DEF Call
<1> HIDE DEF f
<1>5. /\ stack' \in Seq(Frames) /\ Last(stack') = f /\ stack' # <<>>
      /\ stack'[1] = f /\ Chained(stack')
  BY <1>1, <1>2, <1>3, <1>4, Pushed, Zenon
<1>6. Guarded'
  BY <1>1, <1>3, <1>4, <1>5, Zenon DEF CallStack, Guarded, GuardOf
<1> QED
  BY <1>1, <1>3, <1>4, <1>5, <1>6, Zenon DEF CallStack

(* ... one of PschLocalBatchAdd, ...                                       *)
LEMMA NestedCall ==
  ASSUME CallStack, At("PschEnqueueEvent", "add"), Call("PschEnqueueBatch", stack),
         UNCHANGED <<throwing, cancelled>>
  PROVE  /\ CallStack'
         /\ stack' # <<>> /\ stack'[1] = stack[1] /\ Last(stack').at = "check"
<1> DEFINE f == Frame("PschEnqueueBatch", "check")
<1>1. f \in Frames /\ f.fn = "PschEnqueueBatch" /\ f.at = "check"
      /\ f.saved = disable_error_capture
  BY Zenon DEF CallStack, Frame, Frames, QueueCalls
<1>2. f.fn # Hook /\ f.at \notin AtHook
  BY <1>1, Zenon DEF Hook, AtHook
<1>3. /\ stack # <<>> /\ ~throwing
      /\ Last(stack).fn = "PschEnqueueEvent" /\ Last(stack).at = "add"
      /\ disable_error_capture = Last(stack).saved
  BY InCall, Zenon DEF At, Top, GuardOf
<1>4. Over(Last(stack), f)
  BY <1>1, <1>3, Zenon DEF Over, Hook
<1>5. stack' = Append(stack, f) /\ disable_error_capture' = TRUE
  BY Zenon DEF Call
<1>6. stack \in Seq(Frames) /\ Chained(stack)
  BY Zenon DEF CallStack
<1> HIDE DEF f
<1>7. /\ stack' \in Seq(Frames) /\ Last(stack') = f /\ stack' # <<>>
      /\ stack'[1] = stack[1] /\ Chained(stack')
  BY <1>1, <1>2, <1>3, <1>4, <1>5, <1>6, Pushed, Zenon
<1>8. Guarded'
  BY <1>1, <1>3, <1>5, <1>7, Zenon DEF CallStack, Guarded, GuardOf
<1> QED
  BY <1>1, <1>3, <1>5, <1>7, <1>8, Zenon DEF CallStack

(* ... and one of the hook.                                                *)
LEMMA CapturingCall ==
  ASSUME CallStack, Capture
  PROVE  /\ CallStack'
         /\ stack' # <<>> /\ stack'[1].fn = stack[1].fn
         /\ Last(stack').fn = "PschEnqueueEvent" /\ Last(stack').at = "check"
         /\ Len(stack') = Len(stack) + 1
<1> DEFINE f == [Last(stack) EXCEPT !.at = "captured"]
           s == Front(stack) \o <<f>>
           g == Frame("PschEnqueueEvent", "check")
<1>1. /\ stack # <<>> /\ ~throwing
      /\ Last(stack) \in Frames /\ Last(stack).fn = Hook
      /\ disable_error_capture = TRUE
  BY InCall, Zenon DEF Capture, At, Top, Hook, GuardOf
<1>2. f \in Frames /\ f.fn = Hook /\ f.saved = Last(stack).saved /\ f.at = "captured"
  BY <1>1, Zenon DEF Frames
<1>3. stack \in Seq(Frames) /\ Chained(stack)
  BY Zenon DEF CallStack
<1>4. g \in Frames /\ g.fn = "PschEnqueueEvent" /\ g.at = "check" /\ g.saved = TRUE
  BY <1>1, Zenon DEF Frame, Frames, QueueCalls
<1>5. stack' = Append(s, g) /\ disable_error_capture' = TRUE
      /\ UNCHANGED <<throwing, cancelled>>
  BY Zenon DEF Capture, Call, Top
<1>6. Over(f, g) /\ g.fn # Hook /\ g.at \notin AtHook /\ f.at \in AtHook
  BY <1>2, <1>4, Zenon DEF Over, Hook, AtHook
<1> HIDE DEF f, g
<1>7. /\ s \in Seq(Frames) /\ Len(s) = Len(stack) /\ Last(s) = f /\ s # <<>>
      /\ s[1].fn = stack[1].fn /\ s[1].saved = stack[1].saved /\ Chained(s)
  BY <1>1, <1>2, <1>3, <1>6, Replaced, Zenon
<1> HIDE DEF s
<1>8. /\ stack' \in Seq(Frames) /\ Len(stack') = Len(s) + 1
      /\ Last(stack') = g /\ stack' # <<>> /\ stack'[1] = s[1] /\ Chained(stack')
  BY <1>4, <1>5, <1>6, <1>7, Pushed, Zenon
<1>9. Guarded'
  BY <1>1, <1>4, <1>5, <1>7, <1>8, Zenon DEF CallStack, Guarded, GuardOf
<1> QED
  BY <1>1, <1>4, <1>5, <1>7, <1>8, <1>9, Zenon DEF CallStack

(* A message: captured if capture is enabled.                              *)
LEMMA MessageCalls ==
  ASSUME CallStack, Message
  PROVE  /\ CallStack'
         /\ disable_error_capture => stack' = stack /\ UNCHANGED disable_error_capture
         /\ ~disable_error_capture =>
              stack' # <<>> /\ stack'[1].fn = Hook /\ Last(stack').at = "capture"
<1>1. stack = <<>> /\ ~throwing /\ UNCHANGED <<throwing, cancelled>> /\ EmitLog(stack)
  BY Zenon DEF Message, Idle
<1>2. stack \in Seq(Frames) /\ Chained(stack)
  BY Zenon DEF CallStack
<1>3. CASE disable_error_capture
  BY <1>1, <1>3, Zenon DEF EmitLog, CallStack, Guarded
<1>4. CASE ~disable_error_capture
  <2> DEFINE f == Frame(Hook, "capture")
  <2>1. f \in Frames /\ f.fn = Hook /\ f.at = "capture" /\ f.saved = FALSE
    BY <1>4, Zenon DEF CallStack, Frame, Frames, Hook
  <2>2. stack' = Append(stack, f) /\ disable_error_capture' = TRUE
    BY <1>1, <1>4, Zenon DEF EmitLog, Hook
  <2>3. f.at \in AtHook
    BY <2>1, Zenon DEF AtHook
  <2> HIDE DEF f
  <2>4. /\ stack' \in Seq(Frames) /\ Last(stack') = f /\ stack' # <<>>
        /\ stack'[1] = f /\ Chained(stack')
    BY <1>1, <1>2, <2>1, <2>2, <2>3, Pushed, Zenon
  <2>5. Guarded'
    BY <1>1, <2>1, <2>2, <2>4, Zenon DEF CallStack, Guarded, GuardOf
  <2> QED
    BY <1>1, <1>4, <2>1, <2>2, <2>4, <2>5, Zenon DEF CallStack
<1> QED
  BY <1>3, <1>4, Zenon DEF CallStack

-----------------------------------------------------------------------------
(* What a step of a call in progress does to the lock's owner and to the   *)
(* exit.                                                                   *)
LEMMA NotOwner ==
  ASSUME Owned, stack # <<>>, ~InSection(Last(stack)), UNCHANGED <<lock, exit_message>>
  PROVE  Owned'
BY Zenon DEF Owned, CaptureFailedAtExit

(* A step that does not concern the exit of the backend.                   *)
LEMMA SameExit ==
  ASSUME AtExit, UNCHANGED <<phase, exit_message>>, stack # <<>>,
         phase # "up" => ~throwing', batched' \in {0, batched},
         stack' = <<>> \/ stack'[1].fn = stack[1].fn
  PROVE  AtExit'
BY Zenon DEF AtExit

(* A call goes from one place to the next.                                 *)
LEMMA MoveKeeps ==
  ASSUME CallsInv, NEW fn \in QueueCalls, NEW at, At(fn, at),
         NEW to \in QueuePlaces, GoTo(to),
         disable_error_capture' = IF to = "add" THEN Last(stack).saved ELSE TRUE,
         throwing' \in BOOLEAN, throwing' => to = "unlock" /\ phase = "up",
         full' \in BOOLEAN,
         \/ UNCHANGED lock /\ (at \in {"locked", "unlock"} => to = "unlock")
         \/ lock' = "self" /\ to = "locked",
         UNCHANGED <<batched, cancelled, phase, exit_message>>
  PROVE  CallsInv'
<1>1. CallStack /\ TypeOK /\ Owned /\ AtExit
  BY Zenon DEF CallsInv
<1>2. stack # <<>> /\ ~throwing /\ Last(stack).at = at
  BY Zenon DEF At, Top
<1>3. /\ CallStack'
      /\ stack' # <<>> /\ stack'[1].fn = stack[1].fn /\ Last(stack').at = to
  BY <1>1, CallMoves, Zenon
<1>4. TypeOK'
  <2>1. lock' \in {"free", "self", "other"}
    BY <1>1, Zenon DEF TypeOK
  <2>2. batched' \in 0..BatchCapacity
    BY <1>1, Zenon DEF TypeOK
  <2> QED
    BY <1>3, <2>1, <2>2, Zenon DEF TypeOK, CallStack
<1>5. Owned'
  <2>1. CASE at \in {"locked", "unlock"} \/ to = "locked"
    <3>1. InSection(Last(stack'))
      BY <1>3, <2>1, Zenon DEF InSection
    <3> QED
      BY <1>3, <3>1, Zenon DEF Owned
  <2>2. CASE at \notin {"locked", "unlock"} /\ to # "locked"
    <3>1. ~InSection(Last(stack))
      BY <1>2, <2>2, Zenon DEF InSection
    <3> QED
      BY <1>1, <1>2, <2>2, <3>1, NotOwner, Zenon
  <2> QED
    BY <2>1, <2>2, Zenon
<1>6. AtExit'
  BY <1>1, <1>2, <1>3, SameExit, Zenon
<1> QED
  BY <1>3, <1>4, <1>5, <1>6, Zenon DEF CallsInv

(* A call returns.                                                         *)
LEMMA ReturnKeeps ==
  ASSUME CallsInv, NEW fn \in QueueCalls, NEW at, At(fn, at), Pop,
         disable_error_capture' = Last(stack).saved,
         \/ UNCHANGED lock /\ at \notin {"locked", "unlock"}
         \/ lock' = "free",
         batched' \in 0..BatchCapacity,
         batched' = batched \/ fn = "PschEnqueueEvent",
         UNCHANGED <<throwing, full, cancelled, phase, exit_message>>
  PROVE  CallsInv'
<1>1. CallStack /\ TypeOK /\ Owned /\ AtExit
  BY Zenon DEF CallsInv
<1>2. stack # <<>> /\ ~throwing /\ Last(stack).at = at /\ Last(stack).fn = fn
  BY Zenon DEF At, Top
<1>3. /\ CallStack'
      /\ stack' = <<>> => stack[1] = Last(stack)
      /\ stack' # <<>> => stack'[1] = stack[1]
  BY <1>1, CallReturns, Zenon
<1>4. TypeOK'
  <2>1. lock' \in {"free", "self", "other"} /\ full' \in BOOLEAN
    BY <1>1, Zenon DEF TypeOK
  <2> QED
    BY <1>3, <2>1, Zenon DEF TypeOK, CallStack
<1>5. Owned'
  <2>1. CASE lock' = "free"
    BY <2>1, Zenon DEF Owned
  <2>2. CASE UNCHANGED lock /\ at \notin {"locked", "unlock"}
    <3>1. ~InSection(Last(stack))
      BY <1>2, <2>2, Zenon DEF InSection
    <3> QED
      BY <1>1, <1>2, <2>2, <3>1, NotOwner, Zenon
  <2> QED
    BY <2>1, <2>2, Zenon
<1>6. AtExit'
  <2>1. CASE batched' = batched
    BY <1>1, <1>2, <1>3, <2>1, SameExit, Zenon
  <2>2. CASE fn = "PschEnqueueEvent" /\ phase = "up"
    BY <2>2, Zenon DEF AtExit
  <2>3. CASE fn = "PschEnqueueEvent" /\ phase # "up"
    <3>1. \/ stack[1].fn = Hook /\ exit_message # "none"
          \/ stack[1].fn = "PschEnqueueBatch"
      BY <1>1, <1>2, <2>3, Zenon DEF AtExit
    <3>2. stack' # <<>> => stack'[1].fn = Hook /\ exit_message # "none"
      <4>1. ASSUME stack[1].fn = "PschEnqueueBatch", stack' # <<>>
            PROVE  FALSE
        <5>1. Over(stack[1], stack[2]) /\ Len(stack) > 1
          <6>1. stack \in Seq(Frames) /\ Chained(stack) /\ stack' = Front(stack)
            BY <1>1, Zenon DEF CallStack, Pop
          <6>2. Len(stack') = Len(stack) - 1 /\ stack' \in Seq(Frames)
            BY <1>2, <6>1, FrontIs, Zenon
          <6>3. Len(stack') # 0
            BY <4>1, <6>2
          <6>4. Len(stack) \in Nat /\ 2 \in 1..Len(stack)
            BY <6>1, <6>2, <6>3
          <6> QED
            BY <6>1, <6>4 DEF Chained
        <5> QED
          BY <4>1, <5>1, Zenon DEF Over, Hook
      <4> QED
        BY <1>3, <3>1, <4>1, Zenon
    <3> QED
      BY <1>1, <1>2, <2>3, <3>2, Zenon DEF AtExit
  <2> QED
    BY <2>1, <2>2, <2>3, Zenon
<1> QED
  BY <1>3, <1>4, <1>5, <1>6, Zenon DEF CallsInv

(* The steps inside PschEnqueueEvent and PschEnqueueBatch.                 *)
Moves ==
  Overflow \/ Warn \/ Warned \/ TryLock \/ WaitForLock \/ Lock \/ Enqueue \/ WarnLocked

(* Calls that go on keep the invariant.                                    *)
LEMMA MovesKeep ==
  ASSUME CallsInv, UNCHANGED <<phase, exit_message>>,
         Moves \/ (phase = "up" /\ EnqueueThrows)
  PROVE  CallsInv' /\ UNCHANGED batched
<1>1. CallStack /\ TypeOK
  BY Zenon DEF CallsInv
<1>2. {"PschEnqueueEvent", "PschEnqueueBatch"} \subseteq QueueCalls
  BY Zenon DEF QueueCalls
<1>3. ASSUME NEW fn \in QueueCalls, NEW at, At(fn, at), at # "add"
      PROVE  disable_error_capture = TRUE
  <2>1. stack # <<>> /\ ~throwing /\ Last(stack).at = at
    BY <1>3, Zenon DEF At, Top
  <2> QED
    BY <1>1, <1>3, <2>1, InCall, Zenon DEF GuardOf
<1>4. throwing \in BOOLEAN /\ full \in BOOLEAN
  BY <1>1, Zenon DEF TypeOK
<1>5. CASE Overflow
  <2>1. PICK fn \in QueueCalls : At(fn, "check")
    BY <1>5, Zenon DEF Overflow
  <2>2. PICK to \in {"dropped", "warn"} : GoTo(to)
    BY <1>5, Zenon DEF Overflow
  <2>3. disable_error_capture = TRUE
    BY <1>3, <2>1, Zenon
  <2> QED
    BY <1>4, <1>5, <2>1, <2>2, <2>3, MoveKeeps, Zenon
       DEF Overflow, QueuePlaces, At
<1>6. CASE Warn
  <2>1. PICK fn \in QueueCalls : At(fn, "warn")
    BY <1>6, Zenon DEF Warn
  <2>2. disable_error_capture = TRUE
    BY <1>3, <2>1, Zenon
  <2>3. GoTo("warned") /\ UNCHANGED disable_error_capture
    BY <1>6, <2>2, Zenon DEF Warn, EmitLog, GoTo
  <2> QED
    BY <1>4, <1>6, <2>1, <2>2, <2>3, MoveKeeps, Zenon DEF Warn, QueuePlaces, At
<1>7. CASE Warned
  <2>1. PICK fn \in QueueCalls : At(fn, "warned")
    BY <1>7, Zenon DEF Warned
  <2>2. disable_error_capture = TRUE
    BY <1>3, <2>1, Zenon
  <2> QED
    BY <1>4, <1>7, <2>1, <2>2, MoveKeeps, Zenon DEF Warned, QueuePlaces, At
<1>8. CASE TryLock
  <2>1. disable_error_capture = TRUE /\ At("PschEnqueueEvent", "check")
    BY <1>2, <1>3, <1>8, Zenon DEF TryLock
  <2>2. CASE lock = "free"
    BY <1>2, <1>4, <1>8, <2>1, <2>2, MoveKeeps, Zenon
       DEF TryLock, QueuePlaces, At
  <2>3. CASE lock # "free"
    BY <1>2, <1>4, <1>8, <2>1, <2>3, MoveKeeps, Zenon
       DEF TryLock, QueuePlaces, At, Restore, Top
  <2> QED
    BY <2>2, <2>3, Zenon
<1>9. CASE WaitForLock
  <2>1. disable_error_capture = TRUE /\ At("PschEnqueueBatch", "check")
    BY <1>2, <1>3, <1>9, Zenon DEF WaitForLock
  <2> QED
    BY <1>2, <1>4, <1>9, <2>1, MoveKeeps, Zenon
       DEF WaitForLock, QueuePlaces, At
<1>10. CASE Lock
  <2>1. disable_error_capture = TRUE /\ At("PschEnqueueBatch", "lock")
    BY <1>2, <1>3, <1>10, Zenon DEF Lock
  <2> QED
    BY <1>2, <1>4, <1>10, <2>1, MoveKeeps, Zenon DEF Lock, QueuePlaces, At
<1>11. CASE Enqueue
  <2>1. PICK fn \in QueueCalls : At(fn, "locked")
    BY <1>11, Zenon DEF Enqueue
  <2>2. disable_error_capture = TRUE
    BY <1>3, <2>1, Zenon
  <2> QED
    BY <1>4, <1>11, <2>1, <2>2, MoveKeeps, Zenon DEF Enqueue, QueuePlaces, At
<1>12. CASE WarnLocked
  <2>1. PICK fn \in QueueCalls : At(fn, "locked")
    BY <1>12, Zenon DEF WarnLocked
  <2>2. disable_error_capture = TRUE
    BY <1>3, <2>1, Zenon
  <2>3. GoTo("unlock") /\ UNCHANGED disable_error_capture
    BY <1>12, <2>2, Zenon DEF WarnLocked, EmitLog, GoTo
  <2> QED
    BY <1>4, <1>12, <2>1, <2>2, <2>3, MoveKeeps, Zenon
       DEF WarnLocked, QueuePlaces, At
<1>13. CASE phase = "up" /\ EnqueueThrows
  <2>1. PICK fn \in QueueCalls : At(fn, "locked")
    BY <1>13, Zenon DEF EnqueueThrows
  <2>2. disable_error_capture = TRUE
    BY <1>3, <2>1, Zenon
  <2>3. GoTo("unlock") /\ UNCHANGED disable_error_capture
    BY <1>13, <2>2, Zenon DEF EnqueueThrows, EmitLog, GoTo
  <2> QED
    BY <1>4, <1>13, <2>1, <2>2, <2>3, MoveKeeps, Zenon
       DEF EnqueueThrows, QueuePlaces, At
<1> QED
  BY <1>5, <1>6, <1>7, <1>8, <1>9, <1>10, <1>11, <1>12, <1>13, Zenon DEF Moves

(* Calls that return keep it.                                              *)
LEMMA ReturnsKeep ==
  ASSUME CallsInv, UNCHANGED <<phase, exit_message>>, Dropped \/ Unlock \/ Add
  PROVE  CallsInv'
<1>1. CallStack /\ TypeOK
  BY Zenon DEF CallsInv
<1>2. {"PschEnqueueEvent", "PschEnqueueBatch"} \subseteq QueueCalls
  BY Zenon DEF QueueCalls
<1>3. batched \in 0..BatchCapacity
  BY <1>1, Zenon DEF TypeOK
<1>4. CASE Dropped
  <2>1. PICK fn \in QueueCalls : At(fn, "dropped")
    BY <1>4, Zenon DEF Dropped
  <2> QED
    BY <1>3, <1>4, <2>1, ReturnKeeps, Zenon DEF Dropped, Restore, Top
<1>5. CASE Unlock
  <2>1. PICK fn \in QueueCalls : At(fn, "unlock")
    BY <1>5, Zenon DEF Unlock
  <2> QED
    BY <1>3, <1>5, <2>1, ReturnKeeps, Zenon DEF Unlock, Restore, Top
<1>6. CASE Add
  <2>1. At("PschEnqueueEvent", "add")
    BY <1>6, Zenon DEF Add
  <2>2. disable_error_capture' = Last(stack).saved
    BY <1>1, <1>6, <2>1, InCall, Zenon DEF Add, At, Top, GuardOf
  <2>3. batched' \in 0..BatchCapacity
    BY <1>3, <1>6, CaptureAssumption DEF Add
  <2> QED
    BY <1>2, <1>6, <2>1, <2>2, <2>3, ReturnKeeps, Zenon DEF Add
<1> QED
  BY <1>4, <1>5, <1>6, Zenon

(* The hook, the flush of a full batch, and errors on their way up.        *)
LEMMA CapturesKeep ==
  ASSUME CallsInv, UNCHANGED <<phase, exit_message>>,
         Capture \/ AddToFull \/ EndCapture
  PROVE  CallsInv'
<1>1. CallStack /\ TypeOK /\ Owned /\ AtExit
  BY Zenon DEF CallsInv
<1>2. stack \in Seq(Frames) /\ Chained(stack) /\ Guarded
  BY <1>1, Zenon DEF CallStack
<1>3. CASE Capture
  <2>1. stack # <<>> /\ ~throwing /\ ~InSection(Last(stack))
    BY <1>3, Zenon DEF Capture, At, Top, InSection
  <2>2. CallStack' /\ stack'[1].fn = stack[1].fn
    BY <1>1, <1>3, CapturingCall, Zenon
  <2>3. Owned' /\ AtExit'
    BY <1>1, <1>3, <2>1, <2>2, NotOwner, SameExit, Zenon DEF Capture
  <2>4. TypeOK'
    BY <1>1, <1>3, <2>2, Zenon DEF CallStack, TypeOK, Capture
  <2> QED
    BY <2>2, <2>3, <2>4, Zenon DEF CallsInv
<1>4. CASE AddToFull
  <2>1. /\ stack # <<>> /\ ~throwing /\ ~InSection(Last(stack)) /\ batched' = 0
        /\ UNCHANGED <<throwing, cancelled, lock, full>>
    BY <1>4, Zenon DEF AddToFull, At, Top, InSection
  <2>2. CallStack' /\ stack'[1] = stack[1]
    BY <1>1, <1>4, <2>1, NestedCall, Zenon DEF AddToFull
  <2>3. Owned' /\ AtExit'
    BY <1>1, <2>1, <2>2, NotOwner, SameExit, Zenon
  <2>4. TypeOK'
    BY <1>1, <2>1, <2>2, CaptureAssumption DEF CallStack, TypeOK
  <2> QED
    BY <2>2, <2>3, <2>4, Zenon DEF CallsInv
<1>5. CASE EndCapture
  <2>1. /\ stack # <<>> /\ ~throwing /\ ~InSection(Last(stack))
        /\ Last(stack).fn = Hook
        /\ stack' = Front(stack) /\ disable_error_capture' = FALSE
        /\ UNCHANGED <<throwing, lock, full, batched, cancelled>>
    BY <1>5, Zenon DEF EndCapture, Pop, At, Top, InSection, Hook
  <2>2. stack' \in Seq(Frames) /\ Chained(stack') /\ stack' = <<>>
    BY <1>2, <2>1, Popped, Zenon
  <2>3. Guarded' /\ throwing' \in BOOLEAN /\ cancelled' \in BOOLEAN
    BY <1>1, <2>1, <2>2, Zenon DEF Guarded, CallStack
  <2>4. CallStack'
    BY <2>1, <2>2, <2>3, Zenon DEF CallStack
  <2>5. Owned' /\ AtExit'
    BY <1>1, <2>1, <2>2, NotOwner, SameExit, Zenon
  <2>6. TypeOK'
    BY <1>1, <2>1, <2>4, Zenon DEF CallStack, TypeOK
  <2> QED
    BY <2>4, <2>5, <2>6, Zenon DEF CallsInv
<1> QED
  BY <1>3, <1>4, <1>5, Zenon

(* Errors keep it.                                                         *)
LEMMA ErrorsKeep ==
  ASSUME CallsInv, UNCHANGED <<phase, exit_message>>,
         \/ phase = "up" /\ (CaptureThrows \/ Cancel)
         \/ Unwind \/ Abort
  PROVE  CallsInv' /\ UNCHANGED batched
<1>1. CallStack /\ TypeOK /\ Owned /\ AtExit
  BY Zenon DEF CallsInv
<1>2. stack \in Seq(Frames) /\ Chained(stack) /\ Guarded
  BY <1>1, Zenon DEF CallStack
<1>3. CASE phase = "up" /\ CaptureThrows
  <2>1. /\ stack # <<>> /\ ~throwing /\ ~InSection(Last(stack))
        /\ Last(stack).at = "capture" /\ throwing' = TRUE
        /\ UNCHANGED <<lock, full, batched, cancelled>> /\ EmitLog(stack)
    BY <1>3, Zenon DEF CaptureThrows, At, Top, InSection
  <2>2. disable_error_capture = TRUE
    BY <1>1, <2>1, InCall, Zenon DEF GuardOf
  <2>3. UNCHANGED <<stack, disable_error_capture>>
    BY <2>1, <2>2, Zenon DEF EmitLog
  <2>4. CallStack'
    BY <1>1, <2>1, <2>2, <2>3, Zenon DEF CallStack, Guarded, GuardOf
  <2>5. Owned' /\ AtExit'
    BY <1>1, <1>3, <2>1, <2>3, NotOwner, SameExit, Zenon
  <2> QED
    BY <1>1, <2>1, <2>4, <2>5, Zenon DEF CallStack, TypeOK, CallsInv
<1>4. CASE phase = "up" /\ Cancel
  <2>1. /\ stack # <<>> /\ ~throwing /\ ~InSection(Last(stack))
        /\ Last(stack).at = "warned" /\ throwing' = TRUE /\ cancelled' = TRUE
        /\ UNCHANGED <<disable_error_capture, stack, lock, full, batched>>
    BY <1>4, Zenon DEF Cancel, At, Top, InSection
  <2>2. CallStack'
    BY <1>1, <2>1, Zenon DEF CallStack, Guarded
  <2>3. Owned' /\ AtExit'
    BY <1>1, <1>4, <2>1, NotOwner, SameExit, Zenon
  <2> QED
    BY <1>1, <2>1, <2>2, <2>3, Zenon DEF CallStack, TypeOK, CallsInv
<1>5. CASE Unwind
  <2>1. /\ stack # <<>> /\ throwing /\ stack' = Front(stack)
        /\ throwing' = (Last(stack).fn # Hook)
        /\ lock' = IF Last(stack).at = "unlock" THEN "free" ELSE lock
        /\ disable_error_capture' =
             CASE Last(stack).at = "unlock" -> Last(stack).saved
               [] Last(stack).fn = Hook -> FALSE
               [] OTHER -> disable_error_capture
        /\ UNCHANGED <<full, batched, cancelled>>
    BY <1>5, Zenon DEF Unwind, Pop, Top, Hook
  <2>2. Last(stack) \in Frames
    <3>1. Len(stack) \in 1..Len(stack)
      BY <1>2, <2>1
    <3> QED
      BY <1>2, <3>1 DEF Last
  <2>3. /\ stack' \in Seq(Frames) /\ Chained(stack')
        /\ stack' = <<>> => stack[1] = Last(stack)
        /\ stack' # <<>> =>
             stack'[1] = stack[1] /\ Over(Last(stack'), Last(stack)) /\ Last(stack).fn # Hook
    BY <1>2, <2>1, Popped, Zenon
  <2>4. \/ Last(stack).at \in {"unlock", "capture", "captured", "add"}
        \/ Last(stack).at = "warned" /\ cancelled
    BY <1>2, <2>1, Zenon DEF Guarded
  <2>5. disable_error_capture' \in BOOLEAN /\ throwing' \in BOOLEAN /\ cancelled' \in BOOLEAN
    BY <1>1, <2>1, <2>2, Zenon DEF CallStack, Frames
  <2>6. Last(stack).fn = Hook <=> Last(stack).at \in AtHook
    <3>1. Len(stack) \in 1..Len(stack)
      BY <1>2, <2>1
    <3> QED
      BY <1>2, <3>1, Zenon DEF Chained, Last
  <2>7. ~cancelled => ~stack[1].saved /\ disable_error_capture = GuardOf(Last(stack))
    BY <1>2, <2>1, Zenon DEF Guarded
  <2>8. stack' # <<>> => Last(stack').at \in {"captured", "add"}
    BY <2>3, Zenon DEF Over
  <2>9. ASSUME ~cancelled, stack' # <<>>
        PROVE  disable_error_capture' = GuardOf(Last(stack'))
    <3>1. Last(stack).at \notin AtHook /\ Over(Last(stack'), Last(stack))
      BY <2>3, <2>6, <2>9, Zenon
    <3>2. Last(stack).at \in {"unlock", "add"} /\ Last(stack).fn # Hook
      BY <2>3, <2>4, <2>9, <3>1, Zenon DEF AtHook
    <3>3. disable_error_capture' = Last(stack).saved
      BY <2>1, <2>7, <2>9, <3>2, Zenon DEF GuardOf
    <3> QED
      BY <2>5, <3>1, <3>3, Zenon DEF Over, GuardOf
  <2>10. ASSUME ~cancelled, stack' = <<>>
         PROVE  ~disable_error_capture'
    <3>1. ~Last(stack).saved
      BY <2>3, <2>7, <2>10, Zenon
    <3>2. CASE Last(stack).fn = Hook
      BY <2>1, <2>6, <3>2, Zenon DEF AtHook
    <3>3. CASE Last(stack).fn # Hook
      <4>1. Last(stack).at \in {"unlock", "add"}
        BY <2>4, <2>6, <2>10, <3>3, Zenon DEF AtHook
      <4> QED
        BY <2>1, <2>7, <2>10, <3>1, <3>3, <4>1, Zenon DEF GuardOf
    <3> QED
      BY <3>2, <3>3, Zenon
  <2>11. ~throwing' => stack' = <<>>
    BY <2>1, <2>3, Zenon
  <2>12. Guarded'
    BY <2>1, <2>3, <2>7, <2>8, <2>9, <2>10, <2>11, Zenon DEF Guarded
  <2>13. CallStack'
    BY <2>3, <2>5, <2>12, Zenon DEF CallStack
  <2>14. Owned'
    <3>1. CASE Last(stack).at = "unlock"
      BY <2>1, <3>1, Zenon DEF Owned
    <3>2. CASE Last(stack).at # "unlock"
      <4>1. ~InSection(Last(stack)) /\ UNCHANGED lock
        BY <2>1, <2>4, <3>2, Zenon DEF InSection
      <4> QED
        BY <1>1, <2>1, <4>1, NotOwner, Zenon
    <3> QED
      BY <3>1, <3>2, Zenon
  <2>15. AtExit'
    BY <1>1, <2>1, <2>3, Zenon DEF AtExit
  <2>16. TypeOK'
    <3>1. lock' \in {"free", "self", "other"} /\ full' \in BOOLEAN
          /\ batched' \in 0..BatchCapacity
      BY <1>1, <2>1, Zenon DEF TypeOK
    <3> QED
      BY <2>13, <3>1, Zenon DEF CallStack, TypeOK
  <2> QED
    BY <2>1, <2>13, <2>14, <2>15, <2>16, Zenon DEF CallsInv
<1>6. CASE Abort
  <2>1. /\ stack = <<>> /\ throwing' = FALSE
        /\ UNCHANGED <<disable_error_capture, stack, lock, full, batched, cancelled>>
    BY <1>6, Zenon DEF Abort
  <2>2. CallStack'
    BY <1>1, <2>1, Zenon DEF CallStack, Guarded
  <2>3. Owned' /\ AtExit'
    BY <1>1, <2>1, Zenon DEF Owned, AtExit, CaptureFailedAtExit
  <2> QED
    BY <1>1, <2>1, <2>2, <2>3, Zenon DEF CallStack, TypeOK, CallsInv
<1> QED
  BY <1>3, <1>4, <1>5, <1>6, Zenon

-----------------------------------------------------------------------------
(* What begins while no call is in progress.                               *)
LEMMA StartsKeep ==
  ASSUME CallsInv, UNCHANGED <<phase, exit_message>>, phase = "up",
         Report \/ Message \/ TxnEnd
  PROVE  CallsInv' /\ batched' \in {0, batched}
<1>1. CallStack /\ TypeOK /\ Owned /\ AtExit
  BY Zenon DEF CallsInv
<1>2. stack = <<>> /\ Idle /\ UNCHANGED <<throwing, lock, full, cancelled>>
  BY Zenon DEF Report, Message, TxnEnd, Idle
<1>3. lock # "self" \/ CaptureFailedAtExit
  BY <1>1, <1>2, Zenon DEF Owned
<1>4. Owned' /\ AtExit'
  BY <1>2, <1>3, Zenon DEF Owned, AtExit, CaptureFailedAtExit
<1>5. CallStack' /\ batched' \in {0, batched}
  <2>1. CASE Report
    BY <1>1, <1>2, <2>1, FirstCall, Zenon DEF Report, QueueCalls
  <2>2. CASE Message
    BY <1>1, <2>2, MessageCalls, Zenon DEF Message
  <2>3. CASE TxnEnd
    BY <1>1, <1>2, <2>3, FirstCall, Zenon DEF TxnEnd, QueueCalls
  <2> QED
    BY <2>1, <2>2, <2>3, Zenon
<1>6. TypeOK'
  BY <1>1, <1>2, <1>5, CaptureAssumption DEF TypeOK, CallStack
<1> QED
  BY <1>4, <1>5, <1>6, Zenon DEF CallsInv

(* The message of an exiting backend.                                      *)
LEMMA ExitMessageKeeps ==
  ASSUME CallsInv, MessageAtExit
  PROVE  CallsInv'
<1>1. CallStack /\ TypeOK /\ Owned /\ AtExit
  BY Zenon DEF CallsInv
<1>2. /\ stack = <<>> /\ ~throwing /\ phase = "exiting" /\ Message
      /\ exit_message = "none" /\ exit_message' = "raised"
      /\ UNCHANGED <<throwing, lock, full, batched, cancelled, phase>>
  BY Zenon DEF MessageAtExit, Message, Idle
<1>3. /\ CallStack'
      /\ disable_error_capture => stack' = stack /\ UNCHANGED disable_error_capture
      /\ ~disable_error_capture => stack' # <<>> /\ stack'[1].fn = Hook
  BY <1>1, <1>2, MessageCalls, Zenon
<1>4. lock = "self" => disable_error_capture /\ batched = 0
  BY <1>1, <1>2, Zenon DEF Owned, CaptureFailedAtExit
<1>5. Owned'
  BY <1>2, <1>3, <1>4 DEF Owned
<1>6. AtExit'
  <2>1. CASE disable_error_capture
    BY <1>2, <1>3, <2>1, Zenon DEF AtExit
  <2>2. CASE ~disable_error_capture
    BY <1>2, <1>3, <2>2, Zenon DEF AtExit
  <2> QED
    BY <2>1, <2>2, Zenon
<1>7. TypeOK'
  BY <1>1, <1>2, <1>3, Zenon DEF TypeOK, CallStack
<1> QED
  BY <1>3, <1>5, <1>6, <1>7, Zenon DEF CallsInv

(* proc_exit starts, with or without calls it will not return to, ...      *)
LEMMA ExitKeeps ==
  ASSUME CallsInv, StartExit \/ Terminate
  PROVE  CallsInv'
<1>1. CallStack /\ TypeOK /\ Owned /\ AtExit
  BY Zenon DEF CallsInv
<1>2. lock = "self" => CaptureFailedAtExit
  BY <1>1, Zenon DEF StartExit, Terminate, Owned, Idle, At, Top, InSection
<1>3. /\ stack' = <<>> /\ ~throwing /\ phase' = "exiting"
      /\ UNCHANGED <<disable_error_capture, throwing, lock, full, batched, exit_message>>
      /\ cancelled' = TRUE \/ UNCHANGED <<stack, cancelled>>
  BY Zenon DEF StartExit, Terminate, Idle, At, vars
<1>4. Chained(stack') /\ stack' \in Seq(Frames)
  BY <1>3 DEF Chained
<1>5. CallStack'
  <2>1. cancelled' \in BOOLEAN
    BY <1>1, <1>3, Zenon DEF CallStack
  <2>2. ~cancelled' => ~disable_error_capture
    BY <1>1, <1>3 DEF CallStack, Guarded
  <2> QED
    BY <1>1, <1>3, <1>4, <2>1, <2>2, Zenon DEF CallStack, Guarded
<1>6. Owned' /\ AtExit'
  BY <1>2, <1>3, Zenon DEF Owned, AtExit, CaptureFailedAtExit
<1>7. TypeOK'
  BY <1>1, <1>3, <1>5, Zenon DEF TypeOK, CallStack
<1> QED
  BY <1>5, <1>6, <1>7, Zenon DEF CallsInv

(* ... and starts over.                                                    *)
LEMMA FatalKeeps ==
  ASSUME CallsInv, FatalAtExit
  PROVE  CallsInv' /\ UNCHANGED batched /\ (exit_message' = "none" => exit_message = "none")
<1>1. CallStack /\ TypeOK /\ Owned /\ AtExit
  BY Zenon DEF CallsInv
<1>2. /\ stack' = <<>> /\ phase = "exiting" /\ stack # <<>> /\ ~throwing
      /\ cancelled' = TRUE
      /\ UNCHANGED <<disable_error_capture, throwing, lock, full, batched, phase>>
      /\ exit_message' = IF Head(stack).fn = Hook THEN "failed" ELSE exit_message
      /\ Last(stack).at # "add"
  BY Zenon DEF FatalAtExit, At, Top, Hook
<1>3. Chained(stack') /\ stack' \in Seq(Frames)
  BY <1>2 DEF Chained
<1>4. CallStack'
  BY <1>1, <1>2, <1>3, Zenon DEF CallStack, Guarded
<1>5. disable_error_capture = TRUE
  BY <1>1, <1>2, InCall, Zenon DEF GuardOf
<1>6. Head(stack) = stack[1]
  BY <1>1, <1>2 DEF CallStack
<1>7. Owned'
  <2>1. CASE stack[1].fn = Hook
    BY <1>2, <1>6, <2>1, Zenon DEF Owned, CaptureFailedAtExit
  <2>2. CASE stack[1].fn # Hook
    BY <1>1, <1>2, <1>5, <1>6, <2>2, Zenon DEF Owned, AtExit
  <2> QED
    BY <2>1, <2>2, Zenon
<1>8. AtExit'
  BY <1>2, Zenon DEF AtExit
<1>9. TypeOK'
  BY <1>1, <1>2, <1>4, Zenon DEF TypeOK, CallStack
<1> QED
  BY <1>2, <1>4, <1>7, <1>8, <1>9, Zenon DEF CallsInv

(* The callbacks.                                                          *)
LEMMA CallbacksKeep ==
  ASSUME CallsInv, Detach \/ AbortAtExit \/ FlushAtExit \/ Gone
  PROVE  CallsInv'
<1>1. CallStack /\ TypeOK /\ Owned /\ AtExit
  BY Zenon DEF CallsInv
<1>2. /\ stack = <<>> /\ ~throwing /\ phase = "exiting" /\ Idle
      /\ UNCHANGED <<throwing, full, cancelled, exit_message>>
  BY Zenon
     DEF Detach, AbortAtExit, FlushAtExit, Gone, NextIs, Idle,
     LocalBatchFlush, vars
<1>3. CASE Detach \/ Gone
  <2>1. /\ UNCHANGED <<disable_error_capture, stack, throwing, full, batched, cancelled>>
        /\ lock' = lock \/ lock' = Released
        /\ phase' # "up"
    BY <1>2, <1>3, Zenon DEF Detach, Gone, vars
  <2>2. CallStack'
    BY <1>1, <2>1, Zenon DEF CallStack, Guarded
  <2>3. Owned' /\ AtExit'
    BY <1>1, <1>2, <2>1 DEF Owned, AtExit, CaptureFailedAtExit, Released
  <2>4. TypeOK'
    BY <1>1, <2>1, <2>2, Zenon DEF TypeOK, CallStack, Released
  <2> QED
    BY <2>2, <2>3, <2>4, Zenon DEF CallsInv
<1>4. CASE AbortAtExit /\ ~in_txn
  <2>1. UNCHANGED <<vars, phase, exit_message>>
    BY <1>4, Zenon DEF AbortAtExit
  <2> QED
    BY <2>1, <1>1
       DEF CallsInv, vars, TypeOK, CallStack, Guarded, Owned, AtExit,
                      CaptureFailedAtExit
<1>5. CASE FlushAtExit \/ (AbortAtExit /\ in_txn)
  <2>1. /\ IF batched # 0 THEN Call("PschEnqueueBatch", stack)
                          ELSE UNCHANGED <<disable_error_capture, stack>>
        /\ batched' = 0 /\ phase' = phase
        /\ (FlushAtExit /\ lock' = lock) \/ lock' = Released
    BY <1>5, Zenon DEF AbortAtExit, FlushAtExit, LocalBatchFlush
  <2>2. /\ CallStack'
        /\ batched # 0 => stack' # <<>> /\ stack'[1].fn = "PschEnqueueBatch"
    <3>1. CASE batched # 0
      BY <1>1, <1>2, <2>1, <3>1, FirstCall, Zenon DEF QueueCalls
    <3>2. CASE batched = 0
      BY <1>1, <1>2, <2>1, <3>2, Zenon DEF CallStack, Guarded
    <3> QED
      BY <3>1, <3>2, Zenon
  <2>3. lock' = "self" /\ ~CaptureFailedAtExit =>
          stack' = <<>> /\ disable_error_capture' = TRUE
    BY <1>1, <1>2, <2>1, Zenon DEF Owned, Released, CallStack
  <2>4. Owned'
    BY <1>2, <2>1, <2>3, Zenon DEF Owned, CaptureFailedAtExit
  <2>5. AtExit'
    BY <1>2, <2>1, <2>2, Zenon DEF AtExit
  <2>6. TypeOK'
    BY <1>1, <1>2, <2>1, <2>2, CaptureAssumption
       DEF TypeOK, CallStack, Released
  <2> QED
    BY <2>2, <2>4, <2>5, <2>6, Zenon DEF CallsInv
<1> QED
  BY <1>3, <1>4, <1>5, Zenon

-----------------------------------------------------------------------------
(* The list of exit callbacks: one is put at its end, ...                  *)
Callbacks == {"detach", "flush", "abort"}

(* A callback added to a list.                                             *)
LEMMA AppendLists ==
  ASSUME callbacks \in Seq(Callbacks), NEW c \in Callbacks, DetachOnce,
         c = "detach" => ~Listed("detach"),
         callbacks' = Append(callbacks, c)
  PROVE  /\ callbacks' \in Seq(Callbacks)
         /\ \A name \in Callbacks : Listed(name)' <=> Listed(name) \/ name = c
         /\ DetachOnce'
<1> DEFINE n == Len(callbacks)
<1>1. /\ callbacks' \in Seq(Callbacks) /\ n \in Nat /\ Len(callbacks') = n + 1
      /\ callbacks'[n + 1] = c /\ \A i \in 1..n : callbacks'[i] = callbacks[i]
  OBVIOUS
<1> HIDE DEF n
<1>2. ASSUME NEW name \in Callbacks
      PROVE  Listed(name)' <=> Listed(name) \/ name = c
  <2>1. ASSUME Listed(name)'
        PROVE  Listed(name) \/ name = c
    <3>1. PICK i \in 1..(n + 1) : callbacks'[i] = name
      BY <1>1, <2>1, Zenon DEF Listed
    <3>2. CASE i = n + 1
      BY <1>1, <3>1, <3>2, Zenon
    <3>3. CASE i \in 1..n
      BY <1>1, <3>1, <3>3, Zenon DEF Listed, n
    <3> QED
      BY <1>1, <3>1, <3>2, <3>3
  <2>2. ASSUME Listed(name)
        PROVE  Listed(name)'
    <3>1. PICK i \in 1..n : callbacks[i] = name
      BY <2>2, Zenon DEF Listed, n
    <3>2. i \in 1..(n + 1) /\ callbacks'[i] = name
      BY <1>1, <3>1
    <3> QED
      BY <1>1, <3>2, Zenon DEF Listed
  <2>3. ASSUME name = c
        PROVE  Listed(name)'
    <3>1. n + 1 \in 1..(n + 1) /\ callbacks'[n + 1] = name
      BY <1>1, <2>3
    <3> QED
      BY <1>1, <3>1, Zenon DEF Listed
  <2> QED
    BY <2>1, <2>2, <2>3, Zenon
<1>3. ASSUME NEW i \in 1..(n + 1), NEW j \in 1..(n + 1),
             callbacks'[i] = "detach", callbacks'[j] = "detach"
      PROVE  i = j
  <2>1. CASE c = "detach"
    <3>1. \A k \in 1..n : callbacks'[k] # "detach"
      BY <1>1, <2>1, Zenon DEF Listed, n
    <3> QED
      BY <1>1, <1>3, <3>1
  <2>2. CASE c # "detach"
    <3>1. i \in 1..n /\ j \in 1..n
      BY <1>1, <1>3, <2>2
    <3> QED
      BY <1>1, <1>3, <3>1, Zenon DEF DetachOnce, n
  <2> QED
    BY <2>1, <2>2, Zenon
<1> QED
  BY <1>1, <1>2, <1>3, Zenon DEF DetachOnce

(* ... and the last one is taken off it.                                   *)
LEMMA FrontLists ==
  ASSUME callbacks \in Seq(Callbacks), callbacks # <<>>, DetachOnce,
         callbacks' = Front(callbacks)
  PROVE  /\ callbacks' \in Seq(Callbacks)
         /\ \A name \in Callbacks :
              /\ Listed(name)' => Listed(name)
              /\ Listed(name) /\ Last(callbacks) # name => Listed(name)'
         /\ Last(callbacks) = "detach" => ~Listed("detach")'
         /\ Last(callbacks) \in Callbacks /\ Listed(Last(callbacks))
         /\ DetachOnce'
<1> DEFINE n == Len(callbacks)
<1>1. n \in Nat \ {0}
  OBVIOUS
<1>2. /\ callbacks' \in Seq(Callbacks) /\ Len(callbacks') = n - 1
      /\ \A i \in 1..(n - 1) : callbacks'[i] = callbacks[i]
  BY FrontIs, Zenon
<1>3. Last(callbacks) = callbacks[n] /\ n \in 1..n /\ callbacks[n] \in Callbacks
  BY <1>1 DEF Last
<1> HIDE DEF n
<1>4. ASSUME NEW name \in Callbacks
      PROVE  /\ Listed(name)' => Listed(name)
             /\ Listed(name) /\ Last(callbacks) # name => Listed(name)'
  <2>1. ASSUME Listed(name)'
        PROVE  Listed(name)
    <3>1. PICK i \in 1..(n - 1) : callbacks'[i] = name
      BY <1>2, <2>1, Zenon DEF Listed
    <3>2. i \in 1..n /\ callbacks[i] = name
      BY <1>1, <1>2, <3>1
    <3> QED
      BY <3>2, Zenon DEF Listed, n
  <2>2. ASSUME Listed(name), Last(callbacks) # name
        PROVE  Listed(name)'
    <3>1. PICK i \in 1..n : callbacks[i] = name
      BY <2>2, Zenon DEF Listed, n
    <3>2. i \in 1..(n - 1) /\ callbacks'[i] = name
      BY <1>1, <1>2, <1>3, <2>2, <3>1
    <3> QED
      BY <1>2, <3>2, Zenon DEF Listed
  <2> QED
    BY <2>1, <2>2, Zenon
<1>5. ASSUME Last(callbacks) = "detach", NEW i \in 1..(n - 1), callbacks'[i] = "detach"
      PROVE  FALSE
  <2>1. i \in 1..n /\ callbacks[i] = "detach" /\ i # n
    BY <1>1, <1>2, <1>5
  <2> QED
    BY <1>3, <1>5, <2>1, Zenon DEF DetachOnce, n
<1>6. DetachOnce'
  <2>1. ASSUME NEW i \in 1..(n - 1), NEW j \in 1..(n - 1),
               callbacks'[i] = "detach", callbacks'[j] = "detach"
        PROVE  i = j
    <3>1. i \in 1..n /\ j \in 1..n /\ callbacks[i] = "detach" /\ callbacks[j] = "detach"
      BY <1>1, <1>2, <2>1
    <3> QED
      BY <3>1, Zenon DEF DetachOnce, n
  <2> QED
    BY <1>2, <2>1, Zenon DEF DetachOnce
<1>7. Listed(Last(callbacks))
  BY <1>3, Zenon DEF Listed, n
<1>8. Last(callbacks) = "detach" => ~Listed("detach")'
  BY <1>2, <1>5, Zenon DEF Listed
<1> QED
  BY <1>2, <1>3, <1>4, <1>6, <1>7, <1>8, Zenon

Registers == SessionTypeOK /\ Registered

(* A step that registers and runs no callback.                             *)
LEMMA SameCallbacks ==
  ASSUME Registers, UNCHANGED session, batched' \in {0, batched}
  PROVE  Registers'
BY DEF Registers, SessionTypeOK, Registered, DetachOnce, Listed, session, area

(* PschDsaGetArea, which needs no second handle and no second callback.    *)
LEMMA AreaRegisters ==
  ASSUME Registers, MaybeGetArea, phase # "gone",
         UNCHANGED <<batch_init, phase, batched>>,
         exit_message' \in {exit_message, "failed"}
  PROVE  Registers'
<1>1. /\ SessionTypeOK /\ Registered
      /\ callbacks \in Seq(Callbacks) /\ "detach" \in Callbacks /\ "flush" \in Callbacks
  BY Zenon DEF Registers, SessionTypeOK, Callbacks
<1>2. exit_message' \in {"none", "raised", "failed"} /\ phase' # "gone"
      /\ (exit_message' = "none" => exit_message = "none")
  BY <1>1, Zenon DEF SessionTypeOK
<1>3. CASE UNCHANGED <<area, callbacks>>
  BY <1>1, <1>2, <1>3, Zenon
     DEF Registers, SessionTypeOK, Registered, DetachOnce, Listed, area
<1>4. CASE GetArea /\ psch_dsa
  <2>1. UNCHANGED <<area, callbacks>>
    BY <1>1, <1>4, Zenon DEF GetArea, area, Registered, SessionTypeOK
  <2> QED
    BY <1>3, <2>1, Zenon
<1>5. CASE GetArea /\ ~psch_dsa
  <2>1. /\ psch_dsa' = TRUE /\ exit_hook' = TRUE /\ refcnt' = 1
        /\ callbacks' = Append(callbacks, "detach")
        /\ ~Listed("detach") /\ DetachOnce
    BY <1>1, <1>5 DEF GetArea, Registered
  <2>2. /\ callbacks' \in Seq(Callbacks) /\ DetachOnce'
        /\ Listed("detach")' /\ (Listed("flush")' <=> Listed("flush"))
    BY <1>1, <2>1, AppendLists, Zenon
  <2>3. SessionTypeOK'
    BY <1>1, <1>2, <2>1, <2>2, Zenon DEF SessionTypeOK, Callbacks
  <2>4. Registered'
    BY <1>1, <1>2, <2>1, <2>2, Zenon DEF Registered
  <2> QED
    BY <2>3, <2>4, Zenon DEF Registers
<1> QED
  BY <1>3, <1>4, <1>5, Zenon DEF MaybeGetArea

(* PschLocalBatchInit                                                      *)
LEMMA AddRegisters ==
  ASSUME Registers, AtExit, CallStack, SessionAdd
  PROVE  Registers'
<1>1. /\ SessionTypeOK /\ Registered
      /\ callbacks \in Seq(Callbacks) /\ "detach" \in Callbacks /\ "flush" \in Callbacks
  BY Zenon DEF Registers, SessionTypeOK, Callbacks
<1>2. /\ batch_init' = TRUE /\ UNCHANGED <<area, phase, exit_message>>
      /\ callbacks' = IF batch_init THEN callbacks ELSE Append(callbacks, "flush")
      /\ stack # <<>> /\ Last(stack).fn = "PschEnqueueEvent"
  BY Zenon DEF SessionAdd, Add, At, Top
<1>3. phase # "gone"
  BY <1>2, Zenon DEF AtExit
<1>4. phase # "up" => exit_message # "none"
  <2>1. ASSUME stack[1].fn = "PschEnqueueBatch"
        PROVE  FALSE
    <3>1. stack \in Seq(Frames) /\ Chained(stack)
      BY Zenon DEF CallStack
    <3>2. Len(stack) \in Nat /\ Len(stack) # 0
      BY <1>2, <3>1
    <3>3. Len(stack) # 1
      BY <1>2, <2>1, Zenon DEF Last
    <3>4. \A n \in Nat \ {0, 1} : 2 \in 1..n /\ 2 > 1 /\ 2 - 1 = 1
      OBVIOUS
    <3>5. Over(stack[1], stack[2])
      BY <3>1, <3>2, <3>3, <3>4, Zenon DEF Chained
    <3> QED
      BY <2>1, <3>5, Zenon DEF Over, Hook
  <2> QED
    BY <1>2, <2>1, Zenon DEF AtExit
<1>5. CASE batch_init
  BY <1>1, <1>2, <1>3, <1>4, <1>5, Zenon
     DEF Registers, SessionTypeOK, Registered, DetachOnce, Listed, area
<1>6. CASE ~batch_init
  <2>1. /\ callbacks' \in Seq(Callbacks) /\ DetachOnce'
        /\ Listed("flush")' /\ (Listed("detach")' <=> Listed("detach"))
    BY <1>1, <1>2, <1>6, AppendLists, Zenon DEF Registered
  <2>2. SessionTypeOK'
    BY <1>1, <1>2, <2>1, Zenon DEF SessionTypeOK, Callbacks, area
  <2>3. Registered'
    BY <1>1, <1>2, <1>3, <1>4, <2>1, Zenon DEF Registered, area
  <2> QED
    BY <2>2, <2>3, Zenon DEF Registers
<1> QED
  BY <1>5, <1>6, Zenon

(* The callbacks of an exiting backend.                                    *)
LEMMA ExitRegisters ==
  ASSUME Registers, StartExit \/ Terminate
  PROVE  Registers'
<1>1. /\ SessionTypeOK /\ Registered
      /\ callbacks \in Seq(Callbacks)
      /\ "detach" \in Callbacks /\ "flush" \in Callbacks /\ "abort" \in Callbacks
  BY Zenon DEF Registers, SessionTypeOK, Callbacks
<1>2. /\ phase = "up" /\ phase' = "exiting" /\ callbacks' = Append(callbacks, "abort")
      /\ UNCHANGED <<area, batch_init, exit_message, batched>>
  BY Zenon DEF StartExit, Terminate, vars
<1>3. /\ callbacks' \in Seq(Callbacks) /\ DetachOnce'
      /\ (Listed("flush")' <=> Listed("flush")) /\ (Listed("detach")' <=> Listed("detach"))
  BY <1>1, <1>2, AppendLists, Zenon DEF Registered
<1>4. SessionTypeOK'
  BY <1>1, <1>2, <1>3, Zenon DEF SessionTypeOK, Callbacks, area
<1>5. Registered'
  BY <1>1, <1>2, <1>3, Zenon DEF Registered, area
<1> QED
  BY <1>4, <1>5, Zenon DEF Registers

(* A callback runs: the handle goes with the detach callback, the batch's  *)
(* events with the flush.                                                  *)
LEMMA CallbackRegisters ==
  ASSUME Registers, Detach \/ AbortAtExit \/ FlushAtExit
  PROVE  Registers'
<1>1. /\ SessionTypeOK /\ Registered
      /\ callbacks \in Seq(Callbacks)
      /\ "detach" \in Callbacks /\ "flush" \in Callbacks
  BY Zenon DEF Registers, SessionTypeOK, Callbacks
<1>2. /\ phase = "exiting" /\ callbacks # <<>> /\ callbacks' = Front(callbacks)
      /\ UNCHANGED <<phase, batch_init, exit_message>>
  BY Zenon DEF Detach, AbortAtExit, FlushAtExit, NextIs
<1>3. /\ callbacks' \in Seq(Callbacks) /\ DetachOnce'
      /\ \A name \in Callbacks :
           /\ Listed(name)' => Listed(name)
           /\ Listed(name) /\ Last(callbacks) # name => Listed(name)'
      /\ Last(callbacks) = "detach" => ~Listed("detach")' /\ Listed("detach")
  BY <1>1, <1>2, FrontLists, Zenon DEF Registered
<1>4. CASE Detach
  <2>1. /\ psch_dsa' = FALSE /\ refcnt' = refcnt - 1 /\ exit_hook' = FALSE
        /\ UNCHANGED batched /\ Last(callbacks) = "detach"
    BY <1>4, Zenon DEF Detach, vars, NextIs
  <2>2. psch_dsa /\ refcnt = 1 /\ refcnt' = 0
    BY <1>1, <1>3, <2>1 DEF Registered
  <2>3. SessionTypeOK'
    <3>1. psch_dsa' \in BOOLEAN /\ exit_hook' \in BOOLEAN
      BY <2>1, Zenon
    <3>2. refcnt' \in Nat
      BY <2>2, Zenon
    <3> QED
      BY <1>1, <1>2, <1>3, <3>1, <3>2, Zenon DEF SessionTypeOK, Callbacks
  <2>4. Registered'
    BY <1>1, <1>2, <1>3, <2>1, <2>2, Zenon DEF Registered
  <2> QED
    BY <2>3, <2>4, Zenon DEF Registers
<1>5. CASE AbortAtExit \/ FlushAtExit
  <2>1. /\ UNCHANGED area /\ batched' \in {0, batched}
        /\ Last(callbacks) # "detach"
        /\ Last(callbacks) = "flush" => batched' = 0
    <3>1. CASE AbortAtExit
      BY <3>1, Zenon DEF AbortAtExit, NextIs, LocalBatchFlush, vars
    <3>2. CASE FlushAtExit
      BY <3>2, Zenon DEF FlushAtExit, NextIs, LocalBatchFlush
    <3> QED
      BY <1>5, <3>1, <3>2, Zenon
  <2>2. SessionTypeOK'
    BY <1>1, <1>2, <1>3, <2>1, Zenon DEF SessionTypeOK, Callbacks, area
  <2>3. Listed("detach")' <=> Listed("detach")
    BY <1>1, <1>3, <2>1, Zenon
  <2>4. Registered'
    BY <1>1, <1>2, <1>3, <2>1, <2>3, Zenon DEF Registered, area
  <2> QED
    BY <2>2, <2>4, Zenon DEF Registers
<1> QED
  BY <1>4, <1>5, Zenon

(* The callbacks of a backend that is gone.                                *)
LEMMA GoneRegisters ==
  ASSUME Registers, Gone
  PROVE  Registers'
<1>1. SessionTypeOK /\ Registered
  BY Zenon DEF Registers
<1>2. /\ phase = "exiting" /\ callbacks = <<>> /\ phase' = "gone"
      /\ UNCHANGED <<batched, area, batch_init, callbacks, exit_message>>
  BY Zenon DEF Gone
<1>3. ~Listed("flush")
  BY <1>2 DEF Listed
<1>4. SessionTypeOK'
  BY <1>1, <1>2, Zenon DEF SessionTypeOK, area
<1>5. Registered'
  BY <1>1, <1>2, <1>3 DEF Registered, area, DetachOnce, Listed
<1> QED
  BY <1>4, <1>5, Zenon DEF Registers

-----------------------------------------------------------------------------
(* A name that is not that of the cached user belongs to a dropped role,   *)
(* and roles are not undropped.                                            *)
LEMMA NamesKeep ==
  ASSUME NameCached,
         \/ UNCHANGED names
         \/ ResolveNames \/ BeginTxn \/ SetRole \/ EndTxn \/ DropRole
  PROVE  NameCached'
<1>1. CASE UNCHANGED names
  BY <1>1, Zenon DEF names, backend_state, NameCached
<1>2. CASE ResolveNames
  BY <1>2, Zenon
     DEF ResolveNames, EnsureBackendCache, CacheUsername, backend_state,
     NameCached
<1>3. CASE BeginTxn \/ SetRole \/ EndTxn \/ DropRole
  <2>1. UNCHANGED backend_state /\ dropped \subseteq dropped'
    <3>1. CASE DropRole
      BY <3>1, Zenon DEF DropRole
    <3>2. CASE BeginTxn \/ SetRole \/ EndTxn
      BY <3>2, Zenon DEF BeginTxn, SetRole, EndTxn
    <3> QED
      BY <1>3, <3>1, <3>2, Zenon
  <2> QED
    BY <2>1, Zenon DEF backend_state, NameCached
<1> QED
  BY <1>1, <1>2, <1>3, Zenon

(* The steps of the other backends and of the worker.                      *)
LEMMA AroundKeeps ==
  ASSUME CallsInv, UNCHANGED session,
         OtherLocks \/ OtherUnlocks \/ Drain \/ UNCHANGED vars
  PROVE  CallsInv' /\ UNCHANGED batched
<1>1. CallStack /\ TypeOK /\ Owned /\ AtExit
  BY Zenon DEF CallsInv
<1>2. /\ UNCHANGED <<disable_error_capture, stack, throwing, batched, cancelled>>
      /\ UNCHANGED <<phase, exit_message>>
      /\ full' \in BOOLEAN
      /\ lock' = lock \/ lock' \in {"free", "other"}
  BY <1>1, Zenon DEF OtherLocks, OtherUnlocks, Drain, vars, session, TypeOK
<1>3. CallStack'
  BY <1>1, <1>2, Zenon DEF CallStack, Guarded
<1>4. Owned' /\ AtExit'
  BY <1>1, <1>2, Zenon DEF Owned, AtExit, CaptureFailedAtExit
<1>5. TypeOK'
  BY <1>1, <1>2, <1>3, Zenon DEF TypeOK, CallStack
<1> QED
  BY <1>2, <1>3, <1>4, <1>5, Zenon DEF CallsInv

(* The invariant holds initially.                                          *)
LEMMA InitIInv == SessionInit => IInv
<1> SUFFICES ASSUME SessionInit
             PROVE  IInv
  BY Zenon
<1> USE DEF SessionInit, Init
<1>1. stack \in Seq(Frames) /\ Chained(stack)
  BY DEF Chained
<1>2. CallStack
  BY <1>1, Zenon DEF CallStack, Guarded
<1>3. TypeOK
  <2>1. batched \in 0..BatchCapacity
    BY CaptureAssumption
  <2> QED
    BY <1>2, <2>1, Zenon DEF CallStack, TypeOK
<1>4. Owned /\ AtExit
  BY Zenon DEF Owned, AtExit
<1>5. SessionTypeOK
  <2>1. callbacks \in Seq({"detach", "flush", "abort"})
    OBVIOUS
  <2>2. psch_dsa \in BOOLEAN /\ exit_hook \in BOOLEAN /\ batch_init \in BOOLEAN
    BY Zenon
  <2> QED
    BY <2>1, <2>2, Zenon DEF SessionTypeOK
<1>6. ~Listed("detach") /\ DetachOnce
  BY DEF Listed, DetachOnce
<1>7. Registered
  BY <1>6, Zenon DEF Registered
<1>8. NameCached
  BY Zenon DEF NamesInit, NameCached
<1> QED
  BY <1>2, <1>3, <1>4, <1>5, <1>7, <1>8, Zenon DEF IInv, CallsInv

(* The steps of calls in progress that leave the area alone.               *)
LEMMA StepsIInv ==
  ASSUME IInv, Steps
  PROVE  IInv'
<1>1. CallsInv /\ Registers /\ NameCached
  BY Zenon DEF IInv, Registers
<1>2. UNCHANGED session /\ UNCHANGED <<phase, exit_message>>
  BY Zenon DEF Steps, session
<1>3. NameCached'
  BY <1>1, NamesKeep, Zenon DEF Steps
<1>4. CallsInv' /\ batched' \in {0, batched}
  <2>1. CASE Capture \/ EndCapture \/ AddToFull
    BY <1>1, <1>2, <2>1, CapturesKeep, Zenon DEF Capture, EndCapture, AddToFull
  <2>2. CASE \/ phase = "up" /\ (CaptureThrows \/ Cancel)
           \/ Unwind \/ Abort
    BY <1>1, <1>2, <2>2, ErrorsKeep, Zenon
  <2>3. CASE Moves
    BY <1>1, <1>2, <2>3, MovesKeep, Zenon
  <2>4. CASE Dropped \/ Unlock
    BY <1>1, <1>2, <2>4, ReturnsKeep, Zenon DEF Dropped, Unlock
  <2> QED
    BY <2>1, <2>2, <2>3, <2>4, Zenon DEF Steps, Moves
<1>5. Registers'
  BY <1>1, <1>2, <1>4, SameCallbacks, Zenon
<1> QED
  BY <1>3, <1>4, <1>5, Zenon DEF IInv, Registers

(* Every step keeps the invariant.                                         *)
LEMMA NextIInv ==
  ASSUME IInv, [SessionNext]_all
  PROVE  IInv'
<1>1. CallsInv /\ Registers /\ NameCached /\ CallStack /\ AtExit
  BY Zenon DEF IInv, Registers, CallsInv
<1>2. CASE Around
  <2>1. UNCHANGED session /\ (OtherLocks \/ OtherUnlocks \/ Drain \/ UNCHANGED vars)
        /\ (UNCHANGED names \/ DropRole)
    BY <1>2, Zenon DEF Around
  <2> QED
    BY <1>1, <2>1, AroundKeeps, SameCallbacks, NamesKeep, Zenon
       DEF IInv, Registers
<1>3. CASE Starts
  <2>1. UNCHANGED session /\ UNCHANGED <<phase, exit_message>> /\ phase = "up"
    BY <1>3, Zenon DEF Starts, session
  <2>2. NameCached'
    BY <1>1, <1>3, NamesKeep, Zenon DEF Starts
  <2>3. CallsInv' /\ batched' \in {0, batched}
    <3>1. CASE Report \/ Message \/ TxnEnd
      BY <1>1, <2>1, <3>1, StartsKeep, Zenon
    <3>2. CASE UNCHANGED vars
      BY <1>1, <2>1, <3>2, AroundKeeps, Zenon
    <3> QED
      BY <1>3, <3>1, <3>2, Zenon DEF Starts
  <2> QED
    BY <1>1, <2>1, <2>2, <2>3, SameCallbacks, Zenon DEF IInv, Registers
<1>4. CASE StartExit \/ Terminate
  <2>1. UNCHANGED names
    BY <1>4, Zenon DEF StartExit, Terminate
  <2> QED
    BY <1>1, <1>4, <2>1, ExitKeeps, ExitRegisters, NamesKeep, Zenon
       DEF IInv, Registers
<1>5. CASE MessageAtExit
  <2>1. /\ UNCHANGED names /\ UNCHANGED <<area, batch_init, callbacks, phase, batched>>
        /\ exit_message' = "raised" /\ phase # "gone"
    BY <1>5, Zenon DEF MessageAtExit, Message
  <2>2. Registers'
    BY <1>1, <2>1, Zenon
       DEF Registers, SessionTypeOK, Registered, DetachOnce, Listed, area
  <2> QED
    BY <1>1, <1>5, <2>1, <2>2, ExitMessageKeeps, NamesKeep, Zenon
       DEF IInv, Registers
<1>6. CASE Steps
  BY <1>6, StepsIInv, Zenon
<1>7. CASE SessionEnqueue \/ SessionEnqueueThrows
  <2>1. /\ UNCHANGED names /\ UNCHANGED <<batch_init, phase, exit_message>>
        /\ MaybeGetArea /\ (Moves \/ (phase = "up" /\ EnqueueThrows))
    BY <1>7, Zenon DEF SessionEnqueue, SessionEnqueueThrows, Moves
  <2>2. phase # "gone"
    <3>1. Enqueue \/ EnqueueThrows
      BY <1>7, Zenon DEF SessionEnqueue, SessionEnqueueThrows
    <3>2. stack # <<>>
      BY <3>1, Zenon DEF Enqueue, EnqueueThrows, At
    <3> QED
      BY <1>1, <3>2, Zenon DEF AtExit
  <2>3. CallsInv' /\ UNCHANGED batched
    BY <1>1, <2>1, MovesKeep, Zenon
  <2> QED
    BY <1>1, <2>1, <2>2, <2>3, AreaRegisters, NamesKeep, Zenon
       DEF IInv, Registers
<1>8. CASE SessionAdd
  <2>1. UNCHANGED names /\ Add /\ UNCHANGED <<phase, exit_message>>
    BY <1>8, Zenon DEF SessionAdd
  <2> QED
    BY <1>1, <1>8, <2>1, ReturnsKeep, AddRegisters, NamesKeep, Zenon
       DEF IInv, Registers
<1>9. CASE FatalAtExit
  <2>1. /\ UNCHANGED names /\ UNCHANGED <<batch_init, phase, batched>>
        /\ MaybeGetArea /\ phase # "gone" /\ exit_message' \in {exit_message, "failed"}
    BY <1>9, Zenon DEF FatalAtExit
  <2> QED
    BY <1>1, <1>9, <2>1, FatalKeeps, AreaRegisters, NamesKeep, Zenon
       DEF IInv, Registers
<1>10. CASE Detach \/ AbortAtExit \/ FlushAtExit \/ Gone
  <2>1. UNCHANGED names
    BY <1>10, Zenon DEF Detach, AbortAtExit, FlushAtExit, Gone
  <2> QED
    BY <1>1, <1>10, <2>1, CallbacksKeep, CallbackRegisters, GoneRegisters,
       NamesKeep, Zenon
       DEF IInv, Registers
<1>11. CASE UNCHANGED all
  <2>1. UNCHANGED names /\ UNCHANGED session /\ UNCHANGED vars /\ UNCHANGED batched
    BY <1>11, Zenon DEF all, vars
  <2> QED
    BY <1>1, <2>1, AroundKeeps, SameCallbacks, NamesKeep, Zenon
       DEF IInv, Registers
<1> QED
  BY <1>2, <1>3, <1>4, <1>5, <1>6, <1>7, <1>8, <1>9, <1>10, <1>11, Zenon
     DEF SessionNext

-----------------------------------------------------------------------------
(* The invariant of a session: in every reachable state.                   *)
THEOREM SessionInvariance == SessionSpec => []IInv
<1>1. SessionInit => IInv
  BY InitIInv, Zenon
<1>2. IInv /\ [SessionNext]_all => IInv'
  BY NextIInv, Zenon
<1> QED
  BY <1>1, <1>2, PTL DEF SessionSpec

(* However many events the local batch holds: a backend that owns the      *)
(* queue lock never comes to wait for it, through a message, an error or   *)
(* an exit that starts over.                                               *)
THEOREM QueueNotRelocked == SessionSpec => []NoSelfDeadlock
<1>1. ASSUME IInv
      PROVE  NoSelfDeadlock
  <2>1. SUFFICES ASSUME lock = "self", ~CaptureFailedAtExit, NEW i \in DOMAIN stack
                 PROVE  stack[i].at # "lock"
    BY Zenon DEF NoSelfDeadlock
  <2>2. CallStack /\ Owned
    BY <1>1, Zenon DEF IInv, CallsInv
  <2>3. stack \in Seq(Frames) /\ Chained(stack) /\ Len(stack) \in Nat /\ i \in 1..Len(stack)
    BY <2>1, <2>2 DEF CallStack
  <2>4. stack # <<>>
    BY <2>3
  <2>5. Last(stack).at \in {"locked", "unlock"}
    BY <2>1, <2>2, <2>4, Zenon DEF Owned, InSection
  <2>6. CASE i = Len(stack)
    BY <2>5, <2>6, Zenon DEF Last
  <2>7. CASE i # Len(stack)
    <3>1. i + 1 \in 1..Len(stack) /\ i + 1 > 1 /\ (i + 1) - 1 = i
      BY <2>3, <2>7
    <3>2. Over(stack[i], stack[i + 1])
      BY <2>3, <3>1, Zenon DEF Chained
    <3> QED
      BY <3>2, Zenon DEF Over
  <2> QED
    BY <2>6, <2>7, Zenon
<1> QED
  BY <1>1, SessionInvariance, PTL

(* Capture is enabled again whenever no call is in progress, unless one    *)
(* was cancelled: through every return, PG_FINALLY and PG_CATCH.           *)
THEOREM CaptureComesBack == SessionSpec => []CaptureRestored
<1>1. ASSUME IInv
      PROVE  CaptureRestored
  BY <1>1, Zenon DEF IInv, CallsInv, CallStack, Guarded, CaptureRestored, Idle
<1> QED
  BY <1>1, SessionInvariance, PTL

(* One reference on the area per handle, and nothing left behind at exit,  *)
(* in whichever order the callbacks were registered and however often the  *)
(* exit starts over.                                                       *)
THEOREM AreaReleased == SessionSpec => []AttachmentsCounted
<1>1. ASSUME IInv
      PROVE  AttachmentsCounted
  <2>1. SessionTypeOK /\ Registered
    BY <1>1, Zenon DEF IInv
  <2>2. callbacks = <<>> => ~Listed("detach")
    BY DEF Listed
  <2> QED
    BY <2>1, <2>2, Zenon DEF Registered, AttachmentsCounted
<1> QED
  BY <1>1, SessionInvariance, PTL

(* An event built inside a transaction names its user, whatever roles were *)
(* set, put back or dropped before.                                        *)
THEOREM NamesItsUser == SessionSpec => EventNamesItsUser
<1>1. ASSUME IInv, [SessionNext]_all, Report \/ Capture, in_txn, userid \notin dropped
      PROVE  initialized' /\ username' = userid
  <2>1. CallStack /\ NameCached
    BY <1>1, Zenon DEF IInv, CallsInv
  <2>2. /\ ~throwing /\ ~throwing' /\ stack' # stack /\ stack' # <<>>
        /\ Last(stack').fn = "PschEnqueueEvent"
        /\ Report => stack = <<>>
        /\ Capture => stack # <<>> /\ Top.fn = Hook /\ Top.at = "capture"
    <3>1. CASE Report
      <4>1. stack = <<>> /\ ~throwing /\ ~throwing'
            /\ stack' = Append(stack, Frame("PschEnqueueEvent", "check"))
        BY <3>1, Zenon DEF Report, Call, Idle
      <4>2. stack' = <<Frame("PschEnqueueEvent", "check")>>
        BY <4>1
      <4> QED
        BY <3>1, <4>1, <4>2 DEF Last, Frame, Capture, At
    <3>2. CASE Capture
      <4>1. /\ stack' # <<>> /\ Last(stack').fn = "PschEnqueueEvent"
            /\ Len(stack') = Len(stack) + 1 /\ stack \in Seq(Frames)
        BY <2>1, <3>2, CapturingCall, Zenon DEF CallStack
      <4>2. /\ ~throwing /\ ~throwing'
            /\ stack # <<>> /\ Top.fn = Hook /\ Top.at = "capture"
        BY <3>2, Zenon DEF Capture, At, Hook
      <4>3. stack' # stack
        BY <4>1
      <4> QED
        BY <4>1, <4>2, <4>3, Zenon DEF Report, Idle
    <3> QED
      BY <1>1, <3>1, <3>2, Zenon
  <2>3. ASSUME Message
        PROVE  FALSE
    <3>1. stack = <<>> /\ EmitLog(stack)
      BY <2>3, Zenon DEF Message, Idle
    <3>2. stack' = stack \/ stack' = <<Frame(Hook, "capture")>>
      BY <3>1 DEF EmitLog, Hook
    <3> QED
      BY <2>2, <3>2 DEF Last, Frame, Hook
  <2>4. ASSUME Idle, Call("PschEnqueueBatch", stack)
        PROVE  FALSE
    <3>1. stack' = <<Frame("PschEnqueueBatch", "check")>>
      BY <2>4 DEF Call, Idle
    <3> QED
      BY <2>2, <3>1, Zenon DEF Last, Frame
  <2>5. ResolveNames
    <3>1. CASE UNCHANGED stack \/ stack' = <<>>
      BY <2>2, <3>1, Zenon
    <3>2. CASE Around \/ StartExit \/ Terminate \/ FatalAtExit \/ Detach \/ Gone \/ UNCHANGED all
      <4>1. UNCHANGED stack \/ stack' = <<>>
        BY <3>2, Zenon
           DEF Around, OtherLocks, OtherUnlocks, Drain, StartExit, Terminate,
                    FatalAtExit, Detach, Gone, vars, all
      <4> QED
        BY <3>1, <4>1, Zenon
    <3>3. CASE Starts
      <4>1. CASE TxnEnd
        BY <2>4, <4>1, Zenon DEF TxnEnd
      <4> QED
        BY <2>2, <2>3, <3>3, <4>1, Zenon DEF Starts, vars
    <3>4. CASE MessageAtExit
      BY <2>3, <3>4, Zenon DEF MessageAtExit
    <3>5. CASE AbortAtExit \/ FlushAtExit
      <4>1. Idle /\ (LocalBatchFlush \/ UNCHANGED stack)
        BY <3>5, Zenon DEF AbortAtExit, FlushAtExit, NextIs, vars
      <4> QED
        BY <2>2, <2>4, <4>1, Zenon DEF LocalBatchFlush
    <3>6. CASE SessionEnqueue \/ SessionEnqueueThrows \/ SessionAdd
      <4>1. \E fn \in QueueCalls, at \in {"locked", "add"} : At(fn, at)
        BY <3>6, Zenon
           DEF SessionEnqueue, SessionEnqueueThrows, SessionAdd, Enqueue,
                    EnqueueThrows, Add, QueueCalls
      <4> QED
        BY <1>1, <2>2, <4>1, Zenon DEF At
    <3>7. CASE Steps
      <4>1. ASSUME NEW fn \in QueueCalls \cup {Hook}, NEW at, At(fn, at), at # "capture"
            PROVE  FALSE
        BY <1>1, <2>2, <4>1, Zenon DEF At
      <4>2. ~CaptureThrows /\ ~Unwind /\ ~Abort
        BY <2>2, Zenon DEF CaptureThrows, Unwind, Abort
      <4>3. ~EndCapture /\ ~AddToFull
        BY <4>1, Zenon DEF EndCapture, AddToFull, QueueCalls, Hook
      <4>4. ~Overflow /\ ~Warn /\ ~Warned /\ ~Dropped /\ ~Cancel
        BY <4>1, Zenon DEF Overflow, Warn, Warned, Dropped, Cancel
      <4>5. ~TryLock /\ ~WaitForLock /\ ~Lock /\ ~WarnLocked /\ ~Unlock
        BY <4>1, Zenon
           DEF TryLock, WaitForLock, Lock, WarnLocked, Unlock, QueueCalls
      <4> QED
        BY <3>7, <4>2, <4>3, <4>4, <4>5, Zenon DEF Steps
    <3> QED
      BY <1>1, <3>2, <3>3, <3>4, <3>5, <3>6, <3>7, Zenon DEF SessionNext
  <2> QED
    BY <1>1, <2>1, <2>5, Zenon
       DEF ResolveNames, EnsureBackendCache, CacheUsername, backend_state,
       NameCached
<1> QED
  BY <1>1, SessionInvariance, PTL DEF SessionSpec, EventNamesItsUser
=============================================================================
