---------------------------- MODULE EventChannel ----------------------------
(***************************************************************************)
(* What the shared-memory queue promises, with no shared memory in sight:  *)
(* a first-in first-out channel of at most Capacity events from the        *)
(* backends to the background worker.  Every event enters at most once, is *)
(* delivered at most once and in the order of entry, and an event that is  *)
(* given up (dropped on overflow, or discarded) never enters the channel.  *)
(***************************************************************************)
EXTENDS Naturals, Sequences

CONSTANTS Events,    \* everything a backend may ever want to report
          Capacity   \* pg_stat_ch.queue_capacity

VARIABLES chan,      \* events published and not yet dequeued, oldest first
          out,       \* events dequeued, in the order of dequeuing
          lost       \* events given up before they were published

chanVars == <<chan, out, lost>>

RangeOf(s) == {s[i] : i \in 1..Len(s)}

Fresh(e) == e \notin RangeOf(chan) \cup RangeOf(out) \cup lost

Init ==
  /\ chan = <<>>
  /\ out = <<>>
  /\ lost = {}

Put(e) ==
  /\ Fresh(e)
  /\ Len(chan) < Capacity
  /\ chan' = Append(chan, e)
  /\ UNCHANGED <<out, lost>>

Get ==
  /\ chan # <<>>
  /\ out' = Append(out, Head(chan))
  /\ chan' = Tail(chan)
  /\ UNCHANGED lost

GiveUp(S) ==
  /\ \A e \in S : Fresh(e)
  /\ lost' = lost \cup S
  /\ UNCHANGED <<chan, out>>

Next ==
  \/ \E e \in Events : Put(e)
  \/ Get
  \/ \E S \in SUBSET Events : GiveUp(S)

Spec == Init /\ [][Next]_chanVars
=============================================================================
