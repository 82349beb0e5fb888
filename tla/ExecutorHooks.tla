--------------------------- MODULE ExecutorHooks ----------------------------
(***************************************************************************)
(* The executor and utility hooks of one backend (src/src/hooks/hooks.c)   *)
(* and the statics they share: the nesting level, and the top-level flag,  *)
(* start time and resource baseline that ExecutorStart leaves for          *)
(* ExecutorEnd.                                                            *)
(*                                                                         *)
(* Statements run inside one another (functions, triggers, DO blocks) and  *)
(* beside one another (cursors); an error unwinds to wherever it is        *)
(* caught; pg_stat_ch.enabled is reloaded between two commands.            *)
(* PostgreSQL's executor is external.  In a parallel worker every hook     *)
(* passes the call on and does nothing else.                               *)
(*                                                                         *)
(* One clock stands for the time of day and for the resources used so far: *)
(* it advances when a statement begins and when one ends.                  *)
(***************************************************************************)
EXTENDS Integers, Sequences, FiniteSets, SequencesExt

CONSTANTS
  Queries,     \* executions of planned statements (QueryDescs)
  MayLackId,   \* those of them whose queryId may be 0
  Utilities,   \* executions of utility statements
  Untracked,   \* those of them that are transaction control, PREPARE, ...
  MaxDepth,    \* bound on the calls in progress
  psch_min_duration_us,
  psch_sample_rate   \* in per cent

ASSUME HooksAssumption ==
  /\ MayLackId \subseteq Queries
  /\ Untracked \subseteq Utilities
  /\ Queries \cap Utilities = {}
  /\ MaxDepth \in Nat \ {0}
  /\ psch_min_duration_us \in Nat
  /\ psch_sample_rate \in 0..100

Statements == Queries \cup Utilities

VARIABLES
  psch_enabled,
  lackId,    \* the queries whose queryId is 0
  nesting_level, current_query_is_top_level, query_start_ts,   \* statics
  rusage_start,                                                \* static
  totaltime, \* of the queries that have an Instrumentation: the time in it
  locals,    \* of each PschProcessUtility: is it tracked, its level and start
  stack,     \* the calls in progress, innermost last: the statements
  state,     \* of each statement: "new", "open", "finishing", "done"
  clock,
  began,     \* when a statement began and
  ended,     \* ended, and whether
  outer,     \* no tracked statement was executing when it began (ghosts)
  emitted    \* the events: [of, top_level, ts_start, duration_us, cpu]

config == <<psch_enabled, lackId>>
started == <<current_query_is_top_level, query_start_ts, rusage_start>>
statics == <<nesting_level, started>>
ghosts == <<began, ended, outer>>
vars ==
  <<config, statics, totaltime, locals, stack, state, clock, ghosts, emitted>>

Init ==
  /\ psch_enabled \in BOOLEAN
  /\ lackId \in SUBSET MayLackId
  /\ nesting_level = 0
  /\ current_query_is_top_level = FALSE
  /\ query_start_ts = 0
  /\ rusage_start = 0
  /\ totaltime = <<>>
  /\ locals = [u \in Utilities |->
                 [tracked |-> FALSE, is_top_level |-> FALSE, start |-> 0]]
  /\ stack = <<>>
  /\ state = [s \in Statements |-> "new"]
  /\ clock = 0
  /\ began = [s \in Statements |-> 0]
  /\ ended = [s \in Statements |-> 0]
  /\ outer = [s \in Statements |-> FALSE]
  /\ emitted = {}

-----------------------------------------------------------------------------
(* Is a call on the stack counted in nesting_level?                        *)
Counted(s) == s \in Queries \/ locals[s].tracked

(* How many of the calls at positions lo to hi of the stack are.           *)
Levels(lo, hi) == Cardinality({i \in lo..hi : Counted(stack[i])})

(* What a tick of the clock adds to the Instrumentation of query q.        *)
Elapsed(q) == IF q \in ToSet(stack) THEN 1 ELSE 0

Tick ==
  /\ clock' = clock + 1
  /\ totaltime' = [q \in DOMAIN totaltime |-> totaltime[q] + Elapsed(q)]

Begin(s) ==
  /\ state[s] = "new"
  /\ state' = [state EXCEPT ![s] = "open"]
  /\ began' = [began EXCEPT ![s] = clock + 1]
  /\ outer' = [outer EXCEPT ![s] = (Levels(1, Len(stack)) = 0)]
  /\ UNCHANGED ended

End(s) ==
  /\ Tick
  /\ state' = [state EXCEPT ![s] = "done"]
  /\ ended' = [ended EXCEPT ![s] = clock + 1]
  /\ UNCHANGED <<began, outer>>

(* The answers that ShouldSampleEvent may give.                            *)
ShouldSampleEvent(duration_us) ==
  CASE duration_us >= psch_min_duration_us -> {TRUE}
    [] psch_sample_rate = 0 -> {FALSE}
    [] psch_sample_rate = 100 -> {TRUE}
    [] OTHER -> BOOLEAN

(* The fields of an event that the properties tell apart.                  *)
InitBaseEvent(s, ts_start, top_level, duration_us, cpu) ==
  [of |-> s, ts_start |-> ts_start, top_level |-> top_level,
   duration_us |-> duration_us, cpu |-> cpu]

(* PschEnqueueEvent, if the event is sampled                               *)
Emit(event) ==
  \E sampled \in ShouldSampleEvent(event.duration_us) :
    emitted' = IF sampled THEN emitted \cup {event} ELSE emitted

(* SIGHUP is served between two commands; cursors stay open.               *)
Reload ==
  /\ stack = <<>>
  /\ psch_enabled' = ~psch_enabled
  /\ UNCHANGED <<lackId, statics, totaltime, locals, stack, state, clock, ghosts,
                 emitted>>

-----------------------------------------------------------------------------
(* InstrAlloc, if the extension is on and the query has an id              *)
Instrument(q) ==
  LET timed == IF psch_enabled /\ q \notin lackId THEN {q} ELSE {}
  IN totaltime' = [p \in DOMAIN totaltime \cup timed |->
                     IF p = q THEN 0 ELSE totaltime[p] + Elapsed(p)]

(* Variant: only the first query takes a resource baseline.                *)
ExecutorStartOneBaseline(q) ==
  /\ Begin(q)
  /\ clock' = clock + 1
  /\ current_query_is_top_level' = (nesting_level = 0)
  /\ query_start_ts' = IF nesting_level = 0 THEN clock + 1 ELSE query_start_ts
  /\ rusage_start' =
       IF psch_enabled /\ rusage_start = 0 THEN clock + 1 ELSE rusage_start
  /\ Instrument(q)
  /\ UNCHANGED <<config, nesting_level, locals, stack, emitted>>

(* PschExecutorStart                                                       *)
ExecutorStart(q) ==
  /\ Begin(q)
  /\ clock' = clock + 1
  /\ current_query_is_top_level' = (nesting_level = 0)
  /\ query_start_ts' = IF nesting_level = 0 THEN clock + 1 ELSE query_start_ts
  /\ rusage_start' =
       IF nesting_level = 0 /\ psch_enabled THEN clock + 1 ELSE rusage_start
  /\ Instrument(q)
  /\ UNCHANGED <<config, nesting_level, locals, stack, emitted>>

(* PschExecutorRun and PschExecutorFinish go in, and come out.             *)
Enter(q) ==
  /\ Len(stack) < MaxDepth
  /\ q \notin ToSet(stack)
  /\ nesting_level' = nesting_level + 1
  /\ stack' = Append(stack, q)
  /\ UNCHANGED <<config, started, totaltime, locals, clock, ghosts, emitted>>

ExecutorRun(q) ==
  /\ state[q] = "open"
  /\ Enter(q)
  /\ UNCHANGED state

ExecutorFinish(q) ==
  /\ state[q] = "open"
  /\ Enter(q)
  /\ state' = [state EXCEPT ![q] = "finishing"]

Leave(q) ==
  /\ stack # <<>>
  /\ Last(stack) = q
  /\ stack' = Front(stack)
  /\ nesting_level' = nesting_level - 1
  /\ UNCHANGED <<config, started, totaltime, locals, state, clock, ghosts, emitted>>

(* The query's own time where it has an Instrumentation; where not, the    *)
(* time since the last top-level start.                                    *)
DurationUs(q) ==
  IF q \in DOMAIN totaltime THEN totaltime[q] ELSE clock + 1 - query_start_ts

BuildEventFromQueryDesc(q) ==
  InitBaseEvent(q, query_start_ts, current_query_is_top_level, DurationUs(q),
                clock + 1 - rusage_start)

(* PschExecutorEnd                                                         *)
ExecutorEnd(q) ==
  /\ state[q] \in {"open", "finishing"}
  /\ q \notin ToSet(stack)
  /\ End(q)
  /\ IF psch_enabled /\ q \notin lackId
       THEN Emit(BuildEventFromQueryDesc(q))
       ELSE UNCHANGED emitted
  /\ UNCHANGED <<config, statics, locals, stack>>

-----------------------------------------------------------------------------
ShouldTrackUtility(u) == psch_enabled /\ u \notin Untracked

(* PschProcessUtility up to and including the call of the utility          *)
UtilityStart(u) ==
  /\ Begin(u)
  /\ Tick
  /\ Len(stack) < MaxDepth
  /\ locals' = [locals EXCEPT ![u] =
       [tracked |-> ShouldTrackUtility(u), is_top_level |-> nesting_level = 0,
        start |-> clock + 1]]
  /\ nesting_level' = nesting_level + IF ShouldTrackUtility(u) THEN 1 ELSE 0
  /\ stack' = Append(stack, u)
  /\ UNCHANGED <<config, started, emitted>>

(* Variant: the resource usage counts from the baseline of the queries.    *)
BuildEventForUtilityFromStatics(u) ==
  InitBaseEvent(u, locals[u].start, locals[u].is_top_level,
                clock + 1 - locals[u].start, clock + 1 - rusage_start)

BuildEventForUtility(u) ==
  InitBaseEvent(u, locals[u].start, locals[u].is_top_level,
                clock + 1 - locals[u].start, clock + 1 - locals[u].start)

(* ... and what follows it, on its own locals                              *)
UtilityEnd(u) ==
  /\ stack # <<>>
  /\ Last(stack) = u
  /\ End(u)
  /\ stack' = Front(stack)
  /\ IF locals[u].tracked
       THEN nesting_level' = nesting_level - 1 /\ Emit(BuildEventForUtility(u))
       ELSE UNCHANGED <<nesting_level, emitted>>
  /\ UNCHANGED <<config, started, locals>>

-----------------------------------------------------------------------------
(* Variant: no PG_FINALLY.                                                 *)
ErrorKeepsLevel(d) ==
  /\ d < Len(stack)
  /\ stack' = SubSeq(stack, 1, d)
  /\ state' = [s \in Statements |->
                 IF s \in ToSet(SubSeq(stack, d + 1, Len(stack)))
                 THEN "done" ELSE state[s]]
  /\ UNCHANGED <<config, statics, totaltime, locals, clock, ghosts, emitted>>

(* An error leaves all calls above depth d, through the PG_FINALLY of each *)
(* counted one.  The statements it passes are not ended, nor are those     *)
(* that were begun inside them.                                            *)
Error(d) ==
  /\ d < Len(stack)
  /\ stack' = SubSeq(stack, 1, d)
  /\ nesting_level' = nesting_level - Levels(d + 1, Len(stack))
  /\ state' = [s \in Statements |->
                 IF \/ s \in ToSet(SubSeq(stack, d + 1, Len(stack)))
                    \/ state[s] \in {"open", "finishing"}
                       /\ s \notin ToSet(stack)
                       /\ began[s] > began[stack[d + 1]]
                 THEN "done" ELSE state[s]]
  /\ UNCHANGED <<config, started, totaltime, locals, clock, ghosts, emitted>>

-----------------------------------------------------------------------------
Next ==
  \/ Reload
  \/ \E q \in Queries : \/ ExecutorStart(q) \/ ExecutorRun(q) \/ ExecutorFinish(q)
                        \/ Leave(q) \/ ExecutorEnd(q)
  \/ \E u \in Utilities : UtilityStart(u) \/ UtilityEnd(u)
  \/ \E d \in 0..MaxDepth : Error(d)

Spec == Init /\ [][Next]_vars

-----------------------------------------------------------------------------
(* Properties.                                                             *)

TypeOK ==
  /\ psch_enabled \in BOOLEAN
  /\ lackId \subseteq MayLackId
  /\ nesting_level \in Nat
  /\ current_query_is_top_level \in BOOLEAN
  /\ {query_start_ts, rusage_start, clock} \subseteq Nat
  /\ DOMAIN totaltime \subseteq Queries \ lackId
  /\ \A q \in DOMAIN totaltime : totaltime[q] \in Nat
  /\ locals \in
       [Utilities -> [tracked : BOOLEAN, is_top_level : BOOLEAN, start : Nat]]
  /\ stack \in Seq(Statements)
  /\ state \in [Statements -> {"new", "open", "finishing", "done"}]
  /\ {began, ended} \subseteq [Statements -> Nat]
  /\ outer \in [Statements -> BOOLEAN]
  /\ emitted \subseteq [of : Statements, top_level : BOOLEAN, ts_start : Nat,
                        duration_us : Nat, cpu : Nat]

(* After any mix of calls, returns and errors, caught or not, the level is *)
(* the number of tracked calls in progress: an error that skipped a        *)
(* decrement would make every later statement look nested.                 *)
NestingExact == TypeOK /\ nesting_level = Levels(1, Len(stack))

(* The event of a utility statement has its own level, start, duration and *)
(* resource usage, whatever statements ran inside it and whatever cursors  *)
(* were opened, read and closed around it.                                 *)
UtilityEventsRight ==
  \A e \in emitted : e.of \in Utilities =>
    /\ e.top_level = outer[e.of]
    /\ e.ts_start = began[e.of]
    /\ e.duration_us = ended[e.of] - began[e.of]
    /\ e.cpu = ended[e.of] - began[e.of]

(* A top-level query during which no other statement begins reports its    *)
(* own level and start, and at least its own resource usage: exactly that  *)
(* where the extension was already on when it began, else all since the    *)
(* last query that took a baseline.  Its duration is never longer than it  *)
(* was open.                                                               *)
UndisturbedRight ==
  \A e \in emitted :
    LET q == e.of
        open == ended[q] - began[q]
    IN /\ q \in Queries
       /\ outer[q]
       /\ \A s \in Statements \ {q} : began[s] \notin began[q]..ended[q]
       => /\ e.top_level
          /\ e.ts_start = began[q]
          /\ e.duration_us =< open
          /\ e.cpu >= open
          /\ q \in DOMAIN totaltime => e.cpu = open

(* event.h and hooks.mdx: the top_level flag says whether the query was a  *)
(* top-level one.                                                          *)
TopLevelFlagRight == \A e \in emitted : e.top_level = outer[e.of]
=============================================================================
