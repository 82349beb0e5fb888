------------------------ MODULE ExecutorHooksProofs -------------------------
(***************************************************************************)
(* Proofs about what a backend keeps between its hooks, the nesting level  *)
(* and the statics, for any number of statements, nested and side by side  *)
(* to any depth, with any errors and reloads.                              *)
(***************************************************************************)
EXTENDS ExecutorHooks, FiniteSetTheorems, TLAPS

-----------------------------------------------------------------------------
(* The inductive invariant of the executor hooks.                          *)

(* Has statement s begun and neither ended nor been left by an error?      *)
Open(s) == state[s] \in {"open", "finishing"}

(* The calls in progress are of open statements, of each at most one.      *)
CallsOpen ==
  \A i \in 1..Len(stack) :
    /\ Open(stack[i])
    /\ \A j \in 1..Len(stack) : stack[i] = stack[j] => i = j

(* The clock is past all that it was read for.                             *)
Clocked ==
  /\ query_start_ts =< clock /\ rusage_start =< clock
  /\ \A s \in Statements : IF state[s] = "new" THEN began[s] = 0
                                               ELSE began[s] \in 1..clock

(* The locals of PschProcessUtility are about this utility statement.      *)
LocalsOwn ==
  \A u \in Utilities : state[u] # "new" =>
    locals[u].start = began[u] /\ locals[u].is_top_level = outer[u]

(* An Instrumentation has run for no longer than its query was open.       *)
Timed ==
  \A q \in DOMAIN totaltime :
    state[q] # "new" /\ totaltime[q] =< clock - began[q]

(* No other statement has begun since q did, up to time t.                 *)
AloneUntil(q, t) == \A s \in Statements \ {q} : began[s] \notin began[q]..t

(* What ExecutorStart of a top-level query left in the statics is there as *)
(* long as no other statement begins.                                      *)
StaticsOwn ==
  \A q \in Queries : Open(q) /\ outer[q] /\ AloneUntil(q, clock) =>
    /\ current_query_is_top_level
    /\ query_start_ts = began[q]
    /\ rusage_start =< began[q]
    /\ q \in DOMAIN totaltime => rusage_start = began[q]

(* An event is of a statement that has ended, and the only one of it.      *)
EventsOfEnded ==
  \A e \in emitted :
    /\ state[e.of] = "done" /\ ended[e.of] \in began[e.of]..clock
    /\ \A f \in emitted : f.of = e.of => f = e

HooksInv ==
  /\ NestingExact /\ CallsOpen /\ Clocked /\ LocalsOwn /\ Timed /\ StaticsOwn
  /\ EventsOfEnded /\ UtilityEventsRight /\ UndisturbedRight

-----------------------------------------------------------------------------
(* Stacks and what is counted on them.                                     *)

(* One call more.                                                          *)
LEMMA Pushing ==
  ASSUME NEW S, NEW s \in Seq(S), NEW e \in S
  PROVE  /\ Append(s, e) \in Seq(S) /\ Len(s) \in Nat
         /\ Len(Append(s, e)) = Len(s) + 1
         /\ \A i \in 1..Len(s) : Append(s, e)[i] = s[i]
         /\ Append(s, e)[Len(s) + 1] = e
OBVIOUS

(* All calls below the innermost n - d ones.                               *)
LEMMA Cutting ==
  ASSUME NEW S, NEW s \in Seq(S), NEW d \in Nat, d < Len(s)
  PROVE  /\ SubSeq(s, 1, d) \in Seq(S)
         /\ Len(SubSeq(s, 1, d)) = d
         /\ \A i \in 1..d : SubSeq(s, 1, d)[i] = s[i]
         /\ ToSet(SubSeq(s, d + 1, Len(s))) = {s[i] : i \in d + 1..Len(s)}
<1>1. Len(s) \in Nat /\ \A i \in 1..Len(s) : s[i] \in S
  OBVIOUS
<1>2. /\ SubSeq(s, 1, d) \in Seq(S)
      /\ Len(SubSeq(s, 1, d)) = d
      /\ \A i \in 1..d : SubSeq(s, 1, d)[i] = s[i]
  BY <1>1
<1> DEFINE n == Len(s) - d
           t == SubSeq(s, d + 1, Len(s))
<1>3. n \in Nat /\ DOMAIN t = 1..n /\ \A i \in 1..n : t[i] = s[d + i]
  BY <1>1
<1>4. ToSet(t) = {t[i] : i \in 1..n}
  BY <1>3, Zenon DEF ToSet
<1>5. \A i \in d + 1..Len(s) : i - d \in 1..n /\ d + (i - d) = i
  BY <1>1
<1>6. \A i \in 1..n : d + i \in d + 1..Len(s)
  BY <1>1
<1> HIDE DEF n, t
<1>7. {t[i] : i \in 1..n} = {s[i] : i \in d + 1..Len(s)}
  <2>1. \A i \in 1..n : t[i] \in {s[j] : j \in d + 1..Len(s)}
    BY <1>3, <1>6, Zenon
  <2>2. \A j \in d + 1..Len(s) : s[j] \in {t[i] : i \in 1..n}
    <3> SUFFICES ASSUME NEW j \in d + 1..Len(s)
                 PROVE  s[j] \in {t[i] : i \in 1..n}
      BY Zenon
    <3> DEFINE i == j - d
    <3>1. i \in 1..n /\ d + i = j
      BY <1>5, Zenon
    <3> HIDE DEF i
    <3> QED
      BY <1>3, <3>1, Zenon
  <2> QED
    BY <2>1, <2>2, Zenon
<1> QED
  BY <1>2, <1>4, <1>7, Zenon DEF t

(* All but the innermost one.                                              *)
LEMMA Popping ==
  ASSUME NEW S, NEW s \in Seq(S), s # <<>>
  PROVE  /\ Len(s) \in Nat \ {0}
         /\ Front(s) \in Seq(S) /\ Len(Front(s)) = Len(s) - 1
         /\ \A i \in 1..Len(s) - 1 : Front(s)[i] = s[i]
         /\ Last(s) = s[Len(s)] /\ Last(s) \in S
<1>1. Len(s) \in Nat \ {0}
  OBVIOUS
<1> DEFINE d == Len(s) - 1
<1>2. d \in Nat /\ d < Len(s)
  BY <1>1
<1> HIDE DEF d
<1>3. /\ SubSeq(s, 1, d) \in Seq(S)
      /\ Len(SubSeq(s, 1, d)) = d
      /\ \A i \in 1..d : SubSeq(s, 1, d)[i] = s[i]
  BY <1>2, Cutting, Zenon
<1>4. s[Len(s)] \in S
  BY <1>1
<1> QED
  BY <1>1, <1>3, <1>4, Zenon DEF Front, Last, d

(* What is on it.                                                          *)
LEMMA OnStack ==
  ASSUME NEW S, NEW s \in Seq(S)
  PROVE  Len(s) \in Nat /\ ToSet(s) = {s[i] : i \in 1..Len(s)}
BY DEF ToSet

(* Some of n positions, one more, one less, and those up to one of them.   *)
LEMMA Positions ==
  ASSUME NEW n \in Nat, NEW P \in SUBSET (1..n)
  PROVE  /\ IsFiniteSet(P) /\ Cardinality(P) \in Nat
         /\ Cardinality(P \cup {n + 1}) = Cardinality(P) + 1
         /\ n \in P => Cardinality(P \ {n}) = Cardinality(P) - 1
         /\ \A Q \in SUBSET P :
              /\ Cardinality(Q) \in Nat
              /\ Cardinality(P \ Q) = Cardinality(P) - Cardinality(Q)
<1>1. IsFiniteSet(1..n)
  BY FS_Interval
<1>2. IsFiniteSet(P) /\ Cardinality(P) \in Nat
  BY <1>1, FS_Subset, FS_CardinalityType, Zenon
<1>3. n + 1 \notin P
  OBVIOUS
<1>4. Cardinality(P \cup {n + 1}) = Cardinality(P) + 1
  BY <1>2, <1>3, FS_AddElement, Zenon
<1>5. n \in P => Cardinality(P \ {n}) = Cardinality(P) - 1
  BY <1>2, FS_RemoveElement, Zenon
<1>6. ASSUME NEW Q \in SUBSET P
      PROVE  /\ Cardinality(Q) \in Nat
             /\ Cardinality(P \ Q) = Cardinality(P) - Cardinality(Q)
  <2>1. IsFiniteSet(Q) /\ Cardinality(Q) \in Nat
    BY <1>2, FS_Subset, FS_CardinalityType, Zenon
  <2>2. P \cap Q = Q
    BY Zenon
  <2>3. Cardinality(P \ Q) = Cardinality(P) - Cardinality(P \cap Q)
    BY <1>2, FS_Difference, Zenon
  <2> QED
    BY <2>1, <2>2, <2>3, Zenon
<1> QED
  BY <1>2, <1>4, <1>5, <1>6, Zenon

(* The positions that the nesting level counts.                            *)
CountedPositions == {i \in 1..Len(stack) : Counted(stack[i])}

(* They are as many as Levels says.                                        *)
LEMMA LevelsAre ==
  ASSUME TypeOK
  PROVE  /\ Len(stack) \in Nat /\ CountedPositions \in SUBSET (1..Len(stack))
         /\ Levels(1, Len(stack)) = Cardinality(CountedPositions)
         /\ \A i \in 1..Len(stack) : stack[i] \in Statements
BY DEF TypeOK, CountedPositions, Levels

(* It is a number, after a step too.                                       *)
LEMMA NewLevels ==
  ASSUME stack' \in Seq(Statements)
  PROVE  Levels(1, Len(stack))' \in Nat
<1>1. PICK n \in Nat : n = Len(stack')
  OBVIOUS
<1>2. PICK P : P = {i \in 1..n : Counted(stack[i])'}
  BY Zenon
<1>3. P \in SUBSET (1..n)
  BY <1>2, Zenon
<1>4. Cardinality(P) \in Nat
  BY <1>3, Positions, Zenon
<1>5. Levels(1, Len(stack))' = Cardinality(P)
  BY <1>1, <1>2, Zenon DEF Levels
<1> QED
  BY <1>4, <1>5, Zenon

(* A call that goes in.                                                    *)
LEMMA PushLevels ==
  ASSUME TypeOK, NEW s \in Statements,
         \A i \in 1..Len(stack) : stack[i] # s,
         stack' = Append(stack, s),
         \A u \in Utilities \ {s} : locals'[u] = locals[u]
  PROVE  Levels(1, Len(stack))'
           = Levels(1, Len(stack)) + IF Counted(s)' THEN 1 ELSE 0
<1>1. PICK n \in Nat : n = Len(stack)
  BY LevelsAre, Zenon
<1>2. PICK P \in SUBSET (1..n) : P = CountedPositions
  BY <1>1, LevelsAre, Zenon
<1>3. /\ Len(stack') = n + 1 /\ stack'[n + 1] = s
      /\ \A i \in 1..n : stack'[i] = stack[i]
  BY <1>1, Pushing DEF TypeOK
<1>4. \A i \in 1..n : Counted(stack[i])' <=> Counted(stack[i])
  BY <1>1, <1>3, LevelsAre DEF Counted, Statements
<1>5. Levels(1, Len(stack))' = Cardinality({i \in 1..n + 1 : Counted(stack[i])'})
  BY <1>3, Zenon DEF Levels
<1>6. Counted(stack[n + 1])' <=> Counted(s)'
  BY <1>3, Zenon DEF Counted
<1>7. {i \in 1..n + 1 : Counted(stack[i])'}
        = IF Counted(s)' THEN P \cup {n + 1} ELSE P
  <2>1. \A i \in 1..n + 1 : i \in 1..n \/ i = n + 1
    OBVIOUS
  <2>2. 1..n \subseteq 1..n + 1 /\ n + 1 \in 1..n + 1 /\ n + 1 \notin 1..n
    OBVIOUS
  <2>3. P = {i \in 1..n : Counted(stack[i])}
    BY <1>1, <1>2, Zenon DEF CountedPositions
  <2> QED
    BY <1>4, <1>6, <2>1, <2>2, <2>3, Zenon
<1>8. Cardinality(P \cup {n + 1}) = Cardinality(P) + 1 /\ Cardinality(P) \in Nat
  BY Positions, Zenon
<1>9. Levels(1, Len(stack)) = Cardinality(P)
  BY <1>2, LevelsAre, Zenon
<1>10. CASE Counted(s)'
  <2>1. {i \in 1..n + 1 : Counted(stack[i])'} = P \cup {n + 1}
    BY <1>7, <1>10, Zenon
  <2> QED
    BY <1>5, <1>8, <1>9, <1>10, <2>1, Zenon
<1>11. CASE ~Counted(s)'
  <2>1. {i \in 1..n + 1 : Counted(stack[i])'} = P
    BY <1>7, <1>11, Zenon
  <2>2. (IF Counted(s)' THEN 1 ELSE 0) = 0
    BY <1>11, Zenon
  <2>3. Levels(1, Len(stack))' = Levels(1, Len(stack))
    BY <1>5, <1>9, <2>1, Zenon
  <2>4. Levels(1, Len(stack)) \in Nat
    BY <1>8, <1>9, Zenon
  <2> QED
    BY <2>2, <2>3, <2>4
<1> QED
  BY <1>10, <1>11, Zenon

(* Calls that come out, in whatever way.                                   *)
LEMMA CutLevels ==
  ASSUME TypeOK, NEW d \in Nat, d < Len(stack),
         stack' = SubSeq(stack, 1, d), UNCHANGED locals
  PROVE  /\ Levels(d + 1, Len(stack)) \in Nat
         /\ Levels(1, Len(stack))'
              = Levels(1, Len(stack)) - Levels(d + 1, Len(stack))
<1>1. PICK n \in Nat : n = Len(stack)
  BY LevelsAre, Zenon
<1>2. PICK P \in SUBSET (1..n) : P = CountedPositions
  BY <1>1, LevelsAre, Zenon
<1>3. Len(stack') = d /\ \A i \in 1..d : stack'[i] = stack[i]
  BY Cutting DEF TypeOK
<1>4. \A i \in 1..d : Counted(stack[i])' <=> Counted(stack[i])
  BY <1>3, Zenon DEF Counted
<1>5. Levels(1, Len(stack))' = Cardinality({i \in 1..d : Counted(stack[i])'})
  BY <1>3, Zenon DEF Levels
<1> DEFINE Q == {i \in d + 1..n : Counted(stack[i])}
<1>6. Levels(d + 1, Len(stack)) = Cardinality(Q)
  BY <1>1, Zenon DEF Levels
<1>7. Q \in SUBSET P /\ {i \in 1..d : Counted(stack[i])'} = P \ Q
  <2>1. P = {i \in 1..n : Counted(stack[i])}
    BY <1>1, <1>2, Zenon DEF CountedPositions
  <2>2. /\ 1..d \subseteq 1..n /\ d + 1..n \subseteq 1..n
        /\ \A i \in 1..n : i \in 1..d <=> i \notin d + 1..n
    BY <1>1
  <2> QED
    BY <1>4, <2>1, <2>2, Zenon
<1> HIDE DEF Q
<1>8. Cardinality(Q) \in Nat /\ Cardinality(P \ Q) = Cardinality(P) - Cardinality(Q)
  BY <1>7, Positions, Zenon
<1>9. Levels(1, Len(stack)) = Cardinality(P)
  BY <1>2, LevelsAre, Zenon
<1> QED
  BY <1>5, <1>6, <1>7, <1>8, <1>9, Zenon

(* The innermost call comes out.                                           *)
LEMMA PopLevels ==
  ASSUME TypeOK, stack # <<>>, stack' = Front(stack), UNCHANGED locals
  PROVE  Levels(1, Len(stack))'
           = Levels(1, Len(stack)) - IF Counted(Last(stack)) THEN 1 ELSE 0
<1> DEFINE n == Len(stack)
           d == n - 1
<1>1. n \in Nat \ {0} /\ Last(stack) = stack[n]
  BY Popping, Zenon DEF TypeOK
<1>2. d \in Nat /\ d < n /\ stack' = SubSeq(stack, 1, d) /\ d + 1 = n
  BY <1>1 DEF Front
<1> HIDE DEF d
<1>3. Levels(1, n)' = Levels(1, n) - Levels(n, n)
  BY <1>2, CutLevels, Zenon
<1>4. {i \in n..n : Counted(stack[i])}
        = IF Counted(Last(stack)) THEN {n} ELSE {}
  <2>1. n..n = {n}
    BY <1>1
  <2> HIDE DEF n
  <2> QED
    BY <1>1, <2>1, Zenon
<1>5. Cardinality({n}) = 1 /\ Cardinality({}) = 0
  BY FS_Singleton, FS_EmptySet, Zenon
<1>6. Levels(n, n) = IF Counted(Last(stack)) THEN 1 ELSE 0
  <2> HIDE DEF n
  <2> QED
    BY <1>4, <1>5, Zenon DEF Levels
<1> QED
  BY <1>3, <1>6, Zenon

-----------------------------------------------------------------------------
(* What steps of each kind keep.                                           *)

(* A step in which no statement begins or ends: a call goes in or comes    *)
(* out, an error leaves some.                                              *)
LEMMA CallsMove ==
  ASSUME HooksInv,
         UNCHANGED <<started, totaltime, locals, clock, ghosts, emitted>>,
         \A s \in Statements : /\ state'[s] = "new" <=> state[s] = "new"
                               /\ state[s] = "done" => state'[s] = "done"
                               /\ Open(s)' => Open(s)
  PROVE  /\ Clocked' /\ LocalsOwn' /\ Timed' /\ StaticsOwn' /\ EventsOfEnded'
         /\ UtilityEventsRight' /\ UndisturbedRight'
<1>1. /\ UNCHANGED <<current_query_is_top_level, query_start_ts, rusage_start>>
      /\ UNCHANGED <<began, ended, outer, totaltime, locals, clock, emitted>>
  BY Zenon DEF started, ghosts
<1>2. Clocked'
  <2>1. Clocked
    BY Zenon DEF HooksInv
  <2> QED
    BY <1>1, <2>1, Zenon DEF Clocked
<1>3. LocalsOwn'
  BY <1>1, Zenon DEF HooksInv, LocalsOwn, Statements
<1>4. DOMAIN totaltime \subseteq Statements
  BY Zenon DEF HooksInv, NestingExact, TypeOK, Statements
<1>5. Timed'
  BY <1>1, <1>4, Zenon DEF HooksInv, Timed
<1>6. StaticsOwn'
  <2> SUFFICES ASSUME NEW q \in Queries, Open(q)', outer'[q], AloneUntil(q, clock)'
               PROVE  /\ current_query_is_top_level'
                      /\ query_start_ts' = began'[q]
                      /\ rusage_start' =< began'[q]
                      /\ q \in DOMAIN totaltime' => rusage_start' = began'[q]
    BY Zenon DEF StaticsOwn
  <2>1. Open(q) /\ outer[q] /\ AloneUntil(q, clock)
    BY <1>1, Zenon DEF AloneUntil, Statements
  <2> QED
    BY <1>1, <2>1, Zenon DEF HooksInv, StaticsOwn
<1>7. \A e \in emitted : e.of \in Statements
  BY Zenon DEF HooksInv, NestingExact, TypeOK
<1>8. EventsOfEnded'
  BY <1>1, <1>7, Zenon DEF HooksInv, EventsOfEnded
<1>9. UtilityEventsRight'
  BY <1>1, Zenon DEF HooksInv, UtilityEventsRight
<1>10. UndisturbedRight'
  BY <1>1, Zenon DEF HooksInv, UndisturbedRight
<1> QED
  BY <1>2, <1>3, <1>5, <1>6, <1>8, <1>9, <1>10

(* The types that arithmetic on times needs.                               *)
LEMMA TimeTypes ==
  ASSUME HooksInv
  PROVE  /\ clock \in Nat /\ query_start_ts \in Nat /\ rusage_start \in Nat
         /\ \A s \in Statements : /\ began[s] \in Nat /\ ended[s] \in Nat
                                  /\ began[s] =< clock
                                  /\ state[s] # "new" => began[s] \in 1..clock
                                  /\ state[s] = "new" => began[s] = 0
         /\ \A q \in DOMAIN totaltime : totaltime[q] \in Nat /\ q \in Statements
         /\ \A e \in emitted : e.of \in Statements /\ state[e.of] = "done"
<1>1. TypeOK /\ Clocked /\ EventsOfEnded
  BY Zenon DEF HooksInv, NestingExact
<1>2. /\ clock \in Nat /\ query_start_ts \in Nat /\ rusage_start \in Nat
      /\ \A s \in Statements : began[s] \in Nat /\ ended[s] \in Nat
      /\ \A q \in DOMAIN totaltime : totaltime[q] \in Nat /\ q \in Statements
      /\ \A e \in emitted : e.of \in Statements
  BY <1>1, Zenon DEF TypeOK, Statements
<1>3. \A s \in Statements : /\ began[s] =< clock
                            /\ state[s] # "new" => began[s] \in 1..clock
                            /\ state[s] = "new" => began[s] = 0
  BY <1>1, <1>2 DEF Clocked
<1> QED
  BY <1>1, <1>2, <1>3, Zenon DEF EventsOfEnded

(* A statement begins: it disturbs those that are open, and none of those  *)
(* that have reported.                                                     *)
LEMMA StatementBegins ==
  ASSUME HooksInv, NEW s \in Statements, Begin(s), clock' = clock + 1,
         DOMAIN totaltime' \subseteq DOMAIN totaltime \cup {s},
         UNCHANGED emitted
  PROVE  /\ EventsOfEnded' /\ UtilityEventsRight' /\ UndisturbedRight'
         /\ \A x \in Statements : IF state'[x] = "new" THEN began'[x] = 0
                                                       ELSE began'[x] \in 1..clock'
         /\ \A q \in Statements \ {s} : Open(q)' => ~AloneUntil(q, clock)'
<1>1. /\ clock \in Nat
      /\ state \in [Statements -> {"new", "open", "finishing", "done"}]
      /\ began \in [Statements -> Nat] /\ outer \in [Statements -> BOOLEAN]
  BY Zenon DEF HooksInv, NestingExact, TypeOK
<1>2. /\ state[s] = "new" /\ state'[s] = "open" /\ began'[s] = clock + 1
      /\ \A x \in Statements \ {s} :
           state'[x] = state[x] /\ began'[x] = began[x] /\ outer'[x] = outer[x]
      /\ ended' = ended
  BY <1>1, Zenon DEF Begin
<1>3. \A x \in Statements : IF state'[x] = "new" THEN began'[x] = 0
                                                 ELSE began'[x] \in 1..clock'
  <2> SUFFICES ASSUME NEW x \in Statements
               PROVE  IF state'[x] = "new" THEN began'[x] = 0
                                           ELSE began'[x] \in 1..clock'
    BY Zenon
  <2>1. CASE x = s
    BY <1>1, <1>2, <2>1
  <2>2. CASE x # s
    BY <1>1, <1>2, <2>2, TimeTypes
  <2> QED
    BY <2>1, <2>2, Zenon
<1>4. ASSUME NEW q \in Statements \ {s}, Open(q)'
      PROVE  ~AloneUntil(q, clock)'
  <2>1. state[q] # "new" /\ began'[q] \in 1..clock
    BY <1>2, <1>4, TimeTypes, Zenon DEF Open
  <2>2. began'[s] \in began'[q]..clock' /\ s \in Statements \ {q}
    BY <1>1, <1>2, <2>1
  <2> QED
    BY <2>2, Zenon DEF AloneUntil
<1>5. \A e \in emitted : /\ e.of \in Statements \ {s}
                         /\ state[e.of] = "done" /\ state'[e.of] = "done"
                         /\ began'[e.of] = began[e.of] /\ outer'[e.of] = outer[e.of]
                         /\ began[e.of] \in 1..clock
                         /\ ended[e.of] \in Nat
  BY <1>2, TimeTypes, Zenon
<1>6. EventsOfEnded'
  <2>1. EventsOfEnded /\ clock \in Nat
    BY <1>1, Zenon DEF HooksInv
  <2>2. \A e \in emitted : ended[e.of] \in began[e.of]..clock + 1
    BY <1>5, <2>1 DEF EventsOfEnded
  <2> QED
    BY <1>2, <1>5, <2>1, <2>2, Zenon DEF EventsOfEnded
<1>7. UtilityEventsRight'
  BY <1>2, <1>5 DEF HooksInv, UtilityEventsRight
<1>8. UndisturbedRight'
  <2> SUFFICES ASSUME NEW e \in emitted, e.of \in Queries, outer'[e.of],
                      \A x \in Statements \ {e.of} :
                        began'[x] \notin began'[e.of]..ended'[e.of]
               PROVE  /\ e.top_level
                      /\ e.ts_start = began'[e.of]
                      /\ e.duration_us =< ended'[e.of] - began'[e.of]
                      /\ e.cpu >= ended'[e.of] - began'[e.of]
                      /\ e.of \in DOMAIN totaltime' =>
                           e.cpu = ended'[e.of] - began'[e.of]
    BY Zenon DEF UndisturbedRight
  <2>1. outer[e.of] /\ (e.of \in DOMAIN totaltime' => e.of \in DOMAIN totaltime)
    BY <1>5, Zenon
  <2>2. \A x \in Statements \ {e.of} : began[x] \notin began[e.of]..ended[e.of]
    <3> SUFFICES ASSUME NEW x \in Statements \ {e.of}
                 PROVE  began[x] \notin began[e.of]..ended[e.of]
      BY Zenon
    <3>1. CASE x = s
      BY <1>2, <1>5, <3>1, TimeTypes
    <3>2. CASE x # s
      BY <1>2, <1>5, <3>2, Zenon
    <3> QED
      BY <3>1, <3>2, Zenon
  <2>3. UndisturbedRight
    BY Zenon DEF HooksInv
  <2> QED
    BY <1>2, <1>5, <2>1, <2>2, <2>3 DEF UndisturbedRight
<1> QED
  BY <1>3, <1>4, <1>6, <1>7, <1>8

(* A statement ends, with or without an event of it.                       *)
LEMMA StatementEnds ==
  ASSUME HooksInv, NEW s \in Statements, Open(s), End(s), NEW ev, ev.of = s,
         emitted' \in {emitted, emitted \cup {ev}},
         UNCHANGED <<started, locals>>,
         emitted' # emitted /\ s \in Utilities =>
           /\ ev.top_level = outer[s]
           /\ ev.ts_start = began[s]
           /\ ev.duration_us = clock + 1 - began[s]
           /\ ev.cpu = clock + 1 - began[s],
         emitted' # emitted /\ s \in Queries /\ outer[s] /\ AloneUntil(s, clock) =>
           /\ ev.top_level = outer[s]
           /\ ev.ts_start = began[s]
           /\ ev.duration_us =< clock + 1 - began[s]
           /\ ev.cpu >= clock + 1 - began[s]
           /\ s \in DOMAIN totaltime => ev.cpu = clock + 1 - began[s]
  PROVE  /\ Clocked' /\ LocalsOwn' /\ Timed' /\ StaticsOwn' /\ EventsOfEnded'
         /\ UtilityEventsRight' /\ UndisturbedRight'
<1>1. /\ clock \in Nat
      /\ state \in [Statements -> {"new", "open", "finishing", "done"}]
      /\ ended \in [Statements -> Nat]
  BY Zenon DEF HooksInv, NestingExact, TypeOK
<1>2. /\ UNCHANGED <<current_query_is_top_level, query_start_ts, rusage_start>>
      /\ UNCHANGED <<began, outer, locals>>
      /\ clock' = clock + 1 /\ state'[s] = "done" /\ ended'[s] = clock + 1
      /\ \A x \in Statements \ {s} : state'[x] = state[x] /\ ended'[x] = ended[x]
      /\ DOMAIN totaltime' = DOMAIN totaltime
      /\ \A q \in DOMAIN totaltime : totaltime'[q] = totaltime[q] + Elapsed(q)
  BY <1>1, Zenon DEF End, Tick, started
<1>3. state[s] # "new" /\ state[s] # "done" /\ began[s] \in 1..clock
  BY TimeTypes, Zenon DEF Open
<1>4. Clocked'
  <2>1. \A x \in Statements : IF state'[x] = "new" THEN began'[x] = 0
                                                   ELSE began'[x] \in 1..clock'
    <3> SUFFICES ASSUME NEW x \in Statements
                 PROVE  IF state'[x] = "new" THEN began'[x] = 0
                                             ELSE began'[x] \in 1..clock'
      BY Zenon
    <3>1. state'[x] = "new" <=> state[x] = "new"
      BY <1>2, <1>3, Zenon
    <3> QED
      BY <1>1, <1>2, <3>1, TimeTypes
  <2>2. Clocked
    BY Zenon DEF HooksInv
  <2> QED
    BY <1>1, <1>2, <2>1, <2>2, TimeTypes DEF Clocked
<1>5. LocalsOwn'
  BY <1>2, <1>3, Zenon DEF HooksInv, LocalsOwn, Statements
<1>6. Timed'
  <2> SUFFICES ASSUME NEW q \in DOMAIN totaltime
               PROVE  state'[q] # "new" /\ totaltime'[q] =< clock' - began'[q]
    BY <1>2, Zenon DEF Timed
  <2>1. state[q] # "new" /\ totaltime[q] =< clock - began[q]
    BY Zenon DEF HooksInv, Timed
  <2>2. q \in Statements /\ totaltime[q] \in Nat /\ began[q] \in Nat
    BY TimeTypes, Zenon
  <2>3. Elapsed(q) \in {0, 1}
    BY Zenon DEF Elapsed
  <2>4. state'[q] # "new"
    BY <1>2, <1>3, <2>1, <2>2
  <2> QED
    BY <1>1, <1>2, <2>1, <2>2, <2>3, <2>4
<1>7. StaticsOwn'
  <2> SUFFICES ASSUME NEW q \in Queries, Open(q)', outer'[q], AloneUntil(q, clock)'
               PROVE  /\ current_query_is_top_level'
                      /\ query_start_ts' = began'[q]
                      /\ rusage_start' =< began'[q]
                      /\ q \in DOMAIN totaltime' => rusage_start' = began'[q]
    BY Zenon DEF StaticsOwn
  <2>1. Open(q) /\ outer[q]
    BY <1>2, Zenon DEF Open, Statements
  <2>2. AloneUntil(q, clock)
    <3> SUFFICES ASSUME NEW x \in Statements \ {q}
                 PROVE  began[x] \notin began[q]..clock
      BY Zenon DEF AloneUntil
    <3>1. began[x] \notin began[q]..clock + 1
      BY <1>2, Zenon DEF AloneUntil
    <3>2. began[x] \in Nat /\ began[q] \in Nat
      BY TimeTypes, Zenon DEF Statements
    <3> QED
      BY <1>1, <3>1, <3>2
  <2> QED
    BY <1>2, <2>1, <2>2, Zenon DEF HooksInv, StaticsOwn
<1>8. \A e \in emitted : e.of \in Statements \ {s}
  BY <1>3, TimeTypes, Zenon
<1>9. EventsOfEnded'
  <2>1. EventsOfEnded
    BY Zenon DEF HooksInv
  <2>2. \A e \in emitted : /\ state'[e.of] = "done"
                           /\ ended'[e.of] \in began'[e.of]..clock'
    BY <1>1, <1>2, <1>8, <2>1, TimeTypes DEF EventsOfEnded
  <2>3. /\ state'[ev.of] = "done"
        /\ ended'[ev.of] \in began'[ev.of]..clock'
    BY <1>1, <1>2, <1>3
  <2>4. \A e, f \in emitted \cup {ev} : f.of = e.of => f = e
    BY <1>8, <2>1, Zenon DEF EventsOfEnded
  <2> QED
    BY <2>2, <2>3, <2>4, Zenon DEF EventsOfEnded
<1>10. /\ ev.of = s /\ outer'[s] = outer[s] /\ began'[s] = began[s]
       /\ ended'[s] = clock + 1 /\ DOMAIN totaltime' = DOMAIN totaltime
       /\ clock \in Nat /\ began[s] \in Nat
  BY <1>1, <1>2, TimeTypes, Zenon
<1>11. UtilityEventsRight'
  <2> SUFFICES ASSUME NEW e \in emitted', e.of \in Utilities
               PROVE  /\ e.top_level = outer'[e.of]
                      /\ e.ts_start = began'[e.of]
                      /\ e.duration_us = ended'[e.of] - began'[e.of]
                      /\ e.cpu = ended'[e.of] - began'[e.of]
    BY Zenon DEF UtilityEventsRight
  <2>1. CASE e \in emitted
    BY <1>2, <1>8, <2>1, Zenon DEF HooksInv, UtilityEventsRight
  <2>2. CASE e \notin emitted
    <3>1. e = ev /\ emitted' # emitted
      BY <2>2, Zenon
    <3>2. /\ ev.top_level = outer[s]
          /\ ev.ts_start = began[s]
          /\ ev.duration_us = clock + 1 - began[s]
          /\ ev.cpu = clock + 1 - began[s]
      BY <3>1, Zenon
    <3>3. e.top_level = outer'[e.of]
      BY <1>10, <3>1, <3>2, Zenon
    <3>4. e.ts_start = began'[e.of]
      BY <1>10, <3>1, <3>2, Zenon
    <3>5. e.duration_us = ended'[e.of] - began'[e.of]
      BY <1>10, <3>1, <3>2
    <3>6. e.cpu = ended'[e.of] - began'[e.of]
      BY <1>10, <3>1, <3>2
    <3> QED
      BY <3>3, <3>4, <3>5, <3>6, Zenon
  <2> QED
    BY <2>1, <2>2, Zenon
<1>12. UndisturbedRight'
  <2> SUFFICES ASSUME NEW e \in emitted', e.of \in Queries, outer'[e.of],
                      \A x \in Statements \ {e.of} :
                        began'[x] \notin began'[e.of]..ended'[e.of]
               PROVE  /\ e.top_level
                      /\ e.ts_start = began'[e.of]
                      /\ e.duration_us =< ended'[e.of] - began'[e.of]
                      /\ e.cpu >= ended'[e.of] - began'[e.of]
                      /\ e.of \in DOMAIN totaltime' =>
                           e.cpu = ended'[e.of] - began'[e.of]
    BY Zenon DEF UndisturbedRight
  <2>1. CASE e \in emitted
    <3>1. UndisturbedRight
      BY Zenon DEF HooksInv
    <3> QED
      BY <1>2, <1>8, <2>1, <3>1 DEF UndisturbedRight
  <2>2. CASE e \notin emitted
    <3>1. e = ev /\ emitted' # emitted
      BY <2>2, Zenon
    <3>2. AloneUntil(s, clock)
      <4> SUFFICES ASSUME NEW x \in Statements \ {s}
                   PROVE  began[x] \notin began[s]..clock
        BY Zenon DEF AloneUntil
      <4>1. began[x] \notin began[s]..clock + 1
        BY <1>2, <3>1, Zenon
      <4>2. began[x] \in Nat /\ began[s] \in Nat
        BY TimeTypes, Zenon
      <4> QED
        BY <1>1, <4>1, <4>2
    <3>3. /\ ev.top_level = outer[s]
          /\ ev.ts_start = began[s]
          /\ ev.duration_us =< clock + 1 - began[s]
          /\ ev.cpu >= clock + 1 - began[s]
          /\ s \in DOMAIN totaltime => ev.cpu = clock + 1 - began[s]
      BY <1>10, <3>1, <3>2, Zenon
    <3>4. e.top_level
      BY <1>10, <3>1, <3>3, Zenon
    <3>5. e.ts_start = began'[e.of]
      BY <1>10, <3>1, <3>3, Zenon
    <3>6. e.duration_us =< ended'[e.of] - began'[e.of]
      BY <1>10, <3>1, <3>3
    <3>7. e.cpu >= ended'[e.of] - began'[e.of]
      BY <1>10, <3>1, <3>3
    <3>8. e.of \in DOMAIN totaltime' => e.cpu = ended'[e.of] - began'[e.of]
      BY <1>10, <3>1, <3>3
    <3> QED
      BY <3>4, <3>5, <3>6, <3>7, <3>8, Zenon
  <2> QED
    BY <2>1, <2>2, Zenon
<1> QED
  BY <1>4, <1>5, <1>6, <1>7, <1>9, <1>11, <1>12

-----------------------------------------------------------------------------
(* Every action keeps the invariant.                                       *)

(* At the start no call is in progress.                                    *)
LEMMA InitHooks ==
  ASSUME Init
  PROVE  HooksInv
<1>1. TypeOK
  <2>1. DOMAIN totaltime = {}
    BY DEF Init
  <2>2. locals \in
          [Utilities -> [tracked : BOOLEAN, is_top_level : BOOLEAN, start : Nat]]
    BY Zenon DEF Init
  <2>3. stack \in Seq(Statements) /\ emitted = {} /\ nesting_level = 0
    BY DEF Init
  <2>4. /\ {began, ended} \subseteq [Statements -> Nat]
        /\ outer \in [Statements -> BOOLEAN]
        /\ state \in [Statements -> {"new", "open", "finishing", "done"}]
    BY DEF Init
  <2>5. psch_enabled \in BOOLEAN /\ current_query_is_top_level \in BOOLEAN
    BY Zenon DEF Init
  <2>6. lackId \subseteq MayLackId /\ {query_start_ts, rusage_start, clock} \subseteq Nat
    BY DEF Init
  <2> QED
    BY <2>1, <2>2, <2>3, <2>4, <2>5, <2>6 DEF TypeOK
<1>2. nesting_level = Levels(1, Len(stack))
  <2>1. Len(stack) = 0
    BY Zenon DEF Init
  <2>2. {i \in 1..0 : Counted(stack[i])} = {}
    OBVIOUS
  <2> QED
    BY <2>1, <2>2, FS_EmptySet, Zenon DEF Init, Levels
<1>3. CallsOpen
  BY DEF Init, CallsOpen
<1>4. Clocked
  BY DEF Init, Clocked
<1>5. LocalsOwn /\ StaticsOwn
  BY Zenon DEF Init, LocalsOwn, StaticsOwn, Open, Statements
<1>6. Timed
  BY DEF Init, Timed
<1>7. EventsOfEnded /\ UtilityEventsRight /\ UndisturbedRight
  BY Zenon DEF Init, EventsOfEnded, UtilityEventsRight, UndisturbedRight
<1> QED
  BY <1>1, <1>2, <1>3, <1>4, <1>5, <1>6, <1>7 DEF HooksInv, NestingExact

(* A call goes in: PschExecutorRun and PschExecutorFinish.                 *)
LEMMA EnterKeeps ==
  ASSUME HooksInv, NEW q \in Queries, state[q] = "open", Enter(q),
         state' \in [Statements -> {"new", "open", "finishing", "done"}],
         state'[q] \in {"open", "finishing"},
         \A s \in Statements \ {q} : state'[s] = state[s]
  PROVE  HooksInv'
<1>1. TypeOK /\ CallsOpen /\ nesting_level = Levels(1, Len(stack))
  BY Zenon DEF HooksInv, NestingExact
<1>2. q \in Statements /\ stack \in Seq(Statements) /\ nesting_level \in Nat
  BY <1>1, Zenon DEF TypeOK, Statements
<1>3. Len(stack) \in Nat /\ \A i \in 1..Len(stack) : stack[i] # q
  BY <1>2, OnStack DEF Enter
<1>4. /\ stack' \in Seq(Statements) /\ Len(stack') = Len(stack) + 1
      /\ \A i \in 1..Len(stack) : stack'[i] = stack[i]
      /\ stack'[Len(stack) + 1] = q
  BY <1>2, Pushing DEF Enter
<1>5. TypeOK'
  <2>1. nesting_level' \in Nat
    BY <1>2 DEF Enter
  <2> QED
    BY <1>1, <1>4, <2>1, Zenon DEF TypeOK, Enter, config, started, ghosts
<1>6. nesting_level' = Levels(1, Len(stack))'
  <2>1. stack' = Append(stack, q) /\ \A u \in Utilities \ {q} : locals'[u] = locals[u]
    BY Zenon DEF Enter
  <2>2. Counted(q)'
    BY Zenon DEF Counted
  <2>3. (IF Counted(q)' THEN 1 ELSE 0) = 1
    BY <2>2, Zenon
  <2>4. Levels(1, Len(stack))'
          = Levels(1, Len(stack)) + IF Counted(q)' THEN 1 ELSE 0
    BY <1>1, <1>2, <1>3, <2>1, PushLevels
  <2> QED
    BY <1>1, <2>3, <2>4, Zenon DEF Enter
<1>7. CallsOpen'
  <2> SUFFICES ASSUME NEW i \in 1..Len(stack')
               PROVE  /\ state'[stack'[i]] \in {"open", "finishing"}
                      /\ \A j \in 1..Len(stack') : stack'[i] = stack'[j] => i = j
    BY Zenon DEF CallsOpen, Open
  <2>1. \A j \in 1..Len(stack') : j = Len(stack) + 1 \/ j \in 1..Len(stack)
    BY <1>3, <1>4
  <2>2. \A j \in 1..Len(stack) : /\ stack[j] \in Statements
                                 /\ state[stack[j]] \in {"open", "finishing"}
                                 /\ \A k \in 1..Len(stack) :
                                      stack[j] = stack[k] => j = k
    BY <1>1, <1>2 DEF CallsOpen, Open
  <2>3. CASE i = Len(stack) + 1
    BY <1>3, <1>4, <2>1, <2>3
  <2>4. CASE i \in 1..Len(stack)
    BY <1>3, <1>4, <2>1, <2>2, <2>4
  <2> QED
    BY <2>1, <2>3, <2>4, Zenon
<1>8. /\ Clocked' /\ LocalsOwn' /\ Timed' /\ StaticsOwn' /\ EventsOfEnded'
      /\ UtilityEventsRight' /\ UndisturbedRight'
  <2>1. \A s \in Statements : /\ state'[s] = "new" <=> state[s] = "new"
                              /\ state[s] = "done" => state'[s] = "done"
                              /\ Open(s)' => Open(s)
    BY Zenon DEF Open
  <2>2. UNCHANGED <<started, totaltime, locals, clock, ghosts, emitted>>
    BY Zenon DEF Enter
  <2> QED
    BY <2>1, <2>2, CallsMove, Zenon
<1> QED
  BY <1>5, <1>6, <1>7, <1>8, Zenon DEF HooksInv, NestingExact

LEMMA ExecutorRunKeeps ==
  ASSUME HooksInv, NEW q \in Queries, ExecutorRun(q)
  PROVE  HooksInv'
<1>1. /\ state \in [Statements -> {"new", "open", "finishing", "done"}]
      /\ state' = state /\ state[q] = "open" /\ Enter(q)
  BY Zenon DEF ExecutorRun, HooksInv, NestingExact, TypeOK
<1> QED
  BY <1>1, EnterKeeps, Zenon

LEMMA ExecutorFinishKeeps ==
  ASSUME HooksInv, NEW q \in Queries, ExecutorFinish(q)
  PROVE  HooksInv'
<1>1. /\ state \in [Statements -> {"new", "open", "finishing", "done"}]
      /\ state' = [state EXCEPT ![q] = "finishing"]
      /\ state[q] = "open" /\ Enter(q) /\ q \in Statements
  BY Zenon DEF ExecutorFinish, HooksInv, NestingExact, TypeOK, Statements
<1>2. /\ state' \in [Statements -> {"new", "open", "finishing", "done"}]
      /\ state'[q] \in {"open", "finishing"}
      /\ \A s \in Statements \ {q} : state'[s] = state[s]
  BY <1>1, Zenon
<1> QED
  BY <1>1, <1>2, EnterKeeps, Zenon

(* The calls in progress after the innermost one is left.                  *)
LEMMA PopCalls ==
  ASSUME HooksInv, stack # <<>>, stack' = Front(stack),
         \A s \in Statements : s # Last(stack) => state'[s] = state[s]
  PROVE  stack' \in Seq(Statements) /\ CallsOpen' /\ Open(Last(stack))
<1>1. CallsOpen /\ stack \in Seq(Statements)
  BY Zenon DEF HooksInv, NestingExact, TypeOK
<1>2. /\ Len(stack) \in Nat \ {0} /\ stack' \in Seq(Statements)
      /\ Len(stack') = Len(stack) - 1
      /\ \A i \in 1..Len(stack) - 1 : stack'[i] = stack[i]
      /\ Last(stack) = stack[Len(stack)]
  BY <1>1, Popping, Zenon
<1>3. \A i \in 1..Len(stack) : /\ stack[i] \in Statements
                               /\ state[stack[i]] \in {"open", "finishing"}
                               /\ \A j \in 1..Len(stack) :
                                    stack[i] = stack[j] => i = j
  BY <1>1 DEF CallsOpen, Open
<1>4. \A i \in 1..Len(stack') : /\ i \in 1..Len(stack) /\ stack'[i] = stack[i]
                                /\ stack[i] # Last(stack)
  BY <1>2, <1>3
<1>5. CallsOpen'
  BY <1>3, <1>4 DEF CallsOpen, Open
<1>6. Open(Last(stack))
  BY <1>2, <1>3 DEF Open
<1> QED
  BY <1>2, <1>5, <1>6, Zenon

(* A call comes out.                                                       *)
LEMMA LeaveKeeps ==
  ASSUME HooksInv, NEW q \in Queries, Leave(q)
  PROVE  HooksInv'
<1>1. TypeOK /\ nesting_level = Levels(1, Len(stack)) /\ nesting_level \in Nat
  BY Zenon DEF HooksInv, NestingExact, TypeOK
<1>2. stack # <<>> /\ stack' = Front(stack) /\ UNCHANGED locals
  BY Zenon DEF Leave
<1>3. stack' \in Seq(Statements) /\ CallsOpen'
  BY <1>2, PopCalls, Zenon DEF Leave
<1>4. nesting_level' = Levels(1, Len(stack))'
  <2>1. Counted(Last(stack))
    BY Zenon DEF Leave, Counted
  <2>2. (IF Counted(Last(stack)) THEN 1 ELSE 0) = 1
    BY <2>1, Zenon
  <2>3. Levels(1, Len(stack))'
          = Levels(1, Len(stack)) - IF Counted(Last(stack)) THEN 1 ELSE 0
    BY <1>1, <1>2, PopLevels, Zenon
  <2> QED
    BY <1>1, <2>2, <2>3, Zenon DEF Leave
<1>5. TypeOK'
  <2>1. nesting_level' \in Nat
    <3>1. Levels(1, Len(stack))' \in Nat
      BY <1>3, NewLevels, Zenon
    <3> QED
      BY <1>4, <3>1, Zenon
  <2> QED
    BY <1>1, <1>3, <2>1, Zenon DEF TypeOK, Leave, config, started, ghosts
<1>6. /\ Clocked' /\ LocalsOwn' /\ Timed' /\ StaticsOwn' /\ EventsOfEnded'
      /\ UtilityEventsRight' /\ UndisturbedRight'
  <2>1. \A s \in Statements : /\ state'[s] = "new" <=> state[s] = "new"
                              /\ state[s] = "done" => state'[s] = "done"
                              /\ Open(s)' => Open(s)
    BY Zenon DEF Leave, Open
  <2>2. UNCHANGED <<started, totaltime, locals, clock, ghosts, emitted>>
    BY Zenon DEF Leave
  <2> QED
    BY <2>1, <2>2, CallsMove, Zenon
<1> QED
  BY <1>3, <1>4, <1>5, <1>6, Zenon DEF HooksInv, NestingExact

(* A caught or uncaught error leaves the calls above depth d.              *)
LEMMA ErrorKeeps ==
  ASSUME HooksInv, NEW d \in Nat, Error(d)
  PROVE  HooksInv'
<1>1. /\ TypeOK /\ CallsOpen /\ nesting_level = Levels(1, Len(stack))
      /\ nesting_level \in Nat /\ stack \in Seq(Statements)
      /\ state \in [Statements -> {"new", "open", "finishing", "done"}]
  BY Zenon DEF HooksInv, NestingExact, TypeOK
<1>2. d < Len(stack) /\ stack' = SubSeq(stack, 1, d) /\ UNCHANGED locals
  BY Zenon DEF Error
<1>3. /\ stack' \in Seq(Statements) /\ Len(stack') = d
      /\ \A i \in 1..d : stack'[i] = stack[i]
      /\ ToSet(SubSeq(stack, d + 1, Len(stack)))
           = {stack[i] : i \in d + 1..Len(stack)}
  <2>1. stack \in Seq(Statements) /\ d < Len(stack)
    BY <1>1, <1>2, Zenon
  <2>2. /\ SubSeq(stack, 1, d) \in Seq(Statements)
        /\ Len(SubSeq(stack, 1, d)) = d
        /\ \A i \in 1..d : SubSeq(stack, 1, d)[i] = stack[i]
        /\ ToSet(SubSeq(stack, d + 1, Len(stack)))
             = {stack[i] : i \in d + 1..Len(stack)}
    BY <2>1, Cutting, Zenon
  <2> QED
    BY <1>2, <2>2, Zenon
<1>4. Len(stack) \in Nat /\ ToSet(stack) = {stack[i] : i \in 1..Len(stack)}
  BY <1>1, OnStack, Zenon
<1>5. \A i \in 1..Len(stack) : /\ stack[i] \in Statements
                               /\ state[stack[i]] \in {"open", "finishing"}
                               /\ \A j \in 1..Len(stack) :
                                    stack[i] = stack[j] => i = j
  BY <1>1 DEF CallsOpen, Open
<1>6. /\ state' \in [Statements -> {"new", "open", "finishing", "done"}]
      /\ \A s \in Statements : state'[s] = state[s] \/ state'[s] = "done"
  BY <1>1, Zenon DEF Error
<1>7. \A s \in Statements :
        (\A i \in d + 1..Len(stack) : stack[i] # s) /\ s \in ToSet(stack)
          => state'[s] = state[s]
  BY <1>3, Zenon DEF Error
<1>8. \A s \in Statements : state[s] = "new" => state'[s] = "new"
  <2> SUFFICES ASSUME NEW s \in Statements, state[s] = "new"
               PROVE  state'[s] = "new"
    BY Zenon
  <2>1. s \notin {stack[i] : i \in d + 1..Len(stack)}
    <3>1. \A i \in d + 1..Len(stack) : i \in 1..Len(stack)
      BY <1>4
    <3>2. \A i \in d + 1..Len(stack) : stack[i] # s
      BY <1>5, <3>1, Zenon
    <3> QED
      BY <3>2, Zenon
  <2> QED
    BY <1>3, <2>1, Zenon DEF Error
<1>9. CallsOpen'
  <2> SUFFICES ASSUME NEW i \in 1..d
               PROVE  /\ state'[stack'[i]] \in {"open", "finishing"}
                      /\ \A j \in 1..d : stack'[i] = stack'[j] => i = j
    BY <1>3, Zenon DEF CallsOpen, Open
  <2>1. i \in 1..Len(stack) /\ \A j \in 1..d : j \in 1..Len(stack)
    BY <1>2, <1>4
  <2>2. \A j \in d + 1..Len(stack) : j \in 1..Len(stack) /\ j # i
    BY <1>4
  <2>3. \A j \in d + 1..Len(stack) : stack[j] # stack[i]
    BY <1>5, <2>1, <2>2, Zenon
  <2>4. stack[i] \in Statements /\ stack[i] \in ToSet(stack)
    BY <1>4, <1>5, <2>1, Zenon
  <2>5. state'[stack[i]] = state[stack[i]]
    BY <1>7, <2>3, <2>4, Zenon
  <2> QED
    BY <1>3, <1>5, <2>1, <2>5
<1>10. nesting_level' = Levels(1, Len(stack))'
  <2>1. /\ Levels(d + 1, Len(stack)) \in Nat
        /\ Levels(1, Len(stack))'
             = Levels(1, Len(stack)) - Levels(d + 1, Len(stack))
    BY <1>1, <1>2, CutLevels, Zenon
  <2> QED
    BY <1>1, <2>1, Zenon DEF Error
<1>11. TypeOK'
  <2>1. nesting_level' \in Nat
    <3>1. Levels(1, Len(stack))' \in Nat
      BY <1>3, NewLevels, Zenon
    <3> QED
      BY <1>10, <3>1, Zenon
  <2> QED
    BY <1>1, <1>3, <1>6, <2>1, Zenon DEF TypeOK, Error, config, started, ghosts
<1>12. /\ Clocked' /\ LocalsOwn' /\ Timed' /\ StaticsOwn' /\ EventsOfEnded'
       /\ UtilityEventsRight' /\ UndisturbedRight'
  <2>1. \A s \in Statements : /\ state'[s] = "new" <=> state[s] = "new"
                              /\ state[s] = "done" => state'[s] = "done"
                              /\ Open(s)' => Open(s)
    BY <1>6, <1>8, Zenon DEF Open
  <2>2. UNCHANGED <<started, totaltime, locals, clock, ghosts, emitted>>
    BY Zenon DEF Error
  <2> QED
    BY <2>1, <2>2, CallsMove, Zenon
<1> QED
  BY <1>9, <1>10, <1>11, <1>12 DEF HooksInv, NestingExact

(* pg_stat_ch.enabled is reloaded.                                         *)
LEMMA ReloadKeeps ==
  ASSUME HooksInv, Reload
  PROVE  HooksInv'
<1>1. TypeOK /\ CallsOpen /\ nesting_level = Levels(1, Len(stack))
  BY Zenon DEF HooksInv, NestingExact
<1>2. /\ UNCHANGED <<lackId, nesting_level, current_query_is_top_level>>
      /\ UNCHANGED <<query_start_ts, rusage_start, totaltime, locals, stack>>
      /\ UNCHANGED <<state, clock, began, ended, outer, emitted>>
      /\ psch_enabled' \in BOOLEAN
  BY Zenon DEF Reload, statics, started, ghosts
<1>3. TypeOK'
  BY <1>1, <1>2, Zenon DEF TypeOK
<1>4. CallsOpen' /\ nesting_level' = Levels(1, Len(stack))'
  BY <1>1, <1>2, Zenon DEF CallsOpen, Open, Levels, Counted
<1>5. /\ Clocked' /\ LocalsOwn' /\ Timed' /\ StaticsOwn' /\ EventsOfEnded'
      /\ UtilityEventsRight' /\ UndisturbedRight'
  <2>1. \A s \in Statements : /\ state'[s] = "new" <=> state[s] = "new"
                              /\ state[s] = "done" => state'[s] = "done"
                              /\ Open(s)' => Open(s)
    BY <1>2, Zenon DEF Open
  <2>2. UNCHANGED <<started, totaltime, locals, clock, ghosts, emitted>>
    BY <1>2, Zenon DEF started, ghosts
  <2> QED
    BY <2>1, <2>2, CallsMove, Zenon
<1> QED
  BY <1>3, <1>4, <1>5, Zenon DEF HooksInv, NestingExact

(* A tick of the clock adds numbers to numbers.                            *)
LEMMA TickTypes ==
  ASSUME HooksInv, Tick
  PROVE  /\ clock' = clock + 1 /\ clock' \in Nat
         /\ DOMAIN totaltime' = DOMAIN totaltime
         /\ \A q \in DOMAIN totaltime :
              /\ totaltime'[q] = totaltime[q] + Elapsed(q)
              /\ totaltime'[q] \in Nat
              /\ totaltime'[q] =< clock' - began[q]
<1> SUFFICES ASSUME NEW q \in DOMAIN totaltime
             PROVE  totaltime[q] + Elapsed(q) \in 0..clock + 1 - began[q]
  BY TimeTypes DEF Tick
<1>1. Elapsed(q) \in {0, 1}
  BY Zenon DEF Elapsed
<1>2. totaltime[q] =< clock - began[q]
  BY Zenon DEF HooksInv, Timed
<1>3. totaltime[q] \in Nat /\ clock \in Nat /\ began[q] \in Nat
  BY TimeTypes, Zenon
<1> QED
  BY <1>1, <1>2, <1>3

(* PschExecutorStart.                                                      *)
LEMMA ExecutorStartKeeps ==
  ASSUME HooksInv, NEW q \in Queries, ExecutorStart(q)
  PROVE  HooksInv'
<1>1. /\ TypeOK /\ CallsOpen /\ nesting_level = Levels(1, Len(stack))
      /\ Clocked /\ LocalsOwn /\ Timed
  BY Zenon DEF HooksInv, NestingExact
<1>2. /\ q \in Statements /\ q \notin Utilities
      /\ clock \in Nat /\ query_start_ts \in Nat /\ rusage_start \in Nat
      /\ query_start_ts =< clock /\ rusage_start =< clock
  BY <1>1, TimeTypes, HooksAssumption, Zenon DEF Statements, Clocked
<1>3. /\ Begin(q) /\ clock' = clock + 1
      /\ UNCHANGED <<psch_enabled, lackId, nesting_level, locals, stack, emitted>>
      /\ Instrument(q)
  BY Zenon DEF ExecutorStart, config
<1>4. /\ state[q] = "new" /\ state'[q] = "open" /\ began'[q] = clock + 1
      /\ outer'[q] = (Levels(1, Len(stack)) = 0)
      /\ \A s \in Statements \ {q} :
           state'[s] = state[s] /\ began'[s] = began[s] /\ outer'[s] = outer[s]
      /\ state' \in [Statements -> {"new", "open", "finishing", "done"}]
      /\ {began', ended'} \subseteq [Statements -> Nat]
      /\ outer' \in [Statements -> BOOLEAN]
  BY <1>1, <1>2, <1>3 DEF Begin, TypeOK
<1>5. /\ q \notin DOMAIN totaltime
      /\ DOMAIN totaltime' =
           DOMAIN totaltime \cup (IF psch_enabled /\ q \notin lackId THEN {q} ELSE {})
      /\ q \in DOMAIN totaltime' => totaltime'[q] = 0
      /\ \A p \in DOMAIN totaltime : totaltime'[p] = totaltime[p] + Elapsed(p)
  BY <1>1, <1>3, <1>4, Zenon DEF Timed, Instrument
<1>6. /\ DOMAIN totaltime' \subseteq DOMAIN totaltime \cup {q}
      /\ q \in DOMAIN totaltime' => psch_enabled /\ q \notin lackId
  BY <1>5, Zenon
<1>7. \A p \in DOMAIN totaltime : /\ totaltime'[p] \in 0..clock' - began[p]
                                  /\ p \in Statements \ {q}
  <2> SUFFICES ASSUME NEW p \in DOMAIN totaltime
               PROVE  /\ totaltime'[p] \in 0..clock' - began[p]
                      /\ p \in Statements \ {q}
    BY Zenon
  <2>1. Elapsed(p) \in {0, 1}
    BY Zenon DEF Elapsed
  <2>2. totaltime[p] =< clock - began[p]
    BY <1>1, Zenon DEF Timed
  <2>3. totaltime[p] \in Nat /\ began[p] \in Nat /\ p \in Statements \ {q}
    BY <1>5, TimeTypes, Zenon
  <2> QED
    BY <1>2, <1>3, <1>5, <2>1, <2>2, <2>3
<1>8. query_start_ts' \in {clock + 1, query_start_ts}
      /\ rusage_start' \in {clock + 1, rusage_start}
  BY Zenon DEF ExecutorStart
<1>9. TypeOK'
  <2>1. /\ psch_enabled' \in BOOLEAN /\ lackId' \subseteq MayLackId
        /\ nesting_level' \in Nat /\ current_query_is_top_level' \in BOOLEAN
        /\ {query_start_ts', rusage_start', clock'} \subseteq Nat
    BY <1>1, <1>2, <1>3, <1>8 DEF TypeOK, ExecutorStart
  <2>2. DOMAIN totaltime' \subseteq Queries \ lackId'
    BY <1>1, <1>3, <1>6, Zenon DEF TypeOK
  <2>3. \A p \in DOMAIN totaltime' : totaltime'[p] \in Nat
    <3> SUFFICES ASSUME NEW p \in DOMAIN totaltime'
                 PROVE  totaltime'[p] \in Nat
      BY Zenon
    <3>1. CASE p = q
      BY <1>5, <3>1
    <3>2. CASE p \in DOMAIN totaltime
      BY <1>2, <1>3, <1>7, <3>2, TimeTypes
    <3> QED
      BY <1>6, <3>1, <3>2, Zenon
  <2> QED
    BY <1>1, <1>3, <1>4, <2>1, <2>2, <2>3, Zenon DEF TypeOK
<1>10. nesting_level' = Levels(1, Len(stack))'
  BY <1>1, <1>3, Zenon DEF Levels, Counted
<1>11. CallsOpen'
  <2>1. stack \in Seq(Statements)
    BY <1>1, Zenon DEF TypeOK
  <2>2. \A i \in 1..Len(stack) : stack[i] \in Statements \ {q}
    <3>1. \A i \in 1..Len(stack) : stack[i] \in Statements
      BY <2>1
    <3>2. \A i \in 1..Len(stack) : state[stack[i]] \in {"open", "finishing"}
      BY <1>1, Zenon DEF CallsOpen, Open
    <3> QED
      BY <1>4, <3>1, <3>2, Zenon
  <2> QED
    BY <1>1, <1>3, <1>4, <2>2 DEF CallsOpen, Open
<1>12. /\ EventsOfEnded' /\ UtilityEventsRight' /\ UndisturbedRight'
       /\ \A x \in Statements : IF state'[x] = "new" THEN began'[x] = 0
                                                     ELSE began'[x] \in 1..clock'
       /\ \A p \in Statements \ {q} : Open(p)' => ~AloneUntil(p, clock)'
  BY <1>2, <1>3, <1>6, StatementBegins
<1>13. Clocked'
  <2>1. query_start_ts' =< clock' /\ rusage_start' =< clock'
    BY <1>2, <1>3, <1>8
  <2> QED
    BY <1>12, <2>1, Zenon DEF Clocked
<1>14. LocalsOwn'
  BY <1>1, <1>2, <1>3, <1>4 DEF LocalsOwn, Statements
<1>15. Timed'
  <2> SUFFICES ASSUME NEW p \in DOMAIN totaltime'
               PROVE  state'[p] # "new" /\ totaltime'[p] =< clock' - began'[p]
    BY Zenon DEF Timed
  <2>1. CASE p = q
    BY <1>2, <1>3, <1>4, <1>5, <2>1
  <2>2. CASE p \in DOMAIN totaltime
    <3>1. state[p] # "new" /\ p \in Statements \ {q}
      BY <1>1, <1>7, <2>2, Zenon DEF Timed
    <3>2. totaltime'[p] =< clock' - began[p]
      BY <1>2, <1>3, <1>7, <2>2, TimeTypes
    <3> QED
      BY <1>4, <3>1, <3>2, Zenon
  <2> QED
    BY <1>6, <2>1, <2>2, Zenon
<1>16. StaticsOwn'
  <2> SUFFICES ASSUME NEW p \in Queries, Open(p)', outer'[p], AloneUntil(p, clock)'
               PROVE  /\ current_query_is_top_level'
                      /\ query_start_ts' = began'[p]
                      /\ rusage_start' =< began'[p]
                      /\ p \in DOMAIN totaltime' => rusage_start' = began'[p]
    BY Zenon DEF StaticsOwn
  <2>1. p = q
    BY <1>12, Zenon DEF Statements
  <2>2. nesting_level = 0
    BY <1>1, <1>4, <2>1, Zenon
  <2>3. current_query_is_top_level' /\ query_start_ts' = clock + 1
    BY <2>2, Zenon DEF ExecutorStart
  <2>4. q \in DOMAIN totaltime' => rusage_start' = clock + 1
    BY <1>6, <2>2, Zenon DEF ExecutorStart
  <2>5. rusage_start' =< clock + 1
    BY <1>2, <1>8
  <2> QED
    BY <1>4, <2>1, <2>3, <2>4, <2>5, Zenon
<1> QED
  BY <1>9, <1>10, <1>11, <1>12, <1>13, <1>14, <1>15, <1>16
  DEF HooksInv, NestingExact

(* PschProcessUtility, up to the call of the utility.                      *)
LEMMA UtilityStartKeeps ==
  ASSUME HooksInv, NEW u \in Utilities, UtilityStart(u)
  PROVE  HooksInv'
<1>1. /\ TypeOK /\ CallsOpen /\ nesting_level = Levels(1, Len(stack))
      /\ Clocked /\ LocalsOwn /\ Timed
      /\ nesting_level \in Nat /\ stack \in Seq(Statements)
      /\ locals \in
           [Utilities -> [tracked : BOOLEAN, is_top_level : BOOLEAN, start : Nat]]
  BY Zenon DEF HooksInv, NestingExact, TypeOK
<1>2. /\ u \in Statements /\ u \notin Queries
      /\ clock \in Nat /\ query_start_ts \in Nat /\ rusage_start \in Nat
      /\ query_start_ts =< clock /\ rusage_start =< clock
  BY <1>1, TimeTypes, HooksAssumption, Zenon DEF Statements, Clocked
<1>3. /\ Begin(u) /\ Tick /\ stack' = Append(stack, u)
      /\ UNCHANGED <<psch_enabled, lackId, current_query_is_top_level>>
      /\ UNCHANGED <<query_start_ts, rusage_start, emitted>>
  BY Zenon DEF UtilityStart, config, started
<1>4. /\ state[u] = "new" /\ state'[u] = "open" /\ began'[u] = clock + 1
      /\ outer'[u] = (Levels(1, Len(stack)) = 0)
      /\ \A s \in Statements \ {u} :
           state'[s] = state[s] /\ began'[s] = began[s] /\ outer'[s] = outer[s]
      /\ state' \in [Statements -> {"new", "open", "finishing", "done"}]
      /\ {began', ended'} \subseteq [Statements -> Nat]
      /\ outer' \in [Statements -> BOOLEAN]
  BY <1>1, <1>2, <1>3 DEF Begin, TypeOK
<1>5. /\ clock' = clock + 1 /\ clock' \in Nat
      /\ DOMAIN totaltime' = DOMAIN totaltime
      /\ \A q \in DOMAIN totaltime : /\ totaltime'[q] \in Nat
                                     /\ totaltime'[q] =< clock' - began[q]
  BY <1>3, TickTypes, Zenon
<1>6. ShouldTrackUtility(u) \in BOOLEAN
  BY <1>1, Zenon DEF ShouldTrackUtility, TypeOK
<1>7. /\ locals' \in
           [Utilities -> [tracked : BOOLEAN, is_top_level : BOOLEAN, start : Nat]]
      /\ locals'[u].tracked = ShouldTrackUtility(u)
      /\ locals'[u].is_top_level = (nesting_level = 0)
      /\ locals'[u].start = clock + 1
      /\ \A v \in Utilities \ {u} : locals'[v] = locals[v]
  <2>1. locals' = [locals EXCEPT ![u] =
          [tracked |-> ShouldTrackUtility(u), is_top_level |-> nesting_level = 0,
           start |-> clock + 1]]
    BY Zenon DEF UtilityStart
  <2> DEFINE r == [tracked |-> ShouldTrackUtility(u),
                   is_top_level |-> nesting_level = 0, start |-> clock + 1]
  <2>2. /\ r \in [tracked : BOOLEAN, is_top_level : BOOLEAN, start : Nat]
        /\ r.tracked = ShouldTrackUtility(u)
        /\ r.is_top_level = (nesting_level = 0)
        /\ r.start = clock + 1
    BY <1>2, <1>6
  <2>3. locals' = [locals EXCEPT ![u] = r]
    BY <2>1, Zenon
  <2> HIDE DEF r
  <2>4. locals'[u] = r /\ \A v \in Utilities \ {u} : locals'[v] = locals[v]
    BY <1>1, <2>3, Zenon
  <2>5. locals' \in
          [Utilities -> [tracked : BOOLEAN, is_top_level : BOOLEAN, start : Nat]]
    BY <1>1, <2>2, <2>3, Zenon
  <2> QED
    BY <2>2, <2>4, <2>5, Zenon
<1>8. /\ Len(stack) \in Nat
      /\ \A i \in 1..Len(stack) : /\ stack[i] \in Statements \ {u}
                                  /\ state[stack[i]] \in {"open", "finishing"}
                                  /\ \A j \in 1..Len(stack) :
                                       stack[i] = stack[j] => i = j
  <2>1. Len(stack) \in Nat /\ \A i \in 1..Len(stack) : stack[i] \in Statements
    BY <1>1
  <2>2. \A i \in 1..Len(stack) : /\ state[stack[i]] \in {"open", "finishing"}
                                 /\ \A j \in 1..Len(stack) :
                                      stack[i] = stack[j] => i = j
    BY <1>1, Zenon DEF CallsOpen, Open
  <2> QED
    BY <1>4, <2>1, <2>2, Zenon
<1>9. /\ stack' \in Seq(Statements) /\ Len(stack') = Len(stack) + 1
      /\ \A i \in 1..Len(stack) : stack'[i] = stack[i]
      /\ stack'[Len(stack) + 1] = u
  BY <1>1, <1>2, <1>3, Pushing
<1>10. nesting_level' = Levels(1, Len(stack))'
  <2>1. Counted(u)' <=> ShouldTrackUtility(u)
    BY <1>2, <1>7, Zenon DEF Counted
  <2>2. (IF Counted(u)' THEN 1 ELSE 0) = IF ShouldTrackUtility(u) THEN 1 ELSE 0
    BY <2>1, Zenon
  <2>3. Levels(1, Len(stack))'
          = Levels(1, Len(stack)) + IF Counted(u)' THEN 1 ELSE 0
    BY <1>1, <1>2, <1>3, <1>7, <1>8, PushLevels
  <2>4. nesting_level' = nesting_level + IF ShouldTrackUtility(u) THEN 1 ELSE 0
    BY Zenon DEF UtilityStart
  <2> QED
    BY <1>1, <2>2, <2>3, <2>4, Zenon
<1>11. TypeOK'
  <2>1. nesting_level' \in Nat
    <3>1. Levels(1, Len(stack))' \in Nat
      BY <1>9, NewLevels, Zenon
    <3> QED
      BY <1>10, <3>1, Zenon
  <2>2. /\ psch_enabled' \in BOOLEAN /\ lackId' \subseteq MayLackId
        /\ current_query_is_top_level' \in BOOLEAN
        /\ {query_start_ts', rusage_start', clock'} \subseteq Nat
    BY <1>1, <1>2, <1>3, <1>5 DEF TypeOK
  <2>3. DOMAIN totaltime' \subseteq Queries \ lackId'
    BY <1>1, <1>3, <1>5, Zenon DEF TypeOK
  <2> QED
    BY <1>1, <1>3, <1>4, <1>5, <1>7, <1>9, <2>1, <2>2, <2>3, Zenon DEF TypeOK
<1>12. CallsOpen'
  <2> SUFFICES ASSUME NEW i \in 1..Len(stack')
               PROVE  /\ state'[stack'[i]] \in {"open", "finishing"}
                      /\ \A j \in 1..Len(stack') : stack'[i] = stack'[j] => i = j
    BY Zenon DEF CallsOpen, Open
  <2>1. \A j \in 1..Len(stack') : j = Len(stack) + 1 \/ j \in 1..Len(stack)
    BY <1>8, <1>9
  <2>2. \A j \in 1..Len(stack) : /\ stack'[j] = stack[j] /\ stack'[j] # u
                                 /\ state'[stack'[j]] \in {"open", "finishing"}
    <3> SUFFICES ASSUME NEW j \in 1..Len(stack)
                 PROVE  /\ stack'[j] = stack[j] /\ stack'[j] # u
                        /\ state'[stack'[j]] \in {"open", "finishing"}
      BY Zenon
    <3>1. /\ stack[j] \in Statements \ {u}
          /\ state[stack[j]] \in {"open", "finishing"}
      BY <1>8, Zenon
    <3>2. stack'[j] = stack[j] /\ state'[stack[j]] = state[stack[j]]
      BY <1>4, <1>9, <3>1, Zenon
    <3> QED
      BY <3>1, <3>2, Zenon
  <2>3. stack'[Len(stack) + 1] = u /\ state'[u] = "open"
    BY <1>4, <1>9, Zenon
  <2>4. CASE i = Len(stack) + 1
    BY <2>1, <2>2, <2>3, <2>4
  <2>5. CASE i \in 1..Len(stack)
    <3>1. \A j \in 1..Len(stack) : stack'[i] = stack'[j] => i = j
      BY <1>8, <2>2, <2>5
    <3>2. stack'[i] # u /\ state'[stack'[i]] \in {"open", "finishing"}
      BY <2>2, <2>5, Zenon
    <3> QED
      BY <2>1, <2>3, <3>1, <3>2
  <2> QED
    BY <2>1, <2>4, <2>5, Zenon
<1>13. /\ EventsOfEnded' /\ UtilityEventsRight' /\ UndisturbedRight'
       /\ \A x \in Statements : IF state'[x] = "new" THEN began'[x] = 0
                                                     ELSE began'[x] \in 1..clock'
       /\ \A p \in Statements \ {u} : Open(p)' => ~AloneUntil(p, clock)'
  BY <1>2, <1>3, <1>5, StatementBegins
<1>14. Clocked'
  <2>1. query_start_ts' =< clock' /\ rusage_start' =< clock'
    BY <1>2, <1>3, <1>5
  <2> QED
    BY <1>13, <2>1, Zenon DEF Clocked
<1>15. LocalsOwn'
  <2> SUFFICES ASSUME NEW v \in Utilities, state'[v] # "new"
               PROVE  /\ locals'[v].start = began'[v]
                      /\ locals'[v].is_top_level = outer'[v]
    BY Zenon DEF LocalsOwn
  <2>1. CASE v = u
    <3>1. locals'[u].start = began'[u]
      BY <1>4, <1>7, Zenon
    <3>2. locals'[u].is_top_level = outer'[u]
      BY <1>1, <1>4, <1>7, Zenon
    <3> QED
      BY <2>1, <3>1, <3>2, Zenon
  <2>2. CASE v # u
    BY <1>1, <1>4, <1>7, <2>2, Zenon DEF LocalsOwn, Statements
  <2> QED
    BY <2>1, <2>2, Zenon
<1>16. Timed'
  <2> SUFFICES ASSUME NEW q \in DOMAIN totaltime
               PROVE  state'[q] # "new" /\ totaltime'[q] =< clock' - began'[q]
    BY <1>5, Zenon DEF Timed
  <2>1. state[q] # "new" /\ q \in Statements \ {u}
    BY <1>1, <1>4, TimeTypes, Zenon DEF Timed
  <2> QED
    BY <1>4, <1>5, <2>1, Zenon
<1>17. StaticsOwn'
  BY <1>2, <1>13, Zenon DEF StaticsOwn, Statements
<1> QED
  BY <1>10, <1>11, <1>12, <1>13, <1>14, <1>15, <1>16, <1>17
  DEF HooksInv, NestingExact

(* What the end of a statement does to the types, given that of its event. *)
LEMMA EndTypes ==
  ASSUME HooksInv, NEW s \in Statements, End(s), NEW ev,
         ev \in [of : Statements, top_level : BOOLEAN, ts_start : Nat,
                 duration_us : Nat, cpu : Nat],
         emitted' \in {emitted, emitted \cup {ev}},
         UNCHANGED <<config, started, locals>>,
         nesting_level' \in Nat, stack' \in Seq(Statements)
  PROVE  TypeOK'
<1>1. TypeOK
  BY Zenon DEF HooksInv, NestingExact
<1>2. /\ clock' \in Nat /\ DOMAIN totaltime' = DOMAIN totaltime
      /\ \A q \in DOMAIN totaltime : totaltime'[q] \in Nat
  BY TickTypes, Zenon DEF End
<1>3. /\ state' \in [Statements -> {"new", "open", "finishing", "done"}]
      /\ {began', ended'} \subseteq [Statements -> Nat]
      /\ outer' \in [Statements -> BOOLEAN]
  <2>1. clock + 1 \in Nat
    BY TimeTypes
  <2> QED
    BY <1>1, <2>1 DEF End, TypeOK
<1>4. emitted' \subseteq [of : Statements, top_level : BOOLEAN, ts_start : Nat,
                          duration_us : Nat, cpu : Nat]
  BY <1>1, Zenon DEF TypeOK
<1>5. UNCHANGED <<psch_enabled, lackId, current_query_is_top_level,
                  query_start_ts, rusage_start, locals>>
  BY Zenon DEF config, started
<1> QED
  BY <1>1, <1>2, <1>3, <1>4, <1>5, Zenon DEF TypeOK

(* PschExecutorEnd.                                                        *)
LEMMA ExecutorEndKeeps ==
  ASSUME HooksInv, NEW q \in Queries, ExecutorEnd(q)
  PROVE  HooksInv'
<1> DEFINE ev == BuildEventFromQueryDesc(q)
<1>1. /\ TypeOK /\ CallsOpen /\ nesting_level = Levels(1, Len(stack))
      /\ Clocked /\ Timed /\ StaticsOwn
      /\ nesting_level \in Nat /\ stack \in Seq(Statements)
      /\ current_query_is_top_level \in BOOLEAN
      /\ state \in [Statements -> {"new", "open", "finishing", "done"}]
      /\ outer \in [Statements -> BOOLEAN]
  BY Zenon DEF HooksInv, NestingExact, TypeOK
<1>2. /\ q \in Statements /\ q \notin Utilities
      /\ clock \in Nat /\ query_start_ts \in Nat /\ rusage_start \in Nat
      /\ query_start_ts =< clock /\ rusage_start =< clock /\ began[q] \in Nat
  BY <1>1, TimeTypes, HooksAssumption, Zenon DEF Statements, Clocked
<1>3. /\ Open(q) /\ q \notin ToSet(stack) /\ End(q)
      /\ UNCHANGED <<config, started, nesting_level, locals, stack>>
  BY Zenon DEF ExecutorEnd, Open, statics
<1>4. /\ ev.of = q /\ ev.top_level = current_query_is_top_level
      /\ ev.ts_start = query_start_ts /\ ev.duration_us = DurationUs(q)
      /\ ev.cpu = clock + 1 - rusage_start
      /\ ev = [of |-> q, ts_start |-> query_start_ts,
               top_level |-> current_query_is_top_level,
               duration_us |-> DurationUs(q), cpu |-> clock + 1 - rusage_start]
  BY Zenon DEF BuildEventFromQueryDesc, InitBaseEvent
<1>5. emitted' \in {emitted, emitted \cup {ev}}
  BY Zenon DEF ExecutorEnd, Emit
<1>6. DurationUs(q) \in Nat
  BY <1>2, TimeTypes DEF DurationUs
<1> HIDE DEF ev
<1>7. ev \in [of : Statements, top_level : BOOLEAN, ts_start : Nat,
              duration_us : Nat, cpu : Nat]
  <2>1. clock + 1 - rusage_start \in Nat
    BY <1>2
  <2> QED
    BY <1>1, <1>2, <1>4, <1>6, <2>1
<1>8. TypeOK'
  BY <1>1, <1>2, <1>3, <1>5, <1>7, EndTypes
<1>9. nesting_level' = Levels(1, Len(stack))'
  BY <1>1, <1>3, Zenon DEF Levels, Counted
<1>10. CallsOpen'
  <2>1. \A i \in 1..Len(stack) : stack[i] \in Statements \ {q}
    BY <1>1, <1>3, OnStack
  <2>2. \A s \in Statements \ {q} : state'[s] = state[s]
    BY <1>1, <1>3, Zenon DEF End
  <2> QED
    BY <1>1, <1>3, <2>1, <2>2, Zenon DEF CallsOpen, Open
<1>11. ASSUME outer[q], AloneUntil(q, clock)
       PROVE  /\ ev.top_level = outer[q]
              /\ ev.ts_start = began[q]
              /\ ev.duration_us =< clock + 1 - began[q]
              /\ ev.cpu >= clock + 1 - began[q]
              /\ q \in DOMAIN totaltime => ev.cpu = clock + 1 - began[q]
  <2>1. /\ current_query_is_top_level
        /\ query_start_ts = began[q]
        /\ rusage_start =< began[q]
        /\ q \in DOMAIN totaltime => rusage_start = began[q]
    BY <1>1, <1>3, <1>11, Zenon DEF StaticsOwn
  <2>2. current_query_is_top_level = outer[q]
    BY <1>1, <1>2, <1>11, <2>1
  <2>3. ev.top_level = outer[q]
    BY <1>4, <2>2, Zenon
  <2>4. DurationUs(q) =< clock + 1 - began[q]
    <3>1. CASE q \in DOMAIN totaltime
      <4>1. totaltime[q] =< clock - began[q] /\ totaltime[q] \in Nat
        BY <1>1, <3>1, TimeTypes, Zenon DEF Timed
      <4> QED
        BY <1>2, <3>1, <4>1 DEF DurationUs
    <3>2. CASE q \notin DOMAIN totaltime
      BY <1>2, <2>1, <3>2 DEF DurationUs
    <3> QED
      BY <3>1, <3>2, Zenon
  <2>5. ev.ts_start = began[q] /\ ev.duration_us =< clock + 1 - began[q]
    BY <1>4, <2>1, <2>4, Zenon
  <2>6. /\ ev.cpu >= clock + 1 - began[q]
        /\ q \in DOMAIN totaltime => ev.cpu = clock + 1 - began[q]
    BY <1>2, <1>4, <2>1
  <2> QED
    BY <2>3, <2>5, <2>6, Zenon
<1>12. /\ Clocked' /\ LocalsOwn' /\ Timed' /\ StaticsOwn' /\ EventsOfEnded'
       /\ UtilityEventsRight' /\ UndisturbedRight'
  <2>1. ev.of = q /\ UNCHANGED <<started, locals>>
    BY <1>3, <1>4, Zenon
  <2> QED
    BY <1>2, <1>3, <1>5, <1>11, <2>1, StatementEnds
<1> QED
  BY <1>8, <1>9, <1>10, <1>12, Zenon DEF HooksInv, NestingExact

(* PschProcessUtility, after the call of the utility.                      *)
LEMMA UtilityEndKeeps ==
  ASSUME HooksInv, NEW u \in Utilities, UtilityEnd(u)
  PROVE  HooksInv'
<1> DEFINE ev == BuildEventForUtility(u)
<1>1. /\ TypeOK /\ nesting_level = Levels(1, Len(stack)) /\ LocalsOwn
      /\ nesting_level \in Nat
      /\ locals[u] \in [tracked : BOOLEAN, is_top_level : BOOLEAN, start : Nat]
      /\ state \in [Statements -> {"new", "open", "finishing", "done"}]
  BY Zenon DEF HooksInv, NestingExact, TypeOK
<1>2. u \in Statements /\ u \notin Queries /\ clock \in Nat
  BY TimeTypes, HooksAssumption, Zenon DEF Statements
<1>3. /\ stack # <<>> /\ Last(stack) = u /\ stack' = Front(stack) /\ End(u)
      /\ UNCHANGED <<config, started, locals>>
  BY Zenon DEF UtilityEnd
<1>4. stack' \in Seq(Statements) /\ CallsOpen' /\ Open(u)
  <2>1. \A s \in Statements : s # Last(stack) => state'[s] = state[s]
    BY <1>1, <1>3, Zenon DEF End
  <2> QED
    BY <1>3, <2>1, PopCalls, Zenon
<1>5. began[u] \in 1..clock /\ locals[u].start = began[u]
      /\ locals[u].is_top_level = outer[u]
  BY <1>1, <1>2, <1>4, TimeTypes, Zenon DEF Open, LocalsOwn
<1>6. /\ ev.of = u /\ ev.top_level = locals[u].is_top_level
      /\ ev.ts_start = locals[u].start
      /\ ev.duration_us = clock + 1 - locals[u].start
      /\ ev.cpu = clock + 1 - locals[u].start
      /\ ev = [of |-> u, ts_start |-> locals[u].start,
               top_level |-> locals[u].is_top_level,
               duration_us |-> clock + 1 - locals[u].start,
               cpu |-> clock + 1 - locals[u].start]
  BY Zenon DEF BuildEventForUtility, InitBaseEvent
<1>7. emitted' \in {emitted, emitted \cup {ev}}
  BY Zenon DEF UtilityEnd, Emit
<1> HIDE DEF ev
<1>8. ev \in [of : Statements, top_level : BOOLEAN, ts_start : Nat,
              duration_us : Nat, cpu : Nat]
  <2>1. clock + 1 - locals[u].start \in Nat
    BY <1>2, <1>5
  <2>2. locals[u].is_top_level \in BOOLEAN /\ locals[u].start \in Nat
    BY <1>1, Zenon
  <2> QED
    BY <1>2, <1>6, <2>1, <2>2, Zenon
<1>9. nesting_level' = Levels(1, Len(stack))'
  <2>1. Counted(Last(stack)) <=> locals[u].tracked
    BY <1>2, <1>3, Zenon DEF Counted
  <2>2. (IF Counted(Last(stack)) THEN 1 ELSE 0) = IF locals[u].tracked THEN 1 ELSE 0
    BY <2>1, Zenon
  <2>3. Levels(1, Len(stack))'
          = Levels(1, Len(stack)) - IF Counted(Last(stack)) THEN 1 ELSE 0
    BY <1>1, <1>3, PopLevels, Zenon
  <2>4. nesting_level' = nesting_level - IF locals[u].tracked THEN 1 ELSE 0
    BY <1>1 DEF UtilityEnd
  <2> QED
    BY <1>1, <2>2, <2>3, <2>4, Zenon
<1>10. TypeOK'
  <2>1. nesting_level' \in Nat
    <3>1. Levels(1, Len(stack))' \in Nat
      BY <1>4, NewLevels, Zenon
    <3> QED
      BY <1>9, <3>1, Zenon
  <2> QED
    BY <1>2, <1>3, <1>4, <1>7, <1>8, <2>1, EndTypes, Zenon
<1>11. /\ ev.top_level = outer[u]
       /\ ev.ts_start = began[u]
       /\ ev.duration_us = clock + 1 - began[u]
       /\ ev.cpu = clock + 1 - began[u]
  BY <1>5, <1>6, Zenon
<1>12. /\ Clocked' /\ LocalsOwn' /\ Timed' /\ StaticsOwn' /\ EventsOfEnded'
       /\ UtilityEventsRight' /\ UndisturbedRight'
  <2>1. ev.of = u /\ UNCHANGED <<started, locals>>
    BY <1>3, <1>6, Zenon
  <2> QED
    BY <1>2, <1>3, <1>4, <1>7, <1>11, <2>1, StatementEnds
<1> QED
  BY <1>4, <1>9, <1>10, <1>12, Zenon DEF HooksInv, NestingExact

(* Every step keeps the invariant.                                         *)
LEMMA NextHooks ==
  ASSUME HooksInv, [Next]_vars
  PROVE  HooksInv'
<1>1. CASE UNCHANGED vars
  <2>1. /\ UNCHANGED <<psch_enabled, lackId, nesting_level, totaltime, locals>>
        /\ UNCHANGED <<current_query_is_top_level, query_start_ts, rusage_start>>
        /\ UNCHANGED <<stack, state, clock, began, ended, outer, emitted>>
    BY <1>1, Zenon DEF vars, config, statics, started, ghosts
  <2>2. NestingExact' /\ CallsOpen'
    BY <2>1, Zenon
       DEF HooksInv, NestingExact, TypeOK, CallsOpen, Open, Levels, Counted
  <2>3. /\ Clocked' /\ LocalsOwn' /\ Timed' /\ StaticsOwn' /\ EventsOfEnded'
        /\ UtilityEventsRight' /\ UndisturbedRight'
    <3>1. \A s \in Statements : /\ state'[s] = "new" <=> state[s] = "new"
                                /\ state[s] = "done" => state'[s] = "done"
                                /\ Open(s)' => Open(s)
      BY <2>1, Zenon DEF Open
    <3>2. UNCHANGED <<started, totaltime, locals, clock, ghosts, emitted>>
      BY <2>1, Zenon DEF started, ghosts
    <3> QED
      BY <3>1, <3>2, CallsMove, Zenon
  <2> QED
    BY <2>2, <2>3, Zenon DEF HooksInv
<1>2. CASE Reload
  BY <1>2, ReloadKeeps, Zenon
<1>3. ASSUME NEW q \in Queries,
             \/ ExecutorStart(q) \/ ExecutorRun(q) \/ ExecutorFinish(q)
             \/ Leave(q) \/ ExecutorEnd(q)
      PROVE  HooksInv'
  BY <1>3, ExecutorStartKeeps, ExecutorRunKeeps, ExecutorFinishKeeps,
     LeaveKeeps,
     ExecutorEndKeeps
<1>4. ASSUME NEW u \in Utilities, UtilityStart(u) \/ UtilityEnd(u)
      PROVE  HooksInv'
  BY <1>4, UtilityStartKeeps, UtilityEndKeeps, Zenon
<1>5. ASSUME NEW d \in 0..MaxDepth, Error(d)
      PROVE  HooksInv'
  BY <1>5, ErrorKeeps
<1> QED
  BY <1>1, <1>2, <1>3, <1>4, <1>5 DEF Next

-----------------------------------------------------------------------------
(* The theorems about the executor hooks.                                  *)

(* The inductive invariant of the hooks holds of every run of a backend.   *)
THEOREM HooksInvariance == Spec => []HooksInv
<1>1. Init => HooksInv
  BY InitHooks, Zenon
<1>2. HooksInv /\ [Next]_vars => HooksInv'
  BY NextHooks, Zenon
<1> QED
  BY <1>1, <1>2, PTL DEF Spec

(* nesting_level is the number of tracked calls in progress, whatever      *)
(* errors leave PschExecutorRun, PschExecutorFinish and PschProcessUtility *)
(* through their PG_FINALLY, however deep they are caught.                 *)
THEOREM NestingLevelRight == Spec => []NestingExact
<1>1. HooksInv => NestingExact
  BY Zenon DEF HooksInv
<1> QED
  BY <1>1, HooksInvariance, PTL

(* The event that PschProcessUtility builds from its locals tells the      *)
(* level, start, duration and usage of its own statement.                  *)
THEOREM UtilitiesTold == Spec => []UtilityEventsRight
<1>1. HooksInv => UtilityEventsRight
  BY Zenon DEF HooksInv
<1> QED
  BY <1>1, HooksInvariance, PTL

(* The event that PschExecutorEnd builds from the statics tells those of   *)
(* its own query, where that is a top-level one and no other statement     *)
(* has begun since PschExecutorStart.                                      *)
THEOREM UndisturbedTold == Spec => []UndisturbedRight
<1>1. HooksInv => UndisturbedRight
  BY Zenon DEF HooksInv
<1> QED
  BY <1>1, HooksInvariance, PTL

(* No statement is reported twice, nor before it has ended.                *)
THEOREM ReportedOnce ==
  Spec => [](\A e, f \in emitted : /\ state[e.of] = "done"
                                   /\ e.of = f.of => e = f)
<1>1. HooksInv => \A e, f \in emitted : /\ state[e.of] = "done"
                                        /\ e.of = f.of => e = f
  BY Zenon DEF HooksInv, EventsOfEnded
<1> QED
  BY <1>1, HooksInvariance, PTL
=============================================================================
