----------------------------- MODULE QueryText ------------------------------
(***************************************************************************)
(* The query text of a backend's events, from the parse hook to the        *)
(* executor hooks (src/src/hooks/hooks.c): PschPostParseAnalyze puts the   *)
(* text that NormalizeQuery computes into NormalizeCache, and CopyQueryText *)
(* takes it out again whenever a statement with that id ends.              *)
(*                                                                         *)
(* A statement may be executed often after it was parsed once, or without  *)
(* having been parsed with the hook on.                                    *)
(***************************************************************************)
EXTENDS NormalizeQuery, NormalizeCache, TLC

CONSTANT Sources    \* the source strings a client may send

VARIABLES
  source,    \* the one it sends
  given      \* what was to be remembered last for an id (ghost)

vars == <<cacheVars, source, given>>

Init ==
  /\ CacheInit
  /\ source \in Sources
  /\ given = <<>>

(* What the parser makes of a statement: its trimmed slice q and where its *)
(* literals begin, f.  Statements that differ only in constants and blanks *)
(* have the same query id.                                                 *)
Parses ==
  UNION {LET q == CleanQuerytext(source, s)
         IN  {<<q, f>> : f \in Constants(source, q)} : s \in Statements(source)}

QueryId(q, f) == SelectSeq(Reference(source, q, f), LAMBDA u : u # " ")

(* PschPostParseAnalyze of a statement that has a query id, with the       *)
(* extension on and not in a parallel worker; else it changes nothing.     *)
PostParseAnalyze(q, f, jstate) ==
  LET id == QueryId(q, f)
  IN  /\ Remember(id, ExportedQuery(source, q, jstate))
      /\ given' = (id :> [text |-> Reference(source, q, f),
                          doubly |-> DoublySigned(source, f)]) @@ given
      /\ UNCHANGED source

PostParseAnalyzeOom(q, f) == RememberOom(QueryId(q, f)) /\ UNCHANGED <<source, given>>

(* CopyQueryText, for the event of a statement that ends.                  *)
CopyQueryText(q, f) == Lookup(QueryId(q, f)) /\ UNCHANGED <<source, given>>

Orphaned(q, f) == TouchOrphan(QueryId(q, f)) /\ UNCHANGED <<source, given>>

Next == \E p \in Parses :
  \/ \E jstate \in JumbleStates(source, p[1], p[2]) :
       PostParseAnalyze(p[1], p[2], jstate)
  \/ PostParseAnalyzeOom(p[1], p[2])
  \/ CopyQueryText(p[1], p[2])
  \/ Orphaned(p[1], p[2])

Spec == Init /\ [][Next]_vars

-----------------------------------------------------------------------------
(* Properties.                                                             *)

TypeOK ==
  /\ source \in Sources
  /\ htab \subseteq DOMAIN given \cup Orphans

(* The text that an event of a query id gets is the beginning of the       *)
(* reference text of the statement parsed last with that id: no literal is *)
(* left, nothing else is lost, and the placeholders are numbered through,  *)
(* in whatever order jumbling met the constants and wherever in the source *)
(* string the statement stands.  Constants with two signs are excepted.    *)
TextNormalized ==
  /\ TypeOK
  /\ \A q \in ToSet(lru) :
       LET want == given[q].text
       IN  given[q].doubly
             \/ text[q] = SubSeq(want, 1, Least(Len(want), PSCH_MAX_CACHED_QUERY_LEN - 1))
=============================================================================
