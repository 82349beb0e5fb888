--------------------------- MODULE NormalizeCache ---------------------------
(***************************************************************************)
(* The backend-local cache of normalized query texts                       *)
(* (src/src/hooks/query_normalize_state.c): a hash table whose entries are *)
(* threaded on a list, most recently used first.  QueryText says who calls *)
(* it.                                                                     *)
(*                                                                         *)
(* MemoryContextAlloc reports an error when memory is out, and the error   *)
(* leaves PschRememberNormalizedQuery between its steps.  An entry that is *)
(* in the table but not on the list, with no text of its own, is an        *)
(* orphan; to unlink it or to read its text is undefined, and nothing is   *)
(* said about what follows.                                                *)
(***************************************************************************)
EXTENDS Integers, Sequences, FiniteSets, SequencesExt, Functions

CONSTANTS
  max_entries,   \* of the cache
  PSCH_MAX_CACHED_QUERY_LEN,
  MaxOom         \* bound on the allocations that fail

ASSUME CacheAssumption ==
  /\ {max_entries, PSCH_MAX_CACHED_QUERY_LEN} \subseteq Nat \ {0}
  /\ MaxOom \in Nat

VARIABLES
  htab,      \* the query ids in the hash table
  text,      \* the text of each entry that has one
  lru,       \* the list
  undefined, \* has an orphan been touched?
  oom,
  used       \* all ids, in the order of their last use (ghost)

cache == <<htab, text, lru>>
cacheVars == <<cache, undefined, oom, used>>

CacheInit ==
  /\ htab = {} /\ lru = <<>> /\ text = <<>>
  /\ undefined = FALSE
  /\ oom = 0
  /\ used = <<>>

Orphans == htab \ ToSet(lru)

(* Variant: without dclist_delete_from.                                    *)
PushEntryTwice(list, q) == <<q>> \o list

(* dclist_delete_from and dclist_push_head                                 *)
PromoteEntryToMru(list, q) == <<q>> \o RemoveFirst(list, q)

ClampCachedQueryLen(len) ==
  IF len >= PSCH_MAX_CACHED_QUERY_LEN THEN PSCH_MAX_CACHED_QUERY_LEN - 1 ELSE len

-----------------------------------------------------------------------------
(* What is left of table and list when the new text is about to be copied: *)
(* q is entered; found, it is off the list; new, the last one is evicted   *)
(* if the list is full.                                                    *)
Victims(q) ==
  IF q \notin htab /\ Len(lru) >= max_entries THEN {Last(lru)} ELSE {}

Entered(q) == (htab \ Victims(q)) \cup {q}
Others(q) ==
  CASE q \in htab -> RemoveFirst(lru, q)
    [] Victims(q) # {} -> Front(lru)
    [] OTHER -> lru

(* PschRememberNormalizedQuery                                             *)
Remember(q, t) ==
  /\ ~undefined
  /\ q \notin Orphans
  /\ htab' = Entered(q)
  /\ lru' = <<q>> \o Others(q)
  /\ text' = [x \in {q} \cup ToSet(Others(q)) |->
                IF x = q THEN SubSeq(t, 1, ClampCachedQueryLen(Len(t))) ELSE text[x]]
  /\ used' = PromoteEntryToMru(used, q)
  /\ UNCHANGED <<undefined, oom>>

(* CopyQueryText throws.                                                   *)
RememberOom(q) ==
  /\ ~undefined
  /\ q \notin Orphans
  /\ oom < MaxOom
  /\ oom' = oom + 1
  /\ htab' = Entered(q)
  /\ lru' = Others(q)
  /\ text' = Restrict(text, ToSet(Others(q)))
  /\ UNCHANGED <<undefined, used>>

(* Variant: a hit does not count as a use.                                 *)
LookupKeepsOrder(q) ==
  /\ ~undefined
  /\ q \in htab \ Orphans
  /\ used' = PromoteEntryToMru(used, q)
  /\ UNCHANGED <<cache, undefined, oom>>

(* PschLookupNormalizedQuery; a miss changes nothing.                      *)
Lookup(q) ==
  /\ ~undefined
  /\ q \in htab \ Orphans
  /\ lru' = PromoteEntryToMru(lru, q)
  /\ used' = PromoteEntryToMru(used, q)
  /\ UNCHANGED <<htab, text, undefined, oom>>

(* Either of the two meets an orphan.                                      *)
TouchOrphan(q) ==
  /\ ~undefined
  /\ q \in Orphans
  /\ undefined' = TRUE
  /\ UNCHANGED <<cache, oom, used>>

(* The cache by itself, for callers that use any ids and any texts.        *)
CacheNext(Ids, Texts) ==
  \E q \in Ids : \/ \E t \in Texts : Remember(q, t)
                 \/ RememberOom(q) \/ Lookup(q) \/ TouchOrphan(q)

CacheSpec(Ids, Texts) == CacheInit /\ [][CacheNext(Ids, Texts)]_cacheVars

-----------------------------------------------------------------------------
(* Properties.                                                             *)

CacheTypeOK ==
  /\ Len(lru) =< max_entries
  /\ DOMAIN text = ToSet(lru)
  /\ undefined \in BOOLEAN
  /\ oom \in 0..MaxOom

(* As long as no allocation fails the cache is an LRU cache: the list and  *)
(* the table hold the max_entries ids used last, in that order.  Eviction  *)
(* happens after the new entry is in the table and must not take it.       *)
IsLru ==
  oom = 0 =>
    /\ lru = SubSeq(used, 1,
                    IF Len(used) =< max_entries THEN Len(used) ELSE max_entries)
    /\ htab = ToSet(lru)

(* Whatever fails, the list has no duplicates, its entries are in the      *)
(* table, and the table is larger than max_entries by no more than the     *)
(* entries that failed allocations left.                                   *)
ListSound ==
  /\ CacheTypeOK
  /\ IsInjective(lru)
  /\ ToSet(lru) \subseteq htab
  /\ Cardinality(htab) =< max_entries + oom
=============================================================================
