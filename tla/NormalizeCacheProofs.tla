------------------------ MODULE NormalizeCacheProofs ------------------------
(***************************************************************************)
(* Proofs about the cache of normalized texts, for every number of         *)
(* entries, any ids and texts, and any number of failed allocations.       *)
(***************************************************************************)
EXTENDS NormalizeCache, FiniteSetTheorems, TLAPS

-----------------------------------------------------------------------------
(* The inductive invariant.                                                *)

(* A list on which nothing is twice.                                       *)
Distinct(s) == \A i, j \in 1..Len(s) : s[i] = s[j] => i = j

(* The list holds the first of a sequence of uses, as many as fit.         *)
LatestOf(list, uses) ==
  /\ Len(list) = IF Len(uses) =< max_entries THEN Len(uses) ELSE max_entries
  /\ \A i \in 1..Len(list) : list[i] = uses[i]

(* The inductive invariant of the cache, for any ids.                      *)
CacheInv(Ids) ==
  /\ CacheTypeOK
  /\ lru \in Seq(Ids) /\ Distinct(lru)
  /\ used \in Seq(Ids) /\ Distinct(used)
  /\ ToSet(lru) \subseteq htab
  /\ IsFiniteSet(Orphans) /\ Cardinality(Orphans) =< oom
  /\ oom = 0 => LatestOf(lru, used) /\ htab = ToSet(lru)

(* One sequence is another with its k-th element moved to the front.       *)
Moved(p, s, k) ==
  /\ Len(p) = Len(s)
  /\ \A i \in 1..Len(s) :
       p[i] = IF i = 1 THEN s[k] ELSE IF i =< k THEN s[i - 1] ELSE s[i]

(* One sequence is another with an element put before it.                  *)
Preceded(p, s) == Len(p) = Len(s) + 1 /\ \A i \in 1..Len(s) : p[i + 1] = s[i]

(* Unlinking the entry at a place of a list without duplicates.            *)
LEMMA Unlinked ==
  ASSUME NEW S, NEW s \in Seq(S), Distinct(s), NEW k \in 1..Len(s)
  PROVE  LET r == RemoveFirst(s, s[k])
         IN  /\ r \in Seq(S) /\ Len(r) = Len(s) - 1
             /\ \A i \in 1..Len(r) : r[i] = IF i < k THEN s[i] ELSE s[i + 1]
             /\ Distinct(r)
             /\ ToSet(r) = ToSet(s) \ {s[k]}
<1>1. {j \in 1..Len(s) : s[j] = s[k]} = {k}
  BY Zenon DEF Distinct
<1>2. Min({k}) = k
  BY DEF Min
<1>3. SelectInSeq(s, LAMBDA v : v = s[k]) = k
  BY <1>1, <1>2, Zenon DEF SelectInSeq
<1> DEFINE a == SubSeq(s, 1, k - 1)
           b == SubSeq(s, k + 1, Len(s))
           r == a \o b
<1>4. RemoveFirst(s, s[k]) = r
  BY <1>3, Zenon DEF RemoveFirst, RemoveAt
<1>5. /\ a \in Seq(S) /\ Len(a) = k - 1
      /\ \A i \in 1..(k - 1) : a[i] = s[i]
  OBVIOUS
<1>6. /\ b \in Seq(S) /\ Len(b) = Len(s) - k
      /\ \A i \in 1..(Len(s) - k) : b[i] = s[k + i]
  OBVIOUS
<1> HIDE DEF a, b
<1>7. r \in Seq(S) /\ Len(r) = Len(s) - 1
  <2>1. r \in Seq(S) /\ Len(r) = Len(a) + Len(b)
    <3>1. a \in Seq(S) /\ b \in Seq(S)
      BY <1>5, <1>6, Zenon
    <3> QED
      BY <3>1
  <2>2. Len(s) \in Nat
    OBVIOUS
  <2> HIDE DEF r
  <2> QED
    BY <1>5, <1>6, <2>1, <2>2
<1>8. \A i \in 1..Len(r) : r[i] = IF i < k THEN s[i] ELSE s[i + 1]
  <2> SUFFICES ASSUME NEW i \in 1..Len(r)
               PROVE  r[i] = IF i < k THEN s[i] ELSE s[i + 1]
    BY Zenon
  <2>1. CASE i < k
    BY <1>5, <1>6, <1>7, <2>1
  <2>2. CASE i >= k
    <3>1. i - (k - 1) \in 1..(Len(s) - k) /\ r[i] = b[i - (k - 1)]
      BY <1>5, <1>6, <1>7, <2>2
    <3> QED
      BY <1>6, <2>2, <3>1
  <2> QED
    BY <2>1, <2>2
<1> HIDE DEF r
<1>9. Distinct(r)
  BY <1>7, <1>8 DEF Distinct
<1>10. ToSet(r) = ToSet(s) \ {s[k]}
  <2>1. ASSUME NEW x \in ToSet(r) PROVE x \in ToSet(s) \ {s[k]}
    BY <1>7, <1>8 DEF ToSet, Distinct
  <2>2. ASSUME NEW x \in ToSet(s), x # s[k] PROVE x \in ToSet(r)
    <3>1. PICK j \in 1..Len(s) : x = s[j]
      BY DEF ToSet
    <3>2. CASE j < k
      BY <1>7, <1>8, <3>1, <3>2 DEF ToSet
    <3>3. CASE j > k
      <4>1. j - 1 \in 1..Len(r) /\ r[j - 1] = s[j]
        BY <1>7, <1>8, <3>3
      <4> QED
        BY <1>7, <3>1, <4>1 DEF ToSet
    <3> QED
      BY <2>2, <3>1, <3>2, <3>3
  <2> QED
    BY <2>1, <2>2, Zenon
<1> QED
  BY <1>4, <1>7, <1>8, <1>9, <1>10

(* An entry that is not on the list is not unlinked.                       *)
LEMMA NotLinked ==
  ASSUME NEW S, NEW s \in Seq(S), NEW e, e \notin ToSet(s)
  PROVE  RemoveFirst(s, e) = s
BY DEF RemoveFirst, ToSet

(* Pushing an entry that is not on the list.                               *)
LEMMA Pushed ==
  ASSUME NEW S, NEW s \in Seq(S), Distinct(s), NEW e \in S, e \notin ToSet(s)
  PROVE  LET p == <<e>> \o s
         IN  /\ p \in Seq(S) /\ Len(p) = Len(s) + 1
             /\ p[1] = e /\ \A i \in 1..Len(s) : p[i + 1] = s[i]
             /\ Distinct(p)
             /\ ToSet(p) = ToSet(s) \cup {e}
<1> DEFINE p == <<e>> \o s
<1>1. p \in Seq(S) /\ Len(p) = Len(s) + 1
  OBVIOUS
<1>2. p[1] = e /\ \A i \in 1..Len(s) : p[i + 1] = s[i]
  OBVIOUS
<1>3. \A i \in 1..Len(p) : i # 1 => i - 1 \in 1..Len(s) /\ p[i] = s[i - 1]
  OBVIOUS
<1> HIDE DEF p
<1>4. \A i \in 1..Len(s) : s[i] # e
  BY DEF ToSet
<1>5. Distinct(p)
  <2> SUFFICES ASSUME NEW i \in 1..Len(p), NEW j \in 1..Len(p), p[i] = p[j]
               PROVE  i = j
    BY Zenon DEF Distinct
  <2>1. CASE i = 1 \/ j = 1
    BY <1>2, <1>3, <1>4, <2>1, Zenon
  <2>2. CASE i # 1 /\ j # 1
    <3>1. i - 1 \in 1..Len(s) /\ j - 1 \in 1..Len(s) /\ s[i - 1] = s[j - 1]
      BY <1>3, <2>2, Zenon
    <3>2. i - 1 = j - 1
      BY <3>1, Zenon DEF Distinct
    <3> QED
      BY <1>1, <3>2
  <2> QED
    BY <2>1, <2>2, Zenon
<1>6. ToSet(p) = ToSet(s) \cup {e}
  <2>1. DOMAIN p = 1..Len(p) /\ DOMAIN s = 1..Len(s) /\ 1 \in 1..Len(p)
        /\ \A i \in 1..Len(s) : i + 1 \in 1..Len(p)
    BY <1>1
  <2>2. ASSUME NEW x \in ToSet(p) PROVE x \in ToSet(s) \cup {e}
    <3>1. PICK i \in 1..Len(p) : x = p[i]
      BY <2>1, Zenon DEF ToSet
    <3> QED
      BY <1>2, <1>3, <2>1, <3>1 DEF ToSet
  <2>3. ASSUME NEW x \in ToSet(s) PROVE x \in ToSet(p)
    <3>1. PICK i \in 1..Len(s) : x = s[i]
      BY <2>1, Zenon DEF ToSet
    <3> QED
      BY <1>2, <2>1, <3>1, Zenon DEF ToSet
  <2>4. e \in ToSet(p)
    BY <1>2, <2>1, Zenon DEF ToSet
  <2> QED
    BY <2>2, <2>3, <2>4, Zenon
<1> QED
  BY <1>1, <1>2, <1>5, <1>6 DEF p

(* Moving an entry that is on the list to its head keeps what is on it.    *)
LEMMA Promoted ==
  ASSUME NEW S, NEW s \in Seq(S), Distinct(s), NEW k \in 1..Len(s)
  PROVE  LET p == PromoteEntryToMru(s, s[k])
         IN  /\ p \in Seq(S) /\ Distinct(p) /\ Moved(p, s, k)
             /\ ToSet(p) = ToSet(s)
<1> DEFINE r == RemoveFirst(s, s[k])
           p == <<s[k]>> \o r
<1>1. /\ r \in Seq(S) /\ Len(r) = Len(s) - 1
      /\ \A i \in 1..Len(r) : r[i] = IF i < k THEN s[i] ELSE s[i + 1]
      /\ Distinct(r)
      /\ ToSet(r) = ToSet(s) \ {s[k]}
  BY Unlinked
<1>2. s[k] \in S /\ s[k] \in ToSet(s)
  BY DEF ToSet
<1> HIDE DEF r
<1>3. /\ p \in Seq(S) /\ Len(p) = Len(r) + 1
      /\ p[1] = s[k] /\ \A i \in 1..Len(r) : p[i + 1] = r[i]
      /\ Distinct(p)
      /\ ToSet(p) = ToSet(r) \cup {s[k]}
  BY <1>1, <1>2, Pushed
<1> HIDE DEF p
<1>4. ASSUME NEW i \in 1..Len(s)
      PROVE  p[i] = IF i = 1 THEN s[k] ELSE IF i =< k THEN s[i - 1] ELSE s[i]
  <2>1. i # 1 => i - 1 \in 1..Len(r) /\ p[i] = r[i - 1]
    BY <1>1, <1>3
  <2> QED
    BY <1>1, <1>3, <2>1
<1>5. PromoteEntryToMru(s, s[k]) = p
  BY Zenon DEF PromoteEntryToMru, p, r
<1>6. Len(p) = Len(s) /\ ToSet(p) = ToSet(s)
  BY <1>1, <1>2, <1>3
<1> QED
  BY <1>3, <1>4, <1>5, <1>6 DEF Moved

(* An id becomes the one used last.                                        *)
LEMMA UsedLast ==
  ASSUME NEW S, NEW s \in Seq(S), Distinct(s), NEW e \in S
  PROVE  LET p == PromoteEntryToMru(s, e)
         IN  /\ p \in Seq(S) /\ Distinct(p)
             /\ Len(p) >= 1 /\ p[1] = e
             /\ e \notin ToSet(s) => Preceded(p, s)
<1> DEFINE p == PromoteEntryToMru(s, e)
<1>1. CASE e \notin ToSet(s)
  <2>1. p = <<e>> \o s
    BY <1>1, NotLinked, Zenon DEF PromoteEntryToMru
  <2>2. /\ p \in Seq(S) /\ Distinct(p) /\ p[1] = e
        /\ Len(p) = Len(s) + 1
        /\ \A i \in 1..Len(s) : p[i + 1] = s[i]
    BY <1>1, <2>1, Pushed
  <2> HIDE DEF p
  <2>3. Len(p) >= 1
    BY <2>2
  <2> QED
    BY <2>2, <2>3, Zenon DEF p, Preceded
<1>2. CASE e \in ToSet(s)
  <2>1. PICK k \in 1..Len(s) : e = s[k]
    BY <1>2 DEF ToSet
  <2>2. p \in Seq(S) /\ Distinct(p) /\ Moved(p, s, k)
    BY <2>1, Promoted, Zenon
  <2> HIDE DEF p
  <2>3. Len(p) >= 1 /\ p[1] = e
    BY <2>1, <2>2 DEF Moved
  <2> QED
    BY <1>2, <2>2, <2>3, Zenon DEF p
<1> QED
  BY <1>1, <1>2, Zenon

(* A hit moves the same entry to the head of the list and of the uses.     *)
LEMMA HitStaysLatest ==
  ASSUME NEW S, NEW l \in Seq(S), Distinct(l), NEW u \in Seq(S), Distinct(u),
         LatestOf(l, u), NEW k \in 1..Len(l)
  PROVE  LatestOf(PromoteEntryToMru(l, l[k]), PromoteEntryToMru(u, l[k]))
<1> DEFINE pl == PromoteEntryToMru(l, l[k])
           pu == PromoteEntryToMru(u, l[k])
<1>1. k \in 1..Len(u) /\ u[k] = l[k] /\ Len(l) =< Len(u)
  BY CacheAssumption DEF LatestOf
<1>2. Moved(pl, l, k)
  BY Promoted, Zenon
<1>3. Moved(pu, u, k)
  <2>1. Moved(PromoteEntryToMru(u, u[k]), u, k)
    BY <1>1, Promoted, Zenon
  <2> QED
    BY <1>1, <2>1, Zenon
<1> HIDE DEF pl, pu
<1>4. ASSUME NEW i \in 1..Len(pl) PROVE pl[i] = pu[i]
  <2>1. i \in 1..Len(l) /\ i \in 1..Len(u)
    BY <1>1, <1>2 DEF Moved
  <2>2. i # 1 => i - 1 \in 1..Len(l)
    BY <2>1
  <2>3. l[i] = u[i] /\ (i # 1 => l[i - 1] = u[i - 1])
    BY <2>1, <2>2, Zenon DEF LatestOf
  <2> QED
    BY <1>1, <1>2, <1>3, <2>1, <2>3 DEF Moved
<1>5. LatestOf(pl, pu)
  BY <1>2, <1>3, <1>4, Zenon DEF LatestOf, Moved
<1> QED
  BY <1>5, Zenon DEF pl, pu

(* A new entry goes to the head of both, and the last one of a full list   *)
(* makes room for it.                                                      *)
LEMMA MissStaysLatest ==
  ASSUME NEW S, NEW l \in Seq(S), Distinct(l), NEW u \in Seq(S), Distinct(u),
         LatestOf(l, u), NEW e \in S, e \notin ToSet(l),
         NEW m \in Seq(S), Len(m) = IF Len(l) >= max_entries THEN Len(l) - 1 ELSE Len(l),
         \A i \in 1..Len(m) : m[i] = l[i]
  PROVE  LatestOf(<<e>> \o m, PromoteEntryToMru(u, e))
<1> DEFINE pl == <<e>> \o m
           pu == PromoteEntryToMru(u, e)
<1>1. Len(pl) = Len(m) + 1 /\ pl[1] = e /\ \A i \in 1..Len(m) : pl[i + 1] = m[i]
  OBVIOUS
<1>2. /\ pu \in Seq(S) /\ Len(pu) >= 1 /\ pu[1] = e
      /\ e \notin ToSet(u) => Preceded(pu, u)
  BY UsedLast, Zenon
<1>3. ASSUME NEW k \in 1..Len(u), u[k] = e
      PROVE  Moved(pu, u, k) /\ k > Len(l)
  <2>1. k > Len(l)
    BY <1>3 DEF LatestOf, ToSet
  <2> QED
    BY <1>3, <2>1, Promoted, Zenon
<1> HIDE DEF pl, pu
<1> USE CacheAssumption
<1>4. \A i \in 1..Len(m) : i \in 1..Len(u) /\ m[i] = u[i]
  BY DEF LatestOf
<1>5. CASE e \notin ToSet(u)
  <2>1. Len(pl) = IF Len(pu) =< max_entries THEN Len(pu) ELSE max_entries
    BY <1>1, <1>2, <1>5 DEF LatestOf, Preceded
  <2>2. ASSUME NEW i \in 1..Len(pl) PROVE pl[i] = pu[i]
    <3>1. i # 1 => i - 1 \in 1..Len(m) /\ pl[i] = m[i - 1]
      BY <1>1
    <3>2. i # 1 => pu[(i - 1) + 1] = u[i - 1]
      BY <1>2, <1>4, <1>5, <3>1 DEF Preceded
    <3>3. (i - 1) + 1 = i
      OBVIOUS
    <3> QED
      BY <1>1, <1>2, <1>4, <3>1, <3>2, <3>3
  <2> QED
    BY <2>1, <2>2, Zenon DEF LatestOf, pl, pu
<1>6. CASE e \in ToSet(u)
  <2>1. PICK k \in 1..Len(u) : u[k] = e
    BY <1>6 DEF ToSet
  <2>2. Len(pu) = Len(u) /\ k > Len(l) /\ Len(l) = max_entries /\ Len(m) = Len(l) - 1
    BY <1>3, <2>1 DEF LatestOf, Moved
  <2>3. Len(pl) = IF Len(pu) =< max_entries THEN Len(pu) ELSE max_entries
    BY <1>1, <2>1, <2>2
  <2>4. ASSUME NEW i \in 1..Len(pl) PROVE pl[i] = pu[i]
    <3>1. i # 1 => i - 1 \in 1..Len(m) /\ pl[i] = m[i - 1]
      BY <1>1
    <3>2. i \in 1..Len(u) /\ i =< k
      BY <1>1, <2>1, <2>2
    <3>3. i # 1 => pu[i] = u[i - 1]
      BY <1>3, <2>1, <3>2, Zenon DEF Moved
    <3> QED
      BY <1>1, <1>2, <1>4, <3>1, <3>3
  <2> QED
    BY <2>3, <2>4, Zenon DEF LatestOf, pl, pu
<1> QED
  BY <1>5, <1>6, Zenon

(* What PschRememberNormalizedQuery leaves on the list before it pushes    *)
(* the entry: everything but the entry itself and the one it evicts, which *)
(* was on the list.                                                        *)
LEMMA OthersAre ==
  ASSUME NEW Ids, CacheInv(Ids), NEW q \in Ids, q \notin Orphans
  PROVE  /\ Others(q) \in Seq(Ids) /\ Distinct(Others(q))
         /\ Len(Others(q)) < max_entries
         /\ ToSet(Others(q)) = ToSet(lru) \ (Victims(q) \cup {q})
         /\ Victims(q) \subseteq ToSet(lru) \ {q}
         /\ q \notin htab =>
              /\ Len(Others(q)) = IF Len(lru) >= max_entries THEN Len(lru) - 1
                                                             ELSE Len(lru)
              /\ \A i \in 1..Len(Others(q)) : Others(q)[i] = lru[i]
<1> USE CacheAssumption
<1>1. /\ lru \in Seq(Ids) /\ Distinct(lru) /\ Len(lru) =< max_entries
      /\ ToSet(lru) \subseteq htab
  BY Zenon DEF CacheInv, CacheTypeOK
<1>2. CASE q \in htab
  <2>1. PICK k \in 1..Len(lru) : lru[k] = q
    BY <1>2 DEF Orphans, ToSet
  <2>2. Victims(q) = {} /\ Others(q) = RemoveFirst(lru, q)
    BY <1>2, Zenon DEF Victims, Others
  <2>3. /\ Others(q) \in Seq(Ids) /\ Len(Others(q)) = Len(lru) - 1
        /\ Distinct(Others(q)) /\ ToSet(Others(q)) = ToSet(lru) \ {q}
    <3> DEFINE r == RemoveFirst(lru, lru[k])
    <3>1. /\ r \in Seq(Ids) /\ Len(r) = Len(lru) - 1
          /\ Distinct(r) /\ ToSet(r) = ToSet(lru) \ {lru[k]}
      BY <1>1, Unlinked, Zenon
    <3> QED
      BY <2>1, <2>2, <3>1, Zenon
  <2>4. Len(Others(q)) < max_entries
    BY <1>1, <2>3
  <2> QED
    BY <1>2, <2>2, <2>3, <2>4, Zenon
<1>3. CASE q \notin htab /\ Len(lru) >= max_entries
  <2>1. Victims(q) = {Last(lru)} /\ Others(q) = Front(lru)
    BY <1>3, Zenon DEF Victims, Others
  <2>2. /\ Others(q) \in Seq(Ids) /\ Len(Others(q)) = Len(lru) - 1
        /\ \A i \in 1..Len(Others(q)) : Others(q)[i] = lru[i]
    <3>1. Len(lru) \in Nat \ {0} /\ Others(q) = SubSeq(lru, 1, Len(lru) - 1)
      BY <1>1, <1>3, <2>1 DEF Front
    <3>2. PICK n \in Nat : n = Len(lru) - 1 /\ n < Len(lru)
      BY <3>1
    <3>3. LET o == SubSeq(lru, 1, n)
          IN  o \in Seq(Ids) /\ Len(o) = n /\ \A i \in 1..n : o[i] = lru[i]
      BY <1>1, <3>2
    <3>4. Others(q) = SubSeq(lru, 1, n)
      BY <3>1, <3>2, Zenon
    <3> QED
      BY <3>2, <3>3, <3>4, Zenon
  <2>3. Last(lru) = lru[Len(lru)] /\ Len(lru) \in 1..Len(lru)
    BY <1>1, <1>3 DEF Last
  <2>4. Distinct(Others(q)) /\ Len(Others(q)) < max_entries
    BY <1>1, <2>2 DEF Distinct
  <2>5. ToSet(Others(q)) = ToSet(lru) \ {Last(lru)}
    <3>1. DOMAIN lru = 1..Len(lru) /\ DOMAIN Others(q) = 1..Len(Others(q))
      BY <1>1, <2>2
    <3>2. ASSUME NEW i \in 1..Len(Others(q))
          PROVE  Others(q)[i] \in ToSet(lru) \ {Last(lru)}
      <4>1. i \in 1..Len(lru) /\ i # Len(lru) /\ Others(q)[i] = lru[i]
        BY <1>1, <2>2
      <4>2. lru[i] # lru[Len(lru)]
        BY <1>1, <2>3, <4>1, Zenon DEF Distinct
      <4> QED
        BY <2>3, <3>1, <4>1, <4>2, Zenon DEF ToSet
    <3>3. ASSUME NEW i \in 1..Len(lru), lru[i] # Last(lru)
          PROVE  lru[i] \in ToSet(Others(q))
      <4>1. i \in 1..Len(Others(q))
        BY <1>1, <2>2, <2>3, <3>3
      <4> QED
        BY <2>2, <3>1, <4>1, Zenon DEF ToSet
    <3> QED
      BY <3>1, <3>2, <3>3, Zenon DEF ToSet
  <2>6. q \notin ToSet(lru) /\ Last(lru) \in ToSet(lru)
    BY <1>1, <1>3, <2>3 DEF ToSet
  <2>7. /\ ToSet(Others(q)) = ToSet(lru) \ (Victims(q) \cup {q})
        /\ Victims(q) \subseteq ToSet(lru) \ {q}
    BY <2>1, <2>5, <2>6, Zenon
  <2> QED
    BY <1>3, <2>2, <2>4, <2>7, Zenon
<1>4. CASE q \notin htab /\ ~(Len(lru) >= max_entries)
  <2>1. Victims(q) = {} /\ Others(q) = lru
    BY <1>4, Zenon DEF Victims, Others
  <2>2. q \notin ToSet(lru)
    BY <1>1, <1>4, Zenon
  <2>3. Len(Others(q)) < max_entries
    BY <1>1, <1>4, <2>1
  <2> QED
    BY <1>1, <1>4, <2>1, <2>2, <2>3
<1> QED
  BY <1>2, <1>3, <1>4

(* Unless the entry itself goes back on the list, it is one orphan more.   *)
LEMMA LeftOver ==
  ASSUME NEW Ids, CacheInv(Ids), NEW q \in Ids, q \notin Orphans
  PROVE  /\ Entered(q) \ ToSet(Others(q)) = Orphans \cup {q}
         /\ ToSet(Others(q)) \subseteq Entered(q)
         /\ q \notin ToSet(Others(q))
<1>1. /\ ToSet(Others(q)) = ToSet(lru) \ (Victims(q) \cup {q})
      /\ Victims(q) \subseteq ToSet(lru) \ {q}
  BY OthersAre, Zenon
<1>2. ToSet(lru) \subseteq htab
  BY Zenon DEF CacheInv
<1> QED
  BY <1>1, <1>2, Zenon DEF Entered, Orphans

-----------------------------------------------------------------------------
(* The steps of the cache.                                                 *)

(* CacheInit establishes the invariant.                                    *)
LEMMA InitCache == \A Ids : CacheInit => CacheInv(Ids)
<1> SUFFICES ASSUME NEW Ids, CacheInit PROVE CacheInv(Ids)
  BY Zenon
<1> USE CacheAssumption DEF CacheInit
<1>0. lru = <<>> /\ used = <<>> /\ Len(<<>>) = 0
  BY Zenon
<1>1. ToSet(lru) = {} /\ Orphans = {}
  <2>1. DOMAIN <<>> = {}
    OBVIOUS
  <2> QED
    BY <2>1, Zenon DEF ToSet, Orphans
<1>2. CacheTypeOK
  <2>1. DOMAIN text = {}
    <3>1. DOMAIN <<>> = {}
      OBVIOUS
    <3> QED
      BY <3>1, Zenon
  <2>3. undefined \in BOOLEAN
    BY Zenon
  <2>2. Len(lru) =< max_entries /\ oom \in 0..MaxOom
    BY <1>0
  <2> QED
    BY <1>1, <2>1, <2>2, <2>3, Zenon DEF CacheTypeOK
<1>3. lru \in Seq(Ids) /\ used \in Seq(Ids) /\ Distinct(lru) /\ Distinct(used)
  BY <1>0 DEF Distinct
<1>4. LatestOf(lru, used) /\ htab = ToSet(lru)
  BY <1>1 DEF LatestOf
<1>5. IsFiniteSet(Orphans) /\ Cardinality(Orphans) =< oom
  BY <1>1, FS_EmptySet
<1> QED
  BY <1>1, <1>2, <1>3, <1>4, <1>5, Zenon DEF CacheInv

(* A normalized text is remembered.                                        *)
LEMMA RememberKeeps ==
  ASSUME NEW Ids, CacheInv(Ids), NEW q \in Ids, NEW t, Remember(q, t)
  PROVE  CacheInv(Ids)'
<1>1. /\ htab' = Entered(q) /\ lru' = <<q>> \o Others(q) /\ q \notin Orphans
      /\ used' = PromoteEntryToMru(used, q)
      /\ DOMAIN text' = {q} \cup ToSet(Others(q))
      /\ undefined' = undefined /\ oom' = oom
  BY Zenon DEF Remember
<1>2. /\ CacheTypeOK /\ lru \in Seq(Ids) /\ Distinct(lru)
      /\ used \in Seq(Ids) /\ Distinct(used)
      /\ IsFiniteSet(Orphans) /\ Cardinality(Orphans) =< oom
      /\ oom = 0 => LatestOf(lru, used) /\ htab = ToSet(lru)
  BY Zenon DEF CacheInv
<1>3. /\ Others(q) \in Seq(Ids) /\ Distinct(Others(q))
      /\ Len(Others(q)) < max_entries
      /\ q \notin htab =>
           /\ Len(Others(q)) = IF Len(lru) >= max_entries THEN Len(lru) - 1
                                                          ELSE Len(lru)
           /\ \A i \in 1..Len(Others(q)) : Others(q)[i] = lru[i]
  BY <1>1, OthersAre, Zenon
<1>4. /\ Entered(q) \ ToSet(Others(q)) = Orphans \cup {q}
      /\ ToSet(Others(q)) \subseteq Entered(q)
      /\ q \notin ToSet(Others(q)) /\ q \in Entered(q)
  BY <1>1, LeftOver, Zenon DEF Entered
<1>5. /\ lru' \in Seq(Ids) /\ Len(lru') = Len(Others(q)) + 1 /\ Distinct(lru')
      /\ ToSet(lru') = ToSet(Others(q)) \cup {q}
  BY <1>1, <1>3, <1>4, Pushed
<1>6. used' \in Seq(Ids) /\ Distinct(used')
  BY <1>1, <1>2, UsedLast, Zenon
<1>7. ToSet(lru') \subseteq htab' /\ htab' \ ToSet(lru') = Orphans
  BY <1>1, <1>4, <1>5, Zenon
<1>8. CacheTypeOK'
  <2>1. Len(lru') =< max_entries
    BY <1>3, <1>5, CacheAssumption
  <2> QED
    BY <1>1, <1>2, <1>5, <2>1, Zenon DEF CacheTypeOK
<1>9. ASSUME oom = 0 PROVE LatestOf(lru', used') /\ htab' = ToSet(lru')
  <2>1. LatestOf(lru, used) /\ htab = ToSet(lru) /\ Orphans = {}
    BY <1>2, <1>9, Zenon DEF Orphans
  <2>2. htab' = ToSet(lru')
    BY <1>7, <2>1, Zenon
  <2>3. CASE q \in htab
    <3>1. PICK k \in 1..Len(lru) : q = lru[k]
      BY <1>2, <2>1, <2>3 DEF ToSet
    <3>2. lru' = PromoteEntryToMru(lru, q)
      <4>1. Victims(q) = {}
        BY <2>3, Zenon DEF Victims
      <4>2. Others(q) = RemoveFirst(lru, q)
        BY <2>3, <4>1, Zenon DEF Others
      <4> QED
        BY <1>1, <4>2, Zenon DEF PromoteEntryToMru
    <3>3. LatestOf(PromoteEntryToMru(lru, lru[k]), PromoteEntryToMru(used, lru[k]))
      BY <1>2, <2>1, HitStaysLatest, Zenon
    <3> QED
      BY <1>1, <2>2, <3>1, <3>2, <3>3, Zenon
  <2>4. CASE q \notin htab
    <3>1. LatestOf(<<q>> \o Others(q), PromoteEntryToMru(used, q))
      BY <1>2, <1>3, <2>1, <2>4, MissStaysLatest, Zenon
    <3> QED
      BY <1>1, <2>2, <3>1, Zenon
  <2> QED
    BY <2>3, <2>4, Zenon
<1>10. IsFiniteSet(Orphans)' /\ (Cardinality(Orphans) =< oom)'
  BY <1>1, <1>2, <1>7, Zenon DEF Orphans
<1> QED
  BY <1>1, <1>5, <1>6, <1>7, <1>8, <1>9, <1>10, Zenon DEF CacheInv

(* The text is not remembered for want of memory.                          *)
LEMMA RememberOomKeeps ==
  ASSUME NEW Ids, CacheInv(Ids), NEW q \in Ids, RememberOom(q)
  PROVE  CacheInv(Ids)'
<1>1. /\ htab' = Entered(q) /\ lru' = Others(q) /\ q \notin Orphans
      /\ used' = used /\ undefined' = undefined
      /\ oom' = oom + 1 /\ oom < MaxOom
      /\ DOMAIN text' = ToSet(Others(q))
  BY Zenon DEF RememberOom, Restrict
<1>2. /\ CacheTypeOK /\ used \in Seq(Ids) /\ Distinct(used)
      /\ IsFiniteSet(Orphans) /\ Cardinality(Orphans) =< oom
  BY Zenon DEF CacheInv
<1>3. /\ Others(q) \in Seq(Ids) /\ Distinct(Others(q))
      /\ Len(Others(q)) < max_entries
  BY <1>1, OthersAre, Zenon
<1>4. /\ Entered(q) \ ToSet(Others(q)) = Orphans \cup {q}
      /\ ToSet(Others(q)) \subseteq Entered(q)
  BY <1>1, LeftOver, Zenon
<1>5. oom \in Nat /\ oom' # 0 /\ oom' \in 0..MaxOom
  BY <1>1, <1>2, CacheAssumption DEF CacheTypeOK
<1>6. CacheTypeOK'
  <2>1. Len(lru') =< max_entries
    BY <1>1, <1>3, CacheAssumption
  <2> QED
    BY <1>1, <1>2, <1>5, <2>1, Zenon DEF CacheTypeOK
<1>7. IsFiniteSet(Orphans)' /\ (Cardinality(Orphans) =< oom)'
  <2>1. Orphans' = Orphans \cup {q}
    BY <1>1, <1>4, Zenon DEF Orphans
  <2>2. IsFiniteSet(Orphans \cup {q}) /\ Cardinality(Orphans) \in Nat
        /\ Cardinality(Orphans \cup {q}) = Cardinality(Orphans) + 1
    BY <1>1, <1>2, FS_AddElement, FS_CardinalityType
  <2> QED
    BY <1>1, <1>2, <1>5, <2>1, <2>2
<1> QED
  BY <1>1, <1>2, <1>3, <1>4, <1>5, <1>6, <1>7, Zenon DEF CacheInv

(* A remembered text is looked up.                                         *)
LEMMA LookupKeeps ==
  ASSUME NEW Ids, CacheInv(Ids), NEW q \in Ids, Lookup(q)
  PROVE  CacheInv(Ids)'
<1>1. /\ lru' = PromoteEntryToMru(lru, q) /\ used' = PromoteEntryToMru(used, q)
      /\ htab' = htab /\ text' = text /\ undefined' = undefined /\ oom' = oom
      /\ q \in ToSet(lru)
  BY Zenon DEF Lookup, Orphans
<1>2. /\ CacheTypeOK /\ lru \in Seq(Ids) /\ Distinct(lru)
      /\ used \in Seq(Ids) /\ Distinct(used) /\ ToSet(lru) \subseteq htab
      /\ IsFiniteSet(Orphans) /\ Cardinality(Orphans) =< oom
      /\ oom = 0 => LatestOf(lru, used) /\ htab = ToSet(lru)
  BY Zenon DEF CacheInv
<1>3. PICK k \in 1..Len(lru) : q = lru[k]
  BY <1>1, <1>2 DEF ToSet
<1> DEFINE p == PromoteEntryToMru(lru, lru[k])
<1>4. p \in Seq(Ids) /\ Distinct(p) /\ Moved(p, lru, k) /\ ToSet(p) = ToSet(lru)
  BY <1>2, Promoted, Zenon
<1>5. lru' = p
  BY <1>1, <1>3, Zenon
<1> HIDE DEF p
<1>6. used' \in Seq(Ids) /\ Distinct(used')
  BY <1>1, <1>2, UsedLast, Zenon
<1>7. Orphans' = Orphans
  BY <1>1, <1>4, <1>5, Zenon DEF Orphans
<1>8. CacheTypeOK'
  <2>1. Len(lru') =< max_entries
    BY <1>2, <1>4, <1>5 DEF CacheTypeOK, Moved
  <2> QED
    BY <1>1, <1>2, <1>4, <1>5, <2>1, Zenon DEF CacheTypeOK
<1>9. ASSUME oom = 0 PROVE LatestOf(lru', used')
  <2>1. LatestOf(lru, used)
    BY <1>2, <1>9, Zenon
  <2>2. LatestOf(p, PromoteEntryToMru(used, lru[k]))
    BY <1>2, <2>1, HitStaysLatest, Zenon DEF p
  <2> QED
    BY <1>1, <1>3, <1>5, <2>2, Zenon
<1> QED
  BY <1>1, <1>2, <1>4, <1>5, <1>6, <1>7, <1>8, <1>9, Zenon DEF CacheInv

(* Every use of the cache keeps the invariant.                             *)
LEMMA NextCache ==
  ASSUME NEW Ids, NEW Texts
  PROVE  CacheInv(Ids) /\ [CacheNext(Ids, Texts)]_cacheVars => CacheInv(Ids)'
<1> SUFFICES ASSUME CacheInv(Ids), [CacheNext(Ids, Texts)]_cacheVars
             PROVE  CacheInv(Ids)'
  BY Zenon
<1>1. ASSUME NEW q \in Ids, NEW t \in Texts, Remember(q, t) PROVE CacheInv(Ids)'
  BY <1>1, RememberKeeps, Zenon
<1>2. ASSUME NEW q \in Ids, RememberOom(q) PROVE CacheInv(Ids)'
  BY <1>2, RememberOomKeeps, Zenon
<1>3. ASSUME NEW q \in Ids, Lookup(q) PROVE CacheInv(Ids)'
  BY <1>3, LookupKeeps, Zenon
<1>4. ASSUME UNCHANGED <<htab, text, lru, oom, used>>, undefined' \in BOOLEAN
      PROVE  CacheInv(Ids)'
  BY <1>4, Zenon DEF CacheInv, CacheTypeOK, Orphans
<1>5. ASSUME NEW q \in Ids, TouchOrphan(q) PROVE CacheInv(Ids)'
  BY <1>4, <1>5, Zenon DEF TouchOrphan, cache
<1>6. CASE UNCHANGED cacheVars
  BY <1>4, <1>6, Zenon DEF cacheVars, cache, CacheInv, CacheTypeOK
<1> QED
  BY <1>1, <1>2, <1>3, <1>5, <1>6, Zenon DEF CacheNext

-----------------------------------------------------------------------------
(* The theorems about the cache.                                           *)

(* The cache keeps its invariant for whatever ids and texts are used, and  *)
(* whichever allocations of CopyQueryText fail.                            *)
THEOREM CacheInvariance ==
  ASSUME NEW Ids, NEW Texts
  PROVE  CacheSpec(Ids, Texts) => []CacheInv(Ids)
<1>1. CacheInit => CacheInv(Ids)
  BY InitCache, Zenon
<1>2. CacheInv(Ids) /\ [CacheNext(Ids, Texts)]_cacheVars => CacheInv(Ids)'
  BY NextCache, Zenon
<1> QED
  BY <1>1, <1>2, PTL DEF CacheSpec

(* Until an allocation fails, PschRememberNormalizedQuery and              *)
(* PschLookupNormalizedQuery are an LRU cache: table and list hold exactly *)
(* the max_entries ids used last, in the order of their last use.          *)
THEOREM CacheIsLru ==
  ASSUME NEW Ids, NEW Texts
  PROVE  CacheSpec(Ids, Texts) => []IsLru
<1>1. ASSUME CacheInv(Ids) PROVE IsLru
  <2> SUFFICES ASSUME oom = 0
               PROVE  /\ lru = SubSeq(used, 1, IF Len(used) =< max_entries
                                               THEN Len(used) ELSE max_entries)
                      /\ htab = ToSet(lru)
    BY Zenon DEF IsLru
  <2>1. /\ lru \in Seq(Ids) /\ used \in Seq(Ids)
        /\ LatestOf(lru, used) /\ htab = ToSet(lru)
    BY <1>1, Zenon DEF CacheInv
  <2> DEFINE n == IF Len(used) =< max_entries THEN Len(used) ELSE max_entries
  <2>2. n \in Nat /\ n =< Len(used) /\ Len(lru) = n
        /\ \A i \in 1..n : lru[i] = used[i]
    BY <2>1, CacheAssumption DEF LatestOf
  <2> HIDE DEF n
  <2>3. lru = SubSeq(used, 1, n)
    BY <2>1, <2>2
  <2> QED
    BY <2>1, <2>3, Zenon DEF n
<1> QED
  BY CacheInvariance, <1>1, PTL

(* A list without duplicates has as many entries as it is long.            *)
LEMMA Listed ==
  ASSUME NEW S, NEW s \in Seq(S)
  PROVE  IsFiniteSet(ToSet(s)) /\ Cardinality(ToSet(s)) =< Len(s)
<1>1. s \in Surjection(1..Len(s), ToSet(s))
  <2>1. DOMAIN s = 1..Len(s)
    OBVIOUS
  <2>2. s \in [1..Len(s) -> ToSet(s)]
    BY <2>1 DEF ToSet
  <2>3. \A x \in ToSet(s) : \E i \in 1..Len(s) : s[i] = x
    BY <2>1, Zenon DEF ToSet
  <2> QED
    BY <2>2, <2>3, Zenon DEF Surjection
<1>2. IsFiniteSet(1..Len(s)) /\ Cardinality(1..Len(s)) = Len(s)
  <2>1. Len(s) \in Nat
    OBVIOUS
  <2> QED
    BY <2>1, FS_Interval
<1> QED
  BY <1>1, <1>2, FS_Surjection

(* Whatever fails, no entry is on the list twice, all that are on it are   *)
(* in the table, the list never outgrows max_entries and the table only by *)
(* the entries that failed allocations left.                               *)
THEOREM CacheListSound ==
  ASSUME NEW Ids, NEW Texts
  PROVE  CacheSpec(Ids, Texts) => []ListSound
<1>1. ASSUME CacheInv(Ids) PROVE ListSound
  <2>1. /\ CacheTypeOK /\ lru \in Seq(Ids) /\ Distinct(lru)
        /\ ToSet(lru) \subseteq htab
        /\ IsFiniteSet(Orphans) /\ Cardinality(Orphans) =< oom
    BY <1>1, Zenon DEF CacheInv
  <2>2. IsInjective(lru)
    <3>1. DOMAIN lru = 1..Len(lru)
      BY <2>1
    <3> QED
      BY <2>1, <3>1, Zenon DEF IsInjective, Distinct
  <2>3. Cardinality(htab) =< max_entries + oom
    <3>1. IsFiniteSet(ToSet(lru)) /\ Cardinality(ToSet(lru)) =< Len(lru)
      BY <2>1, Listed, Zenon
    <3>2. htab = Orphans \cup ToSet(lru) /\ Orphans \cap ToSet(lru) = {}
      BY <2>1, Zenon DEF Orphans
    <3>3. Cardinality(htab)
            = Cardinality(Orphans) + Cardinality(ToSet(lru)) - Cardinality({})
      BY <2>1, <3>1, <3>2, FS_Union
    <3>4. /\ Cardinality({}) = 0 /\ Cardinality(Orphans) \in Nat
          /\ Cardinality(ToSet(lru)) \in Nat
      BY <2>1, <3>1, FS_EmptySet, FS_CardinalityType
    <3>5. Len(lru) \in Nat /\ Len(lru) =< max_entries /\ oom \in Nat
          /\ max_entries \in Nat
      BY <2>1, CacheAssumption DEF CacheTypeOK
    <3> QED
      BY <2>1, <3>1, <3>3, <3>4, <3>5
  <2> QED
    BY <2>1, <2>2, <2>3, Zenon DEF ListSound
<1> QED
  BY CacheInvariance, <1>1, PTL
=============================================================================
