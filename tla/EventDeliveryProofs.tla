------------------------ MODULE EventDeliveryProofs -------------------------
(***************************************************************************)
(* What EventDelivery promises, for every size of a batch and any number   *)
(* of events: nothing is delivered twice.                                  *)
(***************************************************************************)
EXTENDS EventDelivery, TLAPS

(* The two parts into which a step cuts the pending events are numbered as *)
(* they were.                                                              *)
LEMMA Cut ==
  ASSUME TypeOK, Numbered, NEW k \in 0..Len(pending)
  PROVE  /\ First(k) \in Seq(Nat) /\ Len(First(k)) = k
         /\ \A i \in 1..k : First(k)[i] = Resolved + i
         /\ Without(k) \in Seq(Nat) /\ Len(Without(k)) = Len(pending) - k
         /\ \A i \in 1..Len(pending) - k : Without(k)[i] = Resolved + k + i
<1>1. Len(pending) \in Nat
  BY DEF TypeOK
<1>2. /\ First(k) \in Seq(Nat)
      /\ Len(First(k)) = k
      /\ \A i \in 1..k : First(k)[i] = pending[i]
  BY <1>1 DEF TypeOK, First
<1>3. /\ Without(k) \in Seq(Nat)
      /\ Len(Without(k)) = Len(pending) - k
      /\ \A i \in 1..Len(pending) - k : Without(k)[i] = pending[k + i]
  <2>1. /\ pending \in Seq(Nat)
        /\ k + 1 \in 1..Len(pending) + 1 /\ Len(pending) \in k..Len(pending)
    BY <1>1 DEF TypeOK
  <2>2. Len(Without(k)) = Len(pending) - k
    BY <1>1, <2>1 DEF Without
  <2>3. Without(k) \in Seq(Nat)
    BY <1>1, <2>1 DEF Without
  <2>4. \A i \in 1..Len(pending) - k : Without(k)[i] = pending[k + i]
    BY <1>1, <2>1 DEF Without
  <2> QED
    BY <2>2, <2>3, <2>4, Zenon
<1>4. Resolved \in Nat /\ \A i \in 1..Len(pending) : pending[i] = Resolved + i
  BY Zenon DEF Numbered
<1>5. ASSUME NEW i \in 1..k PROVE First(k)[i] = Resolved + i
  <2>1. i \in 1..Len(pending)
    BY <1>1
  <2> QED
    BY <1>2, <1>4, <2>1, Zenon
<1>6. ASSUME NEW i \in 1..Len(pending) - k
      PROVE  Without(k)[i] = Resolved + k + i
  <2>1. k + i \in 1..Len(pending)
    BY <1>1
  <2>2. Without(k)[i] = Resolved + (k + i)
    BY <1>3, <1>4, <2>1, Zenon
  <2> QED
    BY <1>1, <1>4, <2>2
<1> QED
  BY <1>2, <1>3, <1>5, <1>6, Zenon

(* Element by element, what a concatenation of two sequences is.           *)
LEMMA Concatenated ==
  ASSUME NEW s \in Seq(Nat), NEW t \in Seq(Nat)
  PROVE  /\ s \o t \in Seq(Nat)
         /\ Len(s) \in Nat /\ Len(t) \in Nat
         /\ Len(s \o t) = Len(s) + Len(t)
         /\ \A i \in 1..Len(s \o t) :
              \/ i \in 1..Len(s) /\ (s \o t)[i] = s[i]
              \/ /\ i - Len(s) \in 1..Len(t)
                 /\ (s \o t)[i] = t[i - Len(s)]
  OBVIOUS

(* All that is stored or under way is numbered up to Resolved.             *)
LEMMA Elements ==
  ASSUME TypeOK, Numbered
  PROVE  /\ Resolved \in Nat
         /\ \A i \in 1..Len(stored) : stored[i] \in 0..Resolved
         /\ \A r \in underway : \A i \in 1..Len(r) : r[i] \in 0..Resolved
<1>1. \A i \in 1..Len(stored) : stored[i] \in Nat
  BY DEF TypeOK
<1>2. \A r \in underway : \A i \in 1..Len(r) : r[i] \in Nat
  BY DEF TypeOK
<1> QED
  BY <1>1, <1>2 DEF Numbered

(* Taking the oldest k events off the pending ones keeps the numbering.    *)
LEMMA Taken ==
  ASSUME TypeOK, Numbered, NEW k \in 0..Len(pending),
         pending' = Without(k), accepted' = accepted
  PROVE  /\ pending' \in Seq(Nat) /\ accepted' \in Nat
         /\ Resolved' = Resolved + k /\ Resolved' \in Nat /\ Resolved \in Nat
         /\ \A i \in 1..Len(pending') : pending'[i] = Resolved' + i
<1>1. Len(pending) \in Nat /\ Resolved \in Nat /\ accepted \in Nat
  BY DEF TypeOK, Numbered
<1>2. /\ pending' \in Seq(Nat) /\ Len(pending') = Len(pending) - k
      /\ \A i \in 1..Len(pending) - k : pending'[i] = Resolved + k + i
  BY Cut, Zenon
<1>3. Resolved' = Resolved + k
  BY <1>1, <1>2 DEF Resolved
<1> QED
  BY <1>1, <1>2, <1>3

-----------------------------------------------------------------------------
(* IInv is inductive, action by action.                                    *)

(* The invariant holds initially.                                          *)
LEMMA InitSound == Init => IInv
<1> SUFFICES ASSUME Init PROVE IInv
  BY Zenon
<1>1. TypeOK
  BY DEF Init, TypeOK
<1>2. Resolved = 0
  BY DEF Init, Resolved
<1>3. Numbered
  <2>1. \A i \in 1..Len(pending) : pending[i] = i
    BY Zenon DEF Init
  <2> QED
    BY <1>2, <2>1 DEF Init, Numbered
<1> QED
  BY <1>1, <1>3 DEF Init, IInv, Distinct

(* Accepting an event keeps it.                                            *)
LEMMA AcceptSound ==
  ASSUME IInv, Accept PROVE IInv'
<1>1. /\ TypeOK /\ Numbered /\ Distinct
      /\ Len(pending) \in Nat /\ Resolved \in Nat
  BY DEF IInv, TypeOK, Numbered
<1>2. /\ pending' \in Seq(Nat) /\ Len(pending') = Len(pending) + 1
      /\ \A i \in 1..Len(pending) : pending'[i] = pending[i]
      /\ pending'[Len(pending) + 1] = accepted + 1
  BY <1>1 DEF Accept, TypeOK
<1>3. TypeOK'
  BY <1>1, <1>2 DEF Accept, TypeOK
<1>4. Resolved' = Resolved
  BY <1>1, <1>2 DEF Accept, TypeOK, Resolved
<1>5. \A i \in 1..Len(pending') : pending'[i] = Resolved + i
  <2>1. accepted + 1 = Resolved + (Len(pending) + 1)
    BY <1>1 DEF Resolved, TypeOK
  <2>2. ASSUME NEW i \in 1..Len(pending') PROVE pending'[i] = Resolved + i
    <3>1. CASE i \in 1..Len(pending)
      BY <1>1, <1>2, <3>1, Zenon DEF Numbered
    <3>2. CASE i = Len(pending) + 1
      BY <1>2, <2>1, <3>2, Zenon
    <3> QED
      BY <1>1, <1>2, <3>1, <3>2
  <2> QED
    BY <2>2, Zenon
<1>6. Numbered'
  BY <1>1, <1>4, <1>5, Zenon DEF Accept, Numbered
<1>7. Distinct'
  BY <1>1 DEF Accept, Distinct
<1> QED
  BY <1>3, <1>6, <1>7, Zenon DEF IInv

(* Storing rows keeps it.                                                  *)
LEMMA StoreSound ==
  ASSUME IInv, NEW k \in 1..Len(pending), Store(k) PROVE IInv'
<1>1. /\ TypeOK /\ Numbered /\ Distinct
      /\ Len(pending) \in Nat /\ k \in 0..Len(pending)
      /\ pending' = Without(k) /\ accepted' = accepted
  BY DEF IInv, TypeOK, Store
<1>2. /\ pending' \in Seq(Nat) /\ accepted' \in Nat
      /\ Resolved' = Resolved + k /\ Resolved' \in Nat /\ Resolved \in Nat
      /\ \A i \in 1..Len(pending') : pending'[i] = Resolved' + i
  BY <1>1, Taken, Zenon
<1>3. /\ First(k) \in Seq(Nat) /\ Len(First(k)) = k
      /\ \A i \in 1..k : First(k)[i] = Resolved + i
  BY <1>1, Cut, Zenon
<1>4. /\ stored' \in Seq(Nat) /\ Len(stored) \in Nat
      /\ \A i \in 1..Len(stored') :
           \/ i \in 1..Len(stored) /\ stored'[i] = stored[i]
           \/ /\ i - Len(stored) \in 1..k
              /\ stored'[i] = Resolved + (i - Len(stored))
  <2>1. stored \in Seq(Nat) /\ stored' = stored \o First(k)
    BY <1>1, Zenon DEF TypeOK, Store
  <2>2. /\ stored' \in Seq(Nat) /\ Len(stored) \in Nat
        /\ \A i \in 1..Len(stored') :
             \/ i \in 1..Len(stored) /\ stored'[i] = stored[i]
             \/ /\ i - Len(stored) \in 1..k
                /\ stored'[i] = First(k)[i - Len(stored)]
    BY <1>3, <2>1, Concatenated, Zenon
  <2> QED
    BY <1>3, <2>2, Zenon
<1>5. Len(stored') \in Nat /\ k \in Nat /\ underway' = underway
  BY <1>1, <1>4 DEF Store
<1>6. TypeOK'
  BY <1>1, <1>2, <1>4, <1>5, Zenon DEF TypeOK
<1>7. /\ \A i \in 1..Len(stored) : stored[i] \in 0..Resolved
      /\ \A r \in underway : \A i \in 1..Len(r) : r[i] \in 0..Resolved
  BY <1>1, Elements, Zenon
<1>8. ASSUME NEW i \in 1..Len(stored')
      PROVE  \/ /\ i \in 1..Len(stored)
                /\ stored'[i] = stored[i] /\ stored'[i] \in 0..Resolved
             \/ /\ stored'[i] = Resolved + (i - Len(stored))
                /\ stored'[i] \in Resolved + 1 .. Resolved'
  <2>1. CASE i \in 1..Len(stored) /\ stored'[i] = stored[i]
    BY <1>7, <2>1, Zenon
  <2>2. CASE /\ i - Len(stored) \in 1..k
             /\ stored'[i] = Resolved + (i - Len(stored))
    BY <1>2, <1>5, <2>2
  <2> QED
    BY <1>4, <2>1, <2>2, Zenon
<1>9. Numbered'
  <2>1. \A i \in 1..Len(stored') : stored'[i] =< Resolved'
    BY <1>2, <1>5, <1>8
  <2>2. \A r \in underway : \A i \in 1..Len(r) : r[i] =< Resolved'
    BY <1>2, <1>5, <1>7
  <2> QED
    BY <1>2, <1>5, <2>1, <2>2, Zenon DEF Numbered
<1>10. Distinct'
  <2>1. ASSUME NEW i \in 1..Len(stored'), NEW j \in 1..Len(stored'),
               stored'[i] = stored'[j]
        PROVE  i = j
    <3>1. CASE stored'[i] \in 0..Resolved
      <4>1. i \in 1..Len(stored) /\ stored'[i] = stored[i]
        BY <1>2, <1>8, <3>1
      <4>2. j \in 1..Len(stored) /\ stored'[j] = stored[j]
        BY <1>2, <1>8, <2>1, <3>1
      <4> QED
        BY <1>1, <2>1, <4>1, <4>2, Zenon DEF Distinct
    <3>2. CASE stored'[i] \in Resolved + 1 .. Resolved'
      <4>1. /\ stored'[i] = Resolved + (i - Len(stored))
            /\ stored'[j] = Resolved + (j - Len(stored))
        BY <1>2, <1>8, <2>1, <3>2
      <4>2. /\ i \in Int /\ j \in Int
            /\ Len(stored) \in Int /\ Resolved \in Int
        BY <1>2, <1>4, <1>5
      <4>3. Resolved + (i - Len(stored)) = Resolved + (j - Len(stored))
        BY <2>1, <4>1, Zenon
      <4> QED
        BY <4>2, <4>3
    <3> QED
      BY <1>8, <3>1, <3>2, Zenon
  <2>2. ASSUME NEW r \in underway, NEW i \in 1..Len(r),
               NEW j \in 1..Len(stored')
        PROVE  r[i] # stored'[j]
    <3>1. CASE j \in 1..Len(stored) /\ stored'[j] = stored[j]
      BY <1>1, <3>1, Zenon DEF Distinct
    <3>2. CASE stored'[j] \in Resolved + 1 .. Resolved'
      <4>1. r[i] \in 0..Resolved
        BY <1>7, Zenon
      <4> QED
        BY <1>2, <3>2, <4>1
    <3> QED
      BY <1>8, <3>1, <3>2, Zenon
  <2> QED
    BY <1>1, <1>5, <2>1, <2>2 DEF Distinct
<1> QED
  BY <1>6, <1>9, <1>10, Zenon DEF IInv

(* Giving rows up keeps it.                                                *)
LEMMA GiveUpSound ==
  ASSUME IInv, NEW k \in 0..Len(pending), NEW j \in 0..k, GiveUp(j, k)
  PROVE  IInv'
<1>1. /\ TypeOK /\ Numbered /\ Distinct
      /\ Len(pending) \in Nat /\ k \in Nat /\ j \in 0..Len(pending)
      /\ pending' = Without(k) /\ accepted' = accepted /\ stored' = stored
      /\ underway' \subseteq underway \cup {First(j)}
  BY DEF IInv, TypeOK, GiveUp
<1>2. /\ pending' \in Seq(Nat) /\ accepted' \in Nat
      /\ Resolved' = Resolved + k /\ Resolved' \in Nat /\ Resolved \in Nat
      /\ \A i \in 1..Len(pending') : pending'[i] = Resolved' + i
  BY <1>1, Taken, Zenon
<1>3. /\ First(j) \in Seq(Nat) /\ Len(First(j)) = j
      /\ \A i \in 1..j : First(j)[i] = Resolved + i
  BY <1>1, Cut, Zenon
<1>4. TypeOK'
  BY <1>1, <1>2, <1>3, Zenon DEF TypeOK
<1>5. /\ \A i \in 1..Len(stored) : stored[i] \in 0..Resolved
      /\ \A r \in underway : \A i \in 1..Len(r) : r[i] \in 0..Resolved
  BY <1>1, Elements, Zenon
<1>6. \A i \in 1..Len(First(j)) :
        /\ First(j)[i] = Resolved + i
        /\ First(j)[i] \in Resolved + 1 .. Resolved'
  BY <1>1, <1>2, <1>3
<1>7. Numbered'
  <2>1. \A i \in 1..Len(stored) : stored[i] =< Resolved'
    BY <1>1, <1>2, <1>5
  <2>2. ASSUME NEW r \in underway', NEW i \in 1..Len(r)
        PROVE  r[i] =< Resolved'
    <3>1. CASE r \in underway
      BY <1>1, <1>2, <1>5, <3>1
    <3>2. CASE r = First(j)
      BY <1>2, <1>6, <3>2
    <3> QED
      BY <1>1, <3>1, <3>2, Zenon
  <2> QED
    BY <1>1, <1>2, <2>1, <2>2, Zenon DEF Numbered
<1>8. Distinct'
  <2>1. ASSUME NEW r \in underway', NEW i \in 1..Len(r)
        PROVE  /\ \A n \in 1..Len(stored) : r[i] # stored[n]
               /\ \A n \in 1..Len(r) : r[i] = r[n] => i = n
               /\ \A q \in underway' \ {r} : \A n \in 1..Len(q) : r[i] # q[n]
    <3>1. CASE r \in underway
      <4>1. /\ \A n \in 1..Len(stored) : r[i] # stored[n]
            /\ \A n \in 1..Len(r) : r[i] = r[n] => i = n
            /\ \A q \in underway \ {r} : \A n \in 1..Len(q) : r[i] # q[n]
        BY <1>1, <3>1, Zenon DEF Distinct
      <4>2. \A n \in 1..Len(First(j)) : r[i] # First(j)[n]
        <5>1. r[i] \in 0..Resolved
          BY <1>5, <3>1, Zenon
        <5> QED
          BY <1>2, <1>6, <5>1
      <4> QED
        BY <1>1, <4>1, <4>2, Zenon
    <3>2. CASE r = First(j)
      <4>0. r[i] = Resolved + i /\ r[i] \in Resolved + 1 .. Resolved'
        BY <1>6, <3>2, Zenon
      <4>1. \A n \in 1..Len(stored) : r[i] # stored[n]
        BY <1>2, <1>5, <4>0
      <4>2. ASSUME NEW n \in 1..Len(r), r[i] = r[n] PROVE i = n
        <5>1. Resolved + i = Resolved + n
          BY <1>6, <3>2, <4>0, <4>2, Zenon
        <5>2. i \in Int /\ n \in Int /\ Resolved \in Int
          BY <1>1, <1>2, <1>3, <3>2
        <5> QED
          BY <5>1, <5>2
      <4>3. ASSUME NEW q \in underway' \ {r}, NEW n \in 1..Len(q)
            PROVE  r[i] # q[n]
        <5>1. q \in underway
          BY <1>1, <3>2, Zenon
        <5>2. q[n] \in 0..Resolved
          BY <1>5, <5>1, Zenon
        <5> QED
          BY <1>2, <4>0, <5>2
      <4> QED
        BY <4>1, <4>2, <4>3, Zenon
    <3> QED
      BY <1>1, <3>1, <3>2, Zenon
  <2> QED
    BY <1>1, <2>1 DEF Distinct
<1> QED
  BY <1>4, <1>7, <1>8, Zenon DEF IInv

(* A late arrival keeps it.                                                *)
LEMMA ArriveSound ==
  ASSUME IInv, NEW r \in underway, Arrive(r) PROVE IInv'
<1>1. /\ TypeOK /\ Numbered /\ Distinct
      /\ accepted' = accepted /\ pending' = pending
      /\ underway' = underway \ {r} /\ r \in Seq(Nat) /\ stored \in Seq(Nat)
      /\ stored' = stored \/ stored' = stored \o r
  BY Zenon DEF IInv, TypeOK, Arrive
<1>2. Resolved' = Resolved
  BY <1>1, Zenon DEF Resolved
<1>3. /\ stored' \in Seq(Nat)
      /\ Len(stored) \in Nat /\ Len(r) \in Nat /\ Len(stored') \in Nat
      /\ \A i \in 1..Len(stored') :
           \/ i \in 1..Len(stored) /\ stored'[i] = stored[i]
           \/ /\ i - Len(stored) \in 1..Len(r)
              /\ stored'[i] = r[i - Len(stored)]
  <2>1. CASE stored' = stored
    BY <1>1, <2>1
  <2>2. CASE stored' = stored \o r
    BY <1>1, <2>2, Concatenated, Zenon
  <2> QED
    BY <1>1, <2>1, <2>2, Zenon
<1>4. TypeOK'
  BY <1>1, <1>3, Zenon DEF TypeOK
<1>5. Numbered'
  <2>1. \A i \in 1..Len(stored') : stored'[i] =< Resolved
    BY <1>1, <1>3, Zenon DEF Numbered
  <2> QED
    BY <1>1, <1>2, <2>1, Zenon DEF Numbered
<1>6. /\ \A i, j \in 1..Len(stored) : stored[i] = stored[j] => i = j
      /\ \A i \in 1..Len(r), j \in 1..Len(stored) : r[i] # stored[j]
      /\ \A i, j \in 1..Len(r) : r[i] = r[j] => i = j
  BY <1>1, Zenon DEF Distinct
<1>7. Distinct'
  <2>1. ASSUME NEW i \in 1..Len(stored'), NEW j \in 1..Len(stored'),
               stored'[i] = stored'[j]
        PROVE  i = j
    <3>1. CASE i \in 1..Len(stored) /\ stored'[i] = stored[i]
      <4>1. j \in 1..Len(stored) /\ stored'[j] = stored[j]
        BY <1>3, <1>6, <2>1, <3>1, Zenon
      <4> QED
        BY <1>6, <2>1, <3>1, <4>1, Zenon
    <3>2. CASE /\ i - Len(stored) \in 1..Len(r)
               /\ stored'[i] = r[i - Len(stored)]
      <4>1. /\ j - Len(stored) \in 1..Len(r)
            /\ stored'[j] = r[j - Len(stored)]
        BY <1>3, <1>6, <2>1, <3>2, Zenon
      <4>2. i - Len(stored) = j - Len(stored)
        BY <1>6, <2>1, <3>2, <4>1, Zenon
      <4>3. i \in Int /\ j \in Int /\ Len(stored) \in Int
        BY <1>3
      <4> QED
        BY <4>2, <4>3
    <3> QED
      BY <1>3, <3>1, <3>2, Zenon
  <2>2. ASSUME NEW q \in underway', NEW i \in 1..Len(q)
        PROVE  /\ \A j \in 1..Len(stored') : q[i] # stored'[j]
               /\ \A j \in 1..Len(q) : q[i] = q[j] => i = j
               /\ \A p \in underway' \ {q} : \A j \in 1..Len(p) : q[i] # p[j]
    <3>1. /\ q \in underway /\ q # r
          /\ \A p \in underway' \ {q} : p \in underway \ {q}
      BY <1>1, Zenon
    <3>2. /\ \A j \in 1..Len(stored) : q[i] # stored[j]
          /\ \A j \in 1..Len(q) : q[i] = q[j] => i = j
          /\ \A p \in underway \ {q} : \A j \in 1..Len(p) : q[i] # p[j]
      BY <1>1, <3>1, Zenon DEF Distinct
    <3>3. \A j \in 1..Len(r) : q[i] # r[j]
      BY <3>1, <3>2, Zenon
    <3> QED
      BY <1>3, <3>1, <3>2, <3>3, Zenon
  <2> QED
    BY <2>1, <2>2, Zenon DEF Distinct
<1> QED
  BY <1>4, <1>5, <1>7, Zenon DEF IInv

-----------------------------------------------------------------------------
(* The inductive invariant holds: whatever is given up and whenever it     *)
(* arrives, the pending events are numbered on from the resolved ones.     *)
THEOREM DeliveryInvariance == Spec => []IInv
<1>1. Init => IInv
  BY InitSound, Zenon
<1>2. IInv /\ [Next]_deliveryVars => IInv'
  <2> SUFFICES ASSUME IInv, [Next]_deliveryVars PROVE IInv'
    BY Zenon
  <2>1. CASE Accept
    BY <2>1, AcceptSound, Zenon
  <2>2. CASE \E k \in 1..Len(pending) : Store(k)
    BY <2>2, StoreSound, Zenon
  <2>3. CASE \E k \in 0..Len(pending) : \E j \in 0..k : GiveUp(j, k)
    BY <2>3, GiveUpSound, Zenon
  <2>4. CASE \E r \in underway : Arrive(r)
    BY <2>4, ArriveSound, Zenon
  <2>5. CASE UNCHANGED deliveryVars
    BY <2>5 DEF deliveryVars, IInv, TypeOK, Numbered, Distinct, Resolved
  <2> QED
    BY <2>1, <2>2, <2>3, <2>4, <2>5, Zenon DEF Next
<1> QED
  BY <1>1, <1>2, PTL DEF Spec

(* Nothing that an exporter may have delivered is ever sent again, however *)
(* many events there are and however large a batch (PschExportBatch drops  *)
(* a batch that failed, and never requeues it).                            *)
THEOREM DeliveredAtMostOnce == Spec => []AtMostOnce
<1>1. IInv => AtMostOnce
  <2> SUFFICES ASSUME IInv PROVE AtMostOnce
    BY Zenon
  <2>1. /\ Resolved \in Nat
        /\ \A i \in 1..Len(stored) : stored[i] \in 0..Resolved
        /\ \A r \in underway : \A i \in 1..Len(r) : r[i] \in 0..Resolved
    BY Elements, Zenon DEF IInv
  <2>2. \A j \in 1..Len(pending) : pending[j] > Resolved
    BY <2>1 DEF IInv, TypeOK, Numbered
  <2> QED
    BY <2>1, <2>2 DEF IInv, AtMostOnce
<1> QED
  BY <1>1, DeliveryInvariance, PTL
=============================================================================
