--------------------------- MODULE MCQueryIntern ----------------------------
(* Three query texts, the first two with one intern key.                   *)
EXTENDS QueryIntern, TLC

CONSTANTS b1, b2, select1, select2, update1

TwoBackends == {b1, b2}
ThreeTexts == {select1, select2, update1}
CollidingKeys == select1 :> 1 @@ select2 :> 1 @@ update1 :> 2

(* As the program calls it, with an entry for every slot; and two callers  *)
(* racing for a table that is too small.                                   *)
LockedAndRacing == {[serialised |-> TRUE, max_entries |-> 3],
                    [serialised |-> FALSE, max_entries |-> 1]}

Symmetry == Permutations(Ptrs) \cup Permutations(TwoBackends)
=============================================================================
