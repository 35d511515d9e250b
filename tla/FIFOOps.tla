------------------------------ MODULE FIFOOps ------------------------------
(***************************************************************************)
(* What one call of a method of cache::FIFOPolicy (replacement_policy.hpp, *)
(* replacement_policy.cpp) does to the object it is called on.  The age of *)
(* a block is kept in a uint32 counter of insertions; the largest value    *)
(* doubles as "no victim yet" in the search of getVictim.  onAccess does   *)
(* nothing and getVictim changes nothing.                                  *)
(***************************************************************************)
EXTENDS Naturals

CONSTANT Modulus   \* 2^32

ASSUME ModulusAssumption == Modulus \in Nat \ {0, 1}

UInt == 0 .. Modulus - 1

Policy(Way) == [order : [Way -> UInt], counter : UInt]

(* The constructor, which calls reset(). *)
NewPolicy(Way) == [order |-> [i \in Way |-> 0], counter |-> 0]

(* Mutants: an increment that is not brought back into range; a search for *)
(* the largest order instead of the least.                                 *)
Unbounded(n) == n + 1
YoungestVictim(p, valid) ==
  LET seen == {i \in valid : p.order[i] < Modulus - 1}
  IN IF seen = {} THEN 0
     ELSE CHOOSE i \in seen : \A j \in seen :
            p.order[i] > p.order[j] \/ (p.order[i] = p.order[j] /\ i <= j)

(* ++ on a uint32. *)
Incremented(n) == (n + 1) % Modulus

(* onInsert(i) *)
Inserted(p, i) ==
  [p EXCEPT !.counter = Incremented(@), !.order[i] = Incremented(p.counter)]

(* reset() fills order with 0. *)
Cleared(p) == [order |-> [i \in DOMAIN p.order |-> 0], counter |-> 0]

(* getVictim(valid): the first of the valid blocks with the least order    *)
(* below UINT32_MAX, block 0 if there is none.                             *)
Victim(p, valid) ==
  LET seen == {i \in valid : p.order[i] < Modulus - 1}
  IN IF seen = {} THEN 0
     ELSE CHOOSE i \in seen : \A j \in seen :
            p.order[i] < p.order[j] \/ (p.order[i] = p.order[j] /\ i <= j)

=============================================================================
