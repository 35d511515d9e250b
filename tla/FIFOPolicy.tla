----------------------------- MODULE FIFOPolicy -----------------------------
(***************************************************************************)
(* cache::FIFOPolicy, the replacement policy of one cache set, under any   *)
(* sequence of calls.                                                      *)
(***************************************************************************)
EXTENDS FIFOOps

CONSTANTS
  Ways,        \* numBlocks, the associativity
  MaxInserts   \* bound on the insertions between two resets

ASSUME FIFOAssumption == Ways \in Nat \ {0} /\ MaxInserts \in Nat

Way == 0 .. Ways - 1

VARIABLES
  policy,   \* the members order and counter
  inserted, \* when each block was last inserted, 0 if not since the reset
  inserts   \* insertions since the reset; counter as it would be unbounded

vars == <<policy, inserted, inserts>>

TypeOK ==
  /\ policy \in Policy(Way)
  /\ inserted \in [Way -> 0 .. MaxInserts] /\ inserts \in 0 .. MaxInserts

Init ==
  /\ policy = NewPolicy(Way)
  /\ inserted = [i \in Way |-> 0]
  /\ inserts = 0

OnInsert(blockInd) ==
  /\ inserts < MaxInserts
  /\ policy' = Inserted(policy, blockInd)
  /\ inserts' = inserts + 1
  /\ inserted' = [inserted EXCEPT ![blockInd] = inserts']

Reset ==
  /\ policy' = Cleared(policy)
  /\ inserted' = [i \in Way |-> 0]
  /\ inserts' = 0

Next == Reset \/ \E blockInd \in Way : OnInsert(blockInd)

Spec == Init /\ [][Next]_vars

-----------------------------------------------------------------------------

(* Whichever blocks are valid, the victim is one of them and none of them  *)
(* was inserted before it: first in, first out (replacement_policy.hpp:83, *)
(* replacement_policy.cpp:38-50).                                          *)
FirstInFirstOut ==
  \A valid \in (SUBSET Way) \ {{}} :
    LET v == Victim(policy, valid)
    IN v \in valid /\ \A j \in valid : inserted[v] <= inserted[j]

(* The same as long as no insertion since the last reset got the number    *)
(* that getVictim reserves, UINT32_MAX (replacement_policy.cpp:40), or a   *)
(* number that an older block already had.                                 *)
FIFOBelowReserved == inserts <= Modulus - 2 => FirstInFirstOut

=============================================================================
