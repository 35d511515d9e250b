-------------------------- MODULE FIFOPolicyProofs --------------------------
(***************************************************************************)
(* As long as every insertion since the last reset has a number below the  *)
(* value reserved by getVictim, the policy is first in, first out, for any *)
(* associativity and any set of valid blocks.  Beyond that it is so for    *)
(* blocks inserted between two wraps of the counter.                       *)
(***************************************************************************)
EXTENDS FIFOPolicy, FiniteSetTheorems, WellFoundedInduction, TLAPS

(* Before the counter reaches the reserved value order is the time of      *)
(* insertion itself.                                                       *)
Faithful ==
  /\ policy \in Policy(Way) /\ inserts \in 0 .. MaxInserts
  /\ inserts <= Modulus - 2 =>
       /\ policy.counter = inserts /\ policy.order = inserted
       /\ inserted \in [Way -> 0 .. inserts]

(* A nonempty set of naturals has a least element: the intervals 0 .. n of *)
(* its elements n have a minimal one under strict inclusion.               *)
LEMMA NatMin ==
  ASSUME NEW T \in SUBSET Nat, T # {}
  PROVE  \E x \in T : \A y \in T : x <= y
<1> DEFINE U == {0 .. n : n \in T}
<1>1. U \subseteq FiniteSubsetsOf(Nat) /\ U # {}
  <2>1. ASSUME NEW n \in T PROVE 0 .. n \in FiniteSubsetsOf(Nat)
    BY FS_Interval DEF FiniteSubsetsOf
  <2>2. QED
    BY <2>1
<1>2. PICK m \in U : \A u \in U : ~ (<<u, m>> \in StrictSubsetOrdering(Nat))
  BY <1>1, FS_StrictSubsetOrderingWellFounded, WFMin
<1>3. PICK x \in T : m = 0 .. x
  OBVIOUS
<1>4. ASSUME NEW y \in T, y < x PROVE FALSE
  <2>1. 0 .. y \subseteq 0 .. x /\ x \in 0 .. x /\ x \notin 0 .. y
    BY <1>4
  <2>2. <<0 .. y, 0 .. x>> \in StrictSubsetOrdering(Nat)
    BY <2>1 DEF StrictSubsetOrdering
  <2>3. QED
    BY <2>2, <1>2, <1>3
<1>5. QED
  BY <1>4

(* getVictim returns a valid block with the least order if any of them has *)
(* not the reserved value.                                                 *)
LEMMA VictimLemma ==
  ASSUME NEW p, p.order \in [Way -> UInt],
         NEW valid \in SUBSET Way,
         \E k \in valid : p.order[k] < Modulus - 1
  PROVE  /\ Victim(p, valid) \in valid
         /\ \A j \in valid : p.order[Victim(p, valid)] <= p.order[j]
<1> USE FIFOAssumption, ModulusAssumption
<1> DEFINE o == p.order
           seen == {i \in valid : o[i] < Modulus - 1}
           first(i) == \A j \in seen : o[i] < o[j] \/ (o[i] = o[j] /\ i <= j)
<1>1. /\ seen # {} /\ \A i \in valid : i \in Nat /\ o[i] \in 0 .. Modulus - 1
      /\ \A i \in seen : i \in Nat /\ o[i] \in Nat
  <2>1. \A i \in valid : i \in Nat /\ o[i] \in 0 .. Modulus - 1
    BY DEF Way, UInt
  <2>2. QED
    BY <2>1
<1>2. PICK m \in {o[i] : i \in seen} : \A n \in {o[i] : i \in seen} : m <= n
  <2>1. {o[i] : i \in seen} \in SUBSET Nat /\ {o[i] : i \in seen} # {}
    BY <1>1
  <2>2. QED
    BY <2>1, NatMin
<1>3. PICK v \in {i \in seen : o[i] = m} : \A j \in {i \in seen : o[i] = m} : v <= j
  <2>1. {i \in seen : o[i] = m} \in SUBSET Nat /\ {i \in seen : o[i] = m} # {}
    BY <1>1, <1>2
  <2>2. QED
    BY <2>1, NatMin
<1>4. v \in seen /\ first(v)
  <2>1. \A j \in seen : m <= o[j] /\ m \in Nat
    BY <1>1, <1>2
  <2>2. \A j \in seen : o[v] < o[j] \/ (o[v] = o[j] /\ v <= j)
    BY <1>1, <1>3, <2>1
  <2>3. QED
    BY <1>3, <2>2
<1>5. Victim(p, valid) = CHOOSE i \in seen : first(i)
  BY <1>1 DEF Victim
<1>6. Victim(p, valid) \in seen /\ first(Victim(p, valid))
  BY <1>4, <1>5
<1> DEFINE w == Victim(p, valid)
<1> HIDE DEF w
<1>7. \A j \in valid : o[w] <= o[j]
  <2>1. w \in seen /\ first(w)
    BY <1>6 DEF w
  <2>2. ASSUME NEW j \in valid, j \notin seen PROVE o[w] <= o[j]
    BY <1>1, <2>1, <2>2
  <2>3. ASSUME NEW j \in seen PROVE o[w] <= o[j]
    BY <1>1, <2>1
  <2>4. QED
    BY <2>2, <2>3
<1>8. QED
  BY <1>6, <1>7 DEF w

(* onInsert and reset leave a policy of the same shape. *)
LEMMA InsertedType ==
  ASSUME NEW p \in Policy(Way), NEW i \in Way
  PROVE  Inserted(p, i) \in Policy(Way)
<1>1. Incremented(p.counter) \in UInt
  BY ModulusAssumption DEF Policy, UInt, Incremented
<1>2. QED
  BY <1>1 DEF Policy, Inserted

LEMMA ClearedIsNew ==
  ASSUME NEW p \in Policy(Way)
  PROVE  Cleared(p) = NewPolicy(Way) /\ Cleared(p) \in Policy(Way)
BY ModulusAssumption DEF Policy, Cleared, NewPolicy, UInt

LEMMA FaithfulInvariant == Spec => []Faithful
<1> USE FIFOAssumption, ModulusAssumption
<1>1. Init => Faithful
  BY DEF Init, Faithful, NewPolicy, Policy, UInt
<1>2. Faithful /\ [Next]_vars => Faithful'
  <2> SUFFICES ASSUME Faithful, [Next]_vars PROVE Faithful'
    OBVIOUS
  <2>1. ASSUME NEW blockInd \in Way, OnInsert(blockInd) PROVE Faithful'
    <3>1. inserts' \in 0 .. MaxInserts /\ inserts' = inserts + 1 /\ inserts \in Nat
      BY <2>1 DEF OnInsert, Faithful
    <3>2. policy' \in Policy(Way)
      BY <2>1, InsertedType DEF OnInsert, Faithful
    <3>3. ASSUME inserts' <= Modulus - 2
          PROVE  /\ policy'.counter = inserts' /\ policy'.order = inserted'
                 /\ inserted' \in [Way -> 0 .. inserts']
      <4>1. /\ policy.counter = inserts /\ policy.order = inserted
            /\ inserted \in [Way -> 0 .. inserts]
        BY <3>1, <3>3 DEF Faithful
      <4>2. Incremented(inserts) = inserts'
        BY <3>1, <3>3 DEF Incremented
      <4>3. /\ policy'.counter = inserts'
            /\ policy'.order = [policy.order EXCEPT ![blockInd] = inserts']
        BY <2>1, <4>1, <4>2 DEF OnInsert, Inserted, Faithful, Policy
      <4>4. inserted' = [inserted EXCEPT ![blockInd] = inserts']
        BY <2>1 DEF OnInsert
      <4>5. inserted' \in [Way -> 0 .. inserts']
        BY <3>1, <4>1, <4>4
      <4>6. QED
        BY <4>1, <4>3, <4>4, <4>5
    <3>4. QED
      BY <3>1, <3>2, <3>3 DEF Faithful
  <2>2. CASE Reset
    BY <2>2, ClearedIsNew DEF Reset, Faithful, NewPolicy
  <2>3. CASE UNCHANGED vars
    BY <2>3 DEF vars, Faithful
  <2>4. QED
    BY <2>1, <2>2, <2>3 DEF Next
<1>3. QED
  BY <1>1, <1>2, PTL DEF Spec

(* Every variable of the policy keeps its type, whatever MaxInserts: the   *)
(* wrap of the counter is one of a uint32.                                 *)
THEOREM PolicyTyped == Spec => []TypeOK
<1> USE FIFOAssumption, ModulusAssumption DEF TypeOK
<1>1. Init => TypeOK
  BY DEF Init, NewPolicy, Policy, UInt
<1>2. TypeOK /\ [Next]_vars => TypeOK'
  <2> SUFFICES ASSUME TypeOK, [Next]_vars PROVE TypeOK'
    OBVIOUS
  <2>1. ASSUME NEW blockInd \in Way, OnInsert(blockInd) PROVE TypeOK'
    BY <2>1, InsertedType DEF OnInsert
  <2>2. CASE Reset
    BY <2>2, ClearedIsNew DEF Reset
  <2>3. CASE UNCHANGED vars
    BY <2>3 DEF vars
  <2>4. QED
    BY <2>1, <2>2, <2>3 DEF Next
<1>3. QED
  BY <1>1, <1>2, PTL DEF Spec

(* The victim of getVictim is always a valid block, and none of the valid  *)
(* blocks has been in the set for longer, until the counter reaches        *)
(* UINT32_MAX (replacement_policy.cpp:34-50).                              *)
THEOREM PolicyIsFIFO == Spec => []FIFOBelowReserved
<1>1. Faithful => FIFOBelowReserved
  <2> SUFFICES ASSUME Faithful, inserts <= Modulus - 2,
                      NEW valid \in (SUBSET Way) \ {{}}
               PROVE  LET v == Victim(policy, valid)
                      IN v \in valid /\ \A j \in valid : inserted[v] <= inserted[j]
    BY DEF FIFOBelowReserved, FirstInFirstOut
  <2>1. /\ policy.order = inserted /\ policy.order \in [Way -> UInt]
        /\ \A i \in valid : policy.order[i] < Modulus - 1
    BY FIFOAssumption, ModulusAssumption DEF Faithful, Policy, UInt
  <2>2. QED
    BY <2>1, VictimLemma
<1>2. QED
  BY <1>1, FaithfulInvariant, PTL

-----------------------------------------------------------------------------
(* Beyond the wrap.  The order of a block is the remainder of the time it  *)
(* was inserted, so that the policy errs only about blocks on both sides   *)
(* of a wrap and about the one with the reserved number.                   *)

(* A number has one remainder. *)
LEMMA RemainderIs ==
  ASSUME NEW q \in Nat, NEW x \in UInt
  PROVE  (q * Modulus + x) % Modulus = x
<1> DEFINE n == q * Modulus + x
           k == n \div Modulus
           y == n % Modulus
<1>1. Modulus \in Nat /\ Modulus >= 1 /\ x \in Nat /\ x < Modulus
  BY ModulusAssumption DEF UInt
<1>2. q * Modulus \in Nat
  BY <1>1, SMT
<1>3. n \in Nat
  BY <1>1, <1>2
<1>4. k \in Nat /\ y \in Nat /\ y < Modulus /\ n = Modulus * k + y
  <2> HIDE DEF n
  <2> QED BY <1>1, <1>3
<1>5. \A a, b, u, v \in Nat : a * Modulus + u = Modulus * b + v /\ u < Modulus /\ v < Modulus
                              => a = b
  <2> SUFFICES ASSUME NEW a \in Nat, NEW b \in Nat, NEW u \in Nat, NEW v \in Nat,
                      a * Modulus + u = Modulus * b + v, u < Modulus, v < Modulus
               PROVE  a = b
    OBVIOUS
  <2>1. ASSUME NEW c \in Nat, NEW d \in Nat, c < d PROVE c * Modulus + Modulus <= d * Modulus
    <3>1. d - c - 1 \in Nat
      BY <2>1
    <3>2. d * Modulus = c * Modulus + Modulus + (d - c - 1) * Modulus
      BY <1>1, SMT
    <3>3. (d - c - 1) * Modulus >= 0
      BY <1>1, <3>1, SMT
    <3>4. QED
      BY <1>1, <3>2, <3>3, SMT
  <2>2. Modulus * b = b * Modulus /\ a * Modulus \in Nat /\ b * Modulus \in Nat
    BY <1>1, SMT
  <2>3. QED
    BY <1>1, <2>1, <2>2
<1>6. q = k
  <2> HIDE DEF k, y
  <2> QED BY <1>1, <1>4, <1>5 DEF n
<1>7. Modulus * k = q * Modulus
  <2> HIDE DEF k
  <2> QED BY <1>1, <1>4, <1>6, SMT
<1>8. QED
  <2> HIDE DEF k, y
  <2>1. q * Modulus + x = q * Modulus + y
    BY <1>4, <1>7 DEF n
  <2>2. x = y
    BY <1>1, <1>2, <1>4, <2>1
  <2>3. QED
    BY <2>2 DEF y, n

LEMMA IncrementedIs ==
  ASSUME NEW n \in Nat
  PROVE  Incremented(n % Modulus) = (n + 1) % Modulus
<1> DEFINE q == n \div Modulus
           x == n % Modulus
<1>1. Modulus \in Nat /\ Modulus > 1
  BY ModulusAssumption
<1>2. q \in Nat /\ x \in UInt /\ n = Modulus * q + x
  BY <1>1 DEF UInt
<1> HIDE DEF q, x
<1>3. Modulus * q = q * Modulus /\ q * Modulus \in Nat /\ x \in Nat
  BY <1>1, <1>2, SMT DEF UInt
<1>4. CASE x + 1 < Modulus
  <2>1. x + 1 \in UInt /\ n + 1 = q * Modulus + (x + 1)
    BY <1>1, <1>2, <1>3, <1>4 DEF UInt
  <2>2. (n + 1) % Modulus = x + 1 /\ (x + 1) % Modulus = x + 1
    BY <1>1, <1>2, <2>1, RemainderIs DEF UInt
  <2>3. QED
    BY <2>2 DEF Incremented, x
<1>5. CASE x + 1 = Modulus
  <2>1. 0 \in UInt /\ q + 1 \in Nat
    BY <1>1, <1>2 DEF UInt
  <2>2. (q + 1) * Modulus = q * Modulus + Modulus
    BY <1>1, <1>2, SMT
  <2>3. n + 1 = (q + 1) * Modulus + 0
    BY <1>1, <1>2, <1>3, <1>5, <2>2
  <2>4. (n + 1) % Modulus = 0
    BY <2>1, <2>3, RemainderIs
  <2>5. Modulus % Modulus = 0
    BY <1>1
  <2>6. QED
    BY <1>5, <2>4, <2>5 DEF Incremented, x
<1>6. QED
  BY <1>1, <1>2, <1>3, <1>4, <1>5 DEF UInt

(* The counters are those of an unbounded policy, cut to their width. *)
Wrapped ==
  /\ policy \in Policy(Way) /\ inserts \in Nat /\ inserted \in [Way -> Nat]
  /\ policy.counter = inserts % Modulus
  /\ \A i \in Way : policy.order[i] = inserted[i] % Modulus

LEMMA WrappedInvariant == Spec => []Wrapped
<1>1. ASSUME policy = NewPolicy(Way), inserted = [i \in Way |-> 0], inserts = 0
      PROVE  Wrapped
  <2>1. 0 % Modulus = 0 /\ 0 \in UInt
    BY ModulusAssumption DEF UInt
  <2>2. QED
    BY <1>1, <2>1 DEF Wrapped, NewPolicy, Policy
<1>2. Wrapped /\ [Next]_vars => Wrapped'
  <2> SUFFICES ASSUME Wrapped, [Next]_vars PROVE Wrapped'
    OBVIOUS
  <2>1. ASSUME NEW blockInd \in Way, OnInsert(blockInd) PROVE Wrapped'
    <3>1. /\ inserts \in Nat /\ inserts' = inserts + 1 /\ policy' = Inserted(policy, blockInd)
          /\ inserted' = [inserted EXCEPT ![blockInd] = inserts']
          /\ policy.counter = inserts % Modulus
      BY <2>1 DEF OnInsert, Wrapped
    <3>2. Incremented(policy.counter) = inserts' % Modulus
      BY <3>1, IncrementedIs
    <3>3. /\ policy'.counter = inserts' % Modulus
          /\ policy'.order = [policy.order EXCEPT ![blockInd] = inserts' % Modulus]
      BY <3>1, <3>2 DEF Inserted, Wrapped, Policy
    <3>4. policy' \in Policy(Way)
      BY <3>1, InsertedType DEF Wrapped
    <3>5. QED
      BY <3>1, <3>3, <3>4 DEF Wrapped, Policy
  <2>2. CASE Reset
    <3>1. policy' = NewPolicy(Way) /\ inserted' = [i \in Way |-> 0] /\ inserts' = 0
      BY <2>2, ClearedIsNew DEF Reset, Wrapped
    <3>2. 0 % Modulus = 0 /\ 0 \in UInt
      BY ModulusAssumption DEF UInt
    <3>3. QED
      BY <3>1, <3>2 DEF Wrapped, NewPolicy, Policy
  <2>3. CASE UNCHANGED vars
    BY <2>3 DEF vars, Wrapped
  <2>4. QED
    BY <2>1, <2>2, <2>3 DEF Next
<1>3. Init => Wrapped
  BY <1>1 DEF Init
<1>4. QED
  BY <1>2, <1>3, PTL DEF Spec

(* Whichever blocks are valid, the victim is the one whose insertion has   *)
(* the least remainder, unless all of them have the reserved one           *)
(* (replacement_policy.cpp:34-50).                                         *)
FIFOModulo ==
  \A valid \in SUBSET Way :
    (\E k \in valid : inserted[k] % Modulus # Modulus - 1) =>
      LET v == Victim(policy, valid)
      IN  v \in valid /\ \A j \in valid : inserted[v] % Modulus <= inserted[j] % Modulus

(* Blocks that were inserted between two wraps of the counter, and none of *)
(* them with the reserved number, leave first in, first out, however often *)
(* the counter has wrapped (replacement_policy.cpp:34-50).                 *)
FIFOBetweenWraps ==
  \A valid \in (SUBSET Way) \ {{}}, e \in Nat :
    (\A i \in valid : \E x \in 0 .. Modulus - 2 : inserted[i] = e * Modulus + x) =>
      LET v == Victim(policy, valid)
      IN  v \in valid /\ \A j \in valid : inserted[v] <= inserted[j]

LEMMA WrappedIsModulo == Wrapped => FIFOModulo
<1> SUFFICES ASSUME Wrapped, NEW valid \in SUBSET Way,
                    NEW k \in valid, inserted[k] % Modulus # Modulus - 1
             PROVE  LET v == Victim(policy, valid)
                    IN  v \in valid /\ \A j \in valid :
                          inserted[v] % Modulus <= inserted[j] % Modulus
  BY DEF FIFOModulo
<1>1. policy.order \in [Way -> UInt] /\ \A i \in Way : policy.order[i] = inserted[i] % Modulus
  BY DEF Wrapped, Policy
<1>2. policy.order[k] < Modulus - 1
  <2>1. policy.order[k] \in 0 .. Modulus - 1 /\ policy.order[k] # Modulus - 1
    BY <1>1 DEF UInt
  <2>2. QED
    BY <2>1, ModulusAssumption
<1> DEFINE v == Victim(policy, valid)
<1>3. v \in valid /\ \A j \in valid : policy.order[v] <= policy.order[j]
  BY <1>1, <1>2, VictimLemma
<1> HIDE DEF v
<1>4. QED
  BY <1>1, <1>3 DEF v

(* The wrap of the counter costs the policy no more than its order between *)
(* blocks on either side of it, and the block with the reserved number     *)
(* (replacement_policy.cpp:34-50).                                         *)
THEOREM PolicyBeyondWrap == Spec => [](FIFOModulo /\ FIFOBetweenWraps)
<1>1. FIFOModulo => FIFOBetweenWraps
  <2> SUFFICES ASSUME FIFOModulo, NEW valid \in (SUBSET Way) \ {{}}, NEW e \in Nat,
                      \A i \in valid : \E x \in 0 .. Modulus - 2 :
                                         inserted[i] = e * Modulus + x
               PROVE  LET v == Victim(policy, valid)
                      IN  v \in valid /\ \A j \in valid : inserted[v] <= inserted[j]
    BY DEF FIFOBetweenWraps
  <2> DEFINE E == e * Modulus
             v == Victim(policy, valid)
  <2>1. \A x \in 0 .. Modulus - 2 : (E + x) % Modulus = x /\ x # Modulus - 1
    BY RemainderIs, ModulusAssumption DEF UInt
  <2>2. E \in Nat
    BY ModulusAssumption, SMT
  <2> HIDE DEF E, v
  <2>3. \A i \in valid : \E x \in 0 .. Modulus - 2 : inserted[i] = E + x
    BY DEF E
  <2>4. \A i \in valid : /\ inserted[i] = E + (inserted[i] % Modulus)
                         /\ inserted[i] % Modulus \in Nat
                         /\ inserted[i] % Modulus # Modulus - 1
    <3> SUFFICES ASSUME NEW i \in valid
                 PROVE  /\ inserted[i] = E + (inserted[i] % Modulus)
                        /\ inserted[i] % Modulus \in Nat
                        /\ inserted[i] % Modulus # Modulus - 1
      OBVIOUS
    <3>1. PICK x \in 0 .. Modulus - 2 : inserted[i] = E + x
      BY <2>3
    <3>2. inserted[i] % Modulus = x /\ x # Modulus - 1 /\ x \in Nat
      BY <2>1, <3>1, ModulusAssumption
    <3>3. QED
      BY <3>1, <3>2
  <2>5. v \in valid /\ \A j \in valid : inserted[v] % Modulus <= inserted[j] % Modulus
    BY <2>4 DEF FIFOModulo, v
  <2>6. \A j \in valid : inserted[v] <= inserted[j]
    BY <2>2, <2>4, <2>5
  <2>7. QED
    BY <2>5, <2>6 DEF v
<1>2. QED
  BY <1>1, WrappedIsModulo, WrappedInvariant, PTL

=============================================================================
