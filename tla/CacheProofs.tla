---------------------------- MODULE CacheProofs ----------------------------
(***************************************************************************)
(* For every geometry, write policy and stream of accesses: the cache      *)
(* keeps its types, and nothing else.                                      *)
(***************************************************************************)
EXTENDS Cache, Integers, TLAPS

(* A divisor of a positive number divides it a positive number of times. *)
LEMMA DivisorLemma ==
  ASSUME NEW b \in Int, NEW w \in Int, b > 0, w > 0, b % w = 0
  PROVE  b \div w \in Nat /\ b \div w > 0 /\ (b \div w) * w = b
<1>1. (b \div w) * w = b
  BY SMT
<1>2. b \div w \in Nat
  BY SMT
<1>3. b \div w # 0
  BY <1>1, SMT
<1>4. QED
  BY <1>1, <1>2, <1>3

(* The way a miss goes to in a set that has no valid block. *)
LEMMA BlankWay ==
  ASSUME associativity \in Nat \ {0}, NEW set \in [Way -> Block], NEW p,
         \A w \in Way : ~ set[w].valid
  PROVE  WayFor(set, p) = 0 /\ 0 \in Way
<1>1. 0 \in Way /\ \A w \in Way : w \in Nat
  BY DEF Way
<1>2. {w \in DOMAIN set : ~ set[w].valid} = Way
  OBVIOUS
<1>3. First(Way) \in Way /\ \A v \in Way : First(Way) <= v
  BY <1>1 DEF First
<1>4. First(Way) = 0
  BY <1>1, <1>3
<1>5. QED
  BY <1>1, <1>2, <1>4 DEF WayFor

LEMMA BlankMisses ==
  ASSUME NEW set \in [Way -> Block], NEW tag, \A w \in Way : ~ set[w].valid
  PROVE  Found(set, tag) = {}
BY DEF Found

LEMMA InsertedAtZero ==
  ASSUME NEW p \in Policy(Way), 0 \in Way
  PROVE  /\ Inserted(p, 0) \in Policy(Way)
         /\ \A w \in Way : w # 0 => Inserted(p, 0).order[w] = p.order[w]
<1>1. Incremented(p.counter) \in UInt
  BY ModulusAssumption DEF Policy, UInt, Incremented
<1>2. QED
  BY <1>1 DEF Policy, Inserted

IInv == TypeOK /\ NothingKept /\ GeometryFits

LEMMA InitIInv == Init => IInv
<1> SUFFICES ASSUME Init PROVE IInv
  OBVIOUS
<1> USE CacheAssumption DEF Init
<1>1. PICK tag \in Garbage : sets = [s \in SetId |-> [w \in Way |-> NewBlock(tag)]]
  OBVIOUS
<1>2. NewBlock(tag) \in Block /\ ~ NewBlock(tag).valid /\ NewBlock(tag).data = 0
  BY DEF NewBlock, Block
<1>3. /\ NewPolicy(Way) \in Policy(Way)
      /\ \A w \in Way : NewPolicy(Way).order[w] = 0
  BY ModulusAssumption DEF NewPolicy, Policy, UInt
<1>4. /\ sets \in [SetId -> [Way -> Block]]
      /\ \A s \in SetId, w \in Way : ~ sets[s][w].valid /\ sets[s][w].data = 0
  BY <1>1, <1>2
<1>5. /\ policies \in [SetId -> Policy(Way)]
      /\ \A s \in SetId, w \in Way : policies[s].order[w] = 0
  BY <1>3
<1>6. stats \in [hits : Nat, misses : Nat, reads : Nat, writes : Nat]
  OBVIOUS
<1>a. /\ size \in Nat /\ blockSize \in Nat \ {0}
      /\ numOfBlocks \in Nat \ {0} /\ numOfBlocks * blockSize = size
  <2>1. /\ size \in Nat /\ size > 0 /\ blockSize \in Nat /\ blockSize > 0
        /\ size % blockSize = 0 /\ numOfBlocks = size \div blockSize
    BY DEF Sane, NumberOfBlocks
  <2> HIDE DEF Init
  <2>2. QED
    BY <2>1, DivisorLemma
<1>7. TypeOK
  <2>1. associativity \in Nat \ {0}
    BY <1>a DEF Clamped, Sane
  <2>2. QED
    BY <2>1, <1>4, <1>5, <1>6, <1>a DEF TypeOK
<1>8. NothingKept
  BY <1>4, <1>5 DEF NothingKept
<1>9. GeometryFits
  <2>1. numOfBlocks \in Nat \ {0} /\ associativity \in Nat \ {0}
    BY <1>7 DEF TypeOK
  <2>2. numOfBlocks % associativity = 0
    BY DEF Accepted
  <2> HIDE DEF Init
  <2>3. QED
    BY <2>1, <2>2, <1>a, DivisorLemma DEF NumberOfSets, GeometryFits
<1>10. QED
  BY <1>7, <1>8, <1>9 DEF IInv

(* An access to a cache that holds nothing leaves it holding nothing. *)
LEMMA AccessIInv ==
  ASSUME IInv, NEW address \in Address, NEW isWrite \in BOOLEAN, NEW data \in Data,
         Access(address, isWrite, data)
  PROVE  IInv'
<1> DEFINE line == LineAddress(address)
           n == NumberOfSets(numOfBlocks, associativity)
           s == SetInd(line, n)
<1>1. associativity \in Nat \ {0} /\ n \in Nat /\ n > 0
  <2>1. n \in Nat
    <3>1. numOfBlocks \in Nat \ {0} /\ associativity \in Nat \ {0}
      BY DEF IInv, TypeOK
    <3>2. QED
      BY <3>1 DEF NumberOfSets
  <2>2. QED
    BY <2>1 DEF IInv, TypeOK, GeometryFits
<1>2. s \in SetId
  <2>1. line \in Nat
    <3>1. address \in Nat /\ blockSize \in Nat \ {0}
      BY CacheAssumption DEF IInv, TypeOK
    <3>2. QED
      BY <3>1 DEF LineAddress
  <2>2. QED
    BY <1>1, <2>1 DEF SetInd, SetId
<1>3. sets[s] \in [Way -> Block] /\ policies[s] \in Policy(Way)
  BY <1>2 DEF IInv, TypeOK
<1>4. \A w \in Way : ~ sets[s][w].valid /\ sets[s][w].data = 0
  BY <1>2 DEF IInv, NothingKept
<1>5. Found(sets[s], TagOf(line, n)) = {}
  BY <1>3, <1>4, BlankMisses
<1>6. WayFor(sets[s], policies[s]) = 0 /\ 0 \in Way
  BY <1>1, <1>3, <1>4, BlankWay
<1>7. sets' = sets
  BY <1>2, <1>3, <1>5, <1>6 DEF Access, BlockAfter, IInv, TypeOK
<1>8. policies' = [policies EXCEPT ![s] = Inserted(policies[s], 0)]
  BY <1>5, <1>6 DEF Access
<1>9. missType' \in MissTypes
  BY <1>5 DEF Access, MissTypeAfter, MissTypes, IInv, TypeOK
<1>10. stats' \in [hits : Nat, misses : Nat, reads : Nat, writes : Nat]
  <2>1. stats' = [stats EXCEPT !.misses = stats.misses + 1,
                               !.reads = IF isWrite THEN stats.reads ELSE stats.reads + 1,
                               !.writes = IF isWrite THEN stats.writes + 1 ELSE stats.writes]
    BY <1>5 DEF Access, IInv, TypeOK
  <2>2. stats \in [hits : Nat, misses : Nat, reads : Nat, writes : Nat]
    BY DEF IInv, TypeOK
  <2>3. /\ stats.misses + 1 \in Nat
        /\ (IF isWrite THEN stats.reads ELSE stats.reads + 1) \in Nat
        /\ (IF isWrite THEN stats.writes + 1 ELSE stats.writes) \in Nat
    BY <2>2
  <2>4. QED
    BY <2>1, <2>2, <2>3
<1>11. /\ ret'.found = "miss"
       /\ ret'.call = "read" => ret'.data = sets[s][0].data
       /\ ret'.call # "read" => ret'.data = data
       /\ ret'.call \in {"read", "write"}
  BY <1>3, <1>5, <1>6 DEF Access, Block
<1>12. /\ size' = size /\ blockSize' = blockSize
       /\ numOfBlocks' = numOfBlocks /\ associativity' = associativity
       /\ SetId' = SetId /\ Way' = Way
  BY DEF Access, geometry, SetId, Way
<1>13. accesses' \in 0 .. MaxAccesses
  BY CacheAssumption DEF Access, IInv, TypeOK
<1>14. TypeOK'
  <2>1. policies' \in [SetId -> Policy(Way)]
    BY <1>2, <1>3, <1>6, <1>8, InsertedAtZero DEF IInv, TypeOK
  <2>2. ret'.found \in {"none", "hit", "miss"} /\ ret'.data \in Data
    BY <1>4, <1>6, <1>11, CacheAssumption
  <2>3. QED
    BY <1>7, <1>9, <1>10, <1>12, <1>13, <2>1, <2>2 DEF IInv, TypeOK
<1>15. NothingKept'
  <2>1. ASSUME NEW q \in SetId, NEW w \in Way, w # 0
        PROVE  policies'[q].order[w] = 0
    <3>1. policies[q].order[w] = 0
      BY <2>1 DEF IInv, NothingKept
    <3>2. policies \in [SetId -> Policy(Way)]
      BY DEF IInv, TypeOK
    <3>3. CASE q = s
      BY <1>3, <1>6, <1>8, <2>1, <3>1, <3>2, <3>3, InsertedAtZero
    <3>4. CASE q # s
      BY <1>8, <3>1, <3>2, <3>4
    <3>5. QED
      BY <3>3, <3>4
  <2>2. ret'.found # "hit" /\ (ret'.call = "read" => ret'.data = 0)
    BY <1>4, <1>6, <1>11
  <2>3. QED
    BY <1>7, <1>12, <2>1, <2>2 DEF IInv, NothingKept
<1>16. QED
  BY <1>12, <1>13, <1>14, <1>15 DEF IInv, GeometryFits

LEMMA NextIInv == IInv /\ [Next]_vars => IInv'
<1> SUFFICES ASSUME IInv, [Next]_vars PROVE IInv'
  OBVIOUS
<1>1. CASE UNCHANGED vars
  BY <1>1 DEF vars, geometry, IInv, TypeOK, NothingKept, GeometryFits, SetId, Way
<1>2. ASSUME NEW address \in Address, NEW isWrite \in BOOLEAN, NEW data \in Data,
             Access(address, isWrite, data)
      PROVE  IInv'
  BY <1>2, AccessIInv
<1>3. QED
  BY <1>1, <1>2 DEF Next

(* The geometry, the blocks, the policies and the statistics keep their    *)
(* types through any accesses (cache.cpp:66-130).                          *)
THEOREM CacheTyped == Spec => []TypeOK
<1>1. IInv => TypeOK
  BY DEF IInv
<1>2. QED
  BY <1>1, InitIInv, NextIInv, PTL DEF Spec

(* No cache of this code, whatever its geometry, ever has a hit or gives   *)
(* back a byte that was written to it (cache.cpp:73, 78, 103).             *)
THEOREM CacheKeepsNothing == Spec => []NothingKept
<1>1. IInv => NothingKept
  BY DEF IInv
<1>2. QED
  BY <1>1, InitIInv, NextIInv, PTL DEF Spec

(* Every cache that passes the assertions of its configuration has sets    *)
(* that make up the whole cache, at least one (cache.hpp:94-127).          *)
THEOREM CacheGeometryFits == Spec => []GeometryFits
<1>1. IInv => GeometryFits
  BY DEF IInv
<1>2. QED
  BY <1>1, InitIInv, NextIInv, PTL DEF Spec

=============================================================================
