------------------------------- MODULE Cache -------------------------------
(***************************************************************************)
(* One cache::Cache (cache.hpp, cache.cpp) with the policies of its sets,  *)
(* under any sequence of calls of access() with data of one whole block.   *)
(* What a block holds is one value, 0 standing for all bytes zero.         *)
(*                                                                         *)
(* No method gives the cache a next memory level, so the calls of its      *)
(* access() are never made and are left out.  accessCount and lastAccess   *)
(* of a block are written and never read, and are left out too.            *)
(***************************************************************************)
EXTENDS FIFOOps, FiniteSets

CONSTANTS
  Sizes, BlockSizes, Associativities,   \* arguments of CacheConfig
  WritePolicy,    \* "WriteThrough" or "WriteBack"
  Address,        \* what callers pass
  Data,           \* what a block can hold
  Garbage,        \* what an uninitialised member can hold
  MaxAccesses     \* bound on the calls

ASSUME CacheAssumption ==
  /\ Sizes \subseteq Nat /\ BlockSizes \subseteq Nat
  /\ Associativities \subseteq Nat
  /\ Address \subseteq Nat /\ 0 \in Data
  /\ Garbage \subseteq Nat /\ MaxAccesses \in Nat
  /\ WritePolicy \in {"WriteThrough", "WriteBack"}

VARIABLES
  size, blockSize, numOfBlocks, associativity,   \* fixed by the constructor
  sets,      \* the blocks of each set
  policies,  \* replacementPolicySet
  missType,
  stats,     \* hits, misses, reads, writes
  ret,       \* the last call: was it a hit or a miss, and the caller's data
  accesses   \* calls so far, for the bound

geometry == <<size, blockSize, numOfBlocks, associativity>>
vars == <<geometry, sets, policies, missType, stats, ret, accesses>>

-----------------------------------------------------------------------------

(* Mutant: an access that stores its block back. *)
BlockStored(old, new) == new

NumberOfBlocks(bytes, block) == bytes \div block
NumberOfSets(blocks, ways) == blocks \div ways
Way == 0 .. associativity - 1
SetId == 0 .. NumberOfSets(numOfBlocks, associativity) - 1

MissTypes == {"Compulsory", "Conflict", "Capacity"}
Block == [valid : BOOLEAN, dirty : BOOLEAN, tag : Nat, data : Data]

(* What (n & (n - 1)) == 0 says of n. *)
OneBitAtMost(n) == n = 0 \/ \E k \in 0 .. n : 2 ^ k = n

(* Mutant: the assertion on the divisibility of the blocks left out. *)
AcceptedUndivided(blocks, ways) == OneBitAtMost(NumberOfSets(blocks, ways))

(* CacheConfig asserts that the numbers it is given are positive and that  *)
(* blocks have a power of two of bytes and fill the cache ...              *)
Sane(bytes, block, ways) ==
  /\ bytes > 0 /\ ways > 0 /\ block > 0
  /\ OneBitAtMost(block)
  /\ bytes % block = 0

(* ... lowers an associativity that is too large to numOfBlocks, and       *)
(* asserts the rest.                                                       *)
Clamped(blocks, ways) == IF ways > blocks THEN blocks ELSE ways
Accepted(blocks, ways) ==
  blocks % ways = 0 /\ OneBitAtMost(NumberOfSets(blocks, ways))

(* A new block has data of zeros and no tag in particular. *)
NewBlock(tag) == [valid |-> FALSE, dirty |-> FALSE, tag |-> tag, data |-> 0]

TypeOK ==
  /\ size \in Sizes /\ blockSize \in BlockSizes \ {0}
  /\ numOfBlocks \in Nat \ {0} /\ associativity \in Nat \ {0}
  /\ sets \in [SetId -> [Way -> Block]]
  /\ policies \in [SetId -> Policy(Way)]
  /\ missType \in MissTypes
  /\ stats \in [hits : Nat, misses : Nat, reads : Nat, writes : Nat]
  /\ ret.found \in {"none", "hit", "miss"} /\ ret.data \in Data
  /\ accesses \in 0 .. MaxAccesses

Init ==
  /\ size \in Sizes /\ blockSize \in BlockSizes
  /\ \E ways \in Associativities :
       /\ Sane(size, blockSize, ways)
       /\ numOfBlocks = NumberOfBlocks(size, blockSize)
       /\ associativity = Clamped(numOfBlocks, ways)
  /\ Accepted(numOfBlocks, associativity)
  /\ \E tag \in Garbage : sets = [s \in SetId |-> [w \in Way |-> NewBlock(tag)]]
  /\ policies = [s \in SetId |-> NewPolicy(Way)]
  /\ missType \in MissTypes
  /\ stats \in [hits : Garbage, misses : Garbage, reads : Garbage,
                writes : Garbage]
  /\ ret = [call |-> "none", found |-> "none", data |-> 0]
  /\ accesses = 0

-----------------------------------------------------------------------------

(* resolveAddress *)
LineAddress(address) == address \div blockSize
SetInd(line, n) == line % n
TagOf(line, n) == line \div n

(* findBlock: the ways of a set that hold the tag; the first one is taken. *)
Found(set, tag) == {w \in DOMAIN set : set[w].valid /\ set[w].tag = tag}
First(ways) == CHOOSE w \in ways : \A v \in ways : w <= v

(* createEmptyBlock: the first invalid block or else the victim.  What     *)
(* hasInvalidBlock was for never happens: the loop has returned by then.   *)
WayFor(set, p) ==
  LET free == {w \in DOMAIN set : ~ set[w].valid}
  IN IF free # {} THEN First(free) ELSE Victim(p, DOMAIN set)

MissTypeAfter(set, m) ==
  IF \E w \in DOMAIN set : ~ set[w].valid THEN m
  ELSE IF associativity < NumberOfSets(numOfBlocks, associativity)
       THEN "Conflict" ELSE "Capacity"

(* access() works on a copy of the block, and stores it nowhere. *)
BlockAfter(old, new) == old

Access(address, isWrite, data) ==
  LET line == LineAddress(address)
      n == NumberOfSets(numOfBlocks, associativity)
      s == SetInd(line, n)
      ways == Found(sets[s], TagOf(line, n))
      hit == ways # {}
      w == IF hit THEN First(ways) ELSE WayFor(sets[s], policies[s])
      block == IF hit THEN sets[s][w]
               ELSE [sets[s][w] EXCEPT !.valid = TRUE, !.tag = TagOf(line, n)]
      new == IF isWrite
             THEN [block EXCEPT !.data = data, !.dirty = WritePolicy = "WriteBack"]
             ELSE block
  IN /\ accesses < MaxAccesses
     /\ sets' = [sets EXCEPT ![s][w] = BlockAfter(@, new)]
     /\ policies' = IF hit THEN policies
                    ELSE [policies EXCEPT ![s] = Inserted(@, w)]
     /\ missType' = IF hit THEN missType ELSE MissTypeAfter(sets[s], missType)
     /\ stats' = [stats EXCEPT !.hits = IF hit THEN @ + 1 ELSE @,
                               !.misses = IF hit THEN @ ELSE @ + 1,
                               !.reads = IF isWrite THEN @ ELSE @ + 1,
                               !.writes = IF isWrite THEN @ + 1 ELSE @]
     /\ ret' = [call |-> IF isWrite THEN "write" ELSE "read",
                found |-> IF hit THEN "hit" ELSE "miss",
                data |-> new.data]
     /\ accesses' = accesses + 1
     /\ UNCHANGED geometry

Next ==
  \E address \in Address, isWrite \in BOOLEAN, data \in Data :
    Access(address, isWrite, data)

Spec == Init /\ [][Next]_vars

-----------------------------------------------------------------------------

(* The copy of the block in access (cache.cpp:73, 78, 103) makes a cache   *)
(* that remembers nothing: no call is a hit, a read yields zeros whatever  *)
(* was written, and of each set only way 0 is ever given to a line, so its *)
(* policy never has to choose.                                             *)
NothingKept ==
  /\ ret.found # "hit"
  /\ ret.call = "read" => ret.data = 0
  /\ \A s \in SetId, w \in Way :
       /\ ~ sets[s][w].valid /\ sets[s][w].data = 0
       /\ w # 0 => policies[s].order[w] = 0

(* However the numbers of a CacheConfig relate, a cache that passes its    *)
(* assertions has a set for every line to go to, and the blocks of all     *)
(* sets make up its size: no division by zero in resolveAddress, and no    *)
(* byte too many or too few (cache.hpp:94-127, cache.cpp:134).             *)
GeometryFits ==
  LET n == NumberOfSets(numOfBlocks, associativity)
  IN /\ n > 0 /\ n * associativity = numOfBlocks
     /\ numOfBlocks * blockSize = size

=============================================================================
