---------------------------- MODULE SystemConfig ----------------------------
(***************************************************************************)
(* struct SystemConfig (system_config.hpp): its validation and the sizes   *)
(* it derives.  A configuration is a record of its four members.  Every    *)
(* number keeps the width it has in the code; the widths are constants, as *)
(* 2^64 is out of TLC's reach.                                             *)
(***************************************************************************)
EXTENDS Naturals, FiniteSets

CONSTANTS
  Width64,   \* bits of a uint64, and of the widest address: 64
  Width32    \* bits of a uint32: 32

(* A number of bits is kept in a uint8, and the bits of as many bytes as a *)
(* uint32 counts, three bits more, fit in a uint64.                        *)
ASSUME WidthsAssumption ==
  /\ Width64 \in 0 .. 255 /\ Width32 \in Nat
  /\ 1 <= Width32 /\ Width32 + 3 <= Width64

(* 1 << n *)
pow2[n \in Nat] == IF n = 0 THEN 1 ELSE 2 * pow2[n - 1]

Uint8  == 256
Uint32 == pow2[Width32]
Uint64 == pow2[Width64]

System == [address_bus_width : Nat, data_bus_width : Nat,
           word_size : Nat, block_size : Nat]

is_power_of_2(v) == \E n \in 0 .. Width32 - 1 : v = pow2[n]

(* The number of shifts that leave something; 0 for v = 0. *)
log2_of(v) == Cardinality({n \in 1 .. Width32 - 1 : pow2[n] <= v})

(* Mutants: a product that does not wrap; bus bytes and bits mixed up.     *)
BlockBitsUnbounded(s) == s.block_size * 8
TransfersOfBits(s) == s.block_size \div s.data_bus_width

-----------------------------------------------------------------------------

(* 1ULL << 64 is undefined; builds make 0 or 1 of it.  Wider addresses are *)
(* refused before the shift.                                               *)
address_space_bytes(s) ==
  IF s.address_bus_width < Width64 THEN {pow2[s.address_bus_width]} ELSE {0, 1}

total_blocks(s, space) == space \div s.block_size
transfers_per_block(s) == s.block_size \div (s.data_bus_width \div 8)
words_per_block(s)     == s.block_size \div s.word_size
offset_bits(s)         == log2_of(s.block_size)
tag_index_bits(s)      == (s.address_bus_width + Uint8 - offset_bits(s)) % Uint8

(* block_size * 8, in a uint32. *)
BlockBits(s) == (s.block_size * 8) % Uint32

(* The tests of validate() in front of its two remainders ... *)
BlockFits(s) ==
  /\ s.address_bus_width \in 1 .. Width64
  /\ is_power_of_2(s.block_size)
  /\ BlockBits(s) >= s.data_bus_width

(* ... which divide by what has not been looked at yet, so that the        *)
(* process dies of a 0 ...                                                 *)
ValidationTraps(s) ==
  /\ BlockFits(s)
  /\ \/ s.data_bus_width = 0
     \/ BlockBits(s) % s.data_bus_width = 0 /\ s.word_size = 0

WordFits(s) == s.word_size \in {1, 2, 4, 8} /\ s.word_size * 8 <= s.data_bus_width

(* ... and what it takes for validate() to return true. *)
SystemValid(s) ==
  /\ BlockFits(s) /\ ~ ValidationTraps(s)
  /\ BlockBits(s) % s.data_bus_width = 0
  /\ s.block_size % s.word_size = 0
  /\ is_power_of_2(s.data_bus_width) /\ s.data_bus_width <= 64
  /\ WordFits(s)

=============================================================================
