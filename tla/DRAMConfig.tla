----------------------------- MODULE DRAMConfig -----------------------------
(***************************************************************************)
(* dram::DRAMConfig (dram_config.cpp): a program constructs one from a     *)
(* system configuration, a chip width and address masks, and, unless the   *)
(* constructor throws, takes addresses apart with it as the dispatcher     *)
(* does.  An address or a mask is the set of the positions of its ones.    *)
(* rank_mask is read nowhere.                                              *)
(***************************************************************************)
EXTENDS SystemConfig, FiniteSetsExt

CONSTANTS
  Inputs,      \* the arguments constructors are called with
  Addresses    \* the addresses that are decoded

Bits == 0 .. Width64 - 1

Config == [sys : System, chip_width_bits : Nat, bank_mask : SUBSET Bits,
           row_mask : SUBSET Bits, col_mask : SUBSET Bits]

ASSUME ConfigAssumption == Inputs \subseteq Config /\ Addresses \subseteq SUBSET Bits

VARIABLES
  config,      \* the arguments of the constructor, then the object's members
  verdict,     \* "none", "refused" (threw), "accepted", "died" of a signal, or
               \* "decoded": accepted, and then
  asked, ids   \* the last address and its fields

vars == <<config, verdict, asked, ids>>

(* The number that a set of positions spells. *)
Value(bits) ==
  LET low[n \in Nat] ==
        IF n = 0 THEN 0 ELSE low[n - 1] + IF n - 1 \in bits THEN pow2[n - 1] ELSE 0
  IN  low[Width64]

NoIds == [bank |-> 0, row |-> 0, col |-> 0]

(* Mutants: positions counted from one; an index that loses its lowest     *)
(* bit; bank and index numbers that are not cut to a uint32.               *)
PositionFromOne(mask) == Min(mask) + 1
ExtractTwice(address, mask) == Value(address \cap mask) \div pow2[Min(mask) + 1]
BanksUnbounded(c) == pow2[Cardinality(c.bank_mask)]
ExtractUint64(address, mask) == Value(address \cap mask) \div Min(mask)

popcount(mask) == Cardinality(mask)
first_one_position(mask) == Min(mask)

(* extract() divides by the POSITION of the lowest one of the mask; its    *)
(* callers cut the result to a uint32.                                     *)
Extract(address, mask) ==
  (Value(address \cap mask) \div first_one_position(mask)) % Uint32

bank_bits(c) == popcount(c.bank_mask)
row_bits(c)  == popcount(c.row_mask)
col_bits(c)  == popcount(c.col_mask)

number_of_chips(c)     == c.sys.data_bus_width \div c.chip_width_bits
number_of_subarrays(c) == c.chip_width_bits
number_of_banks(c)     == pow2[bank_bits(c)] % Uint32

(* The product of two signed shifts; at row_bits + col_bits = 63 it        *)
(* overflows, and the build divides a positive or a negative number by 8.  *)
size_of_subarray_bytes(c) ==
  LET product == pow2[row_bits(c) + col_bits(c)] IN
  IF 2 * product < Uint64
  THEN {product \div 8}
  ELSE {product \div 8, Uint64 - product \div 8}

(* The cells a subarray gets: DRAMBank cuts rows and columns to a uint32,  *)
(* DRAMSubarray multiplies them in one.                                    *)
number_of_cells(c) ==
  ((pow2[row_bits(c)] % Uint32) * (pow2[col_bits(c)] % Uint32)) % Uint32

-----------------------------------------------------------------------------
(* validate(), by what it looks at *)

ChipsFit(c, space) ==
  /\ is_power_of_2(c.chip_width_bits)
  /\ c.chip_width_bits <= c.sys.data_bus_width
  /\ c.sys.data_bus_width % c.chip_width_bits = 0
  /\ number_of_chips(c) # 0
  /\ space % number_of_chips(c) = 0

MasksFit(c) ==
  /\ \A bits \in {bank_bits(c), row_bits(c), col_bits(c)} : bits \in 1 .. Width64 - 1
  /\ row_bits(c) + col_bits(c) < Width64
  /\ bank_bits(c) + row_bits(c) + col_bits(c) = c.sys.address_bus_width

CapacityFits(c, space, subarray) ==
  space \div number_of_chips(c) >= (number_of_banks(c) * subarray) % Uint64

Valid(c, space, subarray) ==
  /\ SystemValid(c.sys) /\ ChipsFit(c, space) /\ MasksFit(c)
  /\ CapacityFits(c, space, subarray)

-----------------------------------------------------------------------------

Init ==
  /\ config \in Inputs
  /\ verdict = "none" /\ asked = {} /\ ids = NoIds

(* The constructor: the object exists only if validate() returns true.     *)
Construct ==
  /\ verdict = "none"
  /\ \E space \in address_space_bytes(config.sys),
        subarray \in size_of_subarray_bytes(config) :
       verdict' = IF ValidationTraps(config.sys) THEN "died"
                  ELSE IF Valid(config, space, subarray) THEN "accepted"
                  ELSE "refused"
  /\ UNCHANGED <<config, asked, ids>>

(* A mask that covers bit 0 divides by zero. *)
DecodeTraps(c) ==
  \E mask \in {c.bank_mask, c.row_mask, c.col_mask} : first_one_position(mask) = 0

Decoded(c, address) ==
  [bank |-> Extract(address, c.bank_mask), row |-> Extract(address, c.row_mask),
   col |-> Extract(address, c.col_mask)]

(* get_bank_id, get_row_id and get_col_id of one address. *)
Decode(address) ==
  /\ verdict \in {"accepted", "decoded"}
  /\ verdict' = IF DecodeTraps(config) THEN "died" ELSE "decoded"
  /\ asked' = address
  /\ ids' = IF DecodeTraps(config) THEN NoIds ELSE Decoded(config, address)
  /\ UNCHANGED config

Next ==
  \/ Construct
  \/ \E address \in Addresses : Decode(address)

Spec == Init /\ [][Next]_vars

-----------------------------------------------------------------------------

TypeOK ==
  /\ config \in Config
  /\ verdict \in {"none", "refused", "accepted", "died", "decoded"}
  /\ asked \in Addresses \cup {{}}
  /\ ids \in [bank : 0 .. Uint32 - 1, row : 0 .. Uint32 - 1, col : 0 .. Uint32 - 1]

Accepted == verdict \in {"accepted", "decoded"}

(* What the tests of the two validate() come to, wraps included:           *)
(* powers of two all, a block whose bits fit in a uint32, a word inside    *)
(* the bus and the block, fields that make up the address by their number  *)
(* of bits alone, and at most eight chips, unless a product is cut to 0.   *)
Stated(c) ==
  LET s == c.sys
      chips == s.data_bus_width \div c.chip_width_bits
      Powers == {pow2[n] : n \in 0 .. 6}
  IN
  /\ \E n \in 0 .. Width32 - 4 :
       s.block_size = pow2[n] /\ pow2[n] >= s.word_size /\ pow2[n + 3] >= s.data_bus_width
  /\ s.data_bus_width \in Powers /\ s.word_size \in Powers
  /\ s.word_size * 8 <= s.data_bus_width
  /\ c.chip_width_bits \in Powers /\ c.chip_width_bits <= s.data_bus_width
  /\ {} \notin {c.bank_mask, c.row_mask, c.col_mask}
  /\ bank_bits(c) + row_bits(c) + col_bits(c) = s.address_bus_width
  /\ s.address_bus_width <= Width64 /\ chips <= pow2[s.address_bus_width]
  /\ chips <= 8 \/ row_bits(c) + col_bits(c) = 2 \/ bank_bits(c) >= Width32
  /\ s.address_bus_width = Width64 => bank_bits(c) >= Width32

(* validate() accepts exactly that (system_config.hpp:92-127,              *)
(* dram_config.cpp:47-115); at the widest address a build may also refuse. *)
AcceptedExactly ==
  /\ Accepted => Stated(config)
  /\ verdict = "refused" => ~ Stated(config) \/ config.sys.address_bus_width = Width64

(* No configuration that passes gives every address of its bus fields, and *)
(* different addresses different ones: some field covers bit 0 and decoding*)
(* dies, or none does and addresses are mixed up (dram_config.cpp:117-121).*)
Works(c) ==
  LET Space == SUBSET (0 .. c.sys.address_bus_width - 1) IN
  /\ ~ DecodeTraps(c)
  /\ \A a, b \in Space : Decoded(c, a) = Decoded(c, b) => a = b

NoMappingWorks == Accepted => ~ Works(config)

(* A field all ones becomes a number that no bank, row or column has:      *)
(* dividing by a position leaves more than the bits spell, so the highest  *)
(* bank index is behind the vector eq_class.                               *)
Low == 0 .. Width32 - 1
TopIndexOutOfRange ==
  verdict = "decoded" =>
    /\ config.bank_mask \subseteq asked \cap Low => ids.bank >= pow2[bank_bits(config)]
    /\ config.row_mask \subseteq asked \cap Low => ids.row >= pow2[row_bits(config)]
    /\ config.col_mask \subseteq asked \cap Low => ids.col >= pow2[col_bits(config)]

(* All the same two addresses below 2^32, as DRAM::access takes them, that *)
(* differ in a field get different numbers for it.                         *)
FieldsToldApart ==
  [][ verdict = "decoded" /\ verdict' = "decoded" /\ asked \cup asked' \subseteq Low =>
      /\ ids.bank = ids'.bank => asked \cap config.bank_mask = asked' \cap config.bank_mask
      /\ ids.row = ids'.row => asked \cap config.row_mask = asked' \cap config.row_mask
      /\ ids.col = ids'.col => asked \cap config.col_mask = asked' \cap config.col_mask
    ]_vars

(* The cells that the banks of all chips allocate hold eight bits for each *)
(* address, unless a number of banks or a size of a subarray was cut to 32 *)
(* bits; then there are none (dram_config.cpp:155, dram_bank.cpp:35,       *)
(* dram_array.cpp:30).                                                     *)
MemoryIsThere ==
  Accepted =>
    LET cells == number_of_chips(config) * number_of_subarrays(config)
                   * number_of_banks(config) * number_of_cells(config)
    IN IF bank_bits(config) < Width32 /\ row_bits(config) + col_bits(config) < Width32
       THEN cells >= 8 * pow2[config.sys.address_bus_width]
       ELSE cells = 0

(* The derived sizes of a valid system divide without remainder and by     *)
(* nothing that is 0, but for the blocks: nothing says that one fits the   *)
(* address space, and if it does not there are none and the bits left for  *)
(* tag and index wrap (system_config.hpp:59-89).                           *)
DerivedSizes ==
  Accepted =>
    LET s == config.sys IN
    /\ transfers_per_block(s) * s.data_bus_width = 8 * s.block_size
    /\ words_per_block(s) * s.word_size = s.block_size
    /\ \A space \in address_space_bytes(s) \ {0, 1} :
         IF s.block_size <= space
         THEN /\ total_blocks(s, space) * s.block_size = space
              /\ tag_index_bits(s) + offset_bits(s) = s.address_bus_width
         ELSE /\ total_blocks(s, space) = 0
              /\ tag_index_bits(s) > s.address_bus_width

=============================================================================
