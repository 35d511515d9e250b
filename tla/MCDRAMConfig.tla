---------------------------- MODULE MCDRAMConfig ----------------------------
(* TLC instance of DRAMConfig: every kind of wrong system with one mapping, *)
(* and a few right ones with every kind of mapping.                        *)
EXTENDS DRAMConfig

Systems == [address_bus_width : {0, 3, 6, 12, 13, 14},
            data_bus_width : {0, 8, 16, 24, 64, 128},
            word_size : {0, 1, 3, 4, 8, 16}, block_size : {0, 1, 2, 3, 8, 64, 128, 256}]
Sound == [address_bus_width : 3 .. 13, data_bus_width : {8, 64},
          word_size : {1}, block_size : {8, 16}]

Masks == { <<{0}, {1}, {2}>>, <<{2}, {1}, {0}>>, <<{1}, {2}, {3}>>, <<{3}, {3}, {3}>>,
           <<{}, {1}, {2, 3}>>, <<{5}, {}, {1}>>, <<{5, 4}, {2}, {}>>,
           <<{1, 2}, {3, 4}, {5, 6}>>, <<{0, 1}, {2, 3}, {4, 5}>>,
           <<{1, 3}, {3, 5}, {5, 6}>>, <<{4, 5, 6}, {1, 2}, {3}>>,
           <<{2}, {1, 11}, {3, 4, 5}>>, <<{10, 11}, {6, 12}, {1, 2}>>,
           <<{12}, 2 .. 6, 7 .. 11>>, <<{12}, 1 .. 6, 7 .. 12>>,
           <<{12}, 1 .. 6, 7 .. 11>>, <<{1}, 1 .. 12, {2}>>, <<1 .. 9, {10}, {11}>>,
           <<1 .. 10, {11}, {12}>>, <<2 .. 12, {1}, {2}>> }

Mapped(systems, chips, masks) ==
  { [sys |-> s, chip_width_bits |-> w, bank_mask |-> m[1], row_mask |-> m[2],
     col_mask |-> m[3]] : s \in systems, w \in chips, m \in masks }

MCInputs ==
  Mapped(Systems, {8}, {<<{1, 2}, {3, 4}, {5, 6}>>, <<{1}, {2}, {3}>>})
    \cup Mapped(Sound, {0, 1, 3, 4, 8, 16, 64}, Masks)

MCAddresses ==
  {{}, {0}, {1}, {2}, {1, 3}, {3, 5}, 1 .. 6, 0 .. 9, 7 .. 12, {11}, {12}, 0 .. 12}
=============================================================================
