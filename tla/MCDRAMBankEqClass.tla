------------------------- MODULE MCDRAMBankEqClass -------------------------
(* TLC instance of DRAMBankEqClass: two chips of two data pins, one row    *)
(* and one column too many, data one line too short and one too long.      *)
EXTENDS DRAMBankEqClass

MCRowAddr == 0 .. Rows
MCColAddr == 0 .. Cols
MCSizes == {0, BusWidth - 1, BusWidth, BusWidth + 1}
=============================================================================
