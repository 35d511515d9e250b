--------------------------- MODULE MCDRAMSubarray ---------------------------
(* TLC instance of DRAMSubarray: addresses run one past the last row and    *)
(* the last column.                                                        *)
EXTENDS DRAMSubarray

MCRowAddr == 0 .. Rows
MCColAddr == 0 .. Cols
=============================================================================
