----------------------------- MODULE MCDRAMBank -----------------------------
(* TLC instance of DRAMBank: addresses run one past the last row and the    *)
(* last column, so that calls throw in every state.                        *)
EXTENDS DRAMBank

MCRowAddr == 0 .. Rows
MCColAddr == 0 .. Cols
=============================================================================
