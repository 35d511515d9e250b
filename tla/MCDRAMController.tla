-------------------------- MODULE MCDRAMController --------------------------
(* TLC instances of DRAMController.  How open_row and transfer_data end is  *)
(* what DRAMBankEqClass shows of them: open_row does not return, and the    *)
(* empty data of the dispatcher does not match the bus width.              *)
EXTENDS DRAMController
=============================================================================
