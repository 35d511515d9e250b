-------------------------- MODULE MCDRAMDispatcher --------------------------
(* TLC instances of DRAMDispatcher. *)
EXTENDS DRAMDispatcher, TLC

Symmetry == Permutations(Client) \cup Permutations(BankId) \cup Permutations(RowId)
=============================================================================
