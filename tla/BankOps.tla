------------------------------ MODULE BankOps ------------------------------
(***************************************************************************)
(* What one call of a method of dram::DRAMBank (dram_bank.cpp) does to the *)
(* subarrays of the bank.  Both methods walk the subarrays in index order  *)
(* and throw DRAMError at the first one that refuses; the subarrays before *)
(* it keep what was done to them, those behind it are not reached.         *)
(***************************************************************************)
EXTENDS SubarrayOps

CONSTANT Width   \* subarrays per bank, DRAMConfig::number_of_subarrays()

ASSUME WidthAssumption == Width \in Nat \ {0}

Array == 0 .. Width - 1

Bank == [Array -> Subarray]
Word == [Array -> Cell]      \* one transfer_data span: one bit per subarray

ZeroWord == [i \in Array |-> 0]
NewBank  == [i \in Array |-> NewSubarray]

-----------------------------------------------------------------------------

(* The loops get as far as subarray i, included, without a refusal. *)
OpensThrough(b, r, i) == \A j \in 0 .. i : CanActivate(Precharged(b[j]), r)
ReadsThrough(b, c, i) == \A j \in 0 .. i : CanRead(b[j], c)
WritesThrough(b, c, i) == \A j \in 0 .. i : CanWrite(b[j], c)

(* The call returns instead of throwing. *)
OpenRowOk(b, r) == OpensThrough(b, r, Width - 1)
ReadOk(b, c)    == ReadsThrough(b, c, Width - 1)
WriteOk(b, c)   == WritesThrough(b, c, Width - 1)

(* Mutants: the loop stops one subarray short; the loop goes on behind a   *)
(* subarray that refused; read() assigns its result before its checks.     *)
RowOpenedShort(b, r) ==
  [i \in Array |-> IF r < Rows /\ i < Width - 1
                   THEN Activated(Precharged(b[i]), r)
                   ELSE b[i]]
WordWrittenPastRefusal(b, c, w) ==
  [i \in Array |-> IF CanWrite(b[i], c) THEN Written(b[i], c, w[i]) ELSE b[i]]
WordReadBeforeCheck(b, c, w) ==
  [i \in Array |-> IF ReadsThrough(b, c, i - 1) /\ c < Cols
                   THEN b[i].row_buffer[c] ELSE w[i]]

(* open_row(r): a reached subarray is precharged, then activated; the one  *)
(* that cannot be activated stays precharged and ends the loop.            *)
RowOpened(b, r) ==
  [i \in Array |-> IF ~ OpensThrough(b, r, i - 1) THEN b[i]
                   ELSE IF CanActivate(Precharged(b[i]), r)
                        THEN Activated(Precharged(b[i]), r)
                        ELSE Precharged(b[i])]

(* transfer_data(c, true, w): bit i of w goes to subarray i. *)
WordWritten(b, c, w) ==
  [i \in Array |-> IF WritesThrough(b, c, i) THEN Written(b[i], c, w[i])
                                             ELSE b[i]]

(* transfer_data(c, false, w): what the caller's span w holds afterwards.  *)
WordRead(b, c, w) ==
  [i \in Array |-> IF ReadsThrough(b, c, i) THEN b[i].row_buffer[c] ELSE w[i]]

(* The bank as rows of words. *)
BankContents(b) ==
  [r \in Row |-> [c \in Col |-> [i \in Array |-> Contents(b[i])[r][c]]]]

=============================================================================
