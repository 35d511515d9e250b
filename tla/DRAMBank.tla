------------------------------ MODULE DRAMBank ------------------------------
(***************************************************************************)
(* One dram::DRAMBank under any sequence of open_row and transfer_data     *)
(* calls, good and bad addresses alike, and callers that go on using the   *)
(* bank after it threw.  Calls do not overlap: the dispatcher serialises   *)
(* the users of a bank (module DRAMDispatcher), so a call is one step.     *)
(***************************************************************************)
EXTENDS BankOps

CONSTANTS
  RowAddr,   \* row addresses callers pass, some of them too large
  ColAddr    \* column addresses callers pass, some of them too large

ASSUME AddrAssumption == RowAddr \subseteq Nat /\ ColAddr \subseteq Nat

VARIABLES
  arrays,  \* the subarrays
  ret      \* the last call: its address, did it return (ok) or throw, and
           \* the caller's span before (given) and after (data) the call

vars == <<arrays, ret>>

Returned(call, addr, ok, given, data) ==
  [call |-> call, addr |-> addr, ok |-> ok, given |-> given, data |-> data]

TypeOK ==
  /\ arrays \in Bank
  /\ ret \in [call : {"new", "select", "store", "load"},
              addr : RowAddr \cup ColAddr \cup {0},
              ok : BOOLEAN, given : Word, data : Word]

Init ==
  /\ arrays = NewBank
  /\ ret = Returned("new", 0, TRUE, ZeroWord, ZeroWord)

OpenRow(row_addr) ==
  /\ arrays' = RowOpened(arrays, row_addr)
  /\ ret' = Returned("select", row_addr, OpenRowOk(arrays, row_addr),
                     ZeroWord, ZeroWord)

TransferWrite(col_addr, data) ==
  /\ arrays' = WordWritten(arrays, col_addr, data)
  /\ ret' = Returned("store", col_addr, WriteOk(arrays, col_addr), data, data)

TransferRead(col_addr, data) ==
  /\ ret' = Returned("load", col_addr, ReadOk(arrays, col_addr),
                     data, WordRead(arrays, col_addr, data))
  /\ UNCHANGED arrays

Next ==
  \/ \E row_addr \in RowAddr : OpenRow(row_addr)
  \/ \E col_addr \in ColAddr, data \in Word : TransferWrite(col_addr, data)
  \/ \E col_addr \in ColAddr, data \in Word : TransferRead(col_addr, data)

Spec == Init /\ [][Next]_vars

-----------------------------------------------------------------------------

(* The subarrays of a bank always stand at the same row, also after an     *)
(* open_row that threw half way (dram_bank.cpp:43-54).                     *)
SameRow == \A i, j \in Array : arrays[i].open_row = arrays[j].open_row

(* An open_row that throws closes the first subarray and no other, so only *)
(* the first can lag behind: if any subarray is open, all but the first    *)
(* are.                                                                    *)
OnlyFirstLags ==
  \A i, j \in Array :
    arrays[i].is_word_open /\ j # 0 => arrays[j].is_word_open

(* The lockstep of the subarrays, whatever calls threw before. *)
Lockstep == SameRow /\ OnlyFirstLags

(* A transfer that throws while reading has overwritten at most the first  *)
(* element of the caller's span (dram_bank.cpp:65).                        *)
ThrowingReadKeepsRest ==
  ret.call = "load" /\ ~ ret.ok =>
    \A i \in Array \ {0} : ret.data[i] = ret.given[i]

(* The bank is a memory of words: a write that returns stores the whole    *)
(* word in the selected row, a write that throws stores no bit of it, a    *)
(* read that returns yields one whole word, and opening rows, with or      *)
(* without an exception, loses none.                                       *)
Words == INSTANCE CellArray WITH
           Cell <- Word, Zero <- ZeroWord,
           mem <- BankContents(arrays), sel <- arrays[0].open_row,
           ret <- [call |-> ret.call, ok |-> ret.ok,
                   out |-> IF ret.call = "load" /\ ret.ok
                           THEN ret.data ELSE ZeroWord]

ImplementsWordArray == Words!Spec

(* A bank of more than one subarray never gives back what it was given: a  *)
(* read that returns does so before the first open_row that returned, as   *)
(* read() refuses open subarrays (dram_array.cpp:73) and no sequence of    *)
(* calls closes them all again, and yields zeros.                          *)
NothingReadBack ==
  Width >= 2 /\ ret.call = "load" /\ ret.ok => ret.data = ZeroWord

=============================================================================
