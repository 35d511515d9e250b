---------------------------- MODULE DRAMSubarray ----------------------------
(***************************************************************************)
(* One dram::DRAMSubarray under any sequence of calls of its four public   *)
(* methods.  A call is one step: the class has no threads of its own, and  *)
(* DRAMBank calls it from one thread at a time.                            *)
(***************************************************************************)
EXTENDS SubarrayOps

CONSTANTS
  RowAddr,   \* row addresses callers pass, some of them too large
  ColAddr    \* column addresses callers pass, some of them too large

ASSUME AddrAssumption == RowAddr \subseteq Nat /\ ColAddr \subseteq Nat

VARIABLES
  arr,   \* the subarray
  ret    \* what the last call returned: its result and, of a read, "out"

vars == <<arr, ret>>

Returned(call, ok, out) == [call |-> call, ok |-> ok, out |-> out]

TypeOK ==
  /\ arr \in Subarray
  /\ ret \in [call : {"new", "select", "close", "store", "load"},
              ok : BOOLEAN, out : Cell]

Init ==
  /\ arr = NewSubarray
  /\ ret = Returned("new", TRUE, 0)

Precharge ==
  /\ arr' = Precharged(arr)
  /\ ret' = Returned("close", TRUE, 0)

Activate(row_addr) ==
  \/ /\ CanActivate(arr, row_addr)
     /\ arr' = Activated(arr, row_addr)
     /\ ret' = Returned("select", TRUE, 0)
  \/ /\ ~ CanActivate(arr, row_addr)
     /\ ret' = Returned("select", FALSE, 0)
     /\ UNCHANGED arr

Read(col_addr) ==
  /\ IF CanRead(arr, col_addr)
     THEN ret' = Returned("load", TRUE, arr.row_buffer[col_addr])
     ELSE ret' = Returned("load", FALSE, 0)
  /\ UNCHANGED arr

Write(col_addr, data) ==
  \/ /\ CanWrite(arr, col_addr)
     /\ arr' = Written(arr, col_addr, data)
     /\ ret' = Returned("store", TRUE, 0)
  \/ /\ ~ CanWrite(arr, col_addr)
     /\ ret' = Returned("store", FALSE, 0)
     /\ UNCHANGED arr

Next ==
  \/ Precharge
  \/ \E row_addr \in RowAddr : Activate(row_addr)
  \/ \E col_addr \in ColAddr : Read(col_addr)
  \/ \E col_addr \in ColAddr, data \in Cell : Write(col_addr, data)

Spec == Init /\ [][Next]_vars

-----------------------------------------------------------------------------

(* The sense amplifiers of a closed subarray hold the row it last had open, *)
(* as its cells do: so the read that read() allows, on a closed subarray,  *)
(* never returns a value that a later precharge or activate overtook.      *)
ClosedBufferMatchesRow == BufferMatchesRow(arr)

(* The subarray keeps the promise of CellArray: opening, writing back and  *)
(* refused calls lose or move no cell, a write changes the one cell it     *)
(* addresses, and a successful read returns what that cell holds, over any *)
(* number of open / write / precharge / re-open rounds.                    *)
Cells == INSTANCE CellArray WITH
           mem <- Contents(arr), sel <- arr.open_row, Zero <- 0

ImplementsCellArray == Cells!Spec

=============================================================================
