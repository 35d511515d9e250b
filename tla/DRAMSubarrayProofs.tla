------------------------- MODULE DRAMSubarrayProofs -------------------------
(***************************************************************************)
(* Proofs about one subarray, for every geometry, cell type and set of     *)
(* addresses callers may pass.                                             *)
(***************************************************************************)
EXTENDS DRAMSubarray, TLAPS

(* What the helpers of SubarrayOps preserve. *)
LEMMA NewSubarrayType == NewSubarray \in Subarray
  BY GeometryAssumption DEF NewSubarray, Subarray, Row, Col

(* The helpers keep a subarray a subarray and the coherence of its buffer. *)
LEMMA PrechargedLemma ==
  ASSUME NEW a \in Subarray, BufferMatchesRow(a)
  PROVE  /\ Precharged(a) \in Subarray
         /\ BufferMatchesRow(Precharged(a))
         /\ ~ Precharged(a).is_word_open
         /\ Precharged(a).open_row = a.open_row
         /\ Contents(Precharged(a)) = Contents(a)
  BY DEF Precharged, Subarray, BufferMatchesRow, Contents

LEMMA ActivatedLemma ==
  ASSUME NEW a \in Subarray, NEW r \in Row, ~ a.is_word_open
  PROVE  /\ Activated(a, r) \in Subarray
         /\ BufferMatchesRow(Activated(a, r))
         /\ Activated(a, r).open_row = r
         /\ Activated(a, r).is_word_open
         /\ Contents(Activated(a, r)) = Contents(a)
  BY DEF Activated, Subarray, BufferMatchesRow, Contents

LEMMA WrittenLemma ==
  ASSUME NEW a \in Subarray, NEW c \in Col, NEW v \in Cell, a.is_word_open
  PROVE  /\ Written(a, c, v) \in Subarray
         /\ BufferMatchesRow(Written(a, c, v))
         /\ Written(a, c, v).open_row = a.open_row
         /\ Written(a, c, v).is_word_open
         /\ Contents(Written(a, c, v))
              = [Contents(a) EXCEPT ![a.open_row][c] = v]
  BY DEF Written, Subarray, BufferMatchesRow, Contents

LEMMA ReadLemma ==
  ASSUME NEW a \in Subarray, NEW c \in Col, ~ a.is_word_open,
         BufferMatchesRow(a)
  PROVE  /\ a.row_buffer[c] \in Cell
         /\ a.row_buffer[c] = Contents(a)[a.open_row][c]
  BY DEF Subarray, BufferMatchesRow, Contents

-----------------------------------------------------------------------------

(* The inductive invariant: types, and the coherence of the closed buffer. *)
IInv == TypeOK /\ ClosedBufferMatchesRow

(* An address below rows (cols) is a row (column) of the subarray. *)
LEMMA AddrInRange ==
  /\ \A r \in RowAddr : r < Rows => r \in Row
  /\ \A c \in ColAddr : c < Cols => c \in Col
  BY GeometryAssumption, AddrAssumption DEF Row, Col

(* A refused call reports failure and leaves the subarray as it is. *)
LEMMA RefusedLemma ==
  ASSUME IInv, arr' = arr,
         NEW call \in {"select", "store", "load"},
         ret' = Returned(call, FALSE, 0)
  PROVE  IInv'
<1>1. ret' \in [call : {"new", "select", "close", "store", "load"},
                ok : BOOLEAN, out : Cell]
  BY GeometryAssumption DEF Returned
<1>2. BufferMatchesRow(arr)'
  BY DEF IInv, ClosedBufferMatchesRow, BufferMatchesRow
<1>3. QED
  BY <1>1, <1>2 DEF IInv, TypeOK, ClosedBufferMatchesRow

-----------------------------------------------------------------------------

LEMMA InitIInv == Init => IInv
<1> SUFFICES ASSUME Init PROVE IInv
  OBVIOUS
<1>1. ret \in [call : {"new", "select", "close", "store", "load"},
               ok : BOOLEAN, out : Cell]
  BY GeometryAssumption DEF Init, Returned
<1>2. BufferMatchesRow(NewSubarray)
  BY GeometryAssumption DEF BufferMatchesRow, NewSubarray, Row
<1>3. QED
  BY <1>1, <1>2, NewSubarrayType
     DEF Init, IInv, TypeOK, ClosedBufferMatchesRow

LEMMA NextIInv == IInv /\ [Next]_vars => IInv'
<1> SUFFICES ASSUME IInv, [Next]_vars PROVE IInv'
  OBVIOUS
<1>a. 0 \in Cell /\ arr \in Subarray /\ BufferMatchesRow(arr)
  BY GeometryAssumption DEF IInv, TypeOK, ClosedBufferMatchesRow
<1>1. CASE Precharge
  BY <1>1, <1>a, PrechargedLemma
     DEF Precharge, IInv, TypeOK, ClosedBufferMatchesRow, Returned
<1>2. ASSUME NEW r \in RowAddr, Activate(r) PROVE IInv'
  <2>1. CASE CanActivate(arr, r)
    <3>1. r \in Row /\ ~ arr.is_word_open
      BY <2>1, AddrInRange DEF CanActivate
    <3>2. arr' = Activated(arr, r) /\ ret' = Returned("select", TRUE, 0)
      BY <1>2, <2>1 DEF Activate
    <3>3. QED
      BY <3>1, <3>2, <1>a, ActivatedLemma
         DEF IInv, TypeOK, ClosedBufferMatchesRow, Returned
  <2>2. CASE ~ CanActivate(arr, r)
    BY <1>2, <2>2, RefusedLemma DEF Activate
  <2>3. QED
    BY <2>1, <2>2
<1>3. ASSUME NEW c \in ColAddr, Read(c) PROVE IInv'
  <2>1. CASE CanRead(arr, c)
    <3>1. arr.row_buffer[c] \in Cell
      BY <2>1, <1>a, AddrInRange, ReadLemma DEF CanRead
    <3>2. arr' = arr /\ ret' = Returned("load", TRUE, arr.row_buffer[c])
      BY <1>3, <2>1 DEF Read
    <3>3. BufferMatchesRow(arr)'
      BY <3>2, <1>a DEF BufferMatchesRow
    <3>4. QED
      BY <3>1, <3>2, <3>3, <1>a
         DEF IInv, TypeOK, ClosedBufferMatchesRow, Returned
  <2>2. CASE ~ CanRead(arr, c)
    BY <1>3, <2>2, RefusedLemma DEF Read
  <2>3. QED
    BY <2>1, <2>2
<1>4. ASSUME NEW c \in ColAddr, NEW v \in Cell, Write(c, v) PROVE IInv'
  <2>1. CASE CanWrite(arr, c)
    <3>1. c \in Col /\ arr.is_word_open
      BY <2>1, AddrInRange DEF CanWrite
    <3>2. arr' = Written(arr, c, v) /\ ret' = Returned("store", TRUE, 0)
      BY <1>4, <2>1 DEF Write
    <3>3. QED
      BY <3>1, <3>2, <1>a, WrittenLemma
         DEF IInv, TypeOK, ClosedBufferMatchesRow, Returned
  <2>2. CASE ~ CanWrite(arr, c)
    BY <1>4, <2>2, RefusedLemma DEF Write
  <2>3. QED
    BY <2>1, <2>2
<1>5. CASE UNCHANGED vars
  BY <1>5 DEF vars, IInv, TypeOK, ClosedBufferMatchesRow
<1>6. QED
  BY <1>1, <1>2, <1>3, <1>4, <1>5 DEF Next

(* Every reachable state is well typed (dram_array.hpp:77-83). *)
THEOREM SubarrayTyped == Spec => []TypeOK
<1>1. IInv => TypeOK
  BY DEF IInv
<1>2. QED
  BY InitIInv, NextIInv, <1>1, PTL DEF Spec

(* The sense amplifiers of a closed subarray agree with the row they wrote  *)
(* back, so read() (dram_array.cpp:72-78) is never stale.                  *)
THEOREM SubarrayBufferCoherent == Spec => []ClosedBufferMatchesRow
<1>1. IInv => ClosedBufferMatchesRow
  BY DEF IInv
<1>2. QED
  BY InitIInv, NextIInv, <1>1, PTL DEF Spec

-----------------------------------------------------------------------------

LEMMA InitRefines == Init => Cells!Init
  BY GeometryAssumption
     DEF Init, Cells!Init, NewSubarray, Contents, Row, Returned

LEMMA NextRefines == IInv /\ [Next]_vars => [Cells!Next]_Cells!vars
<1> SUFFICES ASSUME IInv, [Next]_vars PROVE [Cells!Next]_Cells!vars
  OBVIOUS
<1>a. arr \in Subarray /\ BufferMatchesRow(arr)
  BY DEF IInv, TypeOK, ClosedBufferMatchesRow
<1>1. CASE Precharge
  <2>1. Cells!Close
    BY <1>1, <1>a, PrechargedLemma DEF Precharge, Cells!Close, Returned
  <2>2. QED
    BY <2>1 DEF Cells!Next
<1>2. ASSUME NEW r \in RowAddr, Activate(r) PROVE Cells!Next
  <2>1. CASE CanActivate(arr, r)
    <3>1. r \in Row /\ ~ arr.is_word_open
      BY <2>1, AddrInRange DEF CanActivate
    <3>2. Cells!Select(r)
      BY <1>2, <2>1, <3>1, <1>a, ActivatedLemma
         DEF Activate, Cells!Select, Returned
    <3>3. QED
      BY <3>1, <3>2 DEF Cells!Next
  <2>2. CASE ~ CanActivate(arr, r)
    <3>1. Cells!Refuse("select")
      BY <1>2, <2>2 DEF Activate, Cells!Refuse, Returned
    <3>2. QED
      BY <3>1 DEF Cells!Next
  <2>3. QED
    BY <2>1, <2>2
<1>3. ASSUME NEW c \in ColAddr, Read(c) PROVE Cells!Next
  <2>1. CASE CanRead(arr, c)
    <3>1. c \in Col /\ ~ arr.is_word_open
      BY <2>1, AddrInRange DEF CanRead
    <3>2. Cells!Load(c)
      BY <1>3, <2>1, <3>1, <1>a, ReadLemma DEF Read, Cells!Load, Returned
    <3>3. QED
      BY <3>1, <3>2 DEF Cells!Next
  <2>2. CASE ~ CanRead(arr, c)
    <3>1. Cells!Refuse("load")
      BY <1>3, <2>2 DEF Read, Cells!Refuse, Returned
    <3>2. QED
      BY <3>1 DEF Cells!Next
  <2>3. QED
    BY <2>1, <2>2
<1>4. ASSUME NEW c \in ColAddr, NEW v \in Cell, Write(c, v) PROVE Cells!Next
  <2>1. CASE CanWrite(arr, c)
    <3>1. c \in Col /\ arr.is_word_open
      BY <2>1, AddrInRange DEF CanWrite
    <3>2. Cells!Store(c, v)
      BY <1>4, <2>1, <3>1, <1>a, WrittenLemma
         DEF Write, Cells!Store, Returned
    <3>3. QED
      BY <3>1, <3>2 DEF Cells!Next
  <2>2. CASE ~ CanWrite(arr, c)
    <3>1. Cells!Refuse("store")
      BY <1>4, <2>2 DEF Write, Cells!Refuse, Returned
    <3>2. QED
      BY <3>1 DEF Cells!Next
  <2>3. QED
    BY <2>1, <2>2
<1>5. CASE UNCHANGED vars
  BY <1>5 DEF vars, Cells!vars
<1>6. QED
  BY <1>1, <1>2, <1>3, <1>4, <1>5 DEF Next

(* The subarray implements CellArray: no sequence of precharge, activate,  *)
(* read and write calls loses or moves a cell (dram_array.cpp:40-86).      *)
THEOREM SubarrayImplementsCellArray == Spec => ImplementsCellArray
<1>1. IInv /\ [Next]_vars => [Cells!Next]_Cells!vars
  BY NextRefines
<1>2. QED
  BY InitIInv, NextIInv, InitRefines, <1>1, PTL
     DEF Spec, ImplementsCellArray, Cells!Spec

=============================================================================
