----------------------- MODULE DRAMBankEqClassProofs -----------------------
(***************************************************************************)
(* Proofs about a bank equivalence class, for every number of chips and    *)
(* pins, geometry, and set of addresses and data lengths.                  *)
(***************************************************************************)
EXTENDS DRAMBankEqClass, FiniteSetTheorems, TLAPS

(* Line i of the data bus is line i % Width of chip i \div Width.          *)
LEMMA LineOfChip ==
  ASSUME NEW i \in 0 .. BusWidth - 1
  PROVE  /\ i \div Width \in Chip /\ i % Width \in Array
         /\ (i \div Width) * Width + (i % Width) = i
<1>1. Width \in Nat /\ Width > 0 /\ BusWidth \in Nat /\ i \in Nat
  BY WidthAssumption, EqClassAssumption
<1>2. /\ i = Width * (i \div Width) + (i % Width)
      /\ i % Width \in 0 .. Width - 1 /\ i \div Width \in Nat
  BY <1>1
<1>3. BusWidth = Width * Chips /\ Chips \in Nat
  BY <1>1, EqClassAssumption DEF Chips
<1>4. ASSUME NEW q \in Nat, NEW r \in 0 .. Width - 1, i = Width * q + r
      PROVE  q <= Chips - 1
  <2>1. CASE q >= Chips
    <3>1. Width * q >= Width * Chips /\ Width * q \in Nat
      BY <2>1, <1>1, <1>3
    <3>2. i >= Width * q
      BY <3>1, <1>4
    <3>3. i < Width * Chips
      BY <1>1, <1>3
    <3>4. QED
      BY <3>1, <3>2, <3>3, <1>1, <1>3
  <2>2. QED
    BY <2>1, <1>3
<1>5. i \div Width <= Chips - 1
  BY <1>2, <1>4
<1>6. QED
  BY <1>1, <1>2, <1>3, <1>5 DEF Chip, Array

LEMMA SomeChip == Chips \in Nat /\ 0 \in Chip /\ Chips - 1 \in Chip
<1>1. BusWidth - 1 \in 0 .. BusWidth - 1
  BY WidthAssumption, EqClassAssumption
<1>2. Chip # {} /\ Chips \in Nat
  BY <1>1, LineOfChip, WidthAssumption, EqClassAssumption DEF Chips
<1>3. QED
  BY <1>2 DEF Chip

LEMMA ArrayBounds ==
  /\ 0 \in Array /\ Width - 1 \in Array
  /\ \A i \in Array : /\ 0 \in 0 .. i
                      /\ i # 0 => 0 \in 0 .. i - 1
                      /\ \A j \in 0 .. i : j \in Array
                      /\ \A j \in 0 .. i - 1 : j \in Array
  /\ 0 .. (0 - 1) = {}
  BY WidthAssumption DEF Array

-----------------------------------------------------------------------------
(* What calls do to a bank nothing was ever done to. *)

LEMMA NewBankType == NewBank \in Bank
  BY GeometryAssumption DEF NewBank, Bank, NewSubarray, Subarray, Row

LEMMA NewPrecharged == Precharged(NewSubarray) = NewSubarray
  BY DEF Precharged, NewSubarray

LEMMA NewRefusesWrites ==
  ASSUME NEW c, NEW w
  PROVE  ~ WriteOk(NewBank, c) /\ WordWritten(NewBank, c, w) = NewBank
<1>1. \A j \in Array : ~ CanWrite(NewBank[j], c)
  BY DEF CanWrite, NewBank, NewSubarray
<1>2. \A i \in Array : ~ WritesThrough(NewBank, c, i)
  BY <1>1, ArrayBounds DEF WritesThrough
<1>3. QED
  BY <1>2, ArrayBounds DEF WriteOk, WordWritten, NewBank

LEMMA NewReadsZero ==
  ASSUME NEW c \in ColAddr, NEW w, NEW i \in Array
  PROVE  /\ ReadOk(NewBank, c) <=> c < Cols
         /\ WordRead(NewBank, c, w)[i] = IF c < Cols THEN 0 ELSE w[i]
<1>1. c \in Nat /\ (c < Cols => c \in Col)
  BY GeometryAssumption, EqClassAssumption DEF Col
<1>2. \A j \in Array : CanRead(NewBank[j], c) <=> c < Cols
  BY DEF CanRead, NewBank, NewSubarray
<1>3. \A k \in Array : ReadsThrough(NewBank, c, k) <=> c < Cols
  BY <1>2, ArrayBounds DEF ReadsThrough
<1>4. c < Cols => NewBank[i].row_buffer[c] = 0
  BY <1>1 DEF NewBank, NewSubarray
<1>5. QED
  BY <1>3, <1>4, ArrayBounds DEF ReadOk, WordRead

LEMMA NewOpens ==
  ASSUME NEW r \in Row
  PROVE  /\ OpenRowOk(NewBank, r)
         /\ RowOpened(NewBank, r) \in Bank
         /\ \A i \in Array : /\ RowOpened(NewBank, r)[i].is_word_open
                             /\ RowOpened(NewBank, r)[i].open_row = r
<1>1. \A j \in Array : CanActivate(Precharged(NewBank[j]), r)
  BY NewPrecharged, GeometryAssumption DEF NewBank, CanActivate, NewSubarray, Row
<1>2. \A i \in Array : OpensThrough(NewBank, r, i) /\ OpensThrough(NewBank, r, i - 1)
  BY <1>1, ArrayBounds DEF OpensThrough
<1>3. RowOpened(NewBank, r) = [i \in Array |-> Activated(NewSubarray, r)]
  BY <1>1, <1>2, NewPrecharged DEF RowOpened, NewBank
<1>4. NewSubarray \in Subarray
  BY GeometryAssumption DEF NewSubarray, Subarray, Row
<1>5. /\ Activated(NewSubarray, r) \in Subarray
      /\ Activated(NewSubarray, r).is_word_open
      /\ Activated(NewSubarray, r).open_row = r
  BY <1>4 DEF Activated, Subarray
<1>6. QED
  BY <1>2, <1>3, <1>5, ArrayBounds DEF OpenRowOk, Bank

LEMMA NewRefusesRow ==
  ASSUME NEW r, ~ (r < Rows)
  PROVE  ~ OpenRowOk(NewBank, r) /\ RowOpened(NewBank, r) = NewBank
<1>1. \A j \in Array : ~ CanActivate(Precharged(NewBank[j]), r)
  BY DEF CanActivate
<1>2. \A i \in Array : ~ OpensThrough(NewBank, r, i)
  BY <1>1, ArrayBounds DEF OpensThrough
<1>3. \A i \in Array : Precharged(NewBank[i]) = NewBank[i]
  BY NewPrecharged DEF NewBank
<1>4. RowOpened(NewBank, r) = [i \in Array |-> NewBank[i]]
  BY <1>1, <1>3 DEF RowOpened
<1>5. QED
  BY <1>2, <1>4, ArrayBounds DEF OpenRowOk, NewBank

-----------------------------------------------------------------------------

Blank == [k \in Chip |-> NewBank]
IInv == TypeOK /\ AliveMeansBlank /\ CrashedWithRowOpen

LEMMA InitIInv == Init => IInv
  BY NewBankType DEF Init, IInv, TypeOK, AliveMeansBlank, CrashedWithRowOpen, Returned

(* open_row refuses a bad row at the first chip, and opens a good one in   *)
(* every chip before it runs off the vector.                               *)
LEMMA OpenRowIInv ==
  ASSUME IInv, NEW r \in RowAddr, OpenRow(r)
  PROVE  IInv'
<1>1. banks = Blank
  BY DEF OpenRow, IInv, AliveMeansBlank, Blank
<1>2. \A k \in Chip : /\ k - 1 \in Int
                      /\ \A j \in 0 .. k : j \in Chip
                      /\ \A j \in 0 .. k - 1 : j \in Chip
  BY SomeChip DEF Chip
<1>3. CASE r < Rows
  <2>1. r \in Row
    BY <1>3, EqClassAssumption, GeometryAssumption DEF Row
  <2>2. \A k \in Chip : OpenedThrough(r, k) /\ OpenedThrough(r, k - 1)
    BY <1>1, <1>2, <2>1, NewOpens DEF OpenedThrough, Blank
  <2>3. banks' = [k \in Chip |-> RowOpened(NewBank, r)]
    BY <1>1, <2>2 DEF OpenRow, Blank
  <2>4. OpenedThrough(r, Chips - 1) /\ RunsOffTheEnd(Chips)
    BY <2>2, SomeChip DEF RunsOffTheEnd
  <2>5. alive' = FALSE /\ ret' = Returned("open_row", 0, FALSE, <<>>)
    BY <2>4 DEF OpenRow
  <2>6. TypeOK'
    BY <2>1, <2>3, <2>5, NewOpens DEF TypeOK, Returned
  <2>7. CrashedWithRowOpen'
    BY <2>1, <2>3, NewOpens DEF CrashedWithRowOpen
  <2>8. QED
    BY <2>5, <2>6, <2>7 DEF IInv, AliveMeansBlank
<1>4. CASE ~ (r < Rows)
  <2>1. banks' = Blank
    BY <1>1, <1>4, NewRefusesRow DEF OpenRow, Blank
  <2>2. ~ OpenedThrough(r, Chips - 1)
    <3>1. 0 \in 0 .. Chips - 1
      BY SomeChip DEF Chip
    <3>2. QED
      BY <1>1, <1>4, <3>1, SomeChip, NewRefusesRow DEF OpenedThrough, Blank
  <2>3. alive' = TRUE /\ ret' = Returned("open_row", 0, FALSE, <<>>)
    BY <2>2 DEF OpenRow
  <2>4. QED
    BY <2>1, <2>3, NewBankType
       DEF IInv, TypeOK, AliveMeansBlank, CrashedWithRowOpen, Returned, Blank
<1>5. QED
  BY <1>3, <1>4

LEMMA TransferWriteIInv ==
  ASSUME IInv, NEW c \in ColAddr, NEW data \in Span, TransferWrite(c, data)
  PROVE  IInv'
<1>1. banks = Blank /\ alive /\ alive'
  BY DEF TransferWrite, IInv, AliveMeansBlank, Blank
<1>2. banks' = Blank
  BY <1>1, NewRefusesWrites DEF TransferWrite, Blank
<1>3. ~ \A j \in 0 .. Chips - 1 : WriteOk(banks[j], c)
  BY <1>1, SomeChip, NewRefusesWrites DEF Blank, Chip
<1>4. ret' = Returned("write", c, FALSE, data)
  BY <1>3 DEF TransferWrite
<1>5. QED
  BY <1>1, <1>2, <1>4, NewBankType
     DEF IInv, TypeOK, AliveMeansBlank, CrashedWithRowOpen, Returned, Blank

LEMMA TransferReadIInv ==
  ASSUME IInv, NEW c \in ColAddr, NEW data \in Span, TransferRead(c, data)
  PROVE  IInv'
<1>1. banks = Blank /\ alive /\ alive' /\ banks' = Blank
  BY DEF TransferRead, IInv, AliveMeansBlank, Blank
<1> DEFINE ok(k) == \A j \in 0 .. k : ReadOk(banks[j], c)
           accepted == SizeMatches(Cardinality(DOMAIN data))
           word(k) == IF ok(k - 1) THEN WordRead(banks[k], c, Lines(data, k))
                                   ELSE Lines(data, k)
           out == IF accepted
                  THEN [i \in DOMAIN data |-> word(i \div Width)[i % Width]]
                  ELSE data
<1>2. ret' = Returned("read", c, accepted /\ ok(Chips - 1), out)
  BY DEF TransferRead
<1>3. PICK n \in Sizes : data \in [0 .. n - 1 -> Cell]
  BY DEF Span
<1>4. accepted => n = BusWidth
  <2>1. n \in Nat
    BY EqClassAssumption
  <2>2. Cardinality(0 .. n - 1) = n
    BY <2>1, FS_Interval
  <2>3. QED
    BY <1>3, <2>2 DEF SizeMatches
<1>5. \A k \in Chip : /\ \A j \in 0 .. k : j \in Chip
                      /\ \A j \in 0 .. k - 1 : j \in Chip
  BY SomeChip DEF Chip
<1>6. ASSUME accepted, NEW i \in DOMAIN data
      PROVE  word(i \div Width)[i % Width] = IF c < Cols THEN 0 ELSE data[i]
  <2>1. i \in 0 .. BusWidth - 1
    BY <1>3, <1>4, <1>6
  <2> DEFINE k == i \div Width
             l == i % Width
  <2>2. k \in Chip /\ l \in Array /\ k * Width + l = i
    BY <2>1, LineOfChip
  <2> HIDE DEF k, l
  <2>3. Lines(data, k)[l] = data[i]
    BY <2>2 DEF Lines
  <2>4. WordRead(banks[k], c, Lines(data, k))[l] = IF c < Cols THEN 0 ELSE data[i]
    BY <1>1, <2>2, <2>3, NewReadsZero DEF Blank
  <2>5. c < Cols => ok(k - 1)
    BY <1>1, <1>5, <2>2, NewReadsZero, ArrayBounds DEF Blank
  <2>6. word(k)[l] = IF c < Cols THEN 0 ELSE data[i]
    BY <2>3, <2>4, <2>5
  <2>7. QED
    BY <2>6 DEF k, l
<1>7. out \in Span
  <2>1. CASE accepted
    <3>1. \A i \in 0 .. n - 1 : word(i \div Width)[i % Width] \in Cell
      BY <1>3, <1>6, <2>1, GeometryAssumption
    <3>2. out = [i \in 0 .. n - 1 |-> word(i \div Width)[i % Width]]
      BY <1>3, <2>1
    <3> HIDE DEF word
    <3>3. out \in [0 .. n - 1 -> Cell]
      BY <3>1, <3>2
    <3>4. QED
      BY <3>3 DEF Span
  <2>2. QED
    BY <2>1
<1>8. accepted /\ ok(Chips - 1) => \A i \in DOMAIN out : out[i] = 0
  <2> SUFFICES ASSUME accepted, ok(Chips - 1) PROVE \A i \in DOMAIN out : out[i] = 0
    OBVIOUS
  <2>1. c < Cols
    BY <1>1, SomeChip, NewReadsZero, ArrayBounds DEF Blank, Chip
  <2>2. \A i \in DOMAIN data : word(i \div Width)[i % Width] = 0
    BY <1>6, <2>1
  <2> HIDE DEF word
  <2>3. QED
    BY <2>2
<1> HIDE DEF out, accepted, ok, word
<1>9. QED
  BY <1>1, <1>2, <1>7, <1>8, NewBankType
     DEF IInv, TypeOK, AliveMeansBlank, CrashedWithRowOpen, Returned, Blank

LEMMA NextIInv == IInv /\ [Next]_vars => IInv'
<1> SUFFICES ASSUME IInv, [Next]_vars PROVE IInv'
  OBVIOUS
<1>1. CASE UNCHANGED vars
  BY <1>1 DEF vars, IInv, TypeOK, AliveMeansBlank, CrashedWithRowOpen
<1>2. QED
  BY <1>1, OpenRowIInv, TransferWriteIInv, TransferReadIInv DEF Next

LEMMA Invariant == Spec => []IInv
  BY InitIInv, NextIInv, PTL DEF Spec

(* Banks, and the lines of data a read gives back, keep their types        *)
(* (dram_bank.cpp:72-105).                                                 *)
THEOREM EqClassTyped == Spec => []TypeOK
<1>1. IInv => TypeOK
  BY DEF IInv
<1>2. QED
  BY Invariant, <1>1, PTL

(* As long as the process lives nothing was ever stored, for any number of *)
(* chips: no open_row of an existing row returns (dram_bank.cpp:83).       *)
THEOREM EqClassBlank == Spec => []AliveMeansBlank
<1>1. IInv => AliveMeansBlank
  BY DEF IInv
<1>2. QED
  BY Invariant, <1>1, PTL

(* A process that died of open_row had the row open in all chips           *)
(* (dram_bank.cpp:81-86).                                                  *)
THEOREM EqClassCrash == Spec => []CrashedWithRowOpen
<1>1. IInv => CrashedWithRowOpen
  BY DEF IInv
<1>2. QED
  BY Invariant, <1>1, PTL

-----------------------------------------------------------------------------

(* How the calls the dispatcher makes can end: no open_row returns, and no *)
(* transfer of data that is not as long as the bus is wide, which the      *)
(* empty data of handle_request never is (dram_bank.cpp:81-105,            *)
(* dram_controller.cpp:207-210).                                           *)
CallsFail ==
  /\ ret.call = "open_row" => ~ ret.ok
  /\ ret.call \in {"read", "write"} /\ Cardinality(DOMAIN ret.data) # BusWidth => ~ ret.ok
  /\ ret.call \in {"read", "write"} /\ DOMAIN ret.data = {} => ~ ret.ok

(* This is why "returns" is no outcome of either call in an instance of    *)
(* DRAMDispatcher for this code (dram_controller.cpp:153, 172-177).        *)
THEOREM EqClassCallsFail == Spec => []CallsFail
<1>1. Init => CallsFail
  BY DEF Init, Returned, CallsFail
<1>2. CallsFail /\ [Next]_vars => CallsFail'
  <2> SUFFICES ASSUME CallsFail, [Next]_vars PROVE CallsFail'
    OBVIOUS
  <2>0. BusWidth # 0
    BY WidthAssumption, EqClassAssumption
  <2>1. ASSUME NEW r \in RowAddr, OpenRow(r) PROVE CallsFail'
    <3>1. RunsOffTheEnd(Chips)
      BY SomeChip DEF RunsOffTheEnd
    <3>2. ret'.call = "open_row" /\ ~ ret'.ok
      BY <2>1, <3>1 DEF OpenRow, Returned
    <3>3. QED
      BY <3>2 DEF CallsFail
  <2>2. ASSUME NEW c \in ColAddr, NEW data \in Span, TransferWrite(c, data)
        PROVE  CallsFail'
    <3>1. ret'.call = "write" /\ ret'.data = data
      BY <2>2 DEF TransferWrite, Returned
    <3>2. Cardinality(DOMAIN data) # BusWidth => ~ ret'.ok
      BY <2>2 DEF TransferWrite, SizeMatches, Returned
    <3>3. QED
      BY <2>0, <3>1, <3>2, FS_EmptySet DEF CallsFail
  <2>3. ASSUME NEW c \in ColAddr, NEW data \in Span, TransferRead(c, data)
        PROVE  CallsFail'
    <3>1. ret'.call = "read" /\ DOMAIN ret'.data = DOMAIN data
      BY <2>3 DEF TransferRead, Returned
    <3>2. Cardinality(DOMAIN data) # BusWidth => ~ ret'.ok
      BY <2>3 DEF TransferRead, SizeMatches, Returned
    <3>3. QED
      BY <2>0, <3>1, <3>2, FS_EmptySet DEF CallsFail
  <2>4. CASE UNCHANGED vars
    BY <2>4 DEF vars, CallsFail
  <2>5. QED
    BY <2>1, <2>2, <2>3, <2>4 DEF Next
<1>3. QED
  BY <1>1, <1>2, PTL DEF Spec

=============================================================================
