--------------------------- MODULE DRAMBankProofs ---------------------------
(***************************************************************************)
(* Proofs about a bank, for every geometry, number of subarrays and set of *)
(* addresses callers may pass.                                             *)
(***************************************************************************)
EXTENDS DRAMBank, TLAPS

(* What the helpers of SubarrayOps preserve. *)
LEMMA NewSubarrayType == NewSubarray \in Subarray
  BY GeometryAssumption DEF NewSubarray, Subarray, Row, Col

(* The helpers keep a subarray a subarray and the coherence of its buffer. *)
LEMMA PrechargedLemma ==
  ASSUME NEW a \in Subarray, BufferMatchesRow(a)
  PROVE  /\ Precharged(a) \in Subarray
         /\ BufferMatchesRow(Precharged(a))
         /\ ~ Precharged(a).is_word_open
         /\ Precharged(a).open_row = a.open_row
         /\ Contents(Precharged(a)) = Contents(a)
  BY DEF Precharged, Subarray, BufferMatchesRow, Contents

LEMMA ActivatedLemma ==
  ASSUME NEW a \in Subarray, NEW r \in Row, ~ a.is_word_open
  PROVE  /\ Activated(a, r) \in Subarray
         /\ BufferMatchesRow(Activated(a, r))
         /\ Activated(a, r).open_row = r
         /\ Activated(a, r).is_word_open
         /\ Contents(Activated(a, r)) = Contents(a)
  BY DEF Activated, Subarray, BufferMatchesRow, Contents

LEMMA WrittenLemma ==
  ASSUME NEW a \in Subarray, NEW c \in Col, NEW v \in Cell, a.is_word_open
  PROVE  /\ Written(a, c, v) \in Subarray
         /\ BufferMatchesRow(Written(a, c, v))
         /\ Written(a, c, v).open_row = a.open_row
         /\ Written(a, c, v).is_word_open
         /\ Contents(Written(a, c, v))
              = [Contents(a) EXCEPT ![a.open_row][c] = v]
  BY DEF Written, Subarray, BufferMatchesRow, Contents

LEMMA ReadLemma ==
  ASSUME NEW a \in Subarray, NEW c \in Col, ~ a.is_word_open,
         BufferMatchesRow(a)
  PROVE  /\ a.row_buffer[c] \in Cell
         /\ a.row_buffer[c] = Contents(a)[a.open_row][c]
  BY DEF Subarray, BufferMatchesRow, Contents

-----------------------------------------------------------------------------

(* The inductive invariant.  Lockstep is inductive only together with the  *)
(* types; the refinement also needs every closed subarray to mirror its    *)
(* row, which is what read() returns.                                      *)
Coherent == \A i \in Array : BufferMatchesRow(arrays[i])
IInv == arrays \in Bank /\ Lockstep /\ Coherent

LEMMA AddrInRange ==
  /\ \A r \in RowAddr : r < Rows => r \in Row
  /\ \A c \in ColAddr : c < Cols => c \in Col
  BY GeometryAssumption, AddrAssumption DEF Row, Col

LEMMA ArrayBounds ==
  /\ 0 \in Array
  /\ \A i \in Array : /\ i \in 0 .. i
                      /\ 0 \in 0 .. i
                      /\ i # 0 => 0 \in 0 .. i - 1
                      /\ \A j \in 0 .. i : j \in Array
                      /\ \A j \in 0 .. i - 1 : j \in Array
  /\ Array = 0 .. Width - 1
  /\ 0 .. (0 - 1) = {}
  BY WidthAssumption DEF Array

-----------------------------------------------------------------------------

(* open_row with a row the bank has opens it in every subarray. *)
LEMMA OpenRowReturns ==
  ASSUME IInv, NEW r \in Row
  PROVE  /\ OpenRowOk(arrays, r)
         /\ RowOpened(arrays, r)
              = [i \in Array |-> Activated(Precharged(arrays[i]), r)]
<1>1. \A j \in Array : CanActivate(Precharged(arrays[j]), r)
  <2> SUFFICES ASSUME NEW j \in Array
               PROVE  CanActivate(Precharged(arrays[j]), r)
    OBVIOUS
  <2>1. arrays[j] \in Subarray /\ BufferMatchesRow(arrays[j])
    BY DEF IInv, Coherent, Bank
  <2>2. ~ Precharged(arrays[j]).is_word_open
    BY <2>1, PrechargedLemma
  <2>3. r < Rows
    BY GeometryAssumption DEF Row
  <2>4. QED
    BY <2>2, <2>3 DEF CanActivate
<1>2. \A i \in Array : OpensThrough(arrays, r, i - 1)
  BY <1>1, ArrayBounds DEF OpensThrough
<1>3. OpenRowOk(arrays, r)
  BY <1>1, ArrayBounds DEF OpenRowOk, OpensThrough
<1>4. QED
  BY <1>1, <1>2, <1>3 DEF RowOpened

(* open_row with a row past the last one closes subarray 0 and throws. *)
LEMMA OpenRowThrows ==
  ASSUME IInv, NEW r \in RowAddr, ~ (r < Rows)
  PROVE  /\ ~ OpenRowOk(arrays, r)
         /\ RowOpened(arrays, r)
              = [i \in Array |-> IF i = 0 THEN Precharged(arrays[i])
                                          ELSE arrays[i]]
<1>1. \A j \in Array : ~ CanActivate(Precharged(arrays[j]), r)
  BY DEF CanActivate
<1>2. \A i \in Array : i # 0 => ~ OpensThrough(arrays, r, i - 1)
  BY <1>1, ArrayBounds DEF OpensThrough
<1>3. OpensThrough(arrays, r, 0 - 1)
  BY ArrayBounds DEF OpensThrough
<1>4. ~ OpenRowOk(arrays, r)
  BY <1>1, ArrayBounds DEF OpenRowOk, OpensThrough
<1>5. ASSUME NEW i \in Array
      PROVE  (IF ~ OpensThrough(arrays, r, i - 1) THEN arrays[i]
              ELSE IF CanActivate(Precharged(arrays[i]), r)
                   THEN Activated(Precharged(arrays[i]), r)
                   ELSE Precharged(arrays[i]))
             = (IF i = 0 THEN Precharged(arrays[i]) ELSE arrays[i])
  <2>1. CASE i = 0
    BY <1>1, <1>3, <2>1
  <2>2. CASE i # 0
    BY <1>2, <2>2
  <2>3. QED
    BY <2>1, <2>2
<1>6. QED
  BY <1>4, <1>5 DEF RowOpened

(* A write either reaches every subarray, all of them open, or none. *)
LEMMA WriteAllOrNothing ==
  ASSUME IInv, NEW c \in ColAddr, NEW w \in Word
  PROVE  \/ /\ WriteOk(arrays, c)
            /\ c \in Col /\ \A i \in Array : arrays[i].is_word_open
            /\ WordWritten(arrays, c, w)
                 = [i \in Array |-> Written(arrays[i], c, w[i])]
         \/ /\ ~ WriteOk(arrays, c)
            /\ WordWritten(arrays, c, w) = arrays
<1>1. CASE c < Cols /\ \A i \in Array : arrays[i].is_word_open
  <2>1. \A i \in Array : WritesThrough(arrays, c, i)
    BY <1>1, ArrayBounds DEF WritesThrough, CanWrite
  <2>2. WriteOk(arrays, c)
    BY <1>1, ArrayBounds DEF WriteOk, WritesThrough, CanWrite
  <2>3. WordWritten(arrays, c, w)
          = [i \in Array |-> Written(arrays[i], c, w[i])]
    BY <2>1 DEF WordWritten
  <2>4. QED
    BY <1>1, <2>2, <2>3, AddrInRange
<1>2. CASE ~ (c < Cols /\ \A i \in Array : arrays[i].is_word_open)
  <2>1. ~ CanWrite(arrays[0], c)
    BY <1>2, ArrayBounds DEF IInv, Lockstep, OnlyFirstLags, CanWrite
  <2>2. \A i \in Array : ~ WritesThrough(arrays, c, i)
    BY <2>1, ArrayBounds DEF WritesThrough
  <2>3. ~ WriteOk(arrays, c)
    BY <2>1, ArrayBounds, WidthAssumption DEF WriteOk, WritesThrough
  <2>4. WordWritten(arrays, c, w) = [i \in Array |-> arrays[i]]
    BY <2>2 DEF WordWritten
  <2>5. [i \in Array |-> arrays[i]] = arrays
    BY DEF IInv, Bank
  <2>6. QED
    BY <2>3, <2>4, <2>5
<1>3. QED
  BY <1>1, <1>2

(* A read returns the whole word, or throws having touched at most the     *)
(* first element of the span.                                              *)
LEMMA ReadAllOrFirst ==
  ASSUME IInv, NEW c \in ColAddr, NEW w \in Word
  PROVE  \/ /\ ReadOk(arrays, c)
            /\ c \in Col /\ \A i \in Array : ~ arrays[i].is_word_open
            /\ WordRead(arrays, c, w)
                 = [i \in Array |-> arrays[i].row_buffer[c]]
         \/ /\ ~ ReadOk(arrays, c)
            /\ \A i \in Array \ {0} : WordRead(arrays, c, w)[i] = w[i]
<1>1. CASE c < Cols /\ \A i \in Array : ~ arrays[i].is_word_open
  <2>1. \A i \in Array : ReadsThrough(arrays, c, i)
    BY <1>1, ArrayBounds DEF ReadsThrough, CanRead
  <2>2. ReadOk(arrays, c)
    BY <1>1, ArrayBounds DEF ReadOk, ReadsThrough, CanRead
  <2>3. WordRead(arrays, c, w) = [i \in Array |-> arrays[i].row_buffer[c]]
    BY <2>1 DEF WordRead
  <2>4. QED
    BY <1>1, <2>2, <2>3, AddrInRange
<1>2. CASE ~ (c < Cols /\ \A i \in Array : ~ arrays[i].is_word_open)
  <2>1. PICK k \in Array : ~ CanRead(arrays[k], c)
    BY <1>2, ArrayBounds DEF CanRead
  <2>2. ~ ReadOk(arrays, c)
    BY <2>1, ArrayBounds DEF ReadOk, ReadsThrough
  <2>3. \A i \in Array \ {0} : ~ ReadsThrough(arrays, c, i)
    <3> SUFFICES ASSUME NEW i \in Array, i # 0
                 PROVE  ~ CanRead(arrays[0], c) \/ ~ CanRead(arrays[i], c)
      BY ArrayBounds DEF ReadsThrough
    <3>1. QED
      BY <2>1, ArrayBounds DEF CanRead, IInv, Lockstep, OnlyFirstLags
  <2>4. \A i \in Array \ {0} : WordRead(arrays, c, w)[i] = w[i]
    BY <2>3 DEF WordRead
  <2>5. QED
    BY <2>2, <2>4
<1>3. QED
  BY <1>1, <1>2

LEMMA ZeroWordType == ZeroWord \in Word
  BY GeometryAssumption DEF ZeroWord, Word

LEMMA WordReadType ==
  ASSUME IInv, NEW c \in ColAddr, NEW w \in Word
  PROVE  WordRead(arrays, c, w) \in Word
<1> SUFFICES ASSUME NEW i \in Array
             PROVE  (IF ReadsThrough(arrays, c, i)
                     THEN arrays[i].row_buffer[c] ELSE w[i]) \in Cell
  BY DEF WordRead, Word
<1>1. CASE ReadsThrough(arrays, c, i)
  <2>1. c \in Col
    BY <1>1, ArrayBounds, AddrInRange DEF ReadsThrough, CanRead
  <2>2. QED
    BY <1>1, <2>1 DEF IInv, Bank, Subarray
<1>2. CASE ~ ReadsThrough(arrays, c, i)
  BY <1>2 DEF Word
<1>3. QED
  BY <1>1, <1>2

-----------------------------------------------------------------------------

LEMMA InitIInv == Init => IInv
<1> SUFFICES ASSUME Init PROVE IInv
  OBVIOUS
<1>1. BufferMatchesRow(NewSubarray)
  BY GeometryAssumption DEF BufferMatchesRow, NewSubarray, Row
<1>2. ~ NewSubarray.is_word_open
  BY DEF NewSubarray
<1>3. QED
  BY <1>1, <1>2, NewSubarrayType
     DEF Init, NewBank, IInv, Bank, Coherent, Lockstep, SameRow, OnlyFirstLags

LEMMA OpenRowIInv ==
  ASSUME IInv, NEW r \in RowAddr, OpenRow(r)
  PROVE  IInv'
<1>1. \A i \in Array : arrays[i] \in Subarray /\ BufferMatchesRow(arrays[i])
  BY DEF IInv, Coherent, Bank
<1>2. CASE r < Rows
  <2>1. r \in Row
    BY <1>2, AddrInRange
  <2>2. arrays' = [i \in Array |-> Activated(Precharged(arrays[i]), r)]
    BY <2>1, OpenRowReturns DEF OpenRow
  <2>3. \A i \in Array : /\ arrays'[i] \in Subarray
                         /\ BufferMatchesRow(arrays'[i])
                         /\ arrays'[i].open_row = r
                         /\ arrays'[i].is_word_open
    BY <1>1, <2>1, <2>2, PrechargedLemma, ActivatedLemma
  <2>4. arrays' \in Bank
    BY <2>2, <2>3 DEF Bank
  <2>5. QED
    BY <2>3, <2>4 DEF IInv, Lockstep, SameRow, OnlyFirstLags, Coherent
<1>3. CASE ~ (r < Rows)
  <2>1. arrays' = [i \in Array |-> IF i = 0 THEN Precharged(arrays[i])
                                           ELSE arrays[i]]
    BY <1>3, OpenRowThrows DEF OpenRow
  <2>2. \A i \in Array : /\ arrays'[i] \in Subarray
                         /\ BufferMatchesRow(arrays'[i])
                         /\ arrays'[i].open_row = arrays[i].open_row
    BY <1>1, <2>1, PrechargedLemma
  <2>3. \A i \in Array : arrays'[i].is_word_open
                            <=> arrays[i].is_word_open /\ i # 0
    BY <1>1, <2>1, PrechargedLemma
  <2>4. arrays' \in Bank
    BY <2>1, <2>2 DEF Bank
  <2>5. QED
    BY <2>2, <2>3, <2>4
       DEF IInv, Lockstep, SameRow, OnlyFirstLags, Coherent
<1>4. QED
  BY <1>2, <1>3

LEMMA TransferWriteIInv ==
  ASSUME IInv, NEW c \in ColAddr, NEW w \in Word, TransferWrite(c, w)
  PROVE  IInv'
<1>1. \A i \in Array : /\ arrays[i] \in Subarray
                       /\ BufferMatchesRow(arrays[i])
                       /\ w[i] \in Cell
  BY DEF IInv, Coherent, Bank, Word
<1>2. CASE /\ c \in Col
           /\ \A i \in Array : arrays[i].is_word_open
           /\ arrays' = [i \in Array |-> Written(arrays[i], c, w[i])]
  <2>1. \A i \in Array : /\ arrays'[i] \in Subarray
                         /\ BufferMatchesRow(arrays'[i])
                         /\ arrays'[i].open_row = arrays[i].open_row
                         /\ arrays'[i].is_word_open
    BY <1>1, <1>2, WrittenLemma
  <2>2. arrays' \in Bank
    BY <1>2, <2>1 DEF Bank
  <2>3. QED
    BY <2>1, <2>2 DEF IInv, Lockstep, SameRow, OnlyFirstLags, Coherent
<1>3. CASE arrays' = arrays
  BY <1>3 DEF IInv, Lockstep, SameRow, OnlyFirstLags, Coherent
<1>4. QED
  BY <1>2, <1>3, WriteAllOrNothing DEF TransferWrite

LEMMA NextIInv == IInv /\ [Next]_vars => IInv'
<1> SUFFICES ASSUME IInv, [Next]_vars PROVE IInv'
  OBVIOUS
<1>1. CASE arrays' = arrays
  BY <1>1 DEF IInv, Lockstep, SameRow, OnlyFirstLags, Coherent
<1>2. QED
  BY <1>1, OpenRowIInv, TransferWriteIInv DEF Next, vars, TransferRead

(* The subarrays of a bank stay in lockstep, but for a first one left      *)
(* closed by an open_row that threw (dram_bank.cpp:43-70).                 *)
THEOREM BankLockstep == Spec => []Lockstep
<1>1. IInv => Lockstep
  BY DEF IInv
<1>2. QED
  BY InitIInv, NextIInv, <1>1, PTL DEF Spec

(* A throwing read spoils at most the first element of the caller's span. *)
THEOREM BankThrowingRead == Spec => []ThrowingReadKeepsRest
<1>1. Init => ThrowingReadKeepsRest
  BY DEF Init, Returned, ThrowingReadKeepsRest
<1>2. IInv /\ ThrowingReadKeepsRest /\ [Next]_vars => ThrowingReadKeepsRest'
  <2> SUFFICES ASSUME IInv, ThrowingReadKeepsRest, [Next]_vars
               PROVE  ThrowingReadKeepsRest'
    OBVIOUS
  <2>1. ASSUME NEW r \in RowAddr, OpenRow(r) PROVE ThrowingReadKeepsRest'
    BY <2>1 DEF OpenRow, Returned, ThrowingReadKeepsRest
  <2>2. ASSUME NEW c \in ColAddr, NEW w \in Word, TransferWrite(c, w)
        PROVE  ThrowingReadKeepsRest'
    BY <2>2 DEF TransferWrite, Returned, ThrowingReadKeepsRest
  <2>3. ASSUME NEW c \in ColAddr, NEW w \in Word, TransferRead(c, w)
        PROVE  ThrowingReadKeepsRest'
    BY <2>3, ReadAllOrFirst DEF TransferRead, Returned, ThrowingReadKeepsRest
  <2>4. CASE UNCHANGED vars
    BY <2>4 DEF vars, ThrowingReadKeepsRest
  <2>5. QED
    BY <2>1, <2>2, <2>3, <2>4 DEF Next
<1>3. QED
  BY InitIInv, NextIInv, <1>1, <1>2, PTL DEF Spec

-----------------------------------------------------------------------------

LEMMA ReturnedType ==
  ASSUME NEW call \in {"new", "select", "store", "load"},
         NEW addr \in RowAddr \cup ColAddr \cup {0}, NEW ok \in BOOLEAN,
         NEW given \in Word, NEW data \in Word
  PROVE  Returned(call, addr, ok, given, data)
           \in [call : {"new", "select", "store", "load"},
                addr : RowAddr \cup ColAddr \cup {0},
                ok : BOOLEAN, given : Word, data : Word]
  BY DEF Returned

(* Subarrays keep their types, and a span keeps its length and its bits,   *)
(* whichever call returns or throws (dram_bank.cpp:43-70).                 *)
THEOREM BankTyped == Spec => []TypeOK
<1>1. Init => TypeOK
  <2> SUFFICES ASSUME Init PROVE TypeOK
    OBVIOUS
  <2>1. Returned("new", 0, TRUE, ZeroWord, ZeroWord)
          \in [call : {"new", "select", "store", "load"},
               addr : RowAddr \cup ColAddr \cup {0},
               ok : BOOLEAN, given : Word, data : Word]
    BY ReturnedType, ZeroWordType
  <2>2. QED
    BY <2>1, InitIInv DEF Init, IInv, TypeOK
<1>2. IInv /\ TypeOK /\ [Next]_vars => TypeOK'
  <2> SUFFICES ASSUME IInv, TypeOK, [Next]_vars PROVE TypeOK'
    OBVIOUS
  <2>1. arrays' \in Bank
    BY NextIInv DEF IInv
  <2>2. ASSUME NEW r \in RowAddr, OpenRow(r) PROVE TypeOK'
    <3>1. OpenRowOk(arrays, r) \in BOOLEAN
      BY DEF OpenRowOk, OpensThrough
    <3>2. QED
      BY <2>1, <2>2, <3>1, ReturnedType, ZeroWordType DEF OpenRow, TypeOK
  <2>3. ASSUME NEW c \in ColAddr, NEW w \in Word, TransferWrite(c, w) PROVE TypeOK'
    <3>1. WriteOk(arrays, c) \in BOOLEAN
      BY DEF WriteOk, WritesThrough
    <3>2. QED
      BY <2>1, <2>3, <3>1, ReturnedType DEF TransferWrite, TypeOK
  <2>4. ASSUME NEW c \in ColAddr, NEW w \in Word, TransferRead(c, w) PROVE TypeOK'
    <3>1. ReadOk(arrays, c) \in BOOLEAN
      BY DEF ReadOk, ReadsThrough
    <3>2. QED
      BY <2>1, <2>4, <3>1, WordReadType, ReturnedType DEF TransferRead, TypeOK
  <2>5. CASE UNCHANGED vars
    BY <2>5 DEF vars, TypeOK
  <2>6. QED
    BY <2>2, <2>3, <2>4, <2>5 DEF Next
<1>3. QED
  BY InitIInv, NextIInv, <1>1, <1>2, PTL DEF Spec

-----------------------------------------------------------------------------

(* No row has been opened yet, or one is open behind the first subarray    *)
(* for ever after: a failing open_row closes the first, a succeeding one   *)
(* opens them all.                                                         *)
Opened == \E i \in Array \ {0} : arrays[i].is_word_open
BlankOrOpened == Width >= 2 => arrays = NewBank \/ Opened

LEMMA BlankOrOpenedStep ==
  IInv /\ BlankOrOpened /\ [Next]_vars => BlankOrOpened'
<1> SUFFICES ASSUME IInv, BlankOrOpened, [Next]_vars, Width >= 2
             PROVE  arrays' = NewBank \/ Opened'
  BY DEF BlankOrOpened
<1>0. arrays = NewBank \/ Opened
  BY DEF BlankOrOpened
<1>1. \A i \in Array : arrays[i] \in Subarray /\ BufferMatchesRow(arrays[i])
  BY DEF IInv, Coherent, Bank
<1>2. 1 \in Array \ {0}
  BY WidthAssumption DEF Array
<1>3. ASSUME NEW r \in RowAddr, OpenRow(r) PROVE arrays' = NewBank \/ Opened'
  <2>1. CASE r < Rows
    <3>1. r \in Row
      BY <2>1, AddrInRange
    <3>2. arrays' = [i \in Array |-> Activated(Precharged(arrays[i]), r)]
      BY <1>3, <3>1, OpenRowReturns DEF OpenRow
    <3>3. arrays'[1].is_word_open
      BY <1>1, <1>2, <3>1, <3>2, PrechargedLemma, ActivatedLemma
    <3>4. QED
      BY <1>2, <3>3 DEF Opened
  <2>2. CASE ~ (r < Rows)
    <3>1. arrays' = [i \in Array |-> IF i = 0 THEN Precharged(arrays[i])
                                             ELSE arrays[i]]
      BY <1>3, <2>2, OpenRowThrows DEF OpenRow
    <3>2. CASE arrays = NewBank
      BY <3>1, <3>2 DEF NewBank, NewSubarray, Precharged
    <3>3. CASE Opened
      BY <3>1, <3>3 DEF Opened
    <3>4. QED
      BY <1>0, <3>2, <3>3
  <2>3. QED
    BY <2>1, <2>2
<1>4. ASSUME NEW c \in ColAddr, NEW w \in Word, TransferWrite(c, w)
      PROVE  arrays' = NewBank \/ Opened'
  <2>1. CASE WriteOk(arrays, c)
    <3>1. /\ c \in Col /\ \A i \in Array : arrays[i].is_word_open
          /\ arrays' = [i \in Array |-> Written(arrays[i], c, w[i])]
      BY <1>4, <2>1, WriteAllOrNothing DEF TransferWrite
    <3>2. arrays'[1].is_word_open
      BY <1>1, <1>2, <3>1, WrittenLemma DEF Word
    <3>3. QED
      BY <1>2, <3>2 DEF Opened
  <2>2. CASE ~ WriteOk(arrays, c)
    BY <1>0, <1>4, <2>2, WriteAllOrNothing DEF TransferWrite, Opened
  <2>3. QED
    BY <2>1, <2>2
<1>5. CASE arrays' = arrays
  BY <1>0, <1>5 DEF Opened
<1>6. QED
  BY <1>3, <1>4, <1>5 DEF Next, TransferRead, vars

(* With two subarrays or more no read returns a bit that was ever written  *)
(* (dram_array.cpp:73, dram_bank.cpp:43-70).                               *)
THEOREM BankReadsNothingBack == Spec => []NothingReadBack
<1>1. Init => BlankOrOpened /\ NothingReadBack
  BY DEF Init, BlankOrOpened, NothingReadBack, Returned
<1>2. IInv /\ BlankOrOpened /\ NothingReadBack /\ [Next]_vars => NothingReadBack'
  <2> SUFFICES ASSUME IInv, BlankOrOpened, NothingReadBack, [Next]_vars
               PROVE  NothingReadBack'
    OBVIOUS
  <2>1. ASSUME NEW c \in ColAddr, NEW w \in Word, TransferRead(c, w), Width >= 2,
               ReadOk(arrays, c)
        PROVE  WordRead(arrays, c, w) = ZeroWord
    <3>1. /\ c \in Col /\ \A i \in Array : ~ arrays[i].is_word_open
          /\ WordRead(arrays, c, w) = [i \in Array |-> arrays[i].row_buffer[c]]
      BY <2>1, ReadAllOrFirst
    <3>2. arrays = NewBank
      BY <2>1, <3>1 DEF BlankOrOpened, Opened
    <3>3. QED
      BY <3>1, <3>2 DEF NewBank, NewSubarray, ZeroWord
  <2>2. ASSUME NEW c \in ColAddr, NEW w \in Word, TransferRead(c, w)
        PROVE  NothingReadBack'
    BY <2>1, <2>2 DEF TransferRead, Returned, NothingReadBack
  <2>3. ASSUME NEW r \in RowAddr, OpenRow(r) PROVE NothingReadBack'
    BY <2>3 DEF OpenRow, Returned, NothingReadBack
  <2>4. ASSUME NEW c \in ColAddr, NEW w \in Word, TransferWrite(c, w)
        PROVE  NothingReadBack'
    BY <2>4 DEF TransferWrite, Returned, NothingReadBack
  <2>5. CASE UNCHANGED vars
    BY <2>5 DEF vars, NothingReadBack
  <2>6. QED
    BY <2>2, <2>3, <2>4, <2>5 DEF Next
<1>3. QED
  BY InitIInv, NextIInv, BlankOrOpenedStep, <1>1, <1>2, PTL DEF Spec

-----------------------------------------------------------------------------

LEMMA InitRefines == Init => Words!Init
<1> SUFFICES ASSUME Init PROVE Words!Init
  OBVIOUS
<1>1. \A i \in Array : /\ Contents(arrays[i])
                            = [r \in Row |-> [c \in Col |-> 0]]
                       /\ arrays[i].open_row = 0
  BY DEF Init, NewBank, NewSubarray, Contents
<1>2. BankContents(arrays) = [r \in Row |-> [c \in Col |-> ZeroWord]]
  BY <1>1 DEF BankContents, ZeroWord
<1>3. arrays[0].open_row \in Row
  BY <1>1, ArrayBounds, GeometryAssumption DEF Row
<1>4. QED
  BY <1>2, <1>3 DEF Words!Init, Init, Returned

(* One cell of a function of rows changed. *)
LEMMA ExceptCell ==
  ASSUME NEW S, NEW T, NEW V, NEW f \in [S -> [T -> V]],
         NEW a \in S, NEW k \in T, NEW v,
         NEW x \in S, NEW y \in T
  PROVE  [f EXCEPT ![a][k] = v][x][y] = IF x = a /\ y = k THEN v ELSE f[x][y]
<1>1. CASE x = a
  <2>1. [f EXCEPT ![a][k] = v][x] = [f[a] EXCEPT ![k] = v]
    BY <1>1
  <2>2. f[a] \in [T -> V]
    OBVIOUS
  <2>3. QED
    BY <1>1, <2>1, <2>2
<1>2. CASE x # a
  BY <1>2
<1>3. QED
  BY <1>1, <1>2

(* Two banks whose subarrays hold the same cells hold the same words. *)
LEMMA SameContents ==
  ASSUME NEW b, NEW d, \A i \in Array : Contents(b[i]) = Contents(d[i])
  PROVE  BankContents(b) = BankContents(d)
  BY DEF BankContents

LEMMA OpenRowRefines ==
  ASSUME IInv, NEW r \in RowAddr, OpenRow(r)
  PROVE  Words!Next
<1>1. \A i \in Array : arrays[i] \in Subarray /\ BufferMatchesRow(arrays[i])
  BY DEF IInv, Coherent, Bank
<1>2. CASE r < Rows
  <2>1. r \in Row
    BY <1>2, AddrInRange
  <2>2. /\ OpenRowOk(arrays, r)
        /\ arrays' = [i \in Array |-> Activated(Precharged(arrays[i]), r)]
    BY <2>1, OpenRowReturns DEF OpenRow
  <2>3. \A i \in Array : /\ arrays'[i].open_row = r
                         /\ Contents(arrays'[i]) = Contents(arrays[i])
    BY <1>1, <2>1, <2>2, PrechargedLemma, ActivatedLemma
  <2>4. BankContents(arrays') = BankContents(arrays)
    BY <2>3, SameContents
  <2>5. Words!Select(r)
    BY <2>2, <2>3, <2>4, ArrayBounds DEF OpenRow, Words!Select, Returned
  <2>6. QED
    BY <2>1, <2>5 DEF Words!Next
<1>3. CASE ~ (r < Rows)
  <2>1. /\ ~ OpenRowOk(arrays, r)
        /\ arrays' = [i \in Array |-> IF i = 0 THEN Precharged(arrays[i])
                                              ELSE arrays[i]]
    BY <1>3, OpenRowThrows DEF OpenRow
  <2>2. \A i \in Array : /\ arrays'[i].open_row = arrays[i].open_row
                         /\ Contents(arrays'[i]) = Contents(arrays[i])
    BY <1>1, <2>1, PrechargedLemma
  <2>3. BankContents(arrays') = BankContents(arrays)
    BY <2>2, SameContents
  <2>4. ret'.call = "select" /\ ret'.ok = FALSE
    BY <2>1 DEF OpenRow, Returned
  <2>5. Words!Refuse("select")
    BY <2>2, <2>3, <2>4, ArrayBounds DEF Words!Refuse
  <2>6. QED
    BY <2>5 DEF Words!Next
<1>4. QED
  BY <1>2, <1>3

LEMMA TransferWriteRefines ==
  ASSUME IInv, NEW c \in ColAddr, NEW w \in Word, TransferWrite(c, w)
  PROVE  Words!Next
<1>1. CASE /\ WriteOk(arrays, c)
           /\ c \in Col /\ \A i \in Array : arrays[i].is_word_open
           /\ arrays' = [i \in Array |-> Written(arrays[i], c, w[i])]
  <2>1. \A i \in Array : /\ arrays[i] \in Subarray /\ w[i] \in Cell
                         /\ arrays[i].open_row = arrays[0].open_row
    BY ArrayBounds DEF IInv, Bank, Word, Lockstep, SameRow
  <2> DEFINE row == arrays[0].open_row
  <2>2. row \in Row
    BY <2>1, ArrayBounds DEF Subarray
  <2>3. \A i \in Array :
          /\ arrays'[i].open_row = row
          /\ Contents(arrays'[i]) = [Contents(arrays[i]) EXCEPT ![row][c] = w[i]]
    BY <1>1, <2>1, WrittenLemma
  <2>4. \A i \in Array : Contents(arrays[i]) \in [Row -> [Col -> Cell]]
    BY <2>1 DEF Contents, Subarray
  <2>5. BankContents(arrays')
          = [BankContents(arrays) EXCEPT ![row][c] = w]
    <3> DEFINE old == BankContents(arrays)
               new == BankContents(arrays')
    <3>1. ASSUME NEW rr \in Row, NEW cc \in Col
          PROVE  new[rr][cc] = IF rr = row /\ cc = c THEN w ELSE old[rr][cc]
      <4> DEFINE before(i) == Contents(arrays[i])
                 after(i) == Contents(arrays'[i])
      <4>0. ASSUME NEW i \in Array
            PROVE  after(i)[rr][cc]
                     = IF rr = row /\ cc = c THEN w[i] ELSE before(i)[rr][cc]
        <5>1. before(i) \in [Row -> [Col -> Cell]] /\ row \in Row /\ c \in Col
          BY <2>2, <2>4, <1>1
        <5>2. after(i) = [before(i) EXCEPT ![row][c] = w[i]]
          BY <2>3
        <5> HIDE DEF before, after, row
        <5>3. QED
          BY <5>1, <5>2, ExceptCell
      <4>1. CASE rr = row /\ cc = c
        <5>1. \A i \in Array : Contents(arrays'[i])[rr][cc] = w[i]
          BY <4>0, <4>1
        <5>2. new[rr][cc] = [i \in Array |-> w[i]]
          BY <5>1 DEF BankContents
        <5>3. QED
          BY <5>2, <4>1 DEF Word
      <4>2. CASE ~ (rr = row /\ cc = c)
        <5>1. \A i \in Array : Contents(arrays'[i])[rr][cc]
                                 = Contents(arrays[i])[rr][cc]
          BY <4>0, <4>2
        <5>2. QED
          BY <5>1, <4>2 DEF BankContents
      <4>3. QED
        BY <4>1, <4>2
    <3>2. /\ old = [rr \in Row |-> [cc \in Col |-> old[rr][cc]]]
          /\ new = [rr \in Row |-> [cc \in Col |-> new[rr][cc]]]
      BY DEF BankContents
    <3>3. old \in [Row -> [Col -> Word]]
      <4>1. \A rr \in Row, cc \in Col, i \in Array :
              Contents(arrays[i])[rr][cc] \in Cell
        BY <2>4
      <4>2. QED
        BY <4>1 DEF BankContents, Word
    <3> HIDE DEF old, new
    <3>4. \A rr \in Row, cc \in Col :
            [old EXCEPT ![row][c] = w][rr][cc] = new[rr][cc]
      BY <3>1, <3>3, <2>2, <1>1, ExceptCell
    <3>5. [old EXCEPT ![row][c] = w] \in [Row -> [Col -> Word]]
      BY <3>3, <2>2, <1>1
    <3>6. new \in [Row -> [Col -> Word]]
      <4>1. \A rr \in Row, cc \in Col : new[rr][cc] \in Word
        BY <3>4, <3>5
      <4>2. QED
        BY <4>1, <3>2
    <3>7. \A rr \in Row : [old EXCEPT ![row][c] = w][rr] = new[rr]
      BY <3>4, <3>5, <3>6
    <3>8. QED
      BY <3>5, <3>6, <3>7 DEF old, new
  <2>6. Words!Store(c, w)
    BY <1>1, <2>3, <2>5, ArrayBounds DEF TransferWrite, Words!Store, Returned
  <2>7. QED
    BY <1>1, <2>6 DEF Words!Next
<1>2. CASE ~ WriteOk(arrays, c) /\ arrays' = arrays
  <2>1. ret'.call = "store" /\ ret'.ok = FALSE /\ arrays' = arrays
    BY <1>2 DEF TransferWrite, Returned
  <2>2. BankContents(arrays)' = BankContents(arrays)
    BY <2>1 DEF BankContents
  <2>3. Words!Refuse("store")
    BY <2>1, <2>2 DEF Words!Refuse
  <2>4. QED
    BY <2>3 DEF Words!Next
<1>3. QED
  BY <1>1, <1>2, WriteAllOrNothing DEF TransferWrite

LEMMA TransferReadRefines ==
  ASSUME IInv, NEW c \in ColAddr, NEW w \in Word, TransferRead(c, w)
  PROVE  Words!Next
<1>1. CASE /\ ReadOk(arrays, c)
           /\ c \in Col /\ \A i \in Array : ~ arrays[i].is_word_open
           /\ WordRead(arrays, c, w)
                = [i \in Array |-> arrays[i].row_buffer[c]]
  <2>1. arrays[0].open_row \in Row
    BY ArrayBounds DEF IInv, Bank, Subarray
  <2>2. \A i \in Array : arrays[i].row_buffer[c]
                           = Contents(arrays[i])[arrays[0].open_row][c]
    BY <1>1, ReadLemma, ArrayBounds
       DEF IInv, Coherent, Bank, Lockstep, SameRow
  <2>3. WordRead(arrays, c, w)
          = BankContents(arrays)[arrays[0].open_row][c]
    BY <1>1, <2>1, <2>2 DEF BankContents
  <2>4. Words!Load(c)
    BY <1>1, <2>3 DEF TransferRead, Words!Load, Returned
  <2>5. QED
    BY <1>1, <2>4 DEF Words!Next
<1>2. CASE ~ ReadOk(arrays, c)
  <2>1. ret'.call = "load" /\ ret'.ok = FALSE /\ arrays' = arrays
    BY <1>2 DEF TransferRead, Returned
  <2>2. BankContents(arrays)' = BankContents(arrays)
    BY <2>1 DEF BankContents
  <2>3. Words!Refuse("load")
    BY <2>1, <2>2 DEF Words!Refuse
  <2>4. QED
    BY <2>3 DEF Words!Next
<1>3. QED
  BY <1>1, <1>2, ReadAllOrFirst

LEMMA NextRefines == IInv /\ [Next]_vars => [Words!Next]_Words!vars
<1> SUFFICES ASSUME IInv, [Next]_vars PROVE [Words!Next]_Words!vars
  OBVIOUS
<1>1. CASE UNCHANGED vars
  BY <1>1 DEF vars, Words!vars
<1>2. QED
  BY <1>1, OpenRowRefines, TransferWriteRefines, TransferReadRefines DEF Next

(* A bank implements a memory of whole words: no torn write, no torn       *)
(* successful read, no word lost by opening rows (dram_bank.cpp:43-70).    *)
THEOREM BankImplementsWordArray == Spec => ImplementsWordArray
<1>1. QED
  BY InitIInv, NextIInv, InitRefines, NextRefines, PTL
     DEF Spec, ImplementsWordArray, Words!Spec

=============================================================================
