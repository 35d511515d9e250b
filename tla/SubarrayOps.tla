---------------------------- MODULE SubarrayOps ----------------------------
(***************************************************************************)
(* What one call of a method of dram::DRAMSubarray (dram_array.hpp,        *)
(* dram_array.cpp) does to the object it is called on.  A subarray is a    *)
(* record of the four members that change; rows and cols, fixed by the     *)
(* constructor, are constants here.  The code keeps storage as one flat    *)
(* vector and addresses row r as the cols cells from r * cols on; storage  *)
(* is a function of rows here, which is the same thing as long as          *)
(* rows * cols does not wrap in a uint32 (see the README).                 *)
(***************************************************************************)
EXTENDS Naturals

CONSTANTS
  Rows,   \* number of word lines, DRAMSubarray::rows
  Cols,   \* number of bit lines, DRAMSubarray::cols
  Cell    \* the values one cell can hold (a bit, kept in a uint8)

ASSUME GeometryAssumption ==
  /\ Rows \in Nat \ {0}
  /\ Cols \in Nat \ {0}
  /\ 0 \in Cell

Row == 0 .. Rows - 1
Col == 0 .. Cols - 1

Subarray ==
  [ is_word_open : BOOLEAN,
    open_row     : Row,
    row_buffer   : [Col -> Cell],
    storage      : [Row -> [Col -> Cell]] ]

(* The constructor: every cell and the sense amplifiers hold 0. *)
NewSubarray ==
  [ is_word_open |-> FALSE,
    open_row     |-> 0,
    row_buffer   |-> [c \in Col |-> 0],
    storage      |-> [r \in Row |-> [c \in Col |-> 0]] ]

-----------------------------------------------------------------------------

(* Mutants of the definitions below, used to test the properties. *)
PrechargedNoWriteBack(a) == [a EXCEPT !.is_word_open = FALSE]
ActivatedOffByOne(a, r) ==
  [a EXCEPT !.row_buffer = a.storage[r],
            !.open_row = r + 1,
            !.is_word_open = TRUE]
CanActivateOnTop(a, r) == r < Rows
CanReadOpen(a, c) == a.is_word_open /\ c < Cols

-----------------------------------------------------------------------------

(* precharge(): an open row is copied from the sense amplifiers back to    *)
(* its cells and closed; a closed subarray is left alone.                  *)
Precharged(a) ==
  IF a.is_word_open
  THEN [a EXCEPT !.storage[a.open_row] = a.row_buffer,
                 !.is_word_open = FALSE]
  ELSE a

(* activate(r) succeeds on a precharged subarray that has a row r ... *)
CanActivate(a, r) == ~ a.is_word_open /\ r < Rows

(* ... and then latches row r in the sense amplifiers. *)
Activated(a, r) ==
  [a EXCEPT !.row_buffer = a.storage[r],
            !.open_row = r,
            !.is_word_open = TRUE]

(* read(c) returns false on an OPEN subarray; that is what the code says. *)
CanRead(a, c) == ~ a.is_word_open /\ c < Cols

(* write(c) needs an open row. *)
CanWrite(a, c) == a.is_word_open /\ c < Cols

Written(a, c, v) == [a EXCEPT !.row_buffer[c] = v]

(* What a reader of the DRAM would say the cells hold: the sense amplifiers *)
(* stand for the open row until it is written back.                        *)
Contents(a) ==
  IF a.is_word_open
  THEN [a.storage EXCEPT ![a.open_row] = a.row_buffer]
  ELSE a.storage

(* A closed subarray still holds in its sense amplifiers the row it wrote  *)
(* back: read(), which only succeeds on a closed subarray, depends on it.  *)
BufferMatchesRow(a) == ~ a.is_word_open => a.row_buffer = a.storage[a.open_row]

=============================================================================
