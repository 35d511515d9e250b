----------------------------- MODULE CellArray -----------------------------
(***************************************************************************)
(* What a piece of DRAM promises to its user, be it one subarray (a cell   *)
(* is a bit) or a whole bank (a cell is a word of one bit per subarray):   *)
(* rows of cells that change only by a successful write to the row last    *)
(* selected, and reads that return what those cells hold.  Precharging,    *)
(* re-activating and refused calls leave every cell as it is.              *)
(***************************************************************************)
EXTENDS Naturals

CONSTANTS Row, Col, Cell, Zero

VARIABLES
  mem,   \* what each cell holds
  sel,   \* the row last selected
  ret    \* what the last call returned

vars == <<mem, sel, ret>>

Init ==
  /\ mem = [r \in Row |-> [c \in Col |-> Zero]]
  /\ sel \in Row
  /\ ret = [call |-> "new", ok |-> TRUE, out |-> Zero]

Select(r) ==
  /\ sel' = r
  /\ ret' = [call |-> "select", ok |-> TRUE, out |-> Zero]
  /\ UNCHANGED mem

Close ==
  /\ ret' = [call |-> "close", ok |-> TRUE, out |-> Zero]
  /\ UNCHANGED <<mem, sel>>

Store(c, v) ==
  /\ mem' = [mem EXCEPT ![sel][c] = v]
  /\ ret' = [call |-> "store", ok |-> TRUE, out |-> Zero]
  /\ UNCHANGED sel

Load(c) ==
  /\ ret' = [call |-> "load", ok |-> TRUE, out |-> mem[sel][c]]
  /\ UNCHANGED <<mem, sel>>

Refuse(call) ==
  /\ ret' = [call |-> call, ok |-> FALSE, out |-> Zero]
  /\ UNCHANGED <<mem, sel>>

Next ==
  \/ \E r \in Row : Select(r)
  \/ Close
  \/ \E c \in Col, v \in Cell : Store(c, v)
  \/ \E c \in Col : Load(c)
  \/ \E call \in {"select", "store", "load"} : Refuse(call)

Spec == Init /\ [][Next]_vars

=============================================================================
