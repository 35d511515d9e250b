-------------------------- MODULE DRAMBankEqClass --------------------------
(***************************************************************************)
(* One dram::DRAMBankEqClass: the banks with the same number in every chip *)
(* of the rank, which work in parallel on the lines of the data bus.  Its  *)
(* methods loop over its banks and let the first DRAMError through.        *)
(*                                                                         *)
(* open_row tests its loop with "i = 0; banks.size(); i++": the condition  *)
(* is true for every i, so a loop no bank refuses goes on behind the last  *)
(* element of the vector and calls open_row through whatever lies there.   *)
(* The builds at -O0 and -O2 stop with a segmentation fault; here the      *)
(* process is not alive any more.                                          *)
(***************************************************************************)
EXTENDS BankOps, FiniteSets

CONSTANTS
  BusWidth,  \* SystemConfig::data_bus_width
  RowAddr,   \* row addresses the dispatcher passes
  ColAddr,   \* column addresses the dispatcher passes
  Sizes      \* lengths of the data it passes

ASSUME EqClassAssumption ==
  /\ BusWidth \in Nat /\ BusWidth >= Width /\ BusWidth % Width = 0
  /\ RowAddr \subseteq Nat /\ ColAddr \subseteq Nat /\ Sizes \subseteq Nat

Chips == BusWidth \div Width   \* DRAMConfig::number_of_chips()
Chip  == 0 .. Chips - 1

Span == UNION { [0 .. n - 1 -> Cell] : n \in Sizes }

VARIABLES
  banks,   \* the bank of each chip
  alive,   \* the process has not crashed
  ret      \* the last call, whether it returned, and its data argument

vars == <<banks, alive, ret>>

Returned(call, col, ok, data) ==
  [call |-> call, col |-> col, ok |-> ok, data |-> data]

TypeOK ==
  /\ banks \in [Chip -> Bank]
  /\ alive \in BOOLEAN
  /\ ret.ok \in BOOLEAN /\ ret.data \in Span \cup {<<>>}

Init ==
  /\ banks = [k \in Chip |-> NewBank]
  /\ alive = TRUE
  /\ ret = Returned("new", 0, TRUE, <<>>)

-----------------------------------------------------------------------------

(* Mutant: the loop test "i < banks.size()". *)
StopsAtTheEnd(k) == FALSE

(* The loop over the banks of open_row has no end of its own. *)
RunsOffTheEnd(k) == k >= Chips

SizeMatches(n) == n = BusWidth

(* The lines of the data bus that belong to chip k. *)
Lines(data, k) == [i \in Array |-> data[k * Width + i]]

OpenedThrough(row, k) == \A j \in 0 .. k : OpenRowOk(banks[j], row)

OpenRow(row_addr) ==
  /\ alive
  /\ banks' = [k \in Chip |-> IF OpenedThrough(row_addr, k - 1)
                              THEN RowOpened(banks[k], row_addr)
                              ELSE banks[k]]
  /\ LET all == OpenedThrough(row_addr, Chips - 1)
     IN /\ alive' = ~ (all /\ RunsOffTheEnd(Chips))
        /\ ret' = Returned("open_row", 0, all /\ alive', <<>>)

TransferWrite(col_addr, data) ==
  LET ok(k) == \A j \in 0 .. k : WriteOk(banks[j], col_addr)
      accepted == SizeMatches(Cardinality(DOMAIN data))
  IN /\ alive
     /\ banks' = [k \in Chip |-> IF accepted /\ ok(k - 1)
                                 THEN WordWritten(banks[k], col_addr, Lines(data, k))
                                 ELSE banks[k]]
     /\ ret' = Returned("write", col_addr, accepted /\ ok(Chips - 1), data)
     /\ UNCHANGED alive

TransferRead(col_addr, data) ==
  LET ok(k) == \A j \in 0 .. k : ReadOk(banks[j], col_addr)
      accepted == SizeMatches(Cardinality(DOMAIN data))
      word(k) == IF ok(k - 1) THEN WordRead(banks[k], col_addr, Lines(data, k))
                              ELSE Lines(data, k)
  IN /\ alive
     /\ ret' = Returned("read", col_addr, accepted /\ ok(Chips - 1),
                        IF accepted
                        THEN [i \in DOMAIN data |-> word(i \div Width)[i % Width]]
                        ELSE data)
     /\ UNCHANGED <<banks, alive>>

Next ==
  \/ \E row_addr \in RowAddr : OpenRow(row_addr)
  \/ \E col_addr \in ColAddr, data \in Span : TransferWrite(col_addr, data)
  \/ \E col_addr \in ColAddr, data \in Span : TransferRead(col_addr, data)

Spec == Init /\ [][Next]_vars

-----------------------------------------------------------------------------

(* What the endless loop (dram_bank.cpp:83) and the inverted test of read  *)
(* (dram_array.cpp:73) add up to: as long as the process lives, no call    *)
(* has left a row open or a bit set, no write has returned, and every read *)
(* that returned yields zeros.                                             *)
AliveMeansBlank ==
  alive => /\ banks = [k \in Chip |-> NewBank]
           /\ ret.call = "write" => ~ ret.ok
           /\ ret.call = "read" /\ ret.ok => \A i \in DOMAIN ret.data : ret.data[i] = 0

(* The crash comes after the whole work: every bank of the class has the   *)
(* same row open by then, none was skipped (dram_bank.cpp:81-86).          *)
CrashedWithRowOpen ==
  ~ alive => \E row \in Row : \A k \in Chip, i \in Array :
               banks[k][i].is_word_open /\ banks[k][i].open_row = row

=============================================================================
