--------------------------- MODULE DRAMDispatcher ---------------------------
(***************************************************************************)
(* The dispatcher of dram::DRAMController (dram_controller.cpp:128-198)    *)
(* with the threads it works with: the handler threads that push requests  *)
(* (lines 220-224), the transfers started with std::async (lines 173-196)  *)
(* and the thread that calls stop() (lines 80-87).                         *)
(*                                                                         *)
(* The module is open at two places, so that what it shows of this code    *)
(* does not hang on the code around it: requests come with any number,     *)
(* and OpenRow, Transfer and Send are the ways in which the calls of       *)
(* DRAMBankEqClass::open_row, DRAMBankEqClass::transfer_data and ::send    *)
(* may end.  Module DRAMController closes both with what the code has.     *)
(*                                                                         *)
(* A step is what a thread does up to its next access to state it shares   *)
(* with another thread.  The sections under dispatcher_mtx block on        *)
(* nothing but the wait, which releases it, so each is one step.           *)
(***************************************************************************)
EXTENDS Integers

CONSTANTS
  Client,          \* the accepted connections, one request each
  Seqs,            \* the numbers requests may carry
  BankId, RowId,   \* what get_bank_id and get_row_id return
  OpenCycles,      \* timings.precharge + timings.activate
  TransferCycles,  \* timings.transfer
  OpenRow,         \* how open_row ends: "returns", or "dies" with the process
  Transfer,        \* how transfer_data ends: "returns", or it "throws"
  Send,            \* how send ends: "sent", "fails" (-1), "dies" (SIGPIPE)
  None             \* no client, no row, no request

Request == [seq : Seqs, bank : BankId, row : RowId]

ASSUME DispatcherAssumption ==
  /\ Seqs \subseteq Nat
  /\ OpenCycles \in Nat /\ TransferCycles \in Nat
  /\ None \notin Client \cup RowId

VARIABLES
  alive,     \* the process has not been killed
  queue,     \* dispatcher_queue: clients whose request is queued
  req,       \* the request of each client, None before it is pushed
  handler,   \* each handler thread: "idle", "pushed", "done"
  stop,      \* dispatcher_stop
  stopper,   \* the caller of stop(): "idle", "flagged", "joining", "stopped"
  disp,      \* where the dispatcher is
  cur,       \* the client whose request the dispatcher holds, or None
  expected,  \* expected_seq
  future,    \* last_transfer: for each bank a client or None
  task,      \* the std::async task of each client
  row,       \* the row each bank class has open; None while it changes
  clock,     \* current_cycle
  start,     \* opne_row_start of each request
  seen       \* what each task has loaded from current_cycle

vars == <<alive, queue, req, handler, stop, stopper, disp, cur, expected,
          future, task, row, clock, start, seen>>

(* The places of the dispatcher at which it holds a request. *)
Serving == {"popped", "bankfree", "opening", "opened", "launching"}
Finished == {"failed", "answered"}
InFlight == {"launched", "transferring", "transferred", "loaded", "stored"}

TypeOK ==
  /\ alive \in BOOLEAN /\ stop \in BOOLEAN
  /\ queue \subseteq Client
  /\ req \in [Client -> Request \cup {None}]
  /\ handler \in [Client -> {"idle", "pushed", "done"}]
  /\ stopper \in {"idle", "flagged", "joining", "stopped"}
  /\ disp \in Serving \cup {"head", "locking", "waiting", "draining", "returned"}
  /\ cur \in Client \cup {None}
  /\ expected \in Nat
  /\ future \in [BankId -> Client \cup {None}]
  /\ task \in [Client -> {"none"} \cup InFlight \cup Finished]
  /\ row \in [BankId -> RowId \cup {None}]
  /\ clock \in Nat
  /\ start \in [Client -> Nat]
  /\ seen \in [Client -> Nat]

Init ==
  /\ alive = TRUE
  /\ queue = {}
  /\ req = [c \in Client |-> None]
  /\ handler = [c \in Client |-> "idle"]
  /\ stop = FALSE
  /\ stopper = "idle"
  /\ disp = "head"
  /\ cur = None
  /\ expected = 0
  /\ future = [b \in BankId |-> None]
  /\ task = [c \in Client |-> "none"]
  /\ row = [b \in BankId |-> None]
  /\ clock = 0
  /\ start = [c \in Client |-> 0]
  /\ seen = [c \in Client |-> 0]

-----------------------------------------------------------------------------

(* Mutants: the comparison of SeqCmp the wrong way round; a notify_one      *)
(* left out; a wait for a transfer left out; the cycles of opening the row *)
(* subtracted, and counted twice.                                          *)
IsBottom(c) == c \in queue /\ \A d \in queue : req[c].seq >= req[d].seq
NotNotified(place) == place
NothingAwaited(b) == TRUE
OpenRowEndBackwards(c) == start[c] - OpenCycles
TransferEndTwice(c) == start[c] + 2 * OpenCycles + TransferCycles

(* SeqCmp makes the request with the smallest number the top of the queue. *)
IsTop(c) == c \in queue /\ \A d \in queue : req[c].seq <= req[d].seq

(* The second half of the predicate the dispatcher waits for. *)
Ready(c) == IsTop(c) /\ req[c].seq = expected
SomeReady == \E c \in queue : Ready(c)

(* A future is ready when its task has ended, with a value or an exception. *)
IsReady(c) == task[c] \in Finished

BankOf(c) == req[c].bank
RowOf(c)  == req[c].row

OpenRowEnd(c)  == start[c] + OpenCycles
TransferEnd(c) == OpenRowEnd(c) + TransferCycles

Later(m, n) == IF m >= n THEN m ELSE n

(* notify_one: the dispatcher is the only thread that ever waits. *)
Notified(place) == IF place = "waiting" THEN "locking" ELSE place

-----------------------------------------------------------------------------
(* A handler thread: pushes under the lock, notifies without it.           *)

Push(c, r) ==
  /\ handler[c] = "idle"
  /\ req' = [req EXCEPT ![c] = r]
  /\ queue' = queue \cup {c}
  /\ handler' = [handler EXCEPT ![c] = "pushed"]
  /\ UNCHANGED <<alive, stop, stopper, disp, cur, expected, future, task, row,
                 clock, start, seen>>

NotifyPushed(c) ==
  /\ handler[c] = "pushed"
  /\ handler' = [handler EXCEPT ![c] = "done"]
  /\ disp' = Notified(disp)
  /\ UNCHANGED <<alive, queue, req, stop, stopper, cur, expected, future, task,
                 row, clock, start, seen>>

(* handle_request comes to grief: nothing catches an exception that leaves *)
(* its thread.                                                             *)
HandlerDies(c) ==
  /\ handler[c] # "done"
  /\ alive' = FALSE
  /\ UNCHANGED <<queue, req, handler, stop, stopper, disp, cur, expected,
                 future, task, row, clock, start, seen>>

-----------------------------------------------------------------------------
(* The thread that calls stop(). *)

SetStop ==
  /\ stopper = "idle"
  /\ stop' = TRUE
  /\ stopper' = "flagged"
  /\ UNCHANGED <<alive, queue, req, handler, disp, cur, expected, future, task,
                 row, clock, start, seen>>

NotifyStop ==
  /\ stopper = "flagged"
  /\ stopper' = "joining"
  /\ disp' = Notified(disp)
  /\ UNCHANGED <<alive, queue, req, handler, stop, cur, expected, future, task,
                 row, clock, start, seen>>

Join ==
  /\ stopper = "joining" /\ disp = "returned"
  /\ stopper' = "stopped"
  /\ UNCHANGED <<alive, queue, req, handler, stop, disp, cur, expected, future,
                 task, row, clock, start, seen>>

-----------------------------------------------------------------------------
(* The dispatcher thread. *)

(* while (!dispatcher_stop), read without the lock. *)
LoopHead ==
  /\ disp = "head"
  /\ disp' = IF stop THEN "draining" ELSE "locking"
  /\ UNCHANGED <<alive, queue, req, handler, stop, stopper, cur, expected,
                 future, task, row, clock, start, seen>>

(* The predicate is false: dispatcher_cv.wait releases the lock. *)
Sleep ==
  /\ disp = "locking" /\ ~ stop /\ ~ SomeReady
  /\ disp' = "waiting"
  /\ UNCHANGED <<alive, queue, req, handler, stop, stopper, cur, expected,
                 future, task, row, clock, start, seen>>

SpuriousWake ==
  /\ disp = "waiting"
  /\ disp' = "locking"
  /\ UNCHANGED <<alive, queue, req, handler, stop, stopper, cur, expected,
                 future, task, row, clock, start, seen>>

ReturnStopped ==
  /\ disp = "locking" /\ stop
  /\ disp' = "draining"
  /\ UNCHANGED <<alive, queue, req, handler, stop, stopper, cur, expected,
                 future, task, row, clock, start, seen>>

(* top(), pop() and expected_seq++. *)
Pop(c) ==
  /\ disp = "locking" /\ ~ stop /\ c \in queue /\ Ready(c)
  /\ queue' = queue \ {c}
  /\ cur' = c
  /\ expected' = expected + 1
  /\ disp' = "popped"
  /\ UNCHANGED <<alive, req, handler, stop, stopper, future, task, row, clock,
                 start, seen>>

(* No transfer of bank b is in flight any more. *)
PreviousDone(b) == future[b] # None => IsReady(future[b])

(* f.wait() and last_transfer.erase(bidx), if there is an entry for bidx. *)
AwaitBank ==
  /\ disp = "popped"
  /\ PreviousDone(BankOf(cur))
  /\ future' = [future EXCEPT ![BankOf(cur)] = None]
  /\ disp' = "bankfree"
  /\ UNCHANGED <<alive, queue, req, handler, stop, stopper, cur, expected, task,
                 row, clock, start, seen>>

BeginOpenRow ==
  /\ disp = "bankfree"
  /\ start' = [start EXCEPT ![cur] = clock]
  /\ row' = [row EXCEPT ![BankOf(cur)] = None]
  /\ disp' = "opening"
  /\ UNCHANGED <<alive, queue, req, handler, stop, stopper, cur, expected,
                 future, task, clock, seen>>

OpenRowReturns ==
  /\ disp = "opening" /\ "returns" \in OpenRow
  /\ row' = [row EXCEPT ![BankOf(cur)] = RowOf(cur)]
  /\ disp' = "opened"
  /\ UNCHANGED <<alive, queue, req, handler, stop, stopper, cur, expected,
                 future, task, clock, start, seen>>

OpenRowDies ==
  /\ disp = "opening" /\ "dies" \in OpenRow
  /\ alive' = FALSE
  /\ UNCHANGED <<queue, req, handler, stop, stopper, disp, cur, expected,
                 future, task, row, clock, start, seen>>

(* current_cycle.store(open_row_end): what a transfer has stored meanwhile *)
(* is lost.                                                                *)
StoreOpenRowEnd ==
  /\ disp = "opened"
  /\ clock' = OpenRowEnd(cur)
  /\ disp' = "launching"
  /\ UNCHANGED <<alive, queue, req, handler, stop, stopper, cur, expected,
                 future, task, row, start, seen>>

(* last_transfer[bidx] = std::async(...) and back to the head of the loop. *)
Launch ==
  /\ disp = "launching"
  /\ task' = [task EXCEPT ![cur] = "launched"]
  /\ future' = [future EXCEPT ![BankOf(cur)] = cur]
  /\ cur' = None
  /\ disp' = "head"
  /\ UNCHANGED <<alive, queue, req, handler, stop, stopper, expected, row,
                 clock, start, seen>>

(* Leaving the function destroys last_transfer, and the destructor of a    *)
(* future of std::async waits for its task.                                *)
Drain ==
  /\ disp = "draining"
  /\ \A b \in BankId : PreviousDone(b)
  /\ future' = [b \in BankId |-> None]
  /\ disp' = "returned"
  /\ UNCHANGED <<alive, queue, req, handler, stop, stopper, cur, expected, task,
                 row, clock, start, seen>>

-----------------------------------------------------------------------------
(* The task of client c. *)

BeginTransfer(c) ==
  /\ task[c] = "launched"
  /\ task' = [task EXCEPT ![c] = "transferring"]
  /\ UNCHANGED <<alive, queue, req, handler, stop, stopper, disp, cur, expected,
                 future, row, clock, start, seen>>

EndTransfer(c) ==
  /\ task[c] = "transferring"
  /\ \/ /\ "returns" \in Transfer
        /\ task' = [task EXCEPT ![c] = "transferred"]
     \/ /\ "throws" \in Transfer
        /\ task' = [task EXCEPT ![c] = "failed"]
  /\ UNCHANGED <<alive, queue, req, handler, stop, stopper, disp, cur, expected,
                 future, row, clock, start, seen>>

LoadClock(c) ==
  /\ task[c] = "transferred"
  /\ seen' = [seen EXCEPT ![c] = clock]
  /\ task' = [task EXCEPT ![c] = "loaded"]
  /\ UNCHANGED <<alive, queue, req, handler, stop, stopper, disp, cur, expected,
                 future, row, clock, start>>

StoreClock(c) ==
  /\ task[c] = "loaded"
  /\ clock' = Later(seen[c], TransferEnd(c))
  /\ task' = [task EXCEPT ![c] = "stored"]
  /\ UNCHANGED <<alive, queue, req, handler, stop, stopper, disp, cur, expected,
                 future, row, start, seen>>

SendResponse(c) ==
  /\ task[c] = "stored"
  /\ \/ /\ "sent" \in Send
        /\ task' = [task EXCEPT ![c] = "answered"]
        /\ UNCHANGED alive
     \/ /\ "fails" \in Send
        /\ task' = [task EXCEPT ![c] = "failed"]
        /\ UNCHANGED alive
     \/ /\ "dies" \in Send
        /\ alive' = FALSE
        /\ UNCHANGED task
  /\ UNCHANGED <<queue, req, handler, stop, stopper, disp, cur, expected,
                 future, row, clock, start, seen>>

-----------------------------------------------------------------------------

Handler(c) == NotifyPushed(c) \/ HandlerDies(c) \/ \E r \in Request : Push(c, r)

Stopper == NotifyStop \/ Join

(* What the dispatcher does of its own accord. *)
Dispatcher ==
  \/ LoopHead \/ Sleep \/ ReturnStopped \/ AwaitBank
  \/ BeginOpenRow \/ OpenRowReturns \/ OpenRowDies
  \/ StoreOpenRowEnd \/ Launch \/ Drain
  \/ \E c \in Client : Pop(c)

Task(c) ==
  BeginTransfer(c) \/ EndTransfer(c) \/ LoadClock(c) \/ StoreClock(c) \/ SendResponse(c)

Next ==
  /\ alive
  /\ \/ \E c \in Client : Handler(c) \/ Task(c)
     \/ Dispatcher
     \/ SpuriousWake
     \/ SetStop
     \/ Stopper

Spec == Init /\ [][Next]_vars

(* The operating system runs every thread that can run, and the calls the  *)
(* threads make end.  Nobody owes a request, a stop() or a spurious wake.  *)
Fairness ==
  /\ WF_vars(alive /\ Dispatcher)
  /\ WF_vars(alive /\ Stopper)
  /\ \A c \in Client : WF_vars(alive /\ NotifyPushed(c)) /\ WF_vars(alive /\ Task(c))

FairSpec == Spec /\ Fairness

-----------------------------------------------------------------------------

(* A transfer finds in the sense amplifiers of its bank the row of its own *)
(* request from its beginning to its end: the dispatcher, which goes on    *)
(* with the next request meanwhile, has not touched them                   *)
(* (dram_controller.cpp:150-155 against 172-177).                          *)
RowServed ==
  \A c \in Client : task[c] = "transferring" => row[BankOf(c)] = RowOf(c)

(* The dispatcher does not sleep through its work: whenever it waits while *)
(* its predicate is true, a notify_one for it is on its way                *)
(* (dram_controller.cpp:80-86, 136-140, 220-224).                          *)
NoLostWakeup ==
  disp = "waiting" /\ (stop \/ SomeReady) =>
    stopper = "flagged" \/ \E c \in Client : handler[c] = "pushed"

(* When stop() returns no thread of the controller uses the banks or the   *)
(* clock any more, whatever was in flight when it was called               *)
(* (dram_controller.cpp:73-88, the destructors at line 198).               *)
StopDrains ==
  stopper = "stopped" =>
    disp = "returned" /\ \A c \in Client : task[c] \notin InFlight

(* The clock never runs ahead of the work: it is at most what the requests *)
(* dispatched so far would take one after the other, whatever order the    *)
(* loads and stores of dispatcher and tasks come in (lines 158-161, 180).  *)
ClockBound == clock <= expected * (OpenCycles + TransferCycles)

(* Requests are dispatched in the order of their numbers, and requests for *)
(* one bank finish in that order.                                          *)
Status(c) ==
  IF handler[c] = "idle" THEN "absent"
  ELSE IF c \in queue THEN "queued"
  ELSE IF IsReady(c) THEN "finished"
  ELSE "taken"

Service == INSTANCE InOrderService WITH
             status <- [c \in Client |-> Status(c)],
             serving <- expected

ImplementsInOrderService == Service!Spec

(* stop() returns once called, unless the process dies before              *)
(* (dram_controller.cpp:73-88).                                            *)
StopReturns == stopper = "flagged" ~> (stopper = "stopped" \/ ~ alive)

(* As long as no request with a number already passed clogs the top of the *)
(* queue, a request with the expected number is dispatched: no wakeup and  *)
(* no transfer in flight holds it up for ever (dram_controller.cpp:133-155). *)
NoStale == \A c \in queue : req[c].seq >= expected

ExpectedIsDispatched ==
  []NoStale =>
    \A c \in Client :
      (c \in queue /\ req[c].seq = expected) ~> (c \notin queue \/ stop \/ ~ alive)

(* Later requests of a bank start, by the clock, when the transfer of the  *)
(* earlier one has ended: line 150 says the dispatcher waits for it "to    *)
(* fully complete", dram_controller.hpp:121 that the clock counts the      *)
(* cycles elapsed.                                                         *)
Started(c) ==
  task[c] # "none" \/ (c = cur /\ disp \in {"opening", "opened", "launching"})

SameBankCyclesDisjoint ==
  \A c, d \in Client :
    /\ task[c] = "answered" /\ Started(d)
    /\ BankOf(c) = BankOf(d) /\ req[c].seq < req[d].seq
    => TransferEnd(c) <= start[d]

=============================================================================
