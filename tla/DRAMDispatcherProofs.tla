------------------------ MODULE DRAMDispatcherProofs ------------------------
(***************************************************************************)
(* For every number of clients, banks and rows and all timings: what the   *)
(* dispatcher and the threads around it never do.  The invariant IInv says *)
(* who may be using a bank and who remembers it; its parts are kept apart  *)
(* because the properties rest on different ones.                          *)
(***************************************************************************)
EXTENDS DRAMDispatcher, TLAPS

(* Where the request of a client is: in the queue, held by the dispatcher, *)
(* or with its task, and in one of these places only.                      *)
Placed ==
  /\ \A c \in Client : handler[c] = "idle" <=> c \notin queue /\ c # cur /\ task[c] = "none"
  /\ \A c \in Client : handler[c] # "idle" => req[c] \in Request
  /\ \A c \in queue : c # cur /\ task[c] = "none"
  /\ cur # None => task[cur] = "none"
  /\ disp \in Serving <=> cur # None

(* last_transfer knows every transfer in flight, under its own bank. *)
Tracked ==
  /\ \A b \in BankId : future[b] # None =>
       task[future[b]] # "none" /\ BankOf(future[b]) = b
  /\ \A c \in Client : task[c] \in InFlight => future[BankOf(c)] = c
  /\ disp \in Serving \ {"popped"} => future[BankOf(cur)] = None

(* The bank of a transfer in flight has the row of its request open. *)
Opened ==
  /\ \A c \in Client : task[c] \in InFlight => row[BankOf(c)] = RowOf(c)
  /\ disp \in {"opened", "launching"} => row[BankOf(cur)] = RowOf(cur)

(* How far the dispatcher and the caller of stop() can be apart. *)
Stopping ==
  /\ stop <=> stopper # "idle"
  /\ disp \in {"draining", "returned"} => stop
  /\ disp = "returned" => \A b \in BankId : future[b] = None
  /\ stopper = "stopped" => disp = "returned"

(* The numbers of the requests taken from the queue lie below expected. *)
Ordered ==
  /\ \A c \in Client : task[c] # "none" => req[c].seq < expected
  /\ cur # None => req[cur].seq = expected - 1

IInv == TypeOK /\ Placed /\ Tracked /\ Opened /\ Stopping /\ Ordered

USE DispatcherAssumption

-----------------------------------------------------------------------------

(* While it serves a request the dispatcher knows whose it is. *)
LEMMA Holding ==
  ASSUME TypeOK, Placed, disp \in Serving
  PROVE  /\ cur \in Client /\ task[cur] = "none" /\ req[cur] \in Request
         /\ handler[cur] # "idle" /\ cur \notin queue
         /\ BankOf(cur) \in BankId /\ RowOf(cur) \in RowId
<1>1. cur \in Client /\ task[cur] = "none"
  BY DEF TypeOK, Placed
<1>2. handler[cur] # "idle" /\ req[cur] \in Request /\ cur \notin queue
  BY <1>1 DEF Placed
<1>3. QED
  BY <1>1, <1>2 DEF Request, BankOf, RowOf

(* What a task does to all but the clock and the process. *)
LEMMA TaskStep ==
  ASSUME NEW c \in Client, Task(c), TypeOK
  PROVE  /\ UNCHANGED <<queue, req, handler, stop, stopper, disp, cur, expected,
                        future, row, start>>
         /\ task[c] \in InFlight
         /\ task'[c] \in InFlight \cup Finished
         /\ task' = [task EXCEPT ![c] = task'[c]]
<1>1. CASE BeginTransfer(c)
  BY <1>1 DEF TypeOK, BeginTransfer, InFlight
<1>2. CASE EndTransfer(c)
  BY <1>2 DEF TypeOK, EndTransfer, InFlight, Finished
<1>3. CASE LoadClock(c)
  BY <1>3 DEF TypeOK, LoadClock, InFlight
<1>4. CASE StoreClock(c)
  BY <1>4 DEF TypeOK, StoreClock, InFlight
<1>5. CASE SendResponse(c)
  <2>1. CASE task' = task
    BY <1>5, <2>1 DEF TypeOK, SendResponse, InFlight
  <2>2. CASE task' # task
    BY <1>5, <2>2 DEF TypeOK, SendResponse, InFlight, Finished
  <2>3. QED
    BY <2>1, <2>2
<1>6. QED
  BY <1>1, <1>2, <1>3, <1>4, <1>5 DEF Task

(* Every action keeps the type invariant. *)
LEMMA TypeStep == TypeOK /\ Placed /\ [Next]_vars => TypeOK'
<1> SUFFICES ASSUME TypeOK, Placed, [Next]_vars PROVE TypeOK'
  OBVIOUS
<1> USE DEF TypeOK
<1>1. ASSUME NEW c \in Client, NEW r \in Request, Push(c, r) PROVE TypeOK'
  BY <1>1 DEF Push
<1>2. ASSUME NEW c \in Client, NotifyPushed(c) PROVE TypeOK'
  BY <1>2 DEF NotifyPushed, Notified
<1>3. CASE SetStop \/ \E c \in Client : HandlerDies(c)
  BY <1>3 DEF SetStop, HandlerDies
<1>4. CASE Stopper
  BY <1>4 DEF Stopper, NotifyStop, Join, Notified
<1>5. CASE LoopHead \/ Sleep \/ ReturnStopped \/ SpuriousWake
  BY <1>5 DEF LoopHead, Sleep, ReturnStopped, SpuriousWake
<1>6. ASSUME NEW c \in Client, Pop(c) PROVE TypeOK'
  BY <1>6 DEF Pop, Serving
<1>7. CASE AwaitBank
  BY <1>7 DEF AwaitBank, Serving
<1>8. CASE BeginOpenRow
  <2>1. cur \in Client /\ BankOf(cur) \in BankId
    BY <1>8, Holding DEF BeginOpenRow, Serving
  <2>2. start' \in [Client -> Nat] /\ row' \in [BankId -> RowId \cup {None}]
    BY <1>8, <2>1 DEF BeginOpenRow
  <2>3. QED
    BY <1>8, <2>2 DEF BeginOpenRow, Serving
<1>9. CASE OpenRowReturns \/ OpenRowDies
  <2>1. BankOf(cur) \in BankId /\ RowOf(cur) \in RowId
    BY <1>9, Holding DEF OpenRowReturns, OpenRowDies, Serving
  <2>2. row' \in [BankId -> RowId \cup {None}]
    BY <1>9, <2>1 DEF OpenRowReturns, OpenRowDies
  <2>3. QED
    BY <1>9, <2>2 DEF OpenRowReturns, OpenRowDies, Serving
<1>10. CASE StoreOpenRowEnd
  <2>1. cur \in Client
    BY <1>10, Holding DEF StoreOpenRowEnd, Serving
  <2>2. clock' \in Nat
    BY <1>10, <2>1 DEF StoreOpenRowEnd, OpenRowEnd
  <2>3. QED
    BY <1>10, <2>2 DEF StoreOpenRowEnd, Serving
<1>11. CASE Launch
  BY <1>11 DEF Launch, InFlight
<1>12. CASE Drain
  BY <1>12 DEF Drain
<1>13. ASSUME NEW c \in Client, Task(c) PROVE TypeOK'
  <2>1. task' \in [Client -> {"none"} \cup InFlight \cup Finished]
    BY <1>13, TaskStep DEF InFlight, Finished
  <2>2. clock' \in Nat
    <3>1. CASE StoreClock(c)
      BY <3>1 DEF StoreClock, Later, TransferEnd, OpenRowEnd
    <3>2. CASE ~ StoreClock(c)
      BY <1>13, <3>2 DEF Task, BeginTransfer, EndTransfer, LoadClock, SendResponse
    <3>3. QED
      BY <3>1, <3>2
  <2>3. alive' \in BOOLEAN
    <3>1. CASE SendResponse(c)
      BY <3>1 DEF SendResponse
    <3>2. CASE ~ SendResponse(c)
      BY <1>13, <3>2 DEF Task, BeginTransfer, EndTransfer, LoadClock, StoreClock
    <3>3. QED
      BY <3>1, <3>2
  <2>4. seen' \in [Client -> Nat]
    BY <1>13 DEF Task, BeginTransfer, EndTransfer, LoadClock, StoreClock,
       SendResponse
  <2>5. QED
    BY <2>1, <2>2, <2>3, <2>4, <1>13, TaskStep
<1>14. CASE UNCHANGED vars
  BY <1>14 DEF vars
<1>15. QED
  BY <1>1, <1>2, <1>3, <1>4, <1>5, <1>6, <1>7, <1>8, <1>9, <1>10, <1>11,
     <1>12, <1>13, <1>14 DEF Next, Dispatcher, Handler

-----------------------------------------------------------------------------

LEMMA PlacedStep == TypeOK /\ Placed /\ [Next]_vars => Placed'
<1> SUFFICES ASSUME TypeOK, Placed, [Next]_vars PROVE Placed'
  OBVIOUS
<1> USE DEF TypeOK, Placed
<1>1. ASSUME NEW c \in Client, NEW r \in Request, Push(c, r) PROVE Placed'
  BY <1>1 DEF Push
<1>2. ASSUME NEW c \in Client, NotifyPushed(c) PROVE Placed'
  BY <1>2 DEF NotifyPushed, Notified, Serving
<1>3. CASE SetStop \/ Stopper \/ (\E c \in Client : HandlerDies(c))
  BY <1>3 DEF SetStop, Stopper, NotifyStop, Join, HandlerDies, Notified, Serving
<1>4. CASE LoopHead \/ Sleep \/ ReturnStopped \/ SpuriousWake
  BY <1>4 DEF LoopHead, Sleep, ReturnStopped, SpuriousWake, Serving
<1>5. ASSUME NEW c \in Client, Pop(c) PROVE Placed'
  BY <1>5 DEF Pop, Serving
<1>6. CASE AwaitBank \/ BeginOpenRow \/ OpenRowReturns \/ OpenRowDies
           \/ StoreOpenRowEnd
  BY <1>6 DEF AwaitBank, BeginOpenRow, OpenRowReturns, OpenRowDies,
     StoreOpenRowEnd, Serving
<1>7. CASE Launch
  <2>1. cur \in Client /\ handler[cur] # "idle" /\ cur \notin queue
    BY <1>7, Holding DEF Launch, Serving
  <2>2. QED
    BY <1>7, <2>1 DEF Launch, Serving
<1>8. CASE Drain
  BY <1>8 DEF Drain, Serving
<1>9. ASSUME NEW c \in Client, Task(c) PROVE Placed'
  BY <1>9, TaskStep DEF InFlight, Finished
<1>10. CASE UNCHANGED vars
  BY <1>10 DEF vars
<1>11. QED
  BY <1>1, <1>2, <1>3, <1>4, <1>5, <1>6, <1>7, <1>8, <1>9, <1>10
     DEF Next, Dispatcher, Handler

LEMMA TrackedStep == TypeOK /\ Placed /\ Tracked /\ [Next]_vars => Tracked'
<1> SUFFICES ASSUME TypeOK, Placed, Tracked, [Next]_vars PROVE Tracked'
  OBVIOUS
<1> USE DEF TypeOK, Tracked, BankOf
<1>1. ASSUME NEW c \in Client, NEW r \in Request, Push(c, r) PROVE Tracked'
  BY <1>1 DEF Push, Placed, InFlight
<1>2. ASSUME NEW c \in Client, NotifyPushed(c) PROVE Tracked'
  BY <1>2 DEF NotifyPushed, Notified, Serving
<1>3. CASE SetStop \/ Stopper \/ (\E c \in Client : HandlerDies(c))
  BY <1>3 DEF SetStop, Stopper, NotifyStop, Join, HandlerDies, Notified, Serving
<1>4. CASE LoopHead \/ Sleep \/ ReturnStopped \/ SpuriousWake
  BY <1>4 DEF LoopHead, Sleep, ReturnStopped, SpuriousWake, Serving
<1>5. ASSUME NEW c \in Client, Pop(c) PROVE Tracked'
  BY <1>5 DEF Pop
<1>6. CASE AwaitBank
  <2>1. cur \in Client /\ BankOf(cur) \in BankId
    BY <1>6, Holding DEF AwaitBank, Serving
  <2>2. QED
    BY <1>6, <2>1 DEF AwaitBank, PreviousDone, IsReady, InFlight, Finished
<1>7. CASE BeginOpenRow \/ OpenRowReturns \/ OpenRowDies \/ StoreOpenRowEnd
  BY <1>7 DEF BeginOpenRow, OpenRowReturns, OpenRowDies, StoreOpenRowEnd, Serving
<1>8. CASE Launch
  <2>1. cur \in Client /\ task[cur] = "none" /\ BankOf(cur) \in BankId
    BY <1>8, Holding DEF Launch, Serving
  <2>2. future[BankOf(cur)] = None
    BY <1>8 DEF Launch, Serving
  <2>3. QED
    BY <1>8, <2>1, <2>2 DEF Launch, InFlight, Serving
<1>9. CASE Drain
  BY <1>9 DEF Drain, PreviousDone, IsReady, InFlight, Finished, Serving, Placed, Request
<1>10. ASSUME NEW c \in Client, Task(c) PROVE Tracked'
  BY <1>10, TaskStep DEF InFlight, Finished
<1>11. CASE UNCHANGED vars
  BY <1>11 DEF vars
<1>12. QED
  BY <1>1, <1>2, <1>3, <1>4, <1>5, <1>6, <1>7, <1>8, <1>9, <1>10, <1>11
     DEF Next, Dispatcher, Handler

LEMMA OpenedStep ==
  TypeOK /\ Placed /\ Tracked /\ Opened /\ [Next]_vars => Opened'
<1> SUFFICES ASSUME TypeOK, Placed, Tracked, Opened, [Next]_vars PROVE Opened'
  OBVIOUS
<1> USE DEF TypeOK, Opened, BankOf, RowOf
<1>1. ASSUME NEW c \in Client, NEW r \in Request, Push(c, r) PROVE Opened'
  BY <1>1 DEF Push, Placed, InFlight, Serving
<1>2. ASSUME NEW c \in Client, NotifyPushed(c) PROVE Opened'
  BY <1>2 DEF NotifyPushed, Notified
<1>3. CASE SetStop \/ Stopper \/ (\E c \in Client : HandlerDies(c))
  BY <1>3 DEF SetStop, Stopper, NotifyStop, Join, HandlerDies, Notified
<1>4. CASE LoopHead \/ Sleep \/ ReturnStopped \/ SpuriousWake \/ AwaitBank \/ Drain
  BY <1>4 DEF LoopHead, Sleep, ReturnStopped, SpuriousWake, AwaitBank, Drain
<1>5. ASSUME NEW c \in Client, Pop(c) PROVE Opened'
  BY <1>5 DEF Pop
<1>6. CASE BeginOpenRow \/ OpenRowReturns
  <2>1. /\ cur \in Client /\ BankOf(cur) \in BankId
        /\ future[BankOf(cur)] = None
    BY <1>6, Holding DEF BeginOpenRow, OpenRowReturns, Serving, Tracked
  <2>2. \A c \in Client : task[c] \in InFlight => BankOf(c) # BankOf(cur)
    BY <2>1 DEF Tracked
  <2>3. /\ \A b \in BankId \ {BankOf(cur)} : row'[b] = row[b]
        /\ disp' = "opened" => row'[BankOf(cur)] = RowOf(cur)
        /\ disp' # "launching"
        /\ UNCHANGED <<task, req, cur>>
    BY <1>6, <2>1 DEF BeginOpenRow, OpenRowReturns
  <2>4. \A c \in Client : task[c] \in InFlight => BankOf(c) \in BankId
    BY DEF Placed, Request, InFlight
  <2>5. QED
    BY <2>2, <2>3, <2>4
<1>7. CASE OpenRowDies \/ StoreOpenRowEnd
  BY <1>7 DEF OpenRowDies, StoreOpenRowEnd
<1>8. CASE Launch
  <2>1. cur \in Client
    BY <1>8, Holding DEF Launch, Serving
  <2>2. QED
    BY <1>8, <2>1 DEF Launch
<1>9. ASSUME NEW c \in Client, Task(c) PROVE Opened'
  BY <1>9, TaskStep DEF InFlight, Finished
<1>10. CASE UNCHANGED vars
  BY <1>10 DEF vars
<1>11. QED
  BY <1>1, <1>2, <1>3, <1>4, <1>5, <1>6, <1>7, <1>8, <1>9, <1>10
     DEF Next, Dispatcher, Handler

LEMMA StoppingStep ==
  TypeOK /\ Placed /\ Stopping /\ [Next]_vars => Stopping'
<1> SUFFICES ASSUME TypeOK, Placed, Stopping, [Next]_vars PROVE Stopping'
  OBVIOUS
<1> USE DEF TypeOK, Stopping
<1>1. ASSUME NEW c \in Client, NEW r \in Request, Push(c, r) PROVE Stopping'
  BY <1>1 DEF Push
<1>2. ASSUME NEW c \in Client, NotifyPushed(c) PROVE Stopping'
  BY <1>2 DEF NotifyPushed, Notified
<1>3. CASE SetStop \/ Stopper \/ (\E c \in Client : HandlerDies(c))
  BY <1>3 DEF SetStop, Stopper, NotifyStop, Join, HandlerDies, Notified
<1>4. CASE LoopHead \/ Sleep \/ ReturnStopped \/ SpuriousWake
  BY <1>4 DEF LoopHead, Sleep, ReturnStopped, SpuriousWake
<1>5. ASSUME NEW c \in Client, Pop(c) PROVE Stopping'
  BY <1>5 DEF Pop
<1>6. CASE AwaitBank \/ BeginOpenRow \/ OpenRowReturns \/ OpenRowDies
           \/ StoreOpenRowEnd \/ Launch
  BY <1>6 DEF AwaitBank, BeginOpenRow, OpenRowReturns, OpenRowDies,
     StoreOpenRowEnd, Launch
<1>7. CASE Drain
  BY <1>7 DEF Drain
<1>8. ASSUME NEW c \in Client, Task(c) PROVE Stopping'
  BY <1>8, TaskStep
<1>9. CASE UNCHANGED vars
  BY <1>9 DEF vars
<1>10. QED
  BY <1>1, <1>2, <1>3, <1>4, <1>5, <1>6, <1>7, <1>8, <1>9
     DEF Next, Dispatcher, Handler

LEMMA OrderedStep ==
  TypeOK /\ Placed /\ Ordered /\ [Next]_vars => Ordered'
<1> SUFFICES ASSUME TypeOK, Placed, Ordered, [Next]_vars PROVE Ordered'
  OBVIOUS
<1> USE DEF TypeOK, Ordered
<1>1. ASSUME NEW c \in Client, NEW r \in Request, Push(c, r) PROVE Ordered'
  BY <1>1 DEF Push, Placed
<1>2. ASSUME NEW c \in Client, NotifyPushed(c) PROVE Ordered'
  BY <1>2 DEF NotifyPushed
<1>3. CASE SetStop \/ Stopper \/ (\E c \in Client : HandlerDies(c))
  BY <1>3 DEF SetStop, Stopper, NotifyStop, Join, HandlerDies
<1>4. CASE LoopHead \/ Sleep \/ ReturnStopped \/ SpuriousWake
  BY <1>4 DEF LoopHead, Sleep, ReturnStopped, SpuriousWake
<1>5. ASSUME NEW c \in Client, Pop(c) PROVE Ordered'
  <2>1. \A d \in Client : task[d] # "none" => req[d].seq \in Nat
    BY DEF Placed, Request
  <2>2. QED
    BY <1>5, <2>1 DEF Pop, Ready
<1>6. CASE AwaitBank \/ BeginOpenRow \/ OpenRowReturns \/ OpenRowDies
           \/ StoreOpenRowEnd \/ Drain
  BY <1>6 DEF AwaitBank, BeginOpenRow, OpenRowReturns, OpenRowDies,
     StoreOpenRowEnd, Drain
<1>7. CASE Launch
  BY <1>7, Holding DEF Launch, Serving
<1>8. ASSUME NEW c \in Client, Task(c) PROVE Ordered'
  BY <1>8, TaskStep DEF InFlight
<1>9. CASE UNCHANGED vars
  BY <1>9 DEF vars
<1>10. QED
  BY <1>1, <1>2, <1>3, <1>4, <1>5, <1>6, <1>7, <1>8, <1>9
     DEF Next, Dispatcher, Handler

LEMMA InitIInv == Init => IInv
<1> SUFFICES ASSUME Init PROVE IInv
  OBVIOUS
<1> USE DEF Init
<1>1. TypeOK
  BY DEF TypeOK
<1>2. Placed
  BY DEF Placed, Serving
<1>3. Tracked /\ Opened
  BY DEF Tracked, Opened, Serving, InFlight
<1>4. Stopping
  BY DEF Stopping
<1>5. Ordered
  BY DEF Ordered
<1>6. QED
  BY <1>1, <1>2, <1>3, <1>4, <1>5 DEF IInv

LEMMA NextIInv == IInv /\ [Next]_vars => IInv'
  BY TypeStep, PlacedStep, TrackedStep, OpenedStep, StoppingStep, OrderedStep
     DEF IInv

LEMMA Invariant == Spec => []IInv
  BY InitIInv, NextIInv, PTL DEF Spec

-----------------------------------------------------------------------------

(* Every variable of the dispatcher keeps its type. *)
THEOREM DispatcherTyped == Spec => []TypeOK
  BY Invariant, PTL DEF IInv

(* While a transfer is under way its bank has the row of its request open: *)
(* the wait on last_transfer keeps the dispatcher away from the banks in   *)
(* use (dram_controller.cpp:150-155).                                      *)
THEOREM DispatcherServesRow == Spec => []RowServed
<1>1. IInv => RowServed
  BY DEF IInv, Opened, RowServed, InFlight
<1>2. QED
  BY <1>1, Invariant, PTL

(* When stop() has returned no transfer is in flight any more              *)
(* (dram_controller.cpp:73-88, 198).                                       *)
THEOREM StopDrainsAll == Spec => []StopDrains
<1>1. IInv => StopDrains
  <2> SUFFICES ASSUME IInv, stopper = "stopped" PROVE StopDrains
    BY DEF StopDrains
  <2>1. disp = "returned" /\ \A b \in BankId : future[b] = None
    BY DEF IInv, Stopping
  <2>2. \A c \in Client : task[c] \in InFlight => BankOf(c) \in BankId
    BY DEF IInv, Placed, Request, BankOf, InFlight
  <2>3. QED
    BY <2>1, <2>2 DEF IInv, Tracked, StopDrains
<1>2. QED
  BY <1>1, Invariant, PTL

(* The dispatcher never waits for a notify_one nobody owes it: push and    *)
(* stop change what it waits for under its lock and notify afterwards      *)
(* (dram_controller.cpp:80-86, 136-140, 220-224).                          *)
THEOREM NoWakeupLost == Spec => []NoLostWakeup
<1>1. Init => NoLostWakeup
  BY DEF Init, NoLostWakeup
<1>2. TypeOK /\ NoLostWakeup /\ [Next]_vars => NoLostWakeup'
  <2> SUFFICES ASSUME TypeOK, NoLostWakeup, [Next]_vars PROVE NoLostWakeup'
    OBVIOUS
  <2> USE DEF TypeOK, NoLostWakeup, SomeReady, Ready, IsTop
  <2>1. ASSUME NEW c \in Client, NEW r \in Request, Push(c, r)
        PROVE  NoLostWakeup'
    BY <2>1 DEF Push
  <2>2. ASSUME NEW c \in Client, NotifyPushed(c) PROVE NoLostWakeup'
    BY <2>2 DEF NotifyPushed, Notified
  <2>3. CASE SetStop \/ Stopper \/ (\E c \in Client : HandlerDies(c))
    BY <2>3 DEF SetStop, Stopper, NotifyStop, Join, HandlerDies, Notified
  <2>4. CASE LoopHead \/ Sleep \/ ReturnStopped \/ SpuriousWake
    BY <2>4 DEF LoopHead, Sleep, ReturnStopped, SpuriousWake
  <2>5. CASE \/ AwaitBank \/ BeginOpenRow \/ OpenRowReturns \/ OpenRowDies
             \/ StoreOpenRowEnd \/ Launch \/ Drain
             \/ \E c \in Client : Pop(c)
    BY <2>5 DEF AwaitBank, BeginOpenRow, OpenRowReturns, OpenRowDies,
       StoreOpenRowEnd, Launch, Drain, Pop
  <2>6. ASSUME NEW c \in Client, Task(c) PROVE NoLostWakeup'
    BY <2>6, TaskStep
  <2>7. CASE UNCHANGED vars
    BY <2>7 DEF vars
  <2>8. QED
    BY <2>1, <2>2, <2>3, <2>4, <2>5, <2>6, <2>7 DEF Next, Dispatcher, Handler
<1>3. QED
  BY <1>1, <1>2, DispatcherTyped, PTL DEF Spec

-----------------------------------------------------------------------------

(* The requests the abstract service calls taken are the one the dispatcher *)
(* holds and those in flight.                                              *)
LEMMA TakenMeans ==
  ASSUME IInv, NEW c \in Client
  PROVE  /\ Status(c) = "taken" <=> c = cur \/ task[c] \in InFlight
         /\ Status(c) = "queued" <=> c \in queue
         /\ Status(c) = "absent" <=> handler[c] = "idle"
<1>1. /\ handler[c] = "idle" => c \notin queue /\ c # cur /\ task[c] = "none"
      /\ handler[c] # "idle" => c \in queue \/ c = cur \/ task[c] # "none"
      /\ c \in queue => c # cur /\ task[c] = "none"
      /\ c = cur => task[c] = "none"
      /\ task[c] \in {"none"} \cup InFlight \cup Finished
  BY DEF IInv, Placed, TypeOK
<1>2. QED
  BY <1>1 DEF Status, IsReady, InFlight, Finished

LEMMA FinishRefines ==
  ASSUME IInv, NEW c \in Client, Task(c), task'[c] \in Finished
  PROVE  Service!Finish(c)
<1>1. /\ UNCHANGED <<queue, req, handler, expected, cur>>
      /\ task[c] \in InFlight /\ c \in Client
      /\ task' = [task EXCEPT ![c] = task'[c]]
  BY TaskStep DEF IInv
<1>2. Status(c) = "taken" /\ handler[c] # "idle" /\ c \notin queue
  BY <1>1, TakenMeans DEF IInv, Placed, InFlight
<1>3. \A d \in Client : Status(d)' = IF d = c THEN "finished" ELSE Status(d)
  BY <1>1, <1>2 DEF Status, IsReady, IInv, TypeOK
<1>4. ASSUME NEW d \in Client, Status(d) = "taken", req[d].bank = req[c].bank
      PROVE  req[c].seq <= req[d].seq
  <2>1. req[c] \in Request /\ req[c].seq \in Nat /\ req[c].seq < expected
        /\ req[d] \in Request
    BY <1>1, <1>2, <1>4 DEF IInv, Placed, Ordered, Request, InFlight, Status
  <2>2. CASE d = cur
    <3>1. req[d].seq = expected - 1 /\ expected \in Nat
      BY <2>2 DEF IInv, Ordered, TypeOK
    <3>2. QED
      BY <2>1, <3>1
  <2>3. CASE task[d] \in InFlight
    <3>1. future[BankOf(d)] = d /\ future[BankOf(c)] = c
      BY <1>1, <2>3 DEF IInv, Tracked
    <3>2. QED
      BY <3>1, <1>4, <2>1 DEF BankOf
  <2>4. QED
    BY <2>2, <2>3, <1>4, TakenMeans
<1>5. [d \in Client |-> Status(d)]'
        = [[d \in Client |-> Status(d)] EXCEPT ![c] = "finished"]
  BY <1>3
<1>6. QED
  BY <1>1, <1>2, <1>4, <1>5 DEF Service!Finish

LEMMA NextRefines == IInv /\ [Next]_vars => [Service!Next]_Service!vars
<1> SUFFICES ASSUME IInv, [Next]_vars PROVE [Service!Next]_Service!vars
  OBVIOUS
<1> DEFINE St == [d \in Client |-> Status(d)]
<1>1. ASSUME NEW c \in Client, NEW r \in Request, Push(c, r)
      PROVE  Service!Next
  <2>1. Status(c) = "absent"
    BY <1>1 DEF Push, Status
  <2>2. \A d \in Client : Status(d)' = IF d = c THEN "queued" ELSE Status(d)
    BY <1>1 DEF Push, Status, IsReady, IInv, TypeOK
  <2>3. St' = [St EXCEPT ![c] = "queued"]
    BY <2>2
  <2>4. Service!Queue(c, r)
    BY <1>1, <2>1, <2>3 DEF Push, Service!Queue
  <2>5. QED
    BY <2>4 DEF Service!Next
<1>2. ASSUME NEW c \in Client, Pop(c) PROVE Service!Next
  <2>1. Status(c) = "queued" /\ handler[c] # "idle" /\ task[c] = "none"
    BY <1>2, TakenMeans DEF Pop, IInv, Placed
  <2>2. \A d \in Client : Status(d)' = IF d = c THEN "taken" ELSE Status(d)
    BY <1>2, <2>1 DEF Pop, Status, IsReady, Finished
  <2>3. St' = [St EXCEPT ![c] = "taken"]
    BY <2>2
  <2>4. Service!Take(c)
    BY <1>2, <2>1, <2>3 DEF Pop, Ready, Service!Take
  <2>5. QED
    BY <2>4 DEF Service!Next
<1>3. ASSUME NEW c \in Client, Task(c), task'[c] \in Finished
      PROVE  Service!Next
  BY <1>3, FinishRefines DEF Service!Next
<1>4. ASSUME /\ UNCHANGED <<queue, req, expected>>
             /\ \A d \in Client : handler'[d] = "idle" <=> handler[d] = "idle"
             /\ \A d \in Client : task'[d] \in Finished <=> task[d] \in Finished
      PROVE  UNCHANGED Service!vars
  <2>1. \A d \in Client : Status(d)' = Status(d)
    BY <1>4 DEF Status, IsReady
  <2>2. St' = St
    BY <2>1
  <2>3. QED
    BY <1>4, <2>2 DEF Service!vars
<1>5. ASSUME NEW c \in Client, Task(c), task'[c] \notin Finished
      PROVE  UNCHANGED Service!vars
  <2>1. /\ UNCHANGED <<queue, req, expected, handler>>
        /\ task[c] \in InFlight /\ task[c] \notin Finished
        /\ task' = [task EXCEPT ![c] = task'[c]]
    BY <1>5, TaskStep DEF IInv, InFlight, Finished
  <2>2. QED
    BY <2>1, <1>5, <1>4 DEF IInv, TypeOK
<1>6. ASSUME NEW c \in Client, NotifyPushed(c) PROVE UNCHANGED Service!vars
  BY <1>6, <1>4 DEF NotifyPushed, IInv, TypeOK
<1>7. CASE Launch
  <2>1. cur \in Client /\ task[cur] = "none"
    BY <1>7, Holding DEF Launch, Serving, IInv
  <2>2. QED
    BY <1>7, <2>1, <1>4 DEF Launch, Finished, IInv, TypeOK
<1>8. CASE \/ SetStop \/ Stopper \/ (\E c \in Client : HandlerDies(c)) \/ LoopHead \/ Sleep \/ ReturnStopped
           \/ SpuriousWake \/ AwaitBank \/ BeginOpenRow \/ OpenRowReturns
           \/ OpenRowDies \/ StoreOpenRowEnd \/ Drain \/ UNCHANGED vars
  BY <1>8, <1>4 DEF SetStop, Stopper, NotifyStop, Join, HandlerDies, LoopHead, Sleep,
     ReturnStopped, SpuriousWake, AwaitBank, BeginOpenRow, OpenRowReturns,
     OpenRowDies, StoreOpenRowEnd, Drain, vars
<1>9. QED
  BY <1>1, <1>2, <1>3, <1>5, <1>6, <1>7, <1>8 DEF Next, Dispatcher, Handler

(* Requests are dispatched in the order of their numbers, each once, and   *)
(* those for one bank finish in that order, however the transfers of       *)
(* different banks overlap (dram_controller.cpp:108-112, 137-155).         *)
THEOREM DispatcherIsInOrder == Spec => ImplementsInOrderService
<1>1. Init => Service!Init
  <2> SUFFICES ASSUME Init PROVE Service!Init
    OBVIOUS
  <2>1. \A c \in Client : Status(c) = "absent"
    BY DEF Init, Status
  <2>2. QED
    BY <2>1 DEF Init, Service!Init
<1>2. QED
  BY <1>1, NextRefines, Invariant, PTL
     DEF Spec, ImplementsInOrderService, Service!Spec

-----------------------------------------------------------------------------

(* The cycles of one request, and of all those that may have entered the   *)
(* clock: the one just popped has not read it yet.                         *)
Cost == OpenCycles + TransferCycles
Budget == (IF disp \in {"popped", "bankfree"} THEN expected - 1 ELSE expected) * Cost

(* Nothing a thread has put into the clock, or may still put, exceeds it.  *)
Costed ==
  /\ clock <= Budget
  /\ \A c \in Client : seen[c] <= Budget
  /\ \A c \in Client : task[c] # "none" => start[c] + Cost <= Budget
  /\ disp \in {"opening", "opened", "launching"} => start[cur] + Cost <= Budget

LEMMA OneMore ==
  ASSUME NEW n \in Int
  PROVE  /\ n * Cost \in Int /\ (n - 1) * Cost + Cost = n * Cost
         /\ n + 1 - 1 = n
  BY DEF Cost

LEMMA CostedStep ==
  TypeOK /\ Placed /\ Costed /\ [Next]_vars => Costed'
<1> SUFFICES ASSUME TypeOK, Placed, Costed, [Next]_vars PROVE Costed'
  OBVIOUS
<1>c. Cost \in Nat /\ Cost = OpenCycles + TransferCycles
  BY DEF Cost
<1>b. Budget \in Int
  BY <1>c, OneMore DEF Budget, TypeOK
<1>s. ASSUME UNCHANGED <<disp, expected, cur, start, seen, clock>>,
             \A c \in Client : task'[c] # "none" => task[c] # "none"
      PROVE  Costed'
  BY <1>s DEF Costed, Budget
<1>1. ASSUME NEW c \in Client, NEW r \in Request, Push(c, r) PROVE Costed'
  BY <1>1, <1>s DEF Push
<1>2. ASSUME UNCHANGED <<expected, cur, start, seen, clock, task>>,
             disp' = disp \/ (disp \notin Serving /\ disp' \notin Serving)
      PROVE  Costed'
  BY <1>2 DEF Costed, Budget, Serving
<1>3. ASSUME NEW c \in Client, NotifyPushed(c) PROVE Costed'
  <2>1. disp' = disp \/ (disp \notin Serving /\ disp' \notin Serving)
    BY <1>3 DEF NotifyPushed, Notified, Serving
  <2>2. QED
    BY <1>3, <2>1, <1>2 DEF NotifyPushed
<1>4. CASE SetStop \/ Stopper \/ (\E c \in Client : HandlerDies(c))
  <2>1. disp' = disp \/ (disp \notin Serving /\ disp' \notin Serving)
    BY <1>4 DEF SetStop, Stopper, NotifyStop, Join, HandlerDies, Notified, Serving
  <2>2. QED
    BY <1>4, <2>1, <1>2 DEF SetStop, Stopper, NotifyStop, Join, HandlerDies
<1>5. CASE LoopHead \/ Sleep \/ ReturnStopped \/ SpuriousWake \/ Drain
  BY <1>5, <1>2 DEF LoopHead, Sleep, ReturnStopped, SpuriousWake, Drain, Serving
<1>6. ASSUME NEW c \in Client, Pop(c) PROVE Costed'
  <2>1. Budget' = Budget
    BY <1>6, OneMore DEF Pop, Budget, TypeOK
  <2>2. QED
    BY <1>6, <2>1 DEF Pop, Costed
<1>7. CASE AwaitBank
  <2>1. Budget' = Budget
    BY <1>7 DEF AwaitBank, Budget
  <2>2. QED
    BY <1>7, <2>1 DEF AwaitBank, Costed
<1>8. CASE BeginOpenRow
  <2>1. cur \in Client /\ task[cur] = "none"
    BY <1>8, Holding DEF BeginOpenRow, Serving
  <2>2. Budget' = Budget + Cost /\ Budget' \in Int
    BY <1>8, <1>c, OneMore DEF BeginOpenRow, Budget, TypeOK
  <2>3. /\ start' = [start EXCEPT ![cur] = clock]
        /\ UNCHANGED <<clock, seen, task, cur>>
    BY <1>8 DEF BeginOpenRow
  <2>4. clock <= Budget' /\ \A c \in Client : seen[c] <= Budget'
    BY <1>b, <1>c, <2>2 DEF Costed, TypeOK
  <2>5. \A c \in Client : task[c] # "none" => start'[c] + Cost <= Budget'
    BY <1>b, <1>c, <2>1, <2>2, <2>3 DEF Costed, TypeOK
  <2>6. start'[cur] + Cost <= Budget'
    BY <1>b, <1>c, <2>1, <2>2, <2>3 DEF Costed, TypeOK
  <2>7. QED
    BY <2>3, <2>4, <2>5, <2>6 DEF Costed
<1>9. CASE OpenRowReturns \/ OpenRowDies
  <2>1. Budget' = Budget
    BY <1>9 DEF OpenRowReturns, OpenRowDies, Budget
  <2>2. QED
    BY <1>9, <2>1 DEF OpenRowReturns, OpenRowDies, Costed
<1>10. CASE StoreOpenRowEnd
  <2>1. cur \in Client
    BY <1>10, Holding DEF StoreOpenRowEnd, Serving
  <2>2. Budget' = Budget
    BY <1>10 DEF StoreOpenRowEnd, Budget
  <2>3. clock' <= Budget
    BY <1>10, <1>b, <1>c, <2>1 DEF StoreOpenRowEnd, OpenRowEnd, Costed, TypeOK
  <2>4. QED
    BY <1>10, <2>2, <2>3 DEF StoreOpenRowEnd, Costed
<1>11. CASE Launch
  <2>1. cur \in Client
    BY <1>11, Holding DEF Launch, Serving
  <2>2. Budget' = Budget
    BY <1>11 DEF Launch, Budget
  <2>3. QED
    BY <1>11, <2>1, <2>2 DEF Launch, Costed, TypeOK
<1>12. ASSUME NEW c \in Client, Task(c) PROVE Costed'
  <2>1. /\ UNCHANGED <<disp, expected, cur, start>>
        /\ task[c] # "none" /\ task' = [task EXCEPT ![c] = task'[c]]
    BY <1>12, TaskStep DEF InFlight
  <2>2. Budget' = Budget
    BY <2>1 DEF Budget
  <2>3. clock' <= Budget
    <3>1. CASE StoreClock(c)
      BY <3>1, <1>b, <1>c, <2>1 DEF StoreClock, Later, TransferEnd, OpenRowEnd,
         Costed, TypeOK
    <3>2. CASE ~ StoreClock(c)
      BY <1>12, <3>2 DEF Task, BeginTransfer, EndTransfer, LoadClock,
         SendResponse, Costed
    <3>3. QED
      BY <3>1, <3>2
  <2>4. \A d \in Client : seen'[d] <= Budget
    BY <1>12 DEF Task, BeginTransfer, EndTransfer, LoadClock, StoreClock,
       SendResponse, Costed, TypeOK
  <2>5. QED
    BY <2>1, <2>2, <2>3, <2>4 DEF Costed, TypeOK
<1>13. CASE UNCHANGED vars
  BY <1>13, <1>s DEF vars
<1>14. QED
  BY <1>1, <1>3, <1>4, <1>5, <1>6, <1>7, <1>8, <1>9, <1>10, <1>11, <1>12, <1>13
     DEF Next, Dispatcher, Handler

(* The clock stays within the cycles of the requests dispatched, however   *)
(* the loads and stores of current_cycle interleave                        *)
(* (dram_controller.cpp:158-161, 176-180).                                 *)
THEOREM ClockStaysBounded == Spec => []ClockBound
<1>1. Init => Costed
  BY DEF Init, Costed, Budget, Cost
<1>2. IInv /\ Costed /\ [Next]_vars => Costed'
  BY CostedStep DEF IInv
<1>3. IInv /\ Costed => ClockBound
  <2> SUFFICES ASSUME IInv, Costed PROVE ClockBound
    OBVIOUS
  <2>1. expected \in Nat /\ clock \in Nat /\ Cost \in Nat
    BY DEF IInv, TypeOK, Cost
  <2>2. (expected - 1) * Cost <= expected * Cost
    BY <2>1, OneMore
  <2>3. QED
    BY <2>1, <2>2, OneMore DEF Costed, Budget, ClockBound, Cost
<1>4. QED
  BY <1>1, <1>2, <1>3, Invariant, PTL DEF Spec

-----------------------------------------------------------------------------

(* With an open_row that never returns, as that of DRAMBankEqClass, no     *)
(* transfer is ever started and one request is dispatched at most, even if *)
(* the numbers of requests and dispatcher agreed                           *)
(* (dram_bank.cpp:83 with dram_controller.cpp:146-173).                    *)
OneDispatched == expected <= 1 /\ \A c \in Client : task[c] = "none"

(* The only request dispatched is held for good: the number expected next  *)
(* moves with it.                                                          *)
Held ==
  /\ disp \in Serving => disp \in {"popped", "bankfree", "opening"}
  /\ expected = IF disp \in Serving THEN 1 ELSE 0
  /\ \A c \in Client : task[c] = "none"

(* The first row that is to be opened is the end of all service            *)
(* (dram_bank.cpp:81-86, dram_controller.cpp:146-160).                     *)
THEOREM EndlessOpenRowServesNobody ==
  ASSUME "returns" \notin OpenRow
  PROVE  Spec => []OneDispatched
<1> USE DEF Serving
<1>1. Init => Held
  BY DEF Init, Held
<1>2. TypeOK /\ Held /\ [Next]_vars => Held'
  <2> SUFFICES ASSUME TypeOK, Held, [Next]_vars PROVE Held'
    OBVIOUS
  <2> USE DEF Held
  <2>1. ASSUME UNCHANGED <<disp, expected, task>> PROVE Held'
    BY <2>1
  <2>2. ASSUME NEW c \in Client, Handler(c) PROVE Held'
    BY <2>2 DEF Handler, Push, NotifyPushed, HandlerDies, Notified
  <2>3. ASSUME NEW c \in Client, Task(c) PROVE Held'
    BY <2>3 DEF Task, BeginTransfer, EndTransfer, LoadClock, StoreClock, SendResponse
  <2>4. CASE Dispatcher
    BY <2>4 DEF Dispatcher, LoopHead, Sleep, ReturnStopped, AwaitBank, BeginOpenRow,
       OpenRowReturns, OpenRowDies, StoreOpenRowEnd, Launch, Drain, Pop
  <2>5. CASE SpuriousWake \/ SetStop \/ Stopper
    BY <2>5 DEF SpuriousWake, SetStop, Stopper, NotifyStop, Join, Notified
  <2>6. QED
    BY <2>1, <2>2, <2>3, <2>4, <2>5 DEF Next, vars
<1>3. IInv => TypeOK
  BY DEF IInv
<1>4. Held => OneDispatched
  BY DEF Held, OneDispatched
<1>5. QED
  BY <1>1, <1>2, <1>3, <1>4, Invariant, PTL DEF Spec

-----------------------------------------------------------------------------

(* The requests the dispatcher has taken from the queue so far. *)
Taken(c) == handler[c] # "idle" /\ c \notin queue

(* They carry the numbers below expected_seq, each of them once: no number *)
(* is skipped and none is served twice, even if handlers give it to two    *)
(* requests (dram_controller.cpp:130, 138-146).                            *)
EveryNumberOnce ==
  /\ \A c \in Client : Taken(c) => req[c].seq \in 0 .. expected - 1
  /\ \A n \in 0 .. expected - 1 : \E c \in Client : Taken(c) /\ req[c].seq = n
  /\ \A c, d \in Client : Taken(c) /\ Taken(d) /\ req[c].seq = req[d].seq => c = d

(* Pop alone takes a request, and a taken request stays what it is. *)
LEMMA TakenStays ==
  ASSUME TypeOK, Placed, [Next]_vars, ~ \E c \in Client : Pop(c)
  PROVE  /\ expected' = expected
         /\ \A c \in Client : /\ Taken(c)' <=> Taken(c)
                              /\ Taken(c) => req'[c] = req[c]
<1>1. CASE UNCHANGED <<expected, handler, queue, req>>
  BY <1>1 DEF Taken
<1>2. ASSUME NEW c \in Client, Handler(c)
      PROVE  /\ expected' = expected
             /\ \A d \in Client : /\ Taken(d)' <=> Taken(d)
                                  /\ Taken(d) => req'[d] = req[d]
  BY <1>2 DEF Handler, Push, NotifyPushed, HandlerDies, TypeOK, Taken
<1>3. ASSUME NEW c \in Client, Task(c)
      PROVE  UNCHANGED <<expected, handler, queue, req>>
  BY <1>3, TaskStep
<1>4. CASE Dispatcher \/ SpuriousWake \/ SetStop \/ Stopper \/ UNCHANGED vars
  <2>1. UNCHANGED <<expected, handler, queue, req>>
    BY <1>4 DEF Dispatcher, SpuriousWake, SetStop, Stopper, NotifyStop, Join,
       LoopHead, Sleep, ReturnStopped, AwaitBank, BeginOpenRow, OpenRowReturns,
       OpenRowDies, StoreOpenRowEnd, Launch, Drain, vars
  <2>2. QED
    BY <1>1, <2>1
<1>5. QED
  BY <1>1, <1>2, <1>3, <1>4 DEF Next

LEMMA NumbersStep ==
  ASSUME TypeOK, Placed, EveryNumberOnce, [Next]_vars
  PROVE  EveryNumberOnce'
<1>1. expected \in Nat
  BY DEF TypeOK
<1>2. ASSUME NEW p \in Client, Pop(p) PROVE EveryNumberOnce'
  <2>1. /\ expected' = expected + 1 /\ req' = req
        /\ req[p].seq = expected /\ ~ Taken(p)
    BY <1>2 DEF Pop, Ready, Taken
  <2>2. \A c \in Client : Taken(c)' <=> Taken(c) \/ c = p
    BY <1>2 DEF Pop, Placed, Taken
  <2>3. 0 .. expected' - 1 = (0 .. expected - 1) \cup {expected}
        /\ expected \notin 0 .. expected - 1
    BY <1>1, <2>1
  <2>4. QED
    BY <2>1, <2>2, <2>3 DEF EveryNumberOnce
<1>3. CASE ~ \E c \in Client : Pop(c)
  BY <1>3, TakenStays DEF EveryNumberOnce
<1>4. QED
  BY <1>2, <1>3

(* The dispatcher counts what it serves, for any numbers the requests bring *)
(* (dram_controller.cpp:128-146).                                          *)
THEOREM NumbersServedOnce == Spec => []EveryNumberOnce
<1>1. Init => EveryNumberOnce
  BY DEF Init, EveryNumberOnce, Taken
<1>2. IInv => TypeOK /\ Placed
  BY DEF IInv
<1>3. TypeOK /\ Placed /\ EveryNumberOnce /\ [Next]_vars => EveryNumberOnce'
  BY NumbersStep
<1>4. QED
  BY <1>1, <1>2, <1>3, Invariant, PTL DEF Spec

-----------------------------------------------------------------------------

(* A request that is finished has a smaller number than any of its bank    *)
(* that is still under way (dram_controller.cpp:148-155, 173).             *)
BankFinishesInOrder ==
  \A c, d \in Client :
    /\ task[c] \in Finished /\ BankOf(c) = BankOf(d)
    /\ task[d] \in InFlight \/ d = cur
    => req[c].seq < req[d].seq

(* Of two requests taken, the one the dispatcher holds is the newer. *)
LEMMA HeldIsNewest ==
  ASSUME IInv, EveryNumberOnce, disp \in Serving, NEW c \in Client, task[c] # "none"
  PROVE  req[c].seq < req[cur].seq
<1>1. cur \in Client /\ task[cur] = "none" /\ Taken(cur) /\ cur # None
  BY Holding DEF IInv, Taken, Placed
<1>2. Taken(c) /\ req[c] \in Request /\ req[c].seq \in Nat
  BY DEF IInv, Placed, Taken, Request
<1>3. req[c].seq # req[cur].seq
  BY <1>1, <1>2 DEF EveryNumberOnce
<1>4. req[c].seq < expected /\ req[cur].seq = expected - 1 /\ expected \in Nat
  BY <1>1 DEF IInv, TypeOK, Ordered
<1>5. QED
  BY <1>2, <1>3, <1>4

(* Of the transfers of two clients of one bank, one is in flight at most,  *)
(* and it is the newer of the two.                                         *)
InFlightIsNewest ==
  \A c, d \in Client :
    /\ task[c] \in Finished /\ task[d] \in InFlight /\ BankOf(c) = BankOf(d)
    => req[c].seq < req[d].seq

LEMMA InFlightIsNewestStep ==
  ASSUME IInv, EveryNumberOnce, InFlightIsNewest, [Next]_vars
  PROVE  InFlightIsNewest'
<1> USE DEF BankOf
<1>1. CASE UNCHANGED <<task, req>>
  BY <1>1 DEF InFlightIsNewest
<1>2. ASSUME NEW c \in Client, NEW r \in Request, Push(c, r) PROVE InFlightIsNewest'
  <2>1. task' = task /\ task[c] = "none" /\ \A d \in Client : d # c => req'[d] = req[d]
    BY <1>2 DEF Push, IInv, TypeOK, Placed
  <2>2. QED
    BY <2>1 DEF InFlightIsNewest, InFlight, Finished
<1>3. CASE Launch
  <2>1. disp \in Serving /\ req' = req /\ task' = [task EXCEPT ![cur] = "launched"]
    BY <1>3 DEF Launch, Serving
  <2>2. cur \in Client
    BY <2>1, Holding DEF IInv
  <2>3. \A d \in Client : task'[d] = IF d = cur THEN "launched" ELSE task[d]
    BY <2>1, <2>2 DEF IInv, TypeOK
  <2>4. \A d \in Client : task[d] \in Finished => req[d].seq < req[cur].seq
    BY <2>1, HeldIsNewest DEF Finished
  <2>5. QED
    BY <2>1, <2>3, <2>4 DEF InFlightIsNewest, InFlight, Finished
<1>4. ASSUME NEW c \in Client, Task(c) PROVE InFlightIsNewest'
  <2>1. /\ req' = req /\ task[c] \in InFlight /\ task'[c] \in InFlight \cup Finished
        /\ \A d \in Client : d # c => task'[d] = task[d]
    BY <1>4, TaskStep DEF IInv, TypeOK
  <2>2. \A d \in Client : task[d] \in InFlight /\ BankOf(d) = BankOf(c) => d = c
    BY <2>1 DEF IInv, Tracked
  <2>3. InFlight \cap Finished = {}
    BY DEF InFlight, Finished
  <2>4. QED
    BY <2>1, <2>2, <2>3 DEF InFlightIsNewest
<1>5. CASE Dispatcher /\ ~ Launch
  BY <1>1, <1>5 DEF Dispatcher, LoopHead, Sleep, ReturnStopped, AwaitBank, BeginOpenRow,
     OpenRowReturns, OpenRowDies, StoreOpenRowEnd, Drain, Pop
<1>6. CASE \/ SpuriousWake \/ SetStop \/ Stopper \/ UNCHANGED vars
           \/ \E c \in Client : NotifyPushed(c) \/ HandlerDies(c)
  BY <1>1, <1>6 DEF SpuriousWake, SetStop, Stopper, NotifyStop, Join, NotifyPushed,
     HandlerDies, vars
<1>7. QED
  BY <1>2, <1>3, <1>4, <1>5, <1>6 DEF Next, Handler

(* The transfers of a bank end in the order of their requests              *)
(* (dram_controller.cpp:148-155, 173).                                     *)
THEOREM BanksFinishInOrder == Spec => []BankFinishesInOrder
<1>1. Init => InFlightIsNewest
  BY DEF Init, InFlightIsNewest, InFlight
<1>2. IInv /\ EveryNumberOnce /\ InFlightIsNewest /\ [Next]_vars => InFlightIsNewest'
  BY InFlightIsNewestStep
<1>3. IInv /\ EveryNumberOnce /\ InFlightIsNewest => BankFinishesInOrder
  <2> SUFFICES ASSUME IInv, EveryNumberOnce, InFlightIsNewest,
                      NEW c \in Client, NEW d \in Client,
                      task[c] \in Finished, BankOf(c) = BankOf(d), d = cur
               PROVE  req[c].seq < req[d].seq
    BY DEF InFlightIsNewest, BankFinishesInOrder
  <2>1. disp \in Serving /\ task[c] # "none"
    BY DispatcherAssumption DEF IInv, Placed, Finished
  <2>2. QED
    BY <2>1, HeldIsNewest
<1>4. QED
  BY <1>1, <1>2, <1>3, Invariant, NumbersServedOnce, PTL DEF Spec

-----------------------------------------------------------------------------

(* What the threads wait for while stop() joins the dispatcher: the        *)
(* dispatcher is not asleep, and if it waits for a future, then for that   *)
(* of a transfer in flight, and a transfer waits for nobody.  So no wait   *)
(* is for ever, which is the safety half of StopReturns                    *)
(* (dram_controller.cpp:80-87, 136-140, 148-155, 198).                     *)
WaitsForTransfers ==
  stopper \in {"joining", "stopped"} =>
    /\ disp # "waiting"
    /\ \A b \in BankId : ~ PreviousDone(b) => task[future[b]] \in InFlight

(* The wait of stop() ends in transfers, not in a circle.                  *)
THEOREM StopWaitsForTransfers == Spec => []WaitsForTransfers
<1> DEFINE Woken == stopper \in {"joining", "stopped"} => stop /\ disp # "waiting"
<1>1. Init => Woken
  BY DEF Init
<1>2. Stopping /\ Woken /\ [Next]_vars => Woken'
  <2> SUFFICES ASSUME Stopping, Woken, [Next]_vars PROVE Woken'
    OBVIOUS
  <2>1. CASE UNCHANGED <<stopper, stop>> /\ disp' # "waiting"
    BY <2>1
  <2>2. CASE UNCHANGED <<stopper, stop, disp>>
    BY <2>2
  <2>3. CASE SetStop \/ Stopper
    BY <2>3 DEF SetStop, Stopper, NotifyStop, Join, Notified, Stopping
  <2>4. ASSUME NEW c \in Client, Handler(c) \/ Task(c) PROVE Woken'
    BY <2>4 DEF Handler, Push, NotifyPushed, HandlerDies, Notified, Task,
       BeginTransfer, EndTransfer, LoadClock, StoreClock, SendResponse
  <2>5. CASE Dispatcher \/ SpuriousWake \/ UNCHANGED vars
    BY <2>2, <2>5 DEF Dispatcher, SpuriousWake, LoopHead, Sleep, ReturnStopped,
       AwaitBank, BeginOpenRow, OpenRowReturns, OpenRowDies, StoreOpenRowEnd,
       Launch, Drain, Pop, vars
  <2>6. QED
    BY <2>3, <2>4, <2>5 DEF Next
<1>3. IInv /\ Woken => WaitsForTransfers
  <2> SUFFICES ASSUME IInv, NEW b \in BankId, ~ PreviousDone(b)
               PROVE  task[future[b]] \in InFlight
    BY DEF WaitsForTransfers
  <2>1. future[b] # None /\ task[future[b]] \notin Finished /\ task[future[b]] # "none"
    BY DEF IInv, Tracked, PreviousDone, IsReady
  <2>2. future[b] \in Client
    BY <2>1 DEF IInv, TypeOK
  <2>3. QED
    BY <2>1, <2>2 DEF IInv, TypeOK
<1>4. IInv => Stopping
  BY DEF IInv
<1>5. QED
  BY <1>1, <1>2, <1>3, <1>4, Invariant, PTL DEF Spec

-----------------------------------------------------------------------------
(* A controller with a single bank keeps the promise of its clock.         *)

OneBank == \A a, b \in BankId : a = b

(* The tasks that have stored the clock and not failed. *)
Past(c) == task[c] \in {"stored", "answered"}

(* Who started later, by the numbers, started after the ends before it; no *)
(* end is lost from the clock; and a transfer in flight is the newest.     *)
Serial ==
  /\ \A c, d \in Client : Past(c) /\ Started(d) /\ req[c].seq < req[d].seq
                             => TransferEnd(c) <= start[d]
  /\ \A c \in Client : Past(c) => TransferEnd(c) <= clock
  /\ \A c, d \in Client : task[c] \in InFlight /\ Started(d)
                             => req[d].seq <= req[c].seq

LEMMA StartedKnown ==
  ASSUME TypeOK, Placed, NEW c \in Client, Started(c)
  PROVE  Taken(c) /\ req[c] \in Request /\ BankOf(c) \in BankId /\ req[c].seq \in Nat
<1>1. CASE task[c] # "none"
  BY <1>1 DEF Placed, Taken, Request, BankOf
<1>2. CASE c = cur /\ disp \in Serving
  BY <1>2, Holding DEF Taken, Request, BankOf
<1>3. QED
  BY <1>1, <1>2 DEF Started, Serving

LEMMA TimesTyped ==
  ASSUME TypeOK, NEW c \in Client
  PROVE  /\ start[c] \in Nat /\ seen[c] \in Nat /\ clock \in Nat
         /\ OpenRowEnd(c) \in Nat /\ TransferEnd(c) \in Nat
         /\ start[c] <= OpenRowEnd(c) /\ OpenRowEnd(c) <= TransferEnd(c)
BY DEF TypeOK, OpenRowEnd, TransferEnd

(* With one bank the dispatcher opens no row while a transfer is in flight. *)
LEMMA AloneWhileOpening ==
  ASSUME OneBank, IInv, disp \in Serving \ {"popped"}, NEW c \in Client
  PROVE  task[c] \notin InFlight
<1>1. cur \in Client /\ BankOf(cur) \in BankId /\ future[BankOf(cur)] = None
  BY Holding DEF IInv, Tracked
<1>2. CASE task[c] \in InFlight
  <2>1. Started(c)
    BY <1>2 DEF Started, InFlight
  <2>2. BankOf(c) = BankOf(cur)
    BY <1>1, <2>1, StartedKnown DEF OneBank, IInv
  <2>3. QED
    BY <1>1, <1>2, <2>2 DEF IInv, Tracked
<1>3. QED
  BY <1>2

(* What starts no one and stores nothing keeps the order. *)
LEMMA SerialStays ==
  ASSUME Serial, UNCHANGED <<start, clock>>,
         \A c \in Client : /\ Past(c)' => Past(c)
                           /\ task'[c] \in InFlight => task[c] \in InFlight
                           /\ Started(c)' => Started(c)
                           /\ Started(c) => req'[c] = req[c]
  PROVE  Serial'
<1>1. \A c \in Client : Past(c) \/ task[c] \in InFlight => Started(c)
  BY DEF Past, InFlight, Started
<1>2. \A c \in Client : TransferEnd(c)' = TransferEnd(c)
  BY DEF TransferEnd, OpenRowEnd
<1>3. QED
  BY <1>1, <1>2 DEF Serial

LEMMA SerialStep ==
  ASSUME OneBank, IInv, IInv', EveryNumberOnce, Serial, [Next]_vars
  PROVE  Serial'
<1>t. TypeOK /\ Placed /\ TypeOK'
  BY DEF IInv
<1>u. ASSUME UNCHANGED <<start, clock, task, req, disp, cur>> PROVE Serial'
  BY <1>u DEF Serial, Past, Started, TransferEnd, OpenRowEnd
<1>v. ASSUME UNCHANGED <<start, clock, task, req>>,
             \A c \in Client : Started(c)' => Started(c)
      PROVE  Serial'
  BY <1>v, SerialStays DEF Past
<1>1. ASSUME NEW c \in Client, NEW r \in Request, Push(c, r) PROVE Serial'
  <2>1. /\ UNCHANGED <<start, clock, task, disp, cur>>
        /\ \A d \in Client : d # c => req'[d] = req[d]
    BY <1>1, <1>t DEF Push, TypeOK
  <2>2. ~ Started(c)
    BY <1>1, <1>t, StartedKnown DEF Push, Taken
  <2>3. QED
    BY <2>1, <2>2, SerialStays DEF Past, Started
<1>2. ASSUME NEW c \in Client, NotifyPushed(c) PROVE Serial'
  BY <1>2, <1>v DEF NotifyPushed, Notified, Started
<1>3. CASE SetStop \/ OpenRowDies \/ \E c \in Client : HandlerDies(c)
  BY <1>3, <1>u DEF SetStop, OpenRowDies, HandlerDies
<1>4. CASE Stopper \/ LoopHead \/ Sleep \/ ReturnStopped \/ SpuriousWake \/ Drain
           \/ AwaitBank
  BY <1>4, <1>v DEF Stopper, NotifyStop, Join, Notified, LoopHead, Sleep,
     ReturnStopped, SpuriousWake, Drain, AwaitBank, Started
<1>5. ASSUME NEW c \in Client, Pop(c) PROVE Serial'
  BY <1>5, <1>v DEF Pop, Started
<1>6. CASE BeginOpenRow
  <2>1. /\ disp \in Serving \ {"popped"} /\ UNCHANGED <<task, req, clock, cur>>
        /\ start' = [start EXCEPT ![cur] = clock]
    BY <1>6 DEF BeginOpenRow, Serving
  <2>2. cur \in Client /\ task[cur] = "none"
    BY <2>1, <1>t, Holding
  <2>3. \A c \in Client : Past(c) =>
          /\ c # cur /\ task[c] # "none" /\ TransferEnd(c)' = TransferEnd(c)
    BY <2>1, <2>2, <1>t DEF Past, TransferEnd, OpenRowEnd, TypeOK
  <2>4. \A c \in Client : (Past(c)' <=> Past(c)) /\ task'[c] \notin InFlight
    BY <2>1, AloneWhileOpening DEF Past
  <2>5. \A d \in Client : Started(d)' /\ d # cur => Started(d) /\ start'[d] = start[d]
    BY <2>1, <1>t DEF Started, TypeOK
  <2>6. start'[cur] = clock
    BY <2>1, <2>2, <1>t DEF TypeOK
  <2>7. QED
    BY <2>1, <2>3, <2>4, <2>5, <2>6 DEF Serial
<1>7. CASE OpenRowReturns
  BY <1>7, <1>v DEF OpenRowReturns, Started
<1>8. CASE StoreOpenRowEnd
  <2>1. /\ disp \in Serving \ {"popped"} /\ UNCHANGED <<task, req, start, cur>>
        /\ clock' = OpenRowEnd(cur) /\ \A c \in Client : Started(c)' <=> Started(c)
    BY <1>8 DEF StoreOpenRowEnd, Serving, Started
  <2>2. cur \in Client /\ Started(cur)
    BY <1>8, <2>1, <1>t, Holding DEF Started, StoreOpenRowEnd
  <2>3. ASSUME NEW c \in Client, Past(c) PROVE TransferEnd(c) <= clock'
    <3>1. req[c].seq < req[cur].seq
      BY <2>1, <2>3, HeldIsNewest DEF Past
    <3>2. TransferEnd(c) <= start[cur]
      BY <2>2, <2>3, <3>1 DEF Serial
    <3>3. QED
      BY <2>1, <2>2, <3>2, <1>t, TimesTyped
  <2>4. \A c \in Client : TransferEnd(c)' = TransferEnd(c) /\ (Past(c)' <=> Past(c))
    BY <2>1 DEF TransferEnd, OpenRowEnd, Past
  <2>5. QED
    BY <2>1, <2>3, <2>4 DEF Serial
<1>9. CASE Launch
  <2>1. /\ disp \in Serving \ {"popped"} /\ UNCHANGED <<req, start, clock>>
        /\ disp = "launching" /\ disp' = "head" /\ cur' = None
        /\ task' = [task EXCEPT ![cur] = "launched"]
    BY <1>9 DEF Launch, Serving
  <2>2. cur \in Client /\ Started(cur) /\ task[cur] = "none"
    BY <2>1, <1>t, Holding DEF Started
  <2>3. \A c \in Client : /\ Past(c)' <=> Past(c)
                          /\ Started(c)' <=> Started(c)
                          /\ task'[c] \in InFlight <=> c = cur
                          /\ TransferEnd(c)' = TransferEnd(c)
    BY <2>1, <2>2, <1>t, AloneWhileOpening
       DEF Past, Started, TypeOK, InFlight, TransferEnd, OpenRowEnd
  <2>4. ASSUME NEW d \in Client, Started(d) PROVE req[d].seq <= req[cur].seq
    <3>1. CASE d = cur
      BY <3>1, <2>2, <1>t, StartedKnown
    <3>2. CASE task[d] # "none"
      BY <3>2, <2>1, <2>2, <1>t, HeldIsNewest, StartedKnown, <2>4
    <3>3. QED
      BY <2>4, <3>1, <3>2 DEF Started
  <2>5. QED
    BY <2>1, <2>3, <2>4 DEF Serial
<1>10. ASSUME NEW c \in Client, Task(c), ~ StoreClock(c) PROVE Serial'
  <2>1. UNCHANGED <<start, clock, req, disp, cur>>
    BY <1>10, <1>t, TaskStep DEF Task, BeginTransfer, EndTransfer, LoadClock, SendResponse
  <2>2. \A d \in Client : /\ Past(d)' => Past(d)
                          /\ task'[d] \in InFlight => task[d] \in InFlight
                          /\ Started(d)' => Started(d)
    BY <1>10, <1>t, <2>1 DEF Task, BeginTransfer, EndTransfer, LoadClock, SendResponse,
       Past, Started, InFlight, TypeOK
  <2>3. QED
    BY <2>1, <2>2, SerialStays
<1>11. ASSUME NEW c \in Client, StoreClock(c) PROVE Serial'
  <2>1. /\ UNCHANGED <<req, start, disp, cur>> /\ task[c] = "loaded"
        /\ task' = [task EXCEPT ![c] = "stored"]
        /\ clock' = Later(seen[c], TransferEnd(c))
    BY <1>11 DEF StoreClock
  <2>2. clock' >= TransferEnd(c) /\ clock' \in Nat
    BY <2>1, <1>t, TimesTyped DEF Later
  <2>3. \A d \in Client : /\ Past(d)' <=> Past(d) \/ d = c
                          /\ Started(d)' <=> Started(d)
                          /\ task'[d] \in InFlight <=> task[d] \in InFlight
                          /\ TransferEnd(d)' = TransferEnd(d)
    BY <2>1, <1>t DEF Past, Started, TypeOK, InFlight, TransferEnd, OpenRowEnd
  <2>4. task[c] \in InFlight /\ Started(c)
    BY <2>1 DEF InFlight, Started
  <2>5. ASSUME NEW d \in Client, Started(d) PROVE ~ req[c].seq < req[d].seq
    BY <2>4, <2>5, <1>t, StartedKnown DEF Serial
  <2>6. ASSUME NEW d \in Client, Past(d), d # c PROVE TransferEnd(d) <= clock'
    <3>1. Started(d)
      BY <2>6 DEF Past, Started
    <3>2. Taken(c) /\ Taken(d) /\ req[c].seq \in Nat /\ req[d].seq \in Nat
      BY <2>4, <3>1, <1>t, StartedKnown
    <3>3. req[d].seq < req[c].seq
      BY <2>5, <2>6, <3>1, <3>2 DEF EveryNumberOnce
    <3>4. TransferEnd(d) <= start[c]
      BY <2>4, <2>6, <3>3 DEF Serial
    <3>5. QED
      BY <2>2, <3>4, <1>t, TimesTyped
  <2>7. QED
    BY <2>1, <2>2, <2>3, <2>4, <2>5, <2>6 DEF Serial
<1>12. CASE UNCHANGED vars
  BY <1>12, <1>u DEF vars
<1>13. QED
  BY <1>1, <1>2, <1>3, <1>4, <1>5, <1>6, <1>7, <1>8, <1>9, <1>10, <1>11, <1>12
     DEF Next, Dispatcher, Handler

(* With one bank no two requests overlap in the clock: what line 161 stores *)
(* can undo only what a transfer of another bank has stored; with two banks *)
(* the property is violated (dram_controller.cpp:150-161, 176-180).        *)
THEOREM OneBankCyclesDisjoint ==
  ASSUME OneBank
  PROVE  Spec => []SameBankCyclesDisjoint
<1>1. Init => Serial
  BY DEF Init, Serial, Past, InFlight
<1>2. IInv /\ IInv' /\ EveryNumberOnce /\ Serial /\ [Next]_vars => Serial'
  BY SerialStep
<1>3. Serial => SameBankCyclesDisjoint
  BY DEF Serial, Past, SameBankCyclesDisjoint
<1>4. QED
  BY <1>1, <1>2, <1>3, Invariant, NumbersServedOnce, PTL DEF Spec

=============================================================================
