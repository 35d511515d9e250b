------------------------ MODULE DRAMControllerProofs ------------------------
(***************************************************************************)
(* The server, its handler threads and its clients keep to what module     *)
(* DRAMDispatcher assumes of its environment, so that the theorems about   *)
(* the dispatcher hold of the whole controller; and with the numbers that  *)
(* handle_request gives, no request ever gets past the queue.              *)
(***************************************************************************)
EXTENDS DRAMController, DRAMDispatcherProofs, FiniteSetTheorems

USE ControllerAssumption

LEMMA ControllerTypeInit == ControllerInit => ControllerTypeOK
  BY DEF ControllerInit, ControllerTypeOK

(* Every step of the server and the clients keeps their types. *)
LEMMA ControllerTypeStep ==
  ControllerTypeOK /\ [ControllerNext]_controllerVars => ControllerTypeOK'
<1> SUFFICES ASSUME ControllerTypeOK, [ControllerNext]_controllerVars
             PROVE  ControllerTypeOK'
  OBVIOUS
<1> USE DEF ControllerTypeOK
<1>1. CASE Server
  BY <1>1 DEF Server, SetupServer, SpawnDispatcher, LoopTest, CallAccept
<1>2. ASSUME NEW c \in Client, AcceptReturns(c) PROVE ControllerTypeOK'
  BY <1>2 DEF AcceptReturns
<1>3. ASSUME NEW c \in Client, Handle(c) PROVE ControllerTypeOK'
  <2>1. CASE Receive(c)
    <3>1. wire[c] \in Wire
      BY <2>1 DEF Receive
    <3>2. QED
      BY <2>1, <3>1 DEF Receive
  <2>2. CASE ReceiveNothing(c)
    BY <2>2 DEF ReceiveNothing
  <2>3. CASE CopyData(c) \/ PushRequest(c)
    BY <2>3 DEF CopyData, PushRequest
  <2>4. CASE \/ ReceiveFails(c) \/ UseAfterDestroy(c)
             \/ (NotifyPushed(c) /\ UNCHANGED serverVars)
    BY <2>4 DEF ReceiveFails, UseAfterDestroy, serverVars
  <2>5. QED
    BY <1>3, <2>1, <2>2, <2>3, <2>4 DEF Handle
<1>4. CASE SetServerStop \/ CloseControllerFd \/ Destroy
  BY <1>4 DEF SetServerStop, CloseControllerFd, Destroy
<1>5. CASE UNCHANGED serverVars
  BY <1>5 DEF serverVars
<1>6. ASSUME NEW c \in Client, AccessClient(c) PROVE ControllerTypeOK'
  BY <1>6 DEF AccessClient, Access, Connect, SendRequest, SendKills, Leave,
     ReceiveResponse, Outcomes
<1>7. QED
  BY <1>1, <1>2, <1>3, <1>4, <1>5, <1>6
     DEF ControllerNext, StopDispatcher, DispatcherRuns, controllerVars

(* Every variable of the server and the clients keeps its type, and no     *)
(* handler works on a request that was never written.                      *)
THEOREM ControllerTyped == ControllerSpec => []ControllerTypeOK
  BY ControllerTypeInit, ControllerTypeStep, PTL DEF ControllerSpec

-----------------------------------------------------------------------------

(* A step of the controller is a step of the dispatcher module, or none.   *)
LEMMA ControllerStepIsStep ==
  ControllerTypeOK /\ [ControllerNext]_controllerVars => [Next]_vars
<1> SUFFICES ASSUME ControllerTypeOK, [ControllerNext]_controllerVars
             PROVE  [Next]_vars
  OBVIOUS
<1>1. CASE UNCHANGED vars
  BY <1>1
<1>2. CASE alive /\ (Dispatcher \/ SpuriousWake \/ SetStop \/ Stopper)
  BY <1>2 DEF Next
<1>3. ASSUME NEW c \in Client, alive, Handle(c) PROVE [Next]_vars
  <2>1. CASE PushRequest(c)
    <3>1. wire[c] \in Wire
      BY <2>1 DEF PushRequest, ControllerTypeOK
    <3>2. PICK n \in NumbersRead :
            Push(c, [seq |-> n, bank |-> wire[c].bank, row |-> wire[c].row])
      BY <2>1 DEF PushRequest
    <3>3. [seq |-> n, bank |-> wire[c].bank, row |-> wire[c].row] \in Request
      BY <3>1 DEF Wire, Request, NumbersRead
    <3>4. QED
      BY <1>3, <3>2, <3>3 DEF Handler, Next
  <2>2. CASE \/ CopyData(c) \/ ReceiveFails(c) \/ UseAfterDestroy(c)
             \/ NotifyPushed(c)
    BY <1>3, <2>2 DEF CopyData, ReceiveFails, UseAfterDestroy, Handler, Next
  <2>3. CASE Receive(c) \/ ReceiveNothing(c)
    BY <2>3 DEF Receive, ReceiveNothing
  <2>4. QED
    BY <1>3, <2>1, <2>2, <2>3 DEF Handle
<1>4. CASE \/ Server \/ SetServerStop \/ CloseControllerFd \/ Destroy
           \/ \E c \in Client : AcceptReturns(c) \/ AccessClient(c)
  BY <1>4 DEF Server, SetupServer, SpawnDispatcher, LoopTest, CallAccept,
     SetServerStop, CloseControllerFd, Destroy, AcceptReturns, AccessClient,
     Access, Connect, SendRequest, SendKills, ReceiveResponse, Leave
<1>5. QED
  BY <1>1, <1>2, <1>3, <1>4
     DEF ControllerNext, StopDispatcher, DispatcherRuns, controllerVars

(* The controller implements the dispatcher's module: its environment asks *)
(* for nothing the dispatcher was not modelled with                        *)
(* (dram_controller.cpp:57-88, 200-225).                                   *)
THEOREM ControllerImplementsDispatcher == ControllerSpec => ImplementsDispatcher
<1>1. ControllerInit => Init
  BY DEF ControllerInit
<1>2. QED
  BY <1>1, ControllerStepIsStep, ControllerTyped, PTL
     DEF ControllerSpec, ImplementsDispatcher, Spec

(* So no transfer of the controller ever finds another row open than its   *)
(* own, no wakeup is lost, and stop() waits for transfers only and leaves  *)
(* none behind.                                                            *)
THEOREM ControllerServesAndStops ==
  ControllerSpec =>
    [](RowServed /\ NoLostWakeup /\ StopDrains /\ ClockBound /\ WaitsForTransfers)
  BY ControllerImplementsDispatcher, DispatcherServesRow, NoWakeupLost,
     StopDrainsAll, ClockStaysBounded, StopWaitsForTransfers, PTL
     DEF ImplementsDispatcher

-----------------------------------------------------------------------------

(* Every queued request carries the number 1 or the dispatcher has         *)
(* returned, the dispatcher waits for 0, and a pushed request is queued.   *)
Blocked ==
  /\ expected = 0 /\ cur = None
  /\ \A c \in Client : task[c] = "none"
  /\ destroyed => stopper = "stopped"
  /\ \A c \in queue : destroyed \/ req[c].seq = 1
  /\ queue \subseteq Client
  /\ \A c \in Client : c \in queue <=> handler[c] # "idle"

LEMMA BlockedStep ==
  TypeOK /\ Placed /\ Stopping /\ Blocked /\ [ControllerNext]_controllerVars
    => Blocked'
<1> SUFFICES ASSUME TypeOK, Placed, Stopping, Blocked,
                    [ControllerNext]_controllerVars
             PROVE  Blocked'
  OBVIOUS
<1>u. ASSUME UNCHANGED <<expected, cur, task, queue, req, handler, destroyed>>,
             stopper = "stopped" => stopper' = "stopped"
      PROVE  Blocked'
  BY <1>u DEF Blocked
<1>1. CASE UNCHANGED vars /\ UNCHANGED destroyed
  BY <1>1, <1>u DEF vars
<1>2. CASE (Dispatcher \/ SpuriousWake) /\ UNCHANGED serverVars
  <2>1. SomeReady => disp = "returned"
    BY DEF SomeReady, Ready, Blocked, Stopping
  <2>2. disp \notin Serving
    BY DEF Blocked, Placed
  <2>3. ~ \E c \in Client : Pop(c)
    BY <2>1 DEF Pop, SomeReady
  <2>4. QED
    BY <1>2, <1>u, <2>2, <2>3 DEF Dispatcher, SpuriousWake, LoopHead, Sleep,
       ReturnStopped, AwaitBank, BeginOpenRow, OpenRowReturns, OpenRowDies,
       StoreOpenRowEnd, Launch, Drain, Serving, serverVars
<1>3. CASE (SetStop \/ Stopper) /\ UNCHANGED serverVars
  BY <1>3, <1>u DEF SetStop, Stopper, NotifyStop, Join, serverVars
<1>4. ASSUME NEW c \in Client, Handle(c) PROVE Blocked'
  <2>1. CASE PushRequest(c)
    <3>1. PICK r : Push(c, r) /\ (destroyed \/ r.seq = 1)
      BY <2>1 DEF PushRequest, NumbersRead, RequestNumber, NextSeq
    <3>2. UNCHANGED destroyed
      BY <2>1 DEF PushRequest
    <3>3. QED
      BY <3>1, <3>2 DEF Push, Blocked, TypeOK
  <2>2. CASE NotifyPushed(c) /\ UNCHANGED serverVars
    BY <2>2 DEF NotifyPushed, Blocked, TypeOK, serverVars
  <2>3. CASE \/ Receive(c) \/ ReceiveNothing(c) \/ CopyData(c)
             \/ ReceiveFails(c) \/ UseAfterDestroy(c)
    BY <2>3, <1>u DEF Receive, ReceiveNothing, CopyData, ReceiveFails,
       UseAfterDestroy, HandlerDies, vars, serverVars
  <2>4. QED
    BY <1>4, <2>1, <2>2, <2>3 DEF Handle
<1>5. CASE Destroy
  BY <1>5 DEF Destroy, Blocked, vars
<1>6. CASE \/ Server \/ SetServerStop \/ CloseControllerFd
           \/ \E c \in Client : AcceptReturns(c) \/ AccessClient(c)
  BY <1>6, <1>1 DEF Server, SetupServer, SpawnDispatcher, LoopTest, CallAccept,
     SetServerStop, CloseControllerFd, AcceptReturns, AccessClient,
     Access, Connect, SendRequest, SendKills, ReceiveResponse, Leave
<1>7. CASE UNCHANGED controllerVars
  BY <1>7, <1>1 DEF controllerVars, serverVars
<1>8. QED
  BY <1>2, <1>3, <1>4, <1>5, <1>6, <1>7
     DEF ControllerNext, StopDispatcher, DispatcherRuns

LEMMA BlockedAlways == ControllerSpec => [](TypeOK /\ Stopping /\ Blocked)
<1>1. ControllerInit => Blocked
  BY DEF ControllerInit, Init, Blocked
<1>2. IInv => TypeOK /\ Placed /\ Stopping
  BY DEF IInv
<1>3. QED
  BY <1>1, <1>2, BlockedStep, ControllerImplementsDispatcher, Invariant, PTL
     DEF ControllerSpec, ImplementsDispatcher

(* With the numbers of handle_request, whatever the clients do, no request *)
(* is ever taken from the queue (dram_controller.cpp:130-144, 213).        *)
THEOREM NothingEverDispatched == ControllerSpec => []NothingIsDispatched
<1>1. Blocked => NothingIsDispatched
  BY DEF Blocked, NothingIsDispatched
<1>2. QED
  BY <1>1, BlockedAlways, PTL

-----------------------------------------------------------------------------

(* After the one late connection the server has left its loop for good or  *)
(* is about to look at server_stop.                                        *)
Closing ==
  late # {} => /\ server_stop /\ server \in {"loop", "returned"}
               /\ \E c \in Client : late = {c}

(* start() hands out at most one connection after stop() has been called   *)
(* (dram_controller.cpp:61-75).                                            *)
THEOREM OneLateAtMost == ControllerSpec => []AtMostOneLate
<1>1. ControllerInit => Closing
  BY DEF ControllerInit, Closing
<1>2. Closing /\ [ControllerNext]_controllerVars => Closing'
  <2> SUFFICES ASSUME Closing, [ControllerNext]_controllerVars PROVE Closing'
    OBVIOUS
  <2> USE DEF Closing
  <2>1. CASE Server
    BY <2>1 DEF Server, SetupServer, SpawnDispatcher, LoopTest, CallAccept, Loops
  <2>2. ASSUME NEW c \in Client, AcceptReturns(c) PROVE Closing'
    BY <2>2 DEF AcceptReturns
  <2>3. CASE UNCHANGED <<server, server_stop, late>>
    BY <2>3
  <2>4. CASE SetServerStop
    BY <2>4 DEF SetServerStop
  <2>5. CASE \/ CloseControllerFd \/ StopDispatcher \/ DispatcherRuns \/ Destroy
             \/ (SpuriousWake /\ UNCHANGED serverVars)
             \/ \E c \in Client : Handle(c) \/ AccessClient(c)
    BY <2>5, <2>3 DEF CloseControllerFd, StopDispatcher, DispatcherRuns, Handle,
       Receive, ReceiveNothing, ReceiveFails, CopyData, PushRequest,
       UseAfterDestroy, Destroy, AccessClient, Access, Connect, SendRequest,
       SendKills, ReceiveResponse, Leave, serverVars
  <2>6. QED
    BY <2>1, <2>2, <2>3, <2>4, <2>5 DEF ControllerNext, controllerVars, serverVars
<1>3. Closing => AtMostOneLate
  <2>1. CASE late = {}
    BY <2>1, FS_EmptySet DEF AtMostOneLate
  <2>2. ASSUME NEW c \in Client, late = {c} PROVE AtMostOneLate
    BY <2>2, FS_Singleton DEF AtMostOneLate
  <2>3. QED
    BY <2>1, <2>2 DEF Closing
<1>4. QED
  BY <1>1, <1>2, <1>3, PTL DEF ControllerSpec

-----------------------------------------------------------------------------

(* The connections the server has ever accepted. *)
Served == {c \in Client : handling[c] # "none"}

(* accept() alone adds to them, one at a time. *)
LEMMA AcceptServes ==
  ASSUME ControllerTypeOK, NEW c \in Client, AcceptReturns(c)
  PROVE  Served' = Served \cup {c} /\ c \notin Served
  BY DEF AcceptReturns, Pending, Served, ControllerTypeOK

LEMMA ServedStays ==
  ASSUME ControllerTypeOK, [ControllerNext]_controllerVars,
         ~ \E c \in Client : AcceptReturns(c)
  PROVE  Served' = Served
<1>1. CASE handling' = handling
  BY <1>1 DEF Served
<1>2. ASSUME NEW c \in Client, Handle(c) PROVE Served' = Served
  <2>1. CASE Receive(c) \/ ReceiveNothing(c)
    BY <2>1 DEF Receive, ReceiveNothing, Served, ControllerTypeOK
  <2>2. CASE CopyData(c) \/ PushRequest(c)
    BY <2>2 DEF CopyData, PushRequest, Served, ControllerTypeOK
  <2>3. QED
    BY <1>1, <1>2, <2>1, <2>2 DEF Handle, ReceiveFails, UseAfterDestroy, serverVars
<1>3. QED
  BY <1>1, <1>2 DEF ControllerNext, Server, SetupServer, SpawnDispatcher,
     LoopTest, CallAccept, SetServerStop, CloseControllerFd, StopDispatcher,
     Destroy, DispatcherRuns, AccessClient, Access, Connect, SendRequest,
     SendKills, ReceiveResponse, Leave, controllerVars, serverVars

(* What a step may do to the server and its stop, but for accept(). *)
LEMMA ServerStep ==
  ASSUME [ControllerNext]_controllerVars, ~ \E c \in Client : AcceptReturns(c)
  PROVE  \/ Server
         \/ SetServerStop \/ CloseControllerFd
         \/ UNCHANGED <<server, server_stop, fd_open, closer>>
  BY DEF ControllerNext, StopDispatcher, DispatcherRuns, Handle, Receive,
     ReceiveNothing, ReceiveFails, CopyData, PushRequest, UseAfterDestroy, Destroy,
     AccessClient, Access, Connect, SendRequest, SendKills, ReceiveResponse, Leave,
     controllerVars, serverVars

(* There is a descriptor for a connection in every blocked accept, the     *)
(* server opens its socket first and stop() alone closes it, and the       *)
(* server has left its loop for stop() or for want of a descriptor.        *)
Accepting ==
  /\ server \notin {"new"} /\ ~ server_stop => fd_open
  /\ closer # "idle" <=> server_stop
  /\ server = "returned" /\ ~ server_stop => ~ DescriptorLeft
  /\ server = "blocked" => DescriptorLeft

LEMMA AcceptingStep ==
  ControllerTypeOK /\ Accepting /\ [ControllerNext]_controllerVars => Accepting'
<1> SUFFICES ASSUME ControllerTypeOK, Accepting, [ControllerNext]_controllerVars
             PROVE  Accepting'
  OBVIOUS
<1>1. ASSUME NEW c \in Client, AcceptReturns(c) PROVE Accepting'
  BY <1>1 DEF AcceptReturns, Accepting
<1>2. CASE ~ \E c \in Client : AcceptReturns(c)
  <2>1. DescriptorLeft' = DescriptorLeft
    BY <1>2, ServedStays DEF DescriptorLeft, Served
  <2>2. CASE Server
    BY <2>1, <2>2 DEF Server, SetupServer, SpawnDispatcher, LoopTest, CallAccept,
       Loops, Accepting
  <2>3. CASE \/ SetServerStop \/ CloseControllerFd
             \/ UNCHANGED <<server, server_stop, fd_open, closer>>
    BY <2>1, <2>3 DEF SetServerStop, CloseControllerFd, Accepting
  <2>4. QED
    BY <1>2, <2>2, <2>3, ServerStep
<1>3. QED
  BY <1>1, <1>2

LEMMA AcceptingAlways == ControllerSpec => [](ControllerTypeOK /\ Accepting)
<1>1. ControllerInit => Accepting
  BY DEF ControllerInit, Accepting
<1>2. QED
  BY <1>1, AcceptingStep, ControllerTyped, PTL DEF ControllerSpec

(* start() gives up before stop() only with all descriptors in use         *)
(* (dram_controller.cpp:61-71).                                            *)
THEOREM EarlyEndMeansFull == ControllerSpec => []EarlyEndIsFull
<1>1. Accepting => EarlyEndIsFull
  BY DEF Accepting, EarlyEndIsFull
<1>2. QED
  BY <1>1, AcceptingAlways, PTL

-----------------------------------------------------------------------------

(* A controller serves as many connections in all its life as it may have  *)
(* descriptors, and no more requests than that are ever queued             *)
(* (dram_controller.cpp:61-71, 200-225, where no connection is closed).    *)
ServesFew == Cardinality(Served) <= Descriptors /\ queue \subseteq Served

(* Who has been accepted stays so and what is queued stays queued, so that *)
(* a full controller is out of service for good                            *)
(* (dram_controller.cpp:61-71, 130-144, 213).                              *)
FullForGood ==
  [][ /\ Served \subseteq Served' /\ queue \subseteq queue'
      /\ ~ DescriptorLeft => Served' = Served ]_controllerVars

(* The queue holds the requests of handlers that are through with it. *)
Enqueued == \A c \in Client : c \in queue <=> handling[c] = "queued"

LEMMA EnqueuedStep ==
  ASSUME ControllerTypeOK, TypeOK, Blocked, Blocked', Enqueued,
         [ControllerNext]_controllerVars
  PROVE  Enqueued' /\ queue \subseteq queue'
<1>1. ASSUME NEW c \in Client, PushRequest(c)
      PROVE  Enqueued' /\ queue \subseteq queue'
  BY <1>1 DEF PushRequest, Push, Enqueued, ControllerTypeOK
<1>2. CASE ~ \E c \in Client : PushRequest(c)
  <2>1. queue' = queue
    <3>1. ~ \E c \in Client : Pop(c)
      BY DEF Pop, Blocked, TypeOK
    <3>2. QED
      BY <1>2, <3>1 DEF ControllerNext, Server, SetupServer, SpawnDispatcher,
         LoopTest, CallAccept, SetServerStop, CloseControllerFd, StopDispatcher,
         SetStop, Stopper, NotifyStop, Join, Destroy, DispatcherRuns, Dispatcher,
         LoopHead, Sleep, ReturnStopped, AwaitBank, BeginOpenRow, OpenRowReturns,
         OpenRowDies, StoreOpenRowEnd, Launch, Drain, SpuriousWake,
         AcceptReturns, Handle, Receive, ReceiveNothing, ReceiveFails, CopyData,
         UseAfterDestroy, HandlerDies, NotifyPushed,
         AccessClient, Access, Connect, SendRequest, SendKills, ReceiveResponse,
         Leave, controllerVars, vars
  <2>2. ASSUME NEW d \in Client
        PROVE  handling[d] = "queued" <=> handling'[d] = "queued"
    <3>1. CASE handling' = handling
      BY <3>1
    <3>2. ASSUME NEW c \in Client, Handle(c) \/ AcceptReturns(c)
          PROVE  handling[d] = "queued" <=> handling'[d] = "queued"
      BY <1>2, <3>1, <3>2 DEF Handle, Receive, ReceiveNothing, ReceiveFails,
         CopyData, UseAfterDestroy, AcceptReturns, Pending, ControllerTypeOK,
         serverVars
    <3>3. QED
      BY <3>1, <3>2 DEF ControllerNext, Server, SetupServer, SpawnDispatcher,
         LoopTest, CallAccept, SetServerStop, CloseControllerFd, StopDispatcher,
         Destroy, DispatcherRuns, AccessClient, Access, Connect, SendRequest,
         SendKills, ReceiveResponse, Leave, controllerVars, serverVars
  <2>3. QED
    BY <2>1, <2>2 DEF Enqueued
<1>3. QED
  BY <1>1, <1>2

-----------------------------------------------------------------------------

(* There are never more connections than descriptors, counting the one a   *)
(* blocked accept() has reserved its descriptor for.                       *)
Fits ==
  /\ IsFiniteSet(Served) /\ Cardinality(Served) <= Descriptors
  /\ Enqueued

LEMMA FitsStep ==
  ASSUME ControllerTypeOK, Accepting, TypeOK, Blocked, Blocked', Fits,
         [ControllerNext]_controllerVars
  PROVE  Fits'
<1>1. ASSUME NEW c \in Client, AcceptReturns(c)
      PROVE  IsFiniteSet(Served') /\ Cardinality(Served') <= Descriptors
  <2>1. Served' = Served \cup {c} /\ c \notin Served
    BY <1>1, AcceptServes
  <2>2. Cardinality(Served) < Descriptors
    BY <1>1 DEF AcceptReturns, Accepting, DescriptorLeft, Served
  <2>3. /\ IsFiniteSet(Served \cup {c})
        /\ Cardinality(Served \cup {c}) = Cardinality(Served) + 1
        /\ Cardinality(Served) \in Nat
    BY <2>1, FS_AddElement, FS_CardinalityType DEF Fits
  <2>4. QED
    BY <2>1, <2>2, <2>3
<1>2. IsFiniteSet(Served') /\ Cardinality(Served') <= Descriptors
  BY <1>1, ServedStays DEF Fits
<1>3. QED
  BY <1>2, EnqueuedStep DEF Fits

LEMMA FitsAlways == ControllerSpec => []Fits
<1>1. ControllerInit => Fits
  <2> SUFFICES ASSUME ControllerInit PROVE Fits
    OBVIOUS
  <2>1. Served = {} /\ Enqueued
    BY DEF ControllerInit, Init, Served, Enqueued
  <2>2. QED
    BY <2>1, FS_EmptySet DEF Fits
<1>2. /\ ControllerTypeOK /\ Accepting /\ TypeOK /\ Blocked /\ Blocked' /\ Fits
      /\ [ControllerNext]_controllerVars
      => Fits'
  BY FitsStep
<1>3. QED
  BY <1>1, <1>2, AcceptingAlways, BlockedAlways, PTL DEF ControllerSpec

(* The connections of a whole life are bounded by the descriptors          *)
(* (dram_controller.cpp:61-71, 200-225).                                   *)
THEOREM ServesAsManyAsDescriptors == ControllerSpec => []ServesFew
<1>1. Fits /\ TypeOK => ServesFew
  BY DEF Fits, Enqueued, TypeOK, Served, ServesFew
<1>2. QED
  BY <1>1, FitsAlways, BlockedAlways, PTL

(* A full controller accepts nobody and forgets nobody                     *)
(* (dram_controller.cpp:61-71, 130-144, 213).                              *)
THEOREM OutOfServiceForGood == ControllerSpec => FullForGood
<1> DEFINE A == /\ Served \subseteq Served' /\ queue \subseteq queue'
                /\ ~ DescriptorLeft => Served' = Served
<1>1. ASSUME ControllerTypeOK, Accepting, [ControllerNext]_controllerVars
      PROVE  Served \subseteq Served' /\ (~ DescriptorLeft => Served' = Served)
  <2>1. ASSUME NEW c \in Client, AcceptReturns(c)
        PROVE  Served \subseteq Served' /\ DescriptorLeft
    BY <2>1, AcceptServes, <1>1 DEF AcceptReturns, Accepting
  <2>2. QED
    BY <1>1, <2>1, ServedStays
<1>2. /\ ControllerTypeOK /\ TypeOK /\ Blocked /\ Blocked' /\ Fits
      /\ [ControllerNext]_controllerVars
      => queue \subseteq queue'
  BY EnqueuedStep DEF Fits
<1>3. /\ ControllerTypeOK /\ Accepting /\ TypeOK /\ Blocked /\ Blocked' /\ Fits
      /\ [ControllerNext]_controllerVars
      => A
  BY <1>1, <1>2
<1>4. [][A]_controllerVars => FullForGood
  BY PTL DEF FullForGood
<1>5. QED
  BY <1>3, <1>4, AcceptingAlways, BlockedAlways, FitsAlways, PTL
     DEF ControllerSpec

-----------------------------------------------------------------------------

(* What the handlers that outlive the controller share it with: nobody.    *)
(* When the destructor has run, start() and the dispatcher have returned   *)
(* and no transfer is in flight, so that the detached handlers alone are a *)
(* breach of "gracefully" (dram_controller.hpp:82, dram_controller.cpp:73-88). *)
OnlyHandlersOutlive ==
  destroyed => /\ server = "returned" /\ disp = "returned"
               /\ \A c \in Client : task[c] \notin InFlight

(* The destructor leaves none but the handlers at work.                    *)
THEOREM HandlersAloneOutlive == ControllerSpec => []OnlyHandlersOutlive
<1> DEFINE Gone == destroyed => server = "returned"
<1>1. ControllerInit => Gone
  BY DEF ControllerInit
<1>2. Gone /\ [ControllerNext]_controllerVars => Gone'
  <2> SUFFICES ASSUME Gone, [ControllerNext]_controllerVars PROVE Gone'
    OBVIOUS
  <2>1. CASE Server \/ \E c \in Client : AcceptReturns(c)
    BY <2>1 DEF Server, SetupServer, SpawnDispatcher, LoopTest, CallAccept,
       AcceptReturns
  <2>2. CASE Destroy
    BY <2>2 DEF Destroy
  <2>3. CASE UNCHANGED <<server, destroyed>>
    BY <2>3
  <2>4. QED
    BY <2>1, <2>2, <2>3 DEF ControllerNext, SetServerStop, CloseControllerFd,
       StopDispatcher, DispatcherRuns, Handle, Receive, ReceiveNothing,
       ReceiveFails, CopyData, PushRequest, UseAfterDestroy, AccessClient, Access,
       Connect, SendRequest, SendKills, ReceiveResponse, Leave, controllerVars,
       serverVars
<1>3. Gone /\ Blocked /\ StopDrains => OnlyHandlersOutlive
  BY DEF Blocked, StopDrains, OnlyHandlersOutlive
<1>4. QED
  BY <1>1, <1>2, <1>3, BlockedAlways, ControllerServesAndStops, PTL
     DEF ControllerSpec

-----------------------------------------------------------------------------

(* A client comes back from an accepted connection only when the process   *)
(* that accepted it is dead (dram.cpp:83-99).                              *)
THEOREM AccessEndsWithController == ControllerSpec => []EndsWithController
<1> DEFINE T == ControllerTypeOK /\ \A c \in Client : task[c] = "none"
           J == /\ EndsWithController
                /\ \A c \in Client : conn[c] = "out" => handling[c] = "none"
<1>1. ControllerInit => J
  BY DEF ControllerInit, EndsWithController
<1>2. T /\ J /\ [ControllerNext]_controllerVars => J'
  <2> SUFFICES ASSUME T, J, [ControllerNext]_controllerVars
               PROVE  J'
    OBVIOUS
  <2>1. ASSUME UNCHANGED <<conn, handling>>, ~ alive => ~ alive'
        PROVE  J'
    BY <2>1 DEF EndsWithController
  <2>2. alive' => alive
    <3>1. ASSUME NEW c \in Client, AccessClient(c) PROVE alive' = alive
      BY <3>1 DEF AccessClient, Access, Connect, SendRequest, SendKills,
         ReceiveResponse, Leave, vars
    <3>2. QED
      BY <3>1 DEF ControllerNext, controllerVars, vars
  <2>3. ASSUME NEW c \in Client, AcceptReturns(c) PROVE J'
    BY <2>3, <2>2 DEF AcceptReturns, EndsWithController, Pending, ControllerTypeOK
  <2>4. ASSUME NEW c \in Client, Handle(c) PROVE J'
    <3>1. CASE Receive(c) \/ ReceiveNothing(c) \/ CopyData(c) \/ PushRequest(c)
      BY <3>1, <2>2 DEF Receive, ReceiveNothing, CopyData, PushRequest,
         EndsWithController, ControllerTypeOK
    <3>2. QED
      BY <2>4, <3>1, <2>1, <2>2 DEF Handle, ReceiveFails, UseAfterDestroy, serverVars
  <2>5. ASSUME NEW c \in Client, AccessClient(c) PROVE J'
    <3> USE DEF EndsWithController, ControllerTypeOK
    <3>1. UNCHANGED <<alive, handling>> /\ \A d \in Client \ {c} : conn'[d] = conn[d]
      BY <2>5 DEF AccessClient, Access, Connect, SendRequest, SendKills,
         ReceiveResponse, Leave, vars
    <3>2. CASE Connect(c)
      BY <3>1, <3>2 DEF Connect
    <3>3. CASE SendRequest(c) \/ Leave(c)
      BY <3>1, <3>3 DEF SendRequest, Leave
    <3>4. CASE SendKills(c)
      BY <3>1, <3>4 DEF SendKills, PeerGone, Pending
    <3>5. CASE ReceiveResponse(c)
      BY <3>1, <3>5 DEF ReceiveResponse, Outcomes, PeerGone, Pending
    <3>6. QED
      BY <2>5, <3>2, <3>3, <3>4, <3>5 DEF AccessClient, Access
  <2>6. QED
    BY <2>1, <2>2, <2>3, <2>4, <2>5 DEF ControllerNext, Server, SetupServer,
       SpawnDispatcher, LoopTest, CallAccept, SetServerStop, CloseControllerFd,
       StopDispatcher, Destroy, DispatcherRuns, controllerVars, serverVars
<1>3. NothingIsDispatched => \A c \in Client : task[c] = "none"
  BY DEF NothingIsDispatched
<1>4. J => EndsWithController
  OBVIOUS
<1>5. QED
  BY <1>1, <1>2, <1>3, <1>4, ControllerTyped, NothingEverDispatched, PTL
     DEF ControllerSpec

=============================================================================
