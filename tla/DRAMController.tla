--------------------------- MODULE DRAMController ---------------------------
(***************************************************************************)
(* The whole dram::DRAMController process with its clients: the dispatcher *)
(* of module DRAMDispatcher under the server thread that runs start(), the *)
(* detached threads that run handle_request, the thread that calls stop(), *)
(* and client processes in DRAM::access.  Requests carry the numbers that  *)
(* handle_request gives them.                                              *)
(*                                                                         *)
(* stop() is called after start() has created the dispatcher: before that  *)
(* the two race on the members dispatcher_thread and controller_fd, which  *)
(* no synchronisation protects.                                            *)
(*                                                                         *)
(* The kernel's side of the sockets is external.  On Linux close() does    *)
(* not wake a thread blocked in accept() and does not end the listening    *)
(* socket while that call holds it: the next connection still succeeds and *)
(* is handed to the blocked call, which has its descriptor already.  Who   *)
(* sends to a connection whose other end is gone dies of SIGPIPE; who      *)
(* receives gets an error if that end had something left to read, else 0.  *)
(***************************************************************************)
EXTENDS DRAMDispatcher, FiniteSets

CONSTANTS
  DataSizes,    \* values of wire.data_size clients send
  Descriptors   \* connections the process can have open; it closes none

Wire == [data_size : DataSizes, bank : BankId, row : RowId]

VARIABLES
  server,       \* the thread in start()
  server_stop,  \* the flag its loop tests
  fd_open,      \* controller_fd is a listening socket
  closer,       \* how far stop() has got before it sets dispatcher_stop
  conn,         \* each client in access(): "out", "connected", "sent", then
                \* "returned" or "threw"; "gone", "killed" with its process
  wire,         \* what each client has sent, None before
  handling,     \* each handler thread: "none", "accepted", "received",
                \* "numbered", "queued"
  late,         \* clients accepted after stop() had set server_stop
  destroyed     \* the destructor has run

serverVars == <<server, server_stop, fd_open, closer, conn, wire, handling,
                late, destroyed>>
controllerVars == <<vars, serverVars>>

ControllerInit ==
  /\ Init
  /\ server = "new"
  /\ server_stop = FALSE
  /\ fd_open = FALSE
  /\ closer = "idle"
  /\ conn = [c \in Client |-> "out"]
  /\ wire = [c \in Client |-> None]
  /\ handling = [c \in Client |-> "none"]
  /\ late = {} /\ destroyed = FALSE

ControllerTypeOK ==
  /\ server \in {"new", "bound", "loop", "accepting", "blocked", "returned"}
  /\ server_stop \in BOOLEAN /\ fd_open \in BOOLEAN /\ destroyed \in BOOLEAN
  /\ closer \in {"idle", "flagged", "closed"}
  /\ conn \in [Client -> {"out", "connected", "sent", "returned", "threw",
                        "gone", "killed"}]
  /\ wire \in [Client -> Wire \cup {None}]
  /\ handling \in [Client -> {"none", "accepted", "received", "numbered",
                            "queued"}]
  /\ late \subseteq Client
  /\ \A c \in Client : \/ conn[c] = "sent"
                        \/ handling[c] \in {"received", "numbered"}
                        => wire[c] \in Wire

-----------------------------------------------------------------------------

(* Mutants: a number taken from a counter that is one behind; a loop that  *)
(* does not look at server_stop, or looks for it the wrong way; a stop()   *)
(* that does not join the thread, and one that forgets server_stop; a      *)
(* handler that closes its connection.                                     *)
UnsteppedNumber(next_seq) == next_seq
KeepsLooping(stopped) == TRUE
LoopsBackwards(stopped) == stopped
StopWithoutJoin ==
  /\ closer = "closed"
  /\ \/ SetStop \/ NotifyStop
     \/ /\ stopper = "joining" /\ stopper' = "stopped"
        /\ UNCHANGED <<alive, queue, req, handler, stop, disp, cur, expected,
                       future, task, row, clock, start, seen>>
  /\ UNCHANGED serverVars

StopWithoutFlag ==
  /\ closer = "idle" /\ server \notin {"new", "bound"}
  /\ closer' = "flagged"
  /\ UNCHANGED <<vars, server, server_stop, fd_open, conn, wire, handling,
                 late, destroyed>>
ClosedByHandler(c) == ~ alive \/ handling[c] = "queued"

(* seq = next_seq.load() + 1; nothing ever stores to next_seq, whose value *)
(* is the 0 of its initialisation.                                         *)
RequestNumber(next_seq) == next_seq + 1
NextSeq == 0

ASSUME ControllerAssumption ==
  /\ DataSizes \subseteq Nat
  /\ RequestNumber(NextSeq) \in Seqs
  /\ Descriptors \in Nat

(* while (!server_stop) *)
Loops(stopped) == ~ stopped

(* The listening socket exists as long as the descriptor is open or a      *)
(* thread is blocked in accept on it.                                      *)
Listening == fd_open \/ server = "blocked"

(* The connection of c waits in the backlog of the listening socket. *)
Pending(c) == conn[c] \notin {"out", "threw", "killed"} /\ handling[c] = "none"

(* The kernel closes the connections of a dead controller, and those that  *)
(* wait at a socket that is gone.  A living controller closes none.        *)
PeerGone(c) == ~ alive \/ (Pending(c) /\ ~ Listening)

(* Accepted connections stay open: a descriptor is left for one more. *)
DescriptorLeft ==
  Cardinality({c \in Client : handling[c] # "none"}) < Descriptors

(* What next_seq gives a handler; its memory may hold anything once the    *)
(* controller is destroyed.                                                *)
NumbersRead == IF destroyed THEN Seqs ELSE {RequestNumber(NextSeq)}

-----------------------------------------------------------------------------
(* start() *)

SetupServer ==
  /\ server = "new"
  /\ server' = "bound" /\ fd_open' = TRUE
  /\ UNCHANGED <<vars, server_stop, closer, conn, wire, handling, late,
                 destroyed>>

SpawnDispatcher ==
  /\ server = "bound"
  /\ server' = "loop"
  /\ UNCHANGED <<vars, server_stop, fd_open, closer, conn, wire, handling,
                 late, destroyed>>

LoopTest ==
  /\ server = "loop"
  /\ server' = IF Loops(server_stop) THEN "accepting" ELSE "returned"
  /\ UNCHANGED <<vars, server_stop, fd_open, closer, conn, wire, handling,
                 late, destroyed>>

(* accept() reserves a descriptor before it blocks.  On a closed socket, or *)
(* when there is none left, it fails and breaks the loop.                  *)
CallAccept ==
  /\ server = "accepting"
  /\ server' = IF fd_open /\ DescriptorLeft
                THEN "blocked" ELSE "returned"
  /\ UNCHANGED <<vars, server_stop, fd_open, closer, conn, wire, handling,
                 late, destroyed>>

(* accept() returns the connection of c, whose handler thread is detached. *)
AcceptReturns(c) ==
  /\ server = "blocked" /\ Pending(c)
  /\ server' = "loop"
  /\ handling' = [handling EXCEPT ![c] = "accepted"]
  /\ late' = IF server_stop THEN late \cup {c} ELSE late
  /\ UNCHANGED <<vars, server_stop, fd_open, closer, conn, wire, destroyed>>

-----------------------------------------------------------------------------
(* handle_request(c) *)

Receive(c) ==
  /\ handling[c] = "accepted" /\ conn[c] = "sent"
  /\ handling' = [handling EXCEPT ![c] = "received"]
  /\ UNCHANGED <<vars, server, server_stop, fd_open, closer, conn, wire, late,
                 destroyed>>

(* Mutant: a recv that returns 0 leaves no request at all. *)
ReceiveNoWire(c) ==
  /\ handling[c] = "accepted" /\ conn[c] = "gone"
  /\ handling' = [handling EXCEPT ![c] = "received"]
  /\ UNCHANGED <<vars, server, server_stop, fd_open, closer, conn, wire, late,
                 destroyed>>

(* recv returns 0 when the client has gone without sending; only n < 0 is  *)
(* looked at, and the request is made of an uninitialised WireRequest.     *)
ReceiveNothing(c) ==
  /\ handling[c] = "accepted" /\ conn[c] = "gone"
  /\ handling' = [handling EXCEPT ![c] = "received"]
  /\ \E w \in Wire : wire' = [wire EXCEPT ![c] = w]
  /\ UNCHANGED <<vars, server, server_stop, fd_open, closer, conn, late,
                 destroyed>>

(* recv fails: the exception ends the process. *)
ReceiveFails(c) ==
  /\ handling[c] = "accepted"
  /\ HandlerDies(c)
  /\ UNCHANGED serverVars

(* std::copy of data_size bytes to d.begin() of the empty vector d. *)
CopyData(c) ==
  /\ handling[c] = "received"
  /\ IF wire[c].data_size = 0
     THEN /\ handling' = [handling EXCEPT ![c] = "numbered"]
          /\ UNCHANGED vars
     ELSE /\ HandlerDies(c)
          /\ UNCHANGED handling
  /\ UNCHANGED <<server, server_stop, fd_open, closer, conn, wire, late,
                 destroyed>>

PushRequest(c) ==
  /\ handling[c] = "numbered"
  /\ \E n \in NumbersRead :
       Push(c, [seq |-> n, bank |-> wire[c].bank, row |-> wire[c].row])
  /\ handling' = [handling EXCEPT ![c] = "queued"]
  /\ UNCHANGED <<server, server_stop, fd_open, closer, conn, wire, late,
                 destroyed>>

(* A handler that touches the controller after its destruction goes on as  *)
(* if nothing had happened or brings the process down.                     *)
UseAfterDestroy(c) ==
  /\ destroyed
  /\ handling[c] \in {"received", "numbered"} \/ handler[c] = "pushed"
  /\ HandlerDies(c)
  /\ UNCHANGED serverVars

-----------------------------------------------------------------------------
(* stop(), up to the part that concerns the dispatcher *)

SetServerStop ==
  /\ closer = "idle" /\ server \notin {"new", "bound"}
  /\ closer' = "flagged" /\ server_stop' = TRUE
  /\ UNCHANGED <<vars, server, fd_open, conn, wire, handling, late,
                 destroyed>>

CloseControllerFd ==
  /\ closer = "flagged"
  /\ closer' = "closed" /\ fd_open' = FALSE
  /\ UNCHANGED <<vars, server, server_stop, conn, wire, handling, late,
                 destroyed>>

StopDispatcher ==
  /\ closer = "closed"
  /\ SetStop \/ Stopper
  /\ UNCHANGED serverVars

(* The owner destroys the controller when start() and stop() have returned. *)
(* The second stop(), of the destructor, finds nothing left to do, and the *)
(* handler threads are detached: nobody can wait for them.                 *)
Destroy ==
  /\ server = "returned" /\ stopper = "stopped" /\ ~ destroyed
  /\ destroyed' = TRUE
  /\ UNCHANGED <<vars, server, server_stop, fd_open, closer, conn, wire,
                 handling, late>>

-----------------------------------------------------------------------------
(* DRAM::access in the process of client c *)

(* setup_client: connect() fails when nothing listens. *)
Connect(c) ==
  /\ conn[c] = "out"
  /\ conn' = [conn EXCEPT ![c] =
                 IF Listening /\ alive THEN "connected" ELSE "threw"]
  /\ UNCHANGED <<vars, server, server_stop, fd_open, closer, wire, handling,
                 late, destroyed>>

SendRequest(c) ==
  /\ conn[c] = "connected" /\ ~ PeerGone(c)
  /\ \E w \in Wire : wire' = [wire EXCEPT ![c] = w]
  /\ conn' = [conn EXCEPT ![c] = "sent"]
  /\ UNCHANGED <<vars, server, server_stop, fd_open, closer, handling, late,
                 destroyed>>

(* send() raises SIGPIPE, which nothing blocks or handles. *)
SendKills(c) ==
  /\ conn[c] = "connected" /\ PeerGone(c)
  /\ conn' = [conn EXCEPT ![c] = "killed"]
  /\ UNCHANGED <<vars, server, server_stop, fd_open, closer, wire, handling,
                 late, destroyed>>

(* The client process ends before it has sent its request. *)
Leave(c) ==
  /\ conn[c] = "connected"
  /\ conn' = [conn EXCEPT ![c] = "gone"]
  /\ UNCHANGED <<vars, server, server_stop, fd_open, closer, wire, handling,
                 late, destroyed>>

(* How access() goes on after its recv: with a response of the controller  *)
(* it returns; with an error, when the request was not read, it throws;    *)
(* with 0 bytes it looks at resp.success, which nothing has written.       *)
Outcomes(c) ==
  {e \in {"returned", "threw"} :
     \/ task[c] = "answered" /\ e = "returned"
     \/ PeerGone(c) /\ handling[c] \in {"none", "accepted"} /\ e = "threw"
     \/ PeerGone(c) /\ handling[c] \notin {"none", "accepted"}}

ReceiveResponse(c) ==
  /\ conn[c] = "sent"
  /\ \E e \in Outcomes(c) : conn' = [conn EXCEPT ![c] = e]
  /\ UNCHANGED <<vars, server, server_stop, fd_open, closer, wire, handling,
                 late, destroyed>>

-----------------------------------------------------------------------------

Server == SetupServer \/ SpawnDispatcher \/ LoopTest \/ CallAccept
Handle(c) ==
  \/ Receive(c) \/ ReceiveNothing(c) \/ ReceiveFails(c)
  \/ CopyData(c) \/ PushRequest(c) \/ UseAfterDestroy(c)
  \/ NotifyPushed(c) /\ UNCHANGED serverVars
Access(c) == SendRequest(c) \/ SendKills(c) \/ ReceiveResponse(c)
AccessClient(c) == Connect(c) \/ Access(c) \/ Leave(c)

DispatcherRuns ==
  /\ server \notin {"new", "bound"}
  /\ Dispatcher
  /\ UNCHANGED serverVars

ControllerNext ==
  \/ /\ alive
     /\ \/ Server
        \/ \E c \in Client : AcceptReturns(c) \/ Handle(c)
        \/ SetServerStop \/ CloseControllerFd \/ StopDispatcher \/ Destroy
        \/ DispatcherRuns
        \/ SpuriousWake /\ UNCHANGED serverVars
  \/ \E c \in Client : AccessClient(c)

ControllerSpec == ControllerInit /\ [][ControllerNext]_controllerVars

(* Threads that can run are run; a stop() once begun goes on; a client     *)
(* that is connected sends.  Nobody has to connect or to call stop() or    *)
(* the destructor.                                                         *)
ControllerFairness ==
  /\ WF_controllerVars(alive /\ Server)
  /\ WF_controllerVars(alive /\ \E c \in Client : AcceptReturns(c))
  /\ WF_controllerVars(alive /\ (CloseControllerFd \/ StopDispatcher))
  /\ WF_controllerVars(alive /\ DispatcherRuns)
  /\ \A c \in Client : WF_controllerVars(alive /\ Handle(c))
  /\ \A c \in Client : WF_controllerVars(Access(c))

FairControllerSpec == ControllerSpec /\ ControllerFairness

-----------------------------------------------------------------------------

(* No request is ever dispatched: handle_request starts numbering at 1 and *)
(* never moves next_seq, the dispatcher starts at 0.  Every request that   *)
(* is pushed while there is a dispatcher carries the same number and stays *)
(* in the queue for good (dram_controller.cpp:130, 139, 213).              *)
NothingIsDispatched ==
  /\ expected = 0
  /\ \A c \in Client :
       /\ task[c] = "none"
       /\ handler[c] # "idle" => c \in queue /\ (destroyed \/ req[c].seq = 1)

(* Once stop() has set server_stop the loop hands out one more connection  *)
(* at most (dram_controller.cpp:61-71 against 75-78).                      *)
AtMostOneLate == Cardinality(late) <= 1

(* start() returns without stop() only when the process is full: no handler *)
(* and no dispatcher ever closes a connection (dram_controller.cpp:63-64,  *)
(* 182, 200-225).                                                          *)
EarlyEndIsFull == server = "returned" /\ ~ server_stop => ~ DescriptorLeft

(* No access() gets an answer.  One whose connection was accepted waits as *)
(* long as the controller lives, and one that returns without an exception *)
(* has taken an unwritten response of a dead controller for a success      *)
(* (dram.cpp:88-99 with dram_controller.cpp:130-139, 213).                 *)
EndsWithController ==
  \A c \in Client :
    \/ conn[c] = "returned"
    \/ conn[c] \in {"threw", "killed"} /\ handling[c] # "none"
    => ~ alive

(* What the server does with the dispatcher is what module DRAMDispatcher  *)
(* assumes of its environment, so that what holds there holds here.        *)
ImplementsDispatcher == Spec

(* stop() returns, clients and unfinished handlers or not                  *)
(* (dram_controller.cpp:73-88).                                            *)
StopCompletes == closer = "flagged" ~> (stopper = "stopped" \/ ~ alive)

(* The connection that comes after stop() ends start() at last.            *)
LateEndsStart == late # {} ~> (server = "returned" \/ ~ alive)

(* A request a client has sent gets to the queue, whoever else connects,   *)
(* leaves or stops meanwhile, unless its access() has failed, the process  *)
(* has died, or start() has come back for a stop() or a full process       *)
(* (dram_controller.cpp:61-70, 200-223).                                   *)
RequestArrives ==
  \A c \in Client :
    conn[c] = "sent" ~>
      \/ handling[c] = "queued" \/ conn[c] # "sent" \/ ~ alive
      \/ server = "returned" /\ (server_stop \/ ~ DescriptorLeft)

(* stop() promises to "gracefully shutdown memory controller"              *)
(* (dram_controller.hpp:82), so no thread should work with the controller  *)
(* when its destructor is through.  The handler threads do.                *)
ShutdownIsGraceful ==
  destroyed /\ alive =>
    \A c \in Client : handling[c] # "none" => handler[c] = "done"

(* dram_controller.cpp:64 and 77 say that closing the socket unblocks      *)
(* accept, so start() returns after stop().  The code does not do that.    *)
StartReturns == stopper = "stopped" ~> (server = "returned" \/ ~ alive)

=============================================================================
