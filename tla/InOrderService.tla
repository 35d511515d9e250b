--------------------------- MODULE InOrderService ---------------------------
(***************************************************************************)
(* What the controller promises the clients whose requests it has queued:  *)
(* requests are taken up one by one in the order of their numbers, each    *)
(* once, and those for the same bank are also finished in that order.      *)
(* Requests for different banks may finish in any order.                   *)
(***************************************************************************)
EXTENDS Naturals

CONSTANTS
  Client,
  Request,  \* records with a number, seq, and a bank
  None      \* no request

VARIABLES
  req,      \* the request of each client
  status,   \* "absent", "queued", "taken", "finished"
  serving   \* the number taken up next

vars == <<req, status, serving>>

Init ==
  /\ req = [c \in Client |-> None]
  /\ status = [c \in Client |-> "absent"]
  /\ serving = 0

Queue(c, r) ==
  /\ status[c] = "absent"
  /\ req' = [req EXCEPT ![c] = r]
  /\ status' = [status EXCEPT ![c] = "queued"]
  /\ UNCHANGED serving

Take(c) ==
  /\ status[c] = "queued" /\ req[c].seq = serving
  /\ status' = [status EXCEPT ![c] = "taken"]
  /\ serving' = serving + 1
  /\ UNCHANGED req

Finish(c) ==
  /\ status[c] = "taken"
  /\ \A d \in Client : status[d] = "taken" /\ req[d].bank = req[c].bank
                         => req[c].seq <= req[d].seq
  /\ status' = [status EXCEPT ![c] = "finished"]
  /\ UNCHANGED <<req, serving>>

Next ==
  \E c \in Client : \/ \E r \in Request : Queue(c, r)
                    \/ Take(c)
                    \/ Finish(c)

Spec == Init /\ [][Next]_vars

=============================================================================
