------------------------------ MODULE IpcSocket ------------------------------
(***************************************************************************)
(* The Unix socket between the daemon and its clients: per client, one     *)
(* JSON line per message in each direction, in order.  A write that finds  *)
(* the socket buffer full waits for the reader: the message beyond SockCap *)
(* is the one the daemon's handler is still writing.                       *)
(***************************************************************************)
EXTENDS BozoTypes

CONSTANT SockCap  \* messages the socket holds before a write waits

ASSUME SocketAssumption == SockCap \in Nat \ {0}

VARIABLES
    toDaemon,   \* toDaemon[c]: requests written by c and not yet read
    toClient,   \* toClient[c]: responses written to c and not yet read
    clientEnd   \* clientEnd[c]: c's end of its stream

socketVars == <<toDaemon, toClient, clientEnd>>

SocketTypeOK ==
    /\ toDaemon \in [Clients -> Seq(IpcRequest)]
    /\ toClient \in [Clients -> Seq(IpcResponse)]
    /\ clientEnd \in [Clients -> {"none", "open", "closed"}]

SocketInit ==
    /\ toDaemon = [c \in Clients |-> << >>]
    /\ toClient = [c \in Clients |-> << >>]
    /\ clientEnd = [c \in Clients |-> "none"]

\* No write of the daemon to c is still waiting for room.
Writable(c) == Len(toClient[c]) <= SockCap
=============================================================================
