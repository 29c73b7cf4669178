------------------------------ MODULE TuiClient ------------------------------
(***************************************************************************)
(* The clients (bozo): IpcClient, which asks for the state as soon as it   *)
(* is connected and then sends a request per key press, and App, which     *)
(* applies every response to the HeadphoneState it draws.                  *)
(***************************************************************************)
EXTENDS IpcSocket

CONSTANTS
    Requests,    \* the requests clients send (the daemon serves every IpcRequest)
    MaxRequests  \* bound: requests a client sends after its GetState

ASSUME ClientAssumption == Requests \subseteq IpcRequest /\ MaxRequests \in Nat

VARIABLES
    view,     \* view[c]: App.state
    sent,     \* sent[c]: requests c has written
    replies   \* replies[c]: responses to its requests c has read

clientVars == <<view, sent, replies>>

ClientTypeOK ==
    /\ view \in [Clients -> HeadphoneState]
    /\ sent \in [Clients -> 0..(MaxRequests + 1)]
    /\ replies \in [Clients -> Nat]

ClientInit ==
    /\ view = [c \in Clients |-> DefaultState]
    /\ sent = [c \in Clients |-> 0]
    /\ replies = [c \in Clients |-> 0]

\* IpcClient::connect: GetState is the first line on the stream.
Connect(c) ==
    /\ clientEnd[c] = "none"
    /\ clientEnd' = [clientEnd EXCEPT ![c] = "open"]
    /\ toDaemon' = [toDaemon EXCEPT ![c] = <<GetState>>]
    /\ sent' = [sent EXCEPT ![c] = 1]
    /\ UNCHANGED <<toClient, view, replies>>

\* IpcClient::send, for whatever the user asked for.
SendRequest(c, request) ==
    /\ request \in Requests
    /\ clientEnd[c] = "open"
    /\ sent[c] \in 1..MaxRequests
    /\ toDaemon' = [toDaemon EXCEPT ![c] = Append(@, request)]
    /\ sent' = [sent EXCEPT ![c] = @ + 1]
    /\ UNCHANGED <<toClient, clientEnd, view, replies>>

\* The reader task and App::poll_ipc: one response is applied.
ReadResponse(c) ==
    /\ clientEnd[c] = "open"
    /\ toClient[c] # << >>
    /\ toClient' = [toClient EXCEPT ![c] = Tail(@)]
    /\ LET r == Head(toClient[c]) IN
       \/ /\ r.type = "State"
          /\ view' = [view EXCEPT ![c] = r.state]
          /\ replies' = [replies EXCEPT ![c] = @ + 1]
       \/ /\ r.type = "StateUpdate"
          /\ view' = [view EXCEPT ![c] = Apply(@, r.update)]
          /\ UNCHANGED replies
       \/ /\ r.type \in {"Ok", "Error"}
          /\ replies' = [replies EXCEPT ![c] = @ + 1]
          /\ UNCHANGED view
    /\ UNCHANGED <<toDaemon, clientEnd, sent>>

\* The user quits.
Close(c) ==
    /\ clientEnd[c] = "open"
    /\ clientEnd' = [clientEnd EXCEPT ![c] = "closed"]
    /\ UNCHANGED <<toDaemon, toClient, clientVars>>
=============================================================================
