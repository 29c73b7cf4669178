------------------------------ MODULE BozoSystem ------------------------------
(***************************************************************************)
(* The whole system: the daemon, its clients and the headphones, composed  *)
(* through the socket and the BLE link, and what the composition promises. *)
(***************************************************************************)
EXTENDS Bozod, TuiClient

vars == <<bozodVars, clientVars, socketVars, headphoneVars>>

Init ==
    /\ BozodInit
    /\ ClientInit
    /\ SocketInit
    /\ HeadphonesInit

ClientStep(c) ==
    /\ \/ /\ socketFile = "bound"
          /\ Connect(c)
       \/ /\ handler[c] # "closed"
          /\ \E request \in Requests : SendRequest(c, request)
       \/ ReadResponse(c)
       \/ Close(c)
    /\ UNCHANGED <<bozodVars, headphoneVars>>

HeadphonesStep ==
    /\ HeadphonesNext
    /\ UNCHANGED <<bozodVars, clientVars, socketVars>>

DaemonStep ==
    /\ BozodNext
    /\ UNCHANGED clientVars

Next ==
    \/ DaemonStep
    \/ \E c \in Clients : ClientStep(c)
    \/ HeadphonesStep

Spec == Init /\ [][Next]_vars

(***************************************************************************)
(* Fairness: a task of the daemon is polled again once one of the things   *)
(* it awaits is ready, and a client's reader task reads.  Nothing is       *)
(* assumed of which ready branch a select! takes, of scanning and          *)
(* connecting, of the headphones, of signals or of the user.               *)
(***************************************************************************)
Fairness ==
    /\ WF_vars(StateManagerNext /\ UNCHANGED clientVars)
    /\ WF_vars(ConnectionNext /\ UNCHANGED clientVars)
    /\ WF_vars((MainQuery \/ EnterSelect \/ ShutDown) /\ UNCHANGED clientVars)
    /\ \A c \in Clients :
        /\ WF_vars((Accept(c) \/ HandlerNext(c)) /\ UNCHANGED clientVars)
        /\ WF_vars(ReadResponse(c) /\ UNCHANGED <<bozodVars, headphoneVars>>)

LiveSpec == Spec /\ Fairness

-----------------------------------------------------------------------------
TypeOK ==
    /\ BusTypeOK
    /\ BozodTypeOK
    /\ ClientTypeOK
    /\ SocketTypeOK
    /\ HeadphonesTypeOK

(***************************************************************************)
(* What is under way about field f: an event or a response touches f when  *)
(* reading it gives f the value ValueIn(x, f).                             *)
(***************************************************************************)
Touches(x, f) ==
    \/ x.type = "State"
    \/ x.type \in {"StateUpdated", "StateUpdate"} /\ x.update.field = f
    \/ x.type \in {"Connected", "Disconnected"} /\ f = "connected"
ValueIn(x, f) == IF x.type = "State" THEN x.state[f] ELSE x.update.value

Silent(q, f) == \A i \in 1..Len(q) : ~Touches(q[i], f)

\* The last thing in q about f is v.
Carries(q, f, v) ==
    \E i \in 1..Len(q) :
        /\ Touches(q[i], f) /\ ValueIn(q[i], f) = v
        /\ \A j \in (i + 1)..Len(q) : ~Touches(q[j], f)

UpdateUnderWay(f) == smUpdate # None /\ smUpdate.field = f

\* c's GetState has been answered.
Loaded(c) == Len(toDaemon[c]) < sent[c]

Served(c) == handler[c] = "open" /\ clientEnd[c] = "open"

(***************************************************************************)
(* The TUI never settles on a wrong value: once nothing about a cell is on *)
(* its way to a served client, the value it draws is the daemon's.  A      *)
(* handler that lags, because its client is slow or the command queue is   *)
(* full, costs the client no other cell than those whose last update was   *)
(* among the lost events.  (subscribe before the snapshot, the state       *)
(* written before the broadcast, one stream for replies and pushes, a      *)
(* receiver that keeps what is left after a loss: any of them the other    *)
(* way round loses an update for good.)                                    *)
(***************************************************************************)
ViewConverges ==
    \A c \in Clients, k \in Cells :
        Served(c) /\ Loaded(c) /\ k \notin missed[c]
            /\ ~UpdateUnderWay(k) /\ Silent(inbox[c], k) /\ Silent(toClient[c], k)
        => view[c][k] = state[k]

(***************************************************************************)
(* Why it converges: the inductive invariant.  The update the state        *)
(* manager is about to broadcast is written; the last event a handler has  *)
(* about a settled cell carries the cell's value, lagging or not; if there *)
(* is none and none was lost, the last response in the stream does; if     *)
(* there is none, the view has it.  GetState is the first request a        *)
(* handler meets.                                                          *)
(***************************************************************************)
UpdateWritten ==
    smUpdate # None => smUpdate.field \in Cells /\ state[smUpdate.field] = smUpdate.value

EventsCurrent(c, k) ==
    handler[c] = "open" /\ ~UpdateUnderWay(k)
    => Silent(inbox[c], k) \/ Carries(inbox[c], k, state[k])

PipelineCurrent(c, k) ==
    Served(c) /\ Loaded(c) /\ k \notin missed[c] /\ ~UpdateUnderWay(k) /\ Silent(inbox[c], k)
    => \/ Carries(toClient[c], k, state[k])
       \/ Silent(toClient[c], k) /\ view[c][k] = state[k]

LoadFirst(c) ==
    clientEnd[c] = "open" /\ handler[c] # "closed" =>
        /\ Len(toDaemon[c]) <= sent[c]
        /\ handler[c] = "none" => ~Loaded(c)
        /\ ~Loaded(c) => toDaemon[c] # << >> /\ Head(toDaemon[c]) = GetState

SyncInv ==
    /\ UpdateWritten
    /\ \A c \in Clients :
        /\ LoadFirst(c)
        /\ \A k \in Cells : EventsCurrent(c, k) /\ PipelineCurrent(c, k)

\* Every cell of headphones that are served is among the initial queries.
ASSUME QueriesAssumption ==
    Supported \subseteq {InitialQueries[i] : i \in 1..Len(InitialQueries)}

(***************************************************************************)
(* The cached state is the headphones': once the initial queries are sent  *)
(* and neither commands nor notifications are under way, the daemon holds  *)
(* the device's value of every cell, whatever was set by clients or        *)
(* changed on the device before, during and after the start.  A state      *)
(* manager that lags is wrong in no other cell than those whose last       *)
(* packet it lost; a write that fails, though its client was told Ok,      *)
(* never makes the cache wrong, it can only leave a cell unknown.          *)
(***************************************************************************)
DeviceMirrored ==
    main = "running" /\ conn = "running" /\ link = "streaming"
        /\ queue = << >> /\ air = << >> /\ inbox[SM] = << >>
    => \A k \in Supported \ missed[SM] :
        state[k] = device[k] \/ (failures > 0 /\ state[k] = None)

(***************************************************************************)
(* The connected flag follows the connection manager: a state manager that *)
(* has no event waiting and has not lost the last change of the flag has   *)
(* it up as long as run() has not ended.                                   *)
(***************************************************************************)
ConnectedFlag ==
    "connected" \notin missed[SM] /\ inbox[SM] = << >> /\ main # "exited"
    => /\ conn \in {"starting", "running"} => state["connected"]
       /\ conn = "idle" => ~state["connected"]
       /\ conn = "ended" /\ link = "down" => ~state["connected"]

(***************************************************************************)
(* One reply per request: replies carry no request id, so the client's     *)
(* only correlation is that every request it wrote is unread, being        *)
(* executed, answered in the stream or answered and read.                  *)
(***************************************************************************)
IsReply(r) == r.type # "StateUpdate"
RepliesIn(q) == Cardinality({i \in 1..Len(q) : IsReply(q[i])})
OneReplyPerRequest ==
    \A c \in Clients :
        Served(c) => sent[c] =
            Len(toDaemon[c]) + (IF pending[c] = None THEN 0 ELSE 1)
                + RepliesIn(toClient[c]) + replies[c]

(***************************************************************************)
(* Nobody waits for ever: once the connection manager exists, every        *)
(* request a client has written is answered, unless its handler or the     *)
(* client goes away -- however full the socket, the command queue and the  *)
(* event bus are, and whatever main is sending at the same time.           *)
(***************************************************************************)
RequestsAnswered ==
    \A c \in Clients : \A n \in 1..(MaxRequests + 1) :
        (main # "scanning" /\ sent[c] >= n) ~> (replies[c] >= n \/ ~Served(c))

(***************************************************************************)
(* The daemon does not outlive its connection: when run() has ended, for   *)
(* whatever reason and at whatever stage of the start, main gets to its    *)
(* select!, exits, and leaves no socket file that looks alive.             *)
(***************************************************************************)
LinkLossShutsDown ==
    conn = "ended" ~> (main = "exited" /\ socketFile # "bound")

(***************************************************************************)
(* From the headphones to the screen: while the connection holds, no write *)
(* fails, and the last news of a cell is lost neither to the state manager *)
(* nor to the client's handler, a served client's view of the cell ends up *)
(* being the headphones' own value.                                        *)
(***************************************************************************)
Steady(c, k) ==
    /\ main = "running" /\ conn = "running" /\ link = "streaming"
    /\ failures = 0 /\ k \notin missed[SM] /\ k \notin missed[c]
    /\ clientEnd[c] = "open"

EventuallyMirrors ==
    \A c \in Clients, k \in Supported :
        <>[]Steady(c, k) => <>[](view[c][k] = device[k])
=============================================================================
