-------------------------------- MODULE Bozod --------------------------------
(***************************************************************************)
(* The daemon: main, the socket server with one handler task per client,   *)
(* the state manager task and the connection manager task, over the event  *)
(* bus, the command channel and the shared HeadphoneState.  Every action   *)
(* is what one task does between two await points at which another task    *)
(* can make a difference.                                                  *)
(***************************************************************************)
EXTENDS EventBus, IpcSocket, Headphones

CONSTANTS
    CmdCap,         \* mpsc::channel capacity of the command queue (32 in main.rs)
    InitialQueries  \* the cells StateManager::initial_queries asks for, in order

ASSUME DaemonAssumption ==
    /\ CmdCap \in Nat \ {0}
    /\ InitialQueries \in Seq(Cells)

VARIABLES
    main,        \* where main() is
    socketFile,  \* SOCKET_PATH: "absent", "stale" (nobody listens), "bound"
    queries,     \* initial queries main has not sent yet
    conn,        \* the connection manager: "idle", "starting", "running", "ended"
    queue,       \* the command channel
    state,       \* Arc<RwLock<HeadphoneState>>
    smUpdate,    \* the update the state manager has written but not broadcast yet
    handler,     \* handler[c]: the handle_client task of c
    pending      \* pending[c]: the command handler c is sending to the queue

mainVars == <<main, socketFile, queries>>
connVars == <<conn, queue>>
smVars == <<state, smUpdate>>
handlerVars == <<handler, pending>>
busVars == <<inbox, gap, missed>>
bozodVars == <<mainVars, connVars, smVars, handlerVars, busVars>>

BozodTypeOK ==
    /\ main \in {"scanning", "starting", "running", "exited"}
    /\ socketFile \in {"absent", "stale", "bound"}
    /\ queries \in Seq(Cells)
    /\ conn \in {"idle", "starting", "running", "ended"}
    /\ queue \in Seq(BleCommand) /\ Len(queue) <= CmdCap
    /\ state \in HeadphoneState
    /\ smUpdate \in StateUpdate \cup {None}
    /\ handler \in [Clients -> {"none", "open", "closed"}]
    /\ pending \in [Clients -> BleCommand \cup {None}]

BozodInit ==
    /\ BusInit
    /\ main = "scanning"
    /\ socketFile \in {"absent", "stale"}
    /\ queries = InitialQueries
    /\ conn = "idle"
    /\ queue = << >>
    /\ state = DefaultState
    /\ smUpdate = None
    /\ handler = [c \in Clients |-> "none"]
    /\ pending = [c \in Clients |-> None]

Live == {SM} \cup {c \in Clients : handler[c] = "open"}

-----------------------------------------------------------------------------
(* The state manager task (main.rs) and StateManager (state.rs).           *)

\* Mutant: the update is broadcast and not kept.
SMPacketUnwritten ==
    /\ smUpdate = None
    /\ HasEvent(SM)
    /\ LET e == Head(inbox[SM]) IN
       /\ e.type = "PacketReceived"
       /\ smUpdate' = IF Updates(e.packet)
                      THEN [field |-> e.packet.field, value |-> e.packet.value]
                      ELSE None
    /\ Receive(SM)
    /\ UNCHANGED <<state, mainVars, connVars, handlerVars, socketVars, headphoneVars>>

SMPacket ==
    /\ smUpdate = None
    /\ HasEvent(SM)
    /\ LET e == Head(inbox[SM]) IN
       /\ e.type = "PacketReceived"
       /\ IF Updates(e.packet)
          THEN LET u == [field |-> e.packet.field, value |-> e.packet.value] IN
               /\ state' = Apply(state, u)
               /\ smUpdate' = u
          ELSE UNCHANGED smVars
    /\ Receive(SM)
    /\ UNCHANGED <<mainVars, connVars, handlerVars, socketVars, headphoneVars>>

\* process_packet broadcasts after parse_and_update has released the lock.
SMPublish ==
    /\ smUpdate # None
    /\ Publish(Live, StateUpdated(smUpdate))
    /\ smUpdate' = None
    /\ UNCHANGED <<state, mainVars, connVars, handlerVars, socketVars, headphoneVars>>

SMOther ==
    /\ smUpdate = None
    /\ HasEvent(SM)
    /\ LET e == Head(inbox[SM]) IN
       \/ /\ e.type \in {"Connected", "Disconnected"}
          /\ state' = Apply(state, Connection(e.type = "Connected"))
       \/ /\ e.type = "StateUpdated"
          /\ UNCHANGED state
    /\ Receive(SM)
    /\ UNCHANGED <<smUpdate, mainVars, connVars, handlerVars, socketVars, headphoneVars>>

SMLagged ==
    /\ main # "exited"
    /\ smUpdate = None
    /\ ReceiveLagged(SM)
    /\ UNCHANGED <<mainVars, connVars, smVars, handlerVars, socketVars, headphoneVars>>

-----------------------------------------------------------------------------
(* The connection manager (ble/connection.rs): connect() is main's action  *)
(* ConnectPeripheral, the rest is the spawned run().                       *)

\* run() returns: the notification stream and the command receiver are dropped.
EndConnection ==
    /\ conn' = "ended"
    /\ queue' = << >>

OpenStream ==
    /\ conn = "starting"
    /\ conn' = "running"
    /\ link' = IF link = "up" THEN "streaming" ELSE link
    /\ UNCHANGED <<queue, device, air, presses, failures>>
    /\ UNCHANGED <<mainVars, smVars, handlerVars, busVars, socketVars>>

\* notifications() fails: run() returns Err and broadcasts nothing.
StreamFails ==
    /\ conn = "starting"
    /\ EndConnection
    /\ UNCHANGED <<mainVars, smVars, handlerVars, busVars, socketVars, headphoneVars>>

ConnNotification ==
    /\ conn = "running"
    /\ air # << >>
    /\ air' = Tail(air)
    /\ Publish(Live, PacketReceived(Head(air)))
    /\ UNCHANGED <<device, link, presses, failures>>
    /\ UNCHANGED <<mainVars, connVars, smVars, handlerVars, socketVars>>

ConnStreamEnd ==
    /\ conn = "running"
    /\ air = << >> /\ link = "lost"
    /\ Publish(Live, Disconnected)
    /\ EndConnection
    /\ UNCHANGED <<mainVars, smVars, handlerVars, socketVars, headphoneVars>>

\* A command is taken from the queue; a write that fails is only logged.
ConnSend ==
    /\ conn = "running"
    /\ queue # << >> /\ Head(queue).type = "SendPacket"
    /\ queue' = Tail(queue)
    /\ \/ /\ link = "streaming"
          /\ React(Head(queue).packet)
          /\ UNCHANGED <<presses, failures>>
       \/ /\ link = "streaming"
          /\ failures < MaxWriteFailures
          /\ failures' = failures + 1
          /\ UNCHANGED <<device, air, link, presses>>
       \/ /\ link = "lost"
          /\ UNCHANGED headphoneVars
    /\ UNCHANGED <<conn, mainVars, smVars, handlerVars, busVars, socketVars>>

\* Mutant: the requested disconnect is not broadcast.
ConnDisconnectSilent ==
    /\ conn = "running"
    /\ queue # << >> /\ Head(queue).type = "Disconnect"
    /\ link' = "down" /\ air' = << >>
    /\ EndConnection
    /\ UNCHANGED <<device, presses, failures, mainVars, smVars, handlerVars, busVars, socketVars>>

\* The result of disconnect() is not looked at: the link may stay.
ConnDisconnect ==
    /\ conn = "running"
    /\ queue # << >> /\ Head(queue).type = "Disconnect"
    /\ \/ link' = "down" /\ air' = << >>
       \/ UNCHANGED <<link, air>>
    /\ Publish(Live, Disconnected)
    /\ EndConnection
    /\ UNCHANGED <<device, presses, failures>>
    /\ UNCHANGED <<mainVars, smVars, handlerVars, socketVars>>

-----------------------------------------------------------------------------
(* main().                                                                 *)

\* find_bose_device and connect() succeed; run() is spawned.
ConnectPeripheral ==
    /\ main = "scanning"
    /\ main' = "starting"
    /\ link' = "up"
    /\ conn' = "starting"
    /\ Publish(Live, Connected)
    /\ UNCHANGED <<socketFile, queries, queue, device, air, presses, failures>>
    /\ UNCHANGED <<smVars, handlerVars, socketVars>>

\* Mutant: the command receiver outlives run(), so sends wait instead of failing.
MainQueryWaiting ==
    /\ main = "starting"
    /\ queries # << >>
    /\ queries' = Tail(queries)
    /\ conn # "ended" /\ Len(queue) < CmdCap
    /\ queue' = Append(queue, SendPacket(Get(Head(queries))))
    /\ UNCHANGED <<main, socketFile, conn, smVars, handlerVars, busVars, socketVars, headphoneVars>>

\* One initial query; a send to the ended connection manager is only logged.
MainQuery ==
    /\ main = "starting"
    /\ queries # << >>
    /\ queries' = Tail(queries)
    /\ \/ /\ conn # "ended"
          /\ Len(queue) < CmdCap
          /\ queue' = Append(queue, SendPacket(Get(Head(queries))))
       \/ /\ conn = "ended"
          /\ UNCHANGED queue
    /\ UNCHANGED <<main, socketFile, conn, smVars, handlerVars, busVars, socketVars, headphoneVars>>

EnterSelect ==
    /\ main = "starting"
    /\ queries = << >>
    /\ main' = "running"
    /\ UNCHANGED <<socketFile, queries, connVars, smVars, handlerVars, busVars,
                   socketVars, headphoneVars>>

\* The process is gone: its tasks are dropped and its sockets and BLE link close.
\* What it wrote to a client can still be read; the requests it did not read are lost.
ProcessEnds ==
    /\ main' = "exited"
    /\ conn' = "ended" /\ queue' = << >> /\ queries' = << >>
    /\ state' = DefaultState /\ smUpdate' = None
    /\ handler' = [c \in Clients |-> IF clientEnd[c] = "none" THEN "none" ELSE "closed"]
    /\ pending' = [c \in Clients |-> None]
    /\ toDaemon' = [c \in Clients |-> << >>]
    /\ Silence
    /\ link' = "down" /\ air' = << >>
    /\ UNCHANGED <<toClient, clientEnd, device, presses, failures>>

LeaveSocketFile == socketFile' = IF socketFile = "bound" THEN "stale" ELSE socketFile
RemoveSocketFile == socketFile' = "absent"

ScanOrConnectFails ==
    /\ main = "scanning"
    /\ ProcessEnds
    /\ LeaveSocketFile

\* select!: conn_handle completes, or Ctrl+C.
ShutDown ==
    /\ main = "running"
    /\ conn = "ended"
    /\ ProcessEnds
    /\ RemoveSocketFile

CtrlC ==
    /\ main = "running"
    /\ ProcessEnds
    /\ RemoveSocketFile

\* A signal outside the select! (its handler is installed only there), or SIGKILL.
Killed ==
    /\ main # "exited"
    /\ ProcessEnds
    /\ LeaveSocketFile

-----------------------------------------------------------------------------
(* The socket server (server.rs).                                          *)

BindSocket ==
    /\ main # "exited"
    /\ socketFile # "bound"
    /\ socketFile' = "bound"
    /\ UNCHANGED <<main, queries, connVars, smVars, handlerVars, busVars,
                   socketVars, headphoneVars>>

Accept(c) ==
    /\ main # "exited"
    /\ clientEnd[c] # "none" /\ handler[c] = "none"
    /\ Subscribe(c)
    /\ handler' = [handler EXCEPT ![c] = "open"]
    /\ UNCHANGED <<pending, mainVars, connVars, smVars, socketVars, headphoneVars>>

\* handle_client is in its select!.
Selecting(c) == handler[c] = "open" /\ pending[c] = None /\ Writable(c)

\* handle_client returns; the request stream and the receiver are dropped.
EndHandler(c) ==
    /\ handler' = [handler EXCEPT ![c] = "closed"]
    /\ inbox' = [inbox EXCEPT ![c] = << >>]
    /\ UNCHANGED <<gap, missed>>

\* writer.write(&response).await?: fails when the client has closed its end.
WriteTo(c, response) ==
    \/ /\ clientEnd[c] = "open"
       /\ toClient' = [toClient EXCEPT ![c] = Append(@, response)]
       /\ UNCHANGED <<handler, busVars>>
    \/ /\ clientEnd[c] = "closed"
       /\ EndHandler(c)
       /\ UNCHANGED toClient

TakeRequest(c) == toDaemon' = [toDaemon EXCEPT ![c] = Tail(@)]

HandleGetState(c) ==
    /\ Selecting(c)
    /\ toDaemon[c] # << >> /\ Head(toDaemon[c]) = GetState
    /\ TakeRequest(c)
    /\ WriteTo(c, State(state))
    /\ UNCHANGED <<pending, clientEnd, mainVars, connVars, smVars, headphoneVars>>

\* Mutant: the request without effect is not answered either.
HandleReconnectSilent(c) ==
    /\ Selecting(c)
    /\ toDaemon[c] # << >> /\ Head(toDaemon[c]) = Reconnect
    /\ TakeRequest(c)
    /\ UNCHANGED <<toClient, clientEnd, handlerVars, busVars, mainVars, connVars, smVars, headphoneVars>>

\* Reconnect is only acknowledged.
HandleReconnect(c) ==
    /\ Selecting(c)
    /\ toDaemon[c] # << >> /\ Head(toDaemon[c]) = Reconnect
    /\ TakeRequest(c)
    /\ WriteTo(c, OkResponse)
    /\ UNCHANGED <<pending, clientEnd, mainVars, connVars, smVars, headphoneVars>>

CommandFor(request) ==
    CASE request.type = "Set" -> SendPacket(Set(request.field, request.value))
      [] request.type = "PowerOff" -> SendPacket(PowerOffPacket)
      [] request.type = "Disconnect" -> DisconnectCommand

\* SetCnc, SetStandbyTimer, SetAudioMode, PowerOff, Disconnect: the handler builds the
\* command and awaits command_tx.send, where it serves neither requests nor events.
HandleCommand(c) ==
    /\ Selecting(c)
    /\ toDaemon[c] # << >> /\ Head(toDaemon[c]).type \in {"Set", "PowerOff", "Disconnect"}
    /\ TakeRequest(c)
    /\ pending' = [pending EXCEPT ![c] = CommandFor(Head(toDaemon[c]))]
    /\ UNCHANGED <<handler, toClient, clientEnd, busVars, mainVars, connVars, smVars, headphoneVars>>

\* Mutant: an unbounded command channel.
SendPendingUnbounded(c) ==
    /\ handler[c] = "open" /\ pending[c] # None
    /\ pending' = [pending EXCEPT ![c] = None]
    /\ queue' = IF conn # "ended" THEN Append(queue, pending[c]) ELSE queue
    /\ WriteTo(c, IF conn # "ended" THEN OkResponse ELSE ErrorResponse)
    /\ UNCHANGED <<toDaemon, clientEnd, conn, mainVars, smVars, headphoneVars>>

\* command_tx.send(..).await: waits for room, fails once the receiver is dropped.
SendPending(c) ==
    /\ handler[c] = "open" /\ pending[c] # None
    /\ pending' = [pending EXCEPT ![c] = None]
    /\ \/ /\ conn # "ended"
          /\ Len(queue) < CmdCap
          /\ queue' = Append(queue, pending[c])
          /\ WriteTo(c, OkResponse)
       \/ /\ conn = "ended"
          /\ WriteTo(c, ErrorResponse)
          /\ UNCHANGED queue
    /\ UNCHANGED <<toDaemon, clientEnd, conn, mainVars, smVars, headphoneVars>>

\* The update a bus event is pushed as.
PushedUpdate(e) ==
    IF e.type = "StateUpdated" THEN e.update ELSE Connection(e.type = "Connected")

\* Mutant: an update is skipped when the client is still reading.
PushEventIfIdle(c) ==
    /\ Selecting(c)
    /\ HasEvent(c)
    /\ clientEnd[c] = "open"
    /\ Receive(c)
    /\ toClient' = IF toClient[c] = << >> /\ Head(inbox[c]).type # "PacketReceived"
                   THEN [toClient EXCEPT ![c] = <<Update(PushedUpdate(Head(inbox[c])))>>]
                   ELSE toClient
    /\ UNCHANGED <<toDaemon, clientEnd, handlerVars, mainVars, connVars, smVars, headphoneVars>>

PushEvent(c) ==
    /\ Selecting(c)
    /\ HasEvent(c)
    /\ LET e == Head(inbox[c]) IN
       \/ /\ e.type = "PacketReceived"
          /\ Receive(c)
          /\ UNCHANGED <<handler, toClient>>
       \/ /\ e.type # "PacketReceived"
          /\ clientEnd[c] = "open"
          /\ Receive(c)
          /\ toClient' = [toClient EXCEPT ![c] = Append(@, Update(PushedUpdate(e)))]
          /\ UNCHANGED handler
       \/ /\ e.type # "PacketReceived"
          /\ clientEnd[c] = "closed"
          /\ EndHandler(c)
          /\ UNCHANGED toClient
    /\ UNCHANGED <<toDaemon, clientEnd, pending, mainVars, connVars, smVars, headphoneVars>>

\* Lagged is only logged: what was lost is not sent again.
HandlerLagged(c) ==
    /\ Selecting(c)
    /\ ReceiveLagged(c)
    /\ UNCHANGED <<handlerVars, mainVars, connVars, smVars, socketVars, headphoneVars>>

\* EOF or an error on the request stream (either way the handler returns; what
\* arrived is read first), or a waiting write that fails.
HandlerEof(c) ==
    /\ handler[c] = "open" /\ pending[c] = None
    /\ clientEnd[c] = "closed"
    /\ toDaemon[c] = << >> \/ ~Writable(c)
    /\ EndHandler(c)
    /\ UNCHANGED <<pending, mainVars, connVars, smVars, socketVars, headphoneVars>>

-----------------------------------------------------------------------------
StateManagerNext == SMPacket \/ SMPublish \/ SMOther \/ SMLagged

ConnectionNext ==
    \/ OpenStream \/ StreamFails
    \/ ConnNotification \/ ConnStreamEnd \/ ConnSend \/ ConnDisconnect

MainNext ==
    \/ ConnectPeripheral \/ MainQuery \/ EnterSelect
    \/ ScanOrConnectFails \/ ShutDown \/ CtrlC \/ Killed

HandlerNext(c) ==
    \/ HandleGetState(c) \/ HandleReconnect(c) \/ HandleCommand(c) \/ SendPending(c)
    \/ PushEvent(c) \/ HandlerLagged(c) \/ HandlerEof(c)

BozodNext ==
    \/ StateManagerNext \/ ConnectionNext \/ MainNext \/ BindSocket
    \/ \E c \in Clients : Accept(c) \/ HandlerNext(c)
=============================================================================
