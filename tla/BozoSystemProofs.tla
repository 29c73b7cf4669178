--------------------------- MODULE BozoSystemProofs ---------------------------
(***************************************************************************)
(* What is proved of BozoSystem for every number of clients, cells,        *)
(* values, every capacity and every bound: its type invariant, and that    *)
(* the view of a client converges to the daemon's state, in every cell of  *)
(* which it did not lose the last update.                                  *)
(***************************************************************************)
EXTENDS BozoSystem, TLAPS

-----------------------------------------------------------------------------
(* The vocabulary: what constructors build and what messages carry.        *)

LEMMA EventTypes ==
    /\ Connected \in DaemonEvent /\ Disconnected \in DaemonEvent
    /\ \A p \in Packet : PacketReceived(p) \in DaemonEvent
    /\ \A u \in StateUpdate : StateUpdated(u) \in DaemonEvent
    /\ \A e \in DaemonEvent :
        /\ e.type \in {"Connected", "Disconnected", "PacketReceived", "StateUpdated"}
        /\ e.type = "PacketReceived" => e.packet \in Packet
        /\ e.type = "StateUpdated" => e.update \in StateUpdate
BY DEF DaemonEvent, Connected, Disconnected, PacketReceived, StateUpdated

LEMMA ResponseTypes ==
    /\ OkResponse \in IpcResponse /\ ErrorResponse \in IpcResponse
    /\ \A s \in HeadphoneState : State(s) \in IpcResponse
    /\ \A u \in StateUpdate : Update(u) \in IpcResponse
    /\ \A r \in IpcResponse :
        /\ r.type \in {"Ok", "Error", "State", "StateUpdate"}
        /\ r.type = "State" => r.state \in HeadphoneState
        /\ r.type = "StateUpdate" => r.update \in StateUpdate
BY DEF IpcResponse, OkResponse, ErrorResponse, State, Update

LEMMA ConnectionType == \A b \in BOOLEAN : Connection(b) \in StateUpdate
BY DEF Connection, StateUpdate, Fields, FieldValues

LEMMA DefaultType == DefaultState \in HeadphoneState
BY DEF DefaultState, HeadphoneState, FieldValues

LEMMA ApplyType ==
    ASSUME NEW s \in HeadphoneState, NEW u \in StateUpdate
    PROVE  /\ Apply(s, u) \in HeadphoneState
           /\ Apply(s, u)[u.field] = u.value
           /\ \A f \in Fields : f # u.field => Apply(s, u)[f] = s[f]
BY DEF Apply, HeadphoneState, StateUpdate

LEMMA CommandTypes ==
    /\ \A k \in Cells : SendPacket(Get(k)) \in BleCommand
    /\ \A k \in Cells, v \in Values : SendPacket(Set(k, v)) \in BleCommand
    /\ SendPacket(PowerOffPacket) \in BleCommand
    /\ DisconnectCommand \in BleCommand
    /\ \A b \in BleCommand : b.type = "SendPacket" => b.packet \in CommandPacket
    /\ \A p \in CommandPacket :
        /\ p.op = "Get" => p.field \in Cells
        /\ p.op = "Set" => p.field \in Cells /\ p.value \in Values
<1>1. \A p \in CommandPacket : SendPacket(p) \in BleCommand
  BY DEF BleCommand, SendPacket
<1>2. /\ \A k \in Cells : Get(k) \in CommandPacket
      /\ \A k \in Cells, v \in Values : Set(k, v) \in CommandPacket
      /\ PowerOffPacket \in CommandPacket
  BY DEF CommandPacket
<1>3. DisconnectCommand \in BleCommand
  BY DEF BleCommand
<1>4. \A b \in BleCommand : b.type = "SendPacket" => b.packet \in CommandPacket
  BY DEF BleCommand, DisconnectCommand
<1>5. ASSUME NEW p \in CommandPacket
      PROVE  /\ p.op = "Get" => p.field \in Cells
             /\ p.op = "Set" => p.field \in Cells /\ p.value \in Values
  <2>1. CASE \E k \in Cells : p = Get(k)
    BY <2>1 DEF Get, BmapPacket
  <2>2. CASE \E k \in Cells, v \in Values : p = Set(k, v)
    BY <2>2 DEF Set, BmapPacket
  <2>3. CASE p = PowerOffPacket
    BY <2>3 DEF PowerOffPacket, BmapPacket
  <2> QED BY <2>1, <2>2, <2>3 DEF CommandPacket
<1> QED BY <1>1, <1>2, <1>3, <1>4, <1>5

LEMMA CommandForType ==
    ASSUME NEW r \in IpcRequest, r.type \in {"Set", "PowerOff", "Disconnect"}
    PROVE  CommandFor(r) \in BleCommand
<1>1. CASE r.type = "Set"
  <2>1. r.field \in Cells /\ r.value \in Values
    BY <1>1, CellsAssumption
       DEF IpcRequest, GetState, PowerOff, Reconnect, Disconnect, SetRequest
  <2> QED BY <1>1, <2>1, CommandTypes DEF CommandFor
<1>2. CASE r.type = "PowerOff"
  BY <1>2, CommandTypes DEF CommandFor
<1>3. CASE r.type = "Disconnect"
  BY <1>3, CommandTypes DEF CommandFor
<1> QED BY <1>1, <1>2, <1>3

-----------------------------------------------------------------------------
(* The event bus.                                                          *)

LEMMA NewsType == \A r \in Receivers, e \in DaemonEvent : News(r, e) \subseteq Fields
<1> SUFFICES ASSUME NEW r \in Receivers, NEW e \in DaemonEvent PROVE News(r, e) \subseteq Fields
  OBVIOUS
<1>1. CASE e.type = "PacketReceived"
  BY <1>1 DEF News, Updates, Fields
<1>2. CASE e.type = "StateUpdated"
  BY <1>2, EventTypes DEF News, StateUpdate
<1>3. CASE e.type \notin {"PacketReceived", "StateUpdated"}
  BY <1>3 DEF News, Fields
<1> QED BY <1>1, <1>2, <1>3

LEMMA PublishType ==
    ASSUME BusTypeOK, NEW live, NEW e \in DaemonEvent, Publish(live, e)
    PROVE  BusTypeOK'
<1> USE BusAssumption
<1>1. \A q \in Seq(DaemonEvent) : Len(q) <= EventCap =>
        Push(q, e) \in Seq(DaemonEvent) /\ Len(Push(q, e)) <= EventCap
  BY DEF Push
<1>2. \A r \in Receivers : StillMissed(r, e) \subseteq Fields
  <2> SUFFICES ASSUME NEW r \in Receivers PROVE StillMissed(r, e) \subseteq Fields
    OBVIOUS
  <2>1. Full(r) => Head(inbox[r]) \in DaemonEvent
    BY DEF BusTypeOK, Full
  <2>2. Full(r) => News(r, Head(inbox[r])) \subseteq Fields
    BY <2>1, NewsType
  <2>3. missed[r] \subseteq Fields
    BY DEF BusTypeOK
  <2> QED BY <2>2, <2>3 DEF StillMissed
<1>3. missed' \in [Receivers -> SUBSET Fields]
  BY <1>2 DEF BusTypeOK, Publish
<1>4. inbox' \in [Receivers -> Seq(DaemonEvent)] /\ \A r \in Receivers : Len(inbox'[r]) <= EventCap
  BY <1>1 DEF BusTypeOK, Publish
<1>5. gap' \in [Receivers -> {"none", "unreported", "reported"}]
  BY DEF BusTypeOK, Publish
<1> QED BY <1>3, <1>4, <1>5 DEF BusTypeOK

LEMMA SubscribeType ==
    ASSUME BusTypeOK, NEW r \in Receivers, Subscribe(r)
    PROVE  BusTypeOK'
BY BusAssumption DEF BusTypeOK, Subscribe

LEMMA ReceiveType ==
    ASSUME BusTypeOK, NEW r \in Receivers, HasEvent(r), Receive(r)
    PROVE  BusTypeOK' /\ Head(inbox[r]) \in DaemonEvent
<1>1. inbox[r] \in Seq(DaemonEvent) /\ inbox[r] # << >> /\ Len(inbox[r]) <= EventCap
  BY DEF BusTypeOK, HasEvent
<1>2. Tail(inbox[r]) \in Seq(DaemonEvent) /\ Len(Tail(inbox[r])) <= EventCap
  BY <1>1, BusAssumption
<1> QED BY <1>1, <1>2 DEF BusTypeOK, Receive, HasEvent

-----------------------------------------------------------------------------
(* The headphones.                                                         *)

LEMMA NotifyType ==
    ASSUME air \in Seq(Packet), NEW ps \in Seq(Packet), Notify(ps)
    PROVE  air' \in Seq(Packet)
BY DEF Notify

LEMMA AnswerType ==
    ASSUME HeadphonesTypeOK, NEW k \in Cells
    PROVE  Answer(k) \in Packet
<1>1. device[k] \in Values
  BY DEF HeadphonesTypeOK
<1> QED BY <1>1 DEF Answer, BmapPacket, Packet, Responses

LEMMA ReactType ==
    ASSUME HeadphonesTypeOK, NEW p \in CommandPacket, React(p),
           UNCHANGED <<presses, failures>>
    PROVE  HeadphonesTypeOK'
<1>0. /\ p.op = "Get" => p.field \in Cells
      /\ p.op = "Set" => p.field \in Cells /\ p.value \in Values
  BY CommandTypes
<1>1. air' \in Seq(Packet)
  <2>1. CASE p.op = "Get" /\ Notify(<<Answer(p.field)>>)
    <3>1. <<Answer(p.field)>> \in Seq(Packet)
      BY <1>0, <2>1, AnswerType
    <3> QED BY <2>1, <3>1, NotifyType DEF HeadphonesTypeOK
  <2>2. CASE p.op = "Set" /\ Notify(<<BmapPacket("Status", p.field, p.value)>>)
    <3>1. <<BmapPacket("Status", p.field, p.value)>> \in Seq(Packet)
      BY <1>0, <2>2 DEF BmapPacket, Packet, Responses
    <3> QED BY <2>2, <3>1, NotifyType DEF HeadphonesTypeOK
  <2>3. CASE p.op = "Set" /\ Notify(<<BmapPacket("Processing", p.field, p.value),
                                      BmapPacket("Result", p.field, p.value)>>)
    <3>1. <<BmapPacket("Processing", p.field, p.value),
            BmapPacket("Result", p.field, p.value)>> \in Seq(Packet)
      BY <1>0, <2>3 DEF BmapPacket, Packet, Responses
    <3> QED BY <2>3, <3>1, NotifyType DEF HeadphonesTypeOK
  <2>4. CASE p.op = "Set" /\ Notify(<<BmapPacket("Error", p.field, Malformed)>>)
    <3>1. <<BmapPacket("Error", p.field, Malformed)>> \in Seq(Packet)
      BY <1>0, <2>4 DEF BmapPacket, Packet, Responses
    <3> QED BY <2>4, <3>1, NotifyType DEF HeadphonesTypeOK
  <2>5. CASE UNCHANGED air
    BY <2>5 DEF HeadphonesTypeOK
  <2> QED BY <2>1, <2>2, <2>3, <2>4, <2>5 DEF React
<1>2. device' \in [Cells -> Values]
  BY <1>0 DEF React, HeadphonesTypeOK
<1>3. link' \in {"down", "up", "streaming", "lost"}
  BY DEF React, HeadphonesTypeOK
<1> QED BY <1>1, <1>2, <1>3 DEF HeadphonesTypeOK

LEMMA HeadphonesNextType ==
    ASSUME HeadphonesTypeOK, HeadphonesNext
    PROVE  HeadphonesTypeOK'
<1>1. ASSUME NEW k \in Cells, NEW v \in Values, Press(k, v)
      PROVE  HeadphonesTypeOK'
  <2>1. <<BmapPacket("Status", k, v)>> \in Seq(Packet)
    BY DEF BmapPacket, Packet, Responses
  <2>2. air' \in Seq(Packet)
    BY <1>1, <2>1, NotifyType DEF Press, HeadphonesTypeOK
  <2> QED BY <1>1, <2>2, HeadphonesAssumption DEF Press, HeadphonesTypeOK
<1>2. ASSUME NEW p \in StrayPackets, Stray(p)
      PROVE  HeadphonesTypeOK'
  <2>1. p \in Packet
    <3>1. CASE p = BmapPacket("Status", "other", None)
      BY <3>1 DEF BmapPacket, Packet, Responses
    <3>2. CASE \E k \in Cells : p = BmapPacket("Status", k, Malformed)
      BY <3>2 DEF BmapPacket, Packet, Responses
    <3> QED BY <3>1, <3>2 DEF StrayPackets
  <2>2. <<p>> \in Seq(Packet)
    BY <2>1
  <2>3. air' \in Seq(Packet)
    BY <1>2, <2>2, NotifyType DEF Stray, HeadphonesTypeOK
  <2> QED BY <1>2, <2>3, HeadphonesAssumption DEF Stray, HeadphonesTypeOK
<1>3. CASE LoseLink
  BY <1>3 DEF LoseLink, HeadphonesTypeOK
<1> QED BY <1>1, <1>2, <1>3 DEF HeadphonesNext

-----------------------------------------------------------------------------
(* Type correctness, one lemma per task.                                   *)

LEMMA InitType == Init => TypeOK
<1> SUFFICES ASSUME Init PROVE TypeOK
  OBVIOUS
<1>1. BusTypeOK
  BY BusAssumption DEF Init, BozodInit, BusInit, BusTypeOK
<1>2. BozodTypeOK
  BY DaemonAssumption, DefaultType DEF Init, BozodInit, BozodTypeOK
<1>3. ClientTypeOK
  BY DefaultType, ClientAssumption DEF Init, ClientInit, ClientTypeOK
<1>4. SocketTypeOK
  BY DEF Init, SocketInit, SocketTypeOK
<1>5. HeadphonesTypeOK
  BY HeadphonesAssumption DEF Init, HeadphonesInit, HeadphonesTypeOK
<1> QED BY <1>1, <1>2, <1>3, <1>4, <1>5 DEF TypeOK

LEMMA StateManagerType ==
    ASSUME TypeOK, StateManagerNext, UNCHANGED clientVars
    PROVE  TypeOK'
<1> USE DEF TypeOK, mainVars, connVars, smVars, handlerVars, busVars, socketVars,
            headphoneVars, clientVars
<1>1. ClientTypeOK' /\ SocketTypeOK' /\ HeadphonesTypeOK'
  BY DEF StateManagerNext, SMPacket, SMPublish, SMOther, SMLagged, ClientTypeOK,
         SocketTypeOK, HeadphonesTypeOK
<1>2. SM \in Receivers
  BY DEF Receivers
<1>3. CASE SMPacket
  <2>1. BusTypeOK' /\ Head(inbox[SM]) \in DaemonEvent
    BY <1>2, <1>3, ReceiveType DEF SMPacket
  <2>2. CASE UNCHANGED smVars
    BY <1>1, <1>3, <2>1, <2>2 DEF SMPacket, BozodTypeOK
  <2>3. CASE Updates(Head(inbox[SM]).packet)
    <3> DEFINE p == Head(inbox[SM]).packet
               u == [field |-> p.field, value |-> p.value]
    <3>1. u \in StateUpdate
      BY <2>3 DEF Updates, StateUpdate, Fields, FieldValues
    <3>2. state' = Apply(state, u) /\ smUpdate' = u
      BY <1>3, <2>3 DEF SMPacket
    <3>3. state' \in HeadphoneState
      BY <3>1, <3>2, ApplyType DEF BozodTypeOK
    <3> HIDE DEF u
    <3> QED BY <1>1, <1>3, <2>1, <3>1, <3>2, <3>3 DEF SMPacket, BozodTypeOK
  <2> QED BY <1>3, <2>2, <2>3 DEF SMPacket
<1>4. CASE SMPublish
  <2>1. StateUpdated(smUpdate) \in DaemonEvent
    BY <1>4, EventTypes DEF SMPublish, BozodTypeOK
  <2>2. BusTypeOK'
    BY <1>4, <2>1, PublishType DEF SMPublish
  <2> QED BY <1>1, <1>4, <2>2 DEF SMPublish, BozodTypeOK
<1>5. CASE SMOther
  <2>1. BusTypeOK'
    BY <1>2, <1>5, ReceiveType DEF SMOther
  <2>2. state' \in HeadphoneState
    BY <1>5, ApplyType, ConnectionType DEF SMOther, BozodTypeOK
  <2> QED BY <1>1, <1>5, <2>1, <2>2 DEF SMOther, BozodTypeOK
<1>6. CASE SMLagged
  <2>1. BusTypeOK'
    BY <1>2, <1>6 DEF SMLagged, ReceiveLagged, BusTypeOK
  <2> QED BY <1>1, <1>6, <2>1 DEF SMLagged, BozodTypeOK
<1> QED BY <1>3, <1>4, <1>5, <1>6 DEF StateManagerNext

LEMMA ConnectionManagerType ==
    ASSUME TypeOK, ConnectionNext, UNCHANGED clientVars
    PROVE  TypeOK'
<1> USE DEF TypeOK, mainVars, connVars, smVars, handlerVars, busVars, socketVars,
            headphoneVars, clientVars
<1>1. ClientTypeOK' /\ SocketTypeOK'
  BY DEF ConnectionNext, OpenStream, StreamFails, ConnNotification, ConnStreamEnd, ConnSend,
         ConnDisconnect, ClientTypeOK, SocketTypeOK
<1>2. << >> \in Seq(BleCommand) /\ Len(<< >>) <= CmdCap
  BY DaemonAssumption
<1>3. CASE OpenStream
  <2>1. HeadphonesTypeOK'
    BY <1>3 DEF OpenStream, HeadphonesTypeOK
  <2> QED BY <1>1, <1>3, <2>1 DEF OpenStream, BozodTypeOK, BusTypeOK
<1>4. CASE StreamFails
  BY <1>1, <1>2, <1>4 DEF StreamFails, EndConnection, BozodTypeOK, BusTypeOK, HeadphonesTypeOK
<1>5. CASE ConnNotification
  <2>1. air \in Seq(Packet) /\ air # << >>
    BY <1>5 DEF ConnNotification, HeadphonesTypeOK
  <2>2. Head(air) \in Packet /\ Tail(air) \in Seq(Packet)
    BY <2>1
  <2>3. PacketReceived(Head(air)) \in DaemonEvent
    BY <2>2, EventTypes
  <2>4. BusTypeOK'
    BY <1>5, <2>3, PublishType DEF ConnNotification
  <2>5. HeadphonesTypeOK'
    BY <1>5, <2>2 DEF ConnNotification, HeadphonesTypeOK
  <2> QED BY <1>1, <1>5, <2>4, <2>5 DEF ConnNotification, BozodTypeOK
<1>6. CASE ConnStreamEnd
  <2>1. BusTypeOK'
    BY <1>6, EventTypes, PublishType DEF ConnStreamEnd
  <2> QED BY <1>1, <1>2, <1>6, <2>1 DEF ConnStreamEnd, EndConnection, BozodTypeOK, HeadphonesTypeOK
<1>7. CASE ConnSend
  <2>1. queue \in Seq(BleCommand) /\ queue # << >> /\ Len(queue) <= CmdCap
    BY <1>7 DEF ConnSend, BozodTypeOK
  <2>2. /\ Tail(queue) \in Seq(BleCommand) /\ Len(Tail(queue)) <= CmdCap
        /\ Head(queue) \in BleCommand
    BY <2>1, DaemonAssumption
  <2>3. Head(queue).packet \in CommandPacket
    BY <1>7, <2>2, CommandTypes DEF ConnSend
  <2>4. HeadphonesTypeOK'
    <3>1. CASE React(Head(queue).packet) /\ UNCHANGED <<presses, failures>>
      BY <2>3, <3>1, ReactType
    <3>2. CASE /\ failures < MaxWriteFailures
               /\ failures' = failures + 1
               /\ UNCHANGED <<device, air, link, presses>>
      BY <3>2, HeadphonesAssumption DEF HeadphonesTypeOK
    <3>3. CASE UNCHANGED headphoneVars
      BY <3>3 DEF HeadphonesTypeOK
    <3> QED BY <1>7, <3>1, <3>2, <3>3 DEF ConnSend
  <2> QED BY <1>1, <1>7, <2>2, <2>4 DEF ConnSend, BozodTypeOK, BusTypeOK
<1>8. CASE ConnDisconnect
  <2>1. BusTypeOK'
    BY <1>8, EventTypes, PublishType DEF ConnDisconnect
  <2>2. HeadphonesTypeOK'
    <3>1. UNCHANGED <<device, presses, failures>>
      BY <1>8 DEF ConnDisconnect
    <3>2. CASE link' = "down" /\ air' = << >>
      BY <3>1, <3>2 DEF HeadphonesTypeOK
    <3>3. CASE UNCHANGED <<link, air>>
      BY <3>1, <3>3 DEF HeadphonesTypeOK
    <3> QED BY <1>8, <3>2, <3>3 DEF ConnDisconnect
  <2> QED BY <1>1, <1>2, <1>8, <2>1, <2>2 DEF ConnDisconnect, EndConnection, BozodTypeOK
<1> QED BY <1>3, <1>4, <1>5, <1>6, <1>7, <1>8 DEF ConnectionNext

LEMMA ProcessEndsType ==
    ASSUME TypeOK, ProcessEnds, LeaveSocketFile \/ RemoveSocketFile, UNCHANGED clientVars
    PROVE  TypeOK'
<1> USE DEF TypeOK, ProcessEnds
<1>1. BusTypeOK'
  BY BusAssumption DEF Silence, BusTypeOK
<1>2. BozodTypeOK'
  BY DaemonAssumption, DefaultType DEF LeaveSocketFile, RemoveSocketFile, BozodTypeOK
<1>3. SocketTypeOK' /\ ClientTypeOK' /\ HeadphonesTypeOK'
  BY DEF clientVars, SocketTypeOK, ClientTypeOK, HeadphonesTypeOK
<1> QED BY <1>1, <1>2, <1>3

LEMMA MainType ==
    ASSUME TypeOK, MainNext, UNCHANGED clientVars
    PROVE  TypeOK'
<1> USE DEF TypeOK, mainVars, connVars, smVars, handlerVars, busVars, socketVars,
            headphoneVars, clientVars
<1>1. CASE ConnectPeripheral
  <2>1. BusTypeOK'
    BY <1>1, EventTypes, PublishType DEF ConnectPeripheral
  <2> QED BY <1>1, <2>1 DEF ConnectPeripheral, BozodTypeOK, ClientTypeOK, SocketTypeOK,
                            HeadphonesTypeOK
<1>2. CASE MainQuery
  <2>1. queries \in Seq(Cells) /\ queries # << >>
    BY <1>2 DEF MainQuery, BozodTypeOK
  <2>2. Head(queries) \in Cells /\ Tail(queries) \in Seq(Cells)
    BY <2>1
  <2>3. SendPacket(Get(Head(queries))) \in BleCommand
    BY <2>2, CommandTypes
  <2>4. queue' \in Seq(BleCommand) /\ Len(queue') <= CmdCap
    <3>1. queue \in Seq(BleCommand) /\ Len(queue) <= CmdCap /\ CmdCap \in Nat
      BY DaemonAssumption DEF BozodTypeOK
    <3>2. \/ Len(queue) < CmdCap /\ queue' = Append(queue, SendPacket(Get(Head(queries))))
          \/ queue' = queue
      BY <1>2 DEF MainQuery
    <3> HIDE DEF TypeOK
    <3> QED BY <2>3, <3>1, <3>2
  <2>5. queries' \in Seq(Cells)
    BY <1>2, <2>2 DEF MainQuery
  <2> QED BY <1>2, <2>4, <2>5 DEF MainQuery, BozodTypeOK, BusTypeOK, ClientTypeOK, SocketTypeOK,
                                  HeadphonesTypeOK
<1>3. CASE EnterSelect
  BY <1>3 DEF EnterSelect, BozodTypeOK, BusTypeOK, ClientTypeOK, SocketTypeOK, HeadphonesTypeOK
<1>4. CASE ScanOrConnectFails \/ ShutDown \/ CtrlC \/ Killed
  BY <1>4, ProcessEndsType DEF ScanOrConnectFails, ShutDown, CtrlC, Killed
<1> QED BY <1>1, <1>2, <1>3, <1>4 DEF MainNext

LEMMA EndHandlerType ==
    ASSUME TypeOK, NEW c \in Clients, EndHandler(c)
    PROVE  BusTypeOK' /\ handler' \in [Clients -> {"none", "open", "closed"}]
<1>1. << >> \in Seq(DaemonEvent) /\ Len(<< >>) <= EventCap
  BY BusAssumption
<1>2. BusTypeOK'
  BY <1>1 DEF TypeOK, EndHandler, BusTypeOK
<1> QED BY <1>2 DEF TypeOK, EndHandler, BozodTypeOK

LEMMA WriteToType ==
    ASSUME TypeOK, NEW c \in Clients, NEW r \in IpcResponse, WriteTo(c, r)
    PROVE  /\ BusTypeOK'
           /\ handler' \in [Clients -> {"none", "open", "closed"}]
           /\ toClient' \in [Clients -> Seq(IpcResponse)]
<1>1. CASE EndHandler(c) /\ UNCHANGED toClient
  BY <1>1, EndHandlerType DEF TypeOK, SocketTypeOK
<1>2. CASE /\ toClient' = [toClient EXCEPT ![c] = Append(@, r)]
           /\ UNCHANGED <<handler, busVars>>
  <2>1. Append(toClient[c], r) \in Seq(IpcResponse)
    BY DEF TypeOK, SocketTypeOK
  <2> QED BY <1>2, <2>1 DEF TypeOK, SocketTypeOK, BozodTypeOK, BusTypeOK, busVars
<1> QED BY <1>1, <1>2 DEF WriteTo

LEMMA TakeRequestType ==
    ASSUME TypeOK, NEW c \in Clients, toDaemon[c] # << >>
    PROVE  /\ Head(toDaemon[c]) \in IpcRequest
           /\ TakeRequest(c) => toDaemon' \in [Clients -> Seq(IpcRequest)]
<1>1. toDaemon \in [Clients -> Seq(IpcRequest)] /\ toDaemon[c] \in Seq(IpcRequest)
  BY DEF TypeOK, SocketTypeOK
<1>2. Head(toDaemon[c]) \in IpcRequest /\ Tail(toDaemon[c]) \in Seq(IpcRequest)
  BY <1>1
<1> QED BY <1>1, <1>2 DEF TakeRequest

LEMMA PushedUpdateType ==
    ASSUME NEW e \in DaemonEvent, e.type # "PacketReceived"
    PROVE  PushedUpdate(e) \in StateUpdate
BY EventTypes, ConnectionType DEF PushedUpdate

LEMMA HandlerType ==
    ASSUME TypeOK, NEW c \in Clients, HandlerNext(c), UNCHANGED clientVars
    PROVE  TypeOK'
<1> USE DEF mainVars, connVars, smVars, handlerVars, socketVars, headphoneVars, clientVars
<1>1. ClientTypeOK' /\ HeadphonesTypeOK'
  BY DEF TypeOK, HandlerNext, HandleGetState, HandleReconnect, HandleCommand, SendPending,
         PushEvent, HandlerLagged, HandlerEof, ClientTypeOK, HeadphonesTypeOK
<1>2. CASE HandleGetState(c)
  <2>1. State(state) \in IpcResponse
    BY ResponseTypes DEF TypeOK, BozodTypeOK
  <2>2. /\ BusTypeOK'
        /\ handler' \in [Clients -> {"none", "open", "closed"}]
        /\ toClient' \in [Clients -> Seq(IpcResponse)]
    BY <1>2, <2>1, WriteToType DEF HandleGetState
  <2>3. toDaemon' \in [Clients -> Seq(IpcRequest)]
    BY <1>2, TakeRequestType DEF HandleGetState
  <2> QED BY <1>1, <1>2, <2>2, <2>3 DEF HandleGetState, TypeOK, BozodTypeOK, SocketTypeOK
<1>3. CASE HandleReconnect(c)
  <2>1. /\ BusTypeOK'
        /\ handler' \in [Clients -> {"none", "open", "closed"}]
        /\ toClient' \in [Clients -> Seq(IpcResponse)]
    BY <1>3, ResponseTypes, WriteToType DEF HandleReconnect
  <2>2. toDaemon' \in [Clients -> Seq(IpcRequest)]
    BY <1>3, TakeRequestType DEF HandleReconnect
  <2> QED BY <1>1, <1>3, <2>1, <2>2 DEF HandleReconnect, TypeOK, BozodTypeOK, SocketTypeOK
<1>4. CASE HandleCommand(c)
  <2>1. CommandFor(Head(toDaemon[c])) \in BleCommand
    BY <1>4, TakeRequestType, CommandForType DEF HandleCommand
  <2>2. toDaemon' \in [Clients -> Seq(IpcRequest)]
    BY <1>4, TakeRequestType DEF HandleCommand
  <2>3. pending' \in [Clients -> BleCommand \cup {None}]
    BY <1>4, <2>1 DEF HandleCommand, TypeOK, BozodTypeOK
  <2> QED BY <1>1, <1>4, <2>2, <2>3 DEF HandleCommand, TypeOK, BozodTypeOK, SocketTypeOK, BusTypeOK,
                                        busVars
<1>5. CASE SendPending(c)
  <2>1. /\ BusTypeOK'
        /\ handler' \in [Clients -> {"none", "open", "closed"}]
        /\ toClient' \in [Clients -> Seq(IpcResponse)]
    BY <1>5, ResponseTypes, WriteToType DEF SendPending
  <2>2. pending[c] \in BleCommand /\ pending' \in [Clients -> BleCommand \cup {None}]
    BY <1>5 DEF SendPending, TypeOK, BozodTypeOK
  <2>3. queue' \in Seq(BleCommand) /\ Len(queue') <= CmdCap
    <3>1. queue \in Seq(BleCommand) /\ Len(queue) <= CmdCap /\ CmdCap \in Nat
      BY DaemonAssumption DEF TypeOK, BozodTypeOK
    <3>2. \/ Len(queue) < CmdCap /\ queue' = Append(queue, pending[c])
          \/ queue' = queue
      BY <1>5 DEF SendPending
    <3> QED BY <2>2, <3>1, <3>2
  <2> QED BY <1>1, <1>5, <2>1, <2>2, <2>3 DEF SendPending, TypeOK, BozodTypeOK, SocketTypeOK
<1>6. CASE PushEvent(c)
  <2>1. inbox[c] # << >> /\ Head(inbox[c]) \in DaemonEvent
    <3>1. inbox[c] \in Seq(DaemonEvent) /\ inbox[c] # << >>
      BY <1>6 DEF PushEvent, HasEvent, TypeOK, BusTypeOK, Receivers
    <3> QED BY <3>1
  <2>2. /\ BusTypeOK'
        /\ handler' \in [Clients -> {"none", "open", "closed"}]
    <3>1. CASE Receive(c) /\ UNCHANGED handler
      BY <1>6, <3>1, ReceiveType DEF PushEvent, TypeOK, BozodTypeOK, Receivers
    <3>2. CASE EndHandler(c)
      BY <3>2, EndHandlerType
    <3> QED BY <1>6, <3>1, <3>2 DEF PushEvent
  <2>3. toClient' \in [Clients -> Seq(IpcResponse)]
    <3>1. CASE UNCHANGED toClient
      BY <3>1 DEF TypeOK, SocketTypeOK
    <3>2. CASE /\ Head(inbox[c]).type # "PacketReceived"
               /\ toClient' = [toClient EXCEPT ![c] =
                                 Append(@, Update(PushedUpdate(Head(inbox[c]))))]
      <4>1. Update(PushedUpdate(Head(inbox[c]))) \in IpcResponse
        BY <2>1, <3>2, PushedUpdateType, ResponseTypes
      <4>2. toClient[c] \in Seq(IpcResponse)
        BY DEF TypeOK, SocketTypeOK
      <4> QED BY <3>2, <4>1, <4>2 DEF TypeOK, SocketTypeOK
    <3> QED BY <1>6, <3>1, <3>2 DEF PushEvent
  <2> QED BY <1>1, <1>6, <2>2, <2>3 DEF PushEvent, TypeOK, BozodTypeOK, SocketTypeOK
<1>7. CASE HandlerLagged(c)
  <2>1. BusTypeOK'
    BY <1>7 DEF HandlerLagged, ReceiveLagged, TypeOK, BusTypeOK
  <2> QED BY <1>1, <1>7, <2>1 DEF HandlerLagged, TypeOK, BozodTypeOK, SocketTypeOK
<1>8. CASE HandlerEof(c)
  <2>1. BusTypeOK' /\ handler' \in [Clients -> {"none", "open", "closed"}]
    BY <1>8, EndHandlerType DEF HandlerEof
  <2> QED BY <1>1, <1>8, <2>1 DEF HandlerEof, TypeOK, BozodTypeOK, SocketTypeOK
<1> QED BY <1>2, <1>3, <1>4, <1>5, <1>6, <1>7, <1>8 DEF HandlerNext

LEMMA BindSocketType ==
    ASSUME TypeOK, BindSocket, UNCHANGED clientVars
    PROVE  TypeOK'
BY DEF TypeOK, BindSocket, connVars, smVars, handlerVars, busVars, socketVars, headphoneVars,
       clientVars, BozodTypeOK, BusTypeOK, ClientTypeOK, SocketTypeOK, HeadphonesTypeOK

LEMMA AcceptType ==
    ASSUME TypeOK, NEW c \in Clients, Accept(c), UNCHANGED clientVars
    PROVE  TypeOK'
<1>1. BusTypeOK'
  BY SubscribeType DEF TypeOK, Accept, Receivers
<1> QED BY <1>1 DEF TypeOK, Accept, mainVars, connVars, smVars, socketVars, headphoneVars,
            clientVars, BozodTypeOK, ClientTypeOK, SocketTypeOK, HeadphonesTypeOK

LEMMA ClientType ==
    ASSUME TypeOK, NEW c \in Clients, ClientStep(c)
    PROVE  TypeOK'
<1> USE DEF TypeOK, bozodVars, mainVars, connVars, smVars, handlerVars, busVars, headphoneVars
<1>1. BozodTypeOK' /\ BusTypeOK' /\ HeadphonesTypeOK'
  BY DEF ClientStep, BozodTypeOK, BusTypeOK, HeadphonesTypeOK
<1>2. CASE Connect(c)
  <2>1. <<GetState>> \in Seq(IpcRequest)
    BY DEF IpcRequest
  <2> QED BY <1>1, <1>2, <2>1, ClientAssumption DEF Connect, ClientTypeOK, SocketTypeOK
<1>3. ASSUME NEW r \in Requests, SendRequest(c, r)
      PROVE  TypeOK'
  <2>1. Append(toDaemon[c], r) \in Seq(IpcRequest)
    BY ClientAssumption DEF SocketTypeOK
  <2>2. sent[c] + 1 \in 0..(MaxRequests + 1)
    BY <1>3, ClientAssumption DEF SendRequest, ClientTypeOK
  <2> QED BY <1>1, <1>3, <2>1, <2>2 DEF SendRequest, ClientTypeOK, SocketTypeOK
<1>4. CASE ReadResponse(c)
  <2>1. toClient[c] \in Seq(IpcResponse) /\ toClient[c] # << >>
    BY <1>4 DEF ReadResponse, SocketTypeOK
  <2>2. Head(toClient[c]) \in IpcResponse /\ Tail(toClient[c]) \in Seq(IpcResponse)
    BY <2>1
  <2>3. view' \in [Clients -> HeadphoneState]
    BY <1>4, <2>2, ResponseTypes, ApplyType DEF ReadResponse, ClientTypeOK
  <2>4. replies' \in [Clients -> Nat]
    BY <1>4 DEF ReadResponse, ClientTypeOK
  <2> QED BY <1>1, <1>4, <2>2, <2>3, <2>4 DEF ReadResponse, ClientTypeOK, SocketTypeOK
<1>5. CASE Close(c)
  BY <1>1, <1>5 DEF Close, clientVars, ClientTypeOK, SocketTypeOK
<1> QED BY <1>2, <1>3, <1>4, <1>5 DEF ClientStep

LEMMA StutterType ==
    ASSUME TypeOK, UNCHANGED vars
    PROVE  TypeOK'
BY DEF vars, bozodVars, mainVars, connVars, smVars, handlerVars, busVars, socketVars, clientVars,
       headphoneVars, TypeOK, BusTypeOK, BozodTypeOK, ClientTypeOK, SocketTypeOK, HeadphonesTypeOK

LEMMA StepType == TypeOK /\ [Next]_vars => TypeOK'
<1> SUFFICES ASSUME TypeOK, [Next]_vars PROVE TypeOK'
  OBVIOUS
<1>1. CASE DaemonStep
  <2>1. UNCHANGED clientVars
    BY <1>1 DEF DaemonStep
  <2>2. CASE StateManagerNext
    BY <2>1, <2>2, StateManagerType
  <2>3. CASE ConnectionNext
    BY <2>1, <2>3, ConnectionManagerType
  <2>4. CASE MainNext
    BY <2>1, <2>4, MainType
  <2>5. CASE BindSocket
    BY <2>1, <2>5, BindSocketType
  <2>6. CASE \E c \in Clients : Accept(c) \/ HandlerNext(c)
    BY <2>1, <2>6, AcceptType, HandlerType
  <2> QED BY <1>1, <2>2, <2>3, <2>4, <2>5, <2>6 DEF DaemonStep, BozodNext
<1>2. CASE \E c \in Clients : ClientStep(c)
  BY <1>2, ClientType
<1>3. CASE HeadphonesStep
  <2>1. HeadphonesTypeOK'
    BY <1>3, HeadphonesNextType DEF HeadphonesStep, TypeOK
  <2> QED BY <1>3, <2>1 DEF HeadphonesStep, bozodVars, mainVars, connVars, smVars, handlerVars,
             busVars, socketVars, clientVars, TypeOK, BusTypeOK, BozodTypeOK, ClientTypeOK,
             SocketTypeOK
<1>4. CASE UNCHANGED vars
  BY <1>4, StutterType
<1> QED BY <1>1, <1>2, <1>3, <1>4 DEF Next

(***************************************************************************)
(* Every variable of the daemon, its clients and the link keeps its type:  *)
(* in particular the command queue never exceeds its capacity and no       *)
(* receiver holds more events than the bus keeps.                          *)
(***************************************************************************)
THEOREM TypeCorrect == Spec => []TypeOK
<1>1. Init => TypeOK
  BY InitType
<1>2. TypeOK /\ [Next]_vars => TypeOK'
  BY StepType
<1> QED BY <1>1, <1>2, PTL DEF Spec

-----------------------------------------------------------------------------
(* What happens to the last mention of a field when a queue grows at its   *)
(* end or loses its head.                                                  *)

LEMMA SilentAppend ==
    ASSUME NEW S, NEW q \in Seq(S), NEW x \in S, NEW f, Silent(q, f), ~Touches(x, f)
    PROVE  Silent(Append(q, x), f)
BY DEF Silent

LEMMA CarriesAppend ==
    ASSUME NEW S, NEW q \in Seq(S), NEW x \in S, NEW f, NEW v, Carries(q, f, v), ~Touches(x, f)
    PROVE  Carries(Append(q, x), f, v)
<1> DEFINE r == Append(q, x)
<1>1. PICK i \in 1..Len(q) :
        /\ Touches(q[i], f) /\ ValueIn(q[i], f) = v
        /\ \A j \in (i + 1)..Len(q) : ~Touches(q[j], f)
  BY DEF Carries
<1>2. /\ i \in 1..Len(r) /\ r[i] = q[i]
      /\ \A j \in (i + 1)..Len(r) : (j \in (i + 1)..Len(q) /\ r[j] = q[j]) \/ r[j] = x
  OBVIOUS
<1>3. \A j \in (i + 1)..Len(r) : ~Touches(r[j], f)
  BY <1>1, <1>2
<1> QED BY <1>1, <1>2, <1>3 DEF Carries

LEMMA TouchAppend ==
    ASSUME NEW S, NEW q \in Seq(S), NEW x \in S, NEW f, Touches(x, f)
    PROVE  Carries(Append(q, x), f, ValueIn(x, f))
<1> DEFINE r == Append(q, x)
<1>1. Len(r) \in 1..Len(r) /\ r[Len(r)] = x /\ (Len(r) + 1)..Len(r) = {}
  OBVIOUS
<1> QED BY <1>1 DEF Carries

LEMMA SilentTail ==
    ASSUME NEW S, NEW q \in Seq(S), q # << >>, NEW f
    PROVE  Silent(q, f) <=> ~Touches(Head(q), f) /\ Silent(Tail(q), f)
<1>1. Len(q) \in Nat \ {0} /\ Head(q) = q[1] /\ Len(Tail(q)) = Len(q) - 1
  OBVIOUS
<1>2. \A i \in 1..Len(Tail(q)) : Tail(q)[i] = q[i + 1]
  OBVIOUS
<1>3. ASSUME Silent(q, f) PROVE ~Touches(Head(q), f) /\ Silent(Tail(q), f)
  BY <1>1, <1>2, <1>3 DEF Silent
<1>4. ASSUME ~Touches(Head(q), f), Silent(Tail(q), f) PROVE Silent(q, f)
  <2> SUFFICES ASSUME NEW i \in 1..Len(q) PROVE ~Touches(q[i], f)
    BY DEF Silent
  <2>1. CASE i = 1
    BY <1>1, <1>4, <2>1
  <2>2. CASE i # 1
    <3>1. i - 1 \in 1..Len(Tail(q)) /\ Tail(q)[i - 1] = q[i]
      BY <1>1, <1>2, <2>2
    <3> QED BY <1>4, <3>1 DEF Silent
  <2> QED BY <2>1, <2>2
<1> QED BY <1>3, <1>4

LEMMA CarriesTail ==
    ASSUME NEW S, NEW q \in Seq(S), q # << >>, NEW f, NEW v, Carries(q, f, v)
    PROVE  \/ Carries(Tail(q), f, v)
           \/ Silent(Tail(q), f) /\ Touches(Head(q), f) /\ ValueIn(Head(q), f) = v
<1>1. Len(q) \in Nat \ {0} /\ Head(q) = q[1] /\ Len(Tail(q)) = Len(q) - 1
  OBVIOUS
<1>2. \A i \in 1..Len(Tail(q)) : Tail(q)[i] = q[i + 1]
  OBVIOUS
<1>3. PICK i \in 1..Len(q) :
        /\ Touches(q[i], f) /\ ValueIn(q[i], f) = v
        /\ \A j \in (i + 1)..Len(q) : ~Touches(q[j], f)
  BY DEF Carries
<1>4. CASE i = 1
  <2>1. Silent(Tail(q), f)
    BY <1>1, <1>2, <1>3, <1>4 DEF Silent
  <2> QED BY <1>1, <1>3, <1>4, <2>1
<1>5. CASE i # 1
  <2>1. i - 1 \in 1..Len(Tail(q)) /\ Tail(q)[i - 1] = q[i]
    BY <1>1, <1>2, <1>5
  <2>2. \A j \in (i - 1 + 1)..Len(Tail(q)) : ~Touches(Tail(q)[j], f)
    BY <1>1, <1>2, <1>3
  <2> QED BY <1>3, <2>1, <2>2 DEF Carries
<1> QED BY <1>4, <1>5

-----------------------------------------------------------------------------
(* Convergence.  What a client's part of SyncInv depends on:               *)

SameClient(c) ==
    /\ inbox'[c] = inbox[c] /\ missed'[c] = missed[c] /\ handler'[c] = handler[c]
    /\ toClient'[c] = toClient[c] /\ view'[c] = view[c]
    /\ toDaemon'[c] = toDaemon[c] /\ sent'[c] = sent[c] /\ clientEnd'[c] = clientEnd[c]

SameCells == \A k \in Cells : state'[k] = state[k]

ClientSync(c) == LoadFirst(c) /\ \A k \in Cells : EventsCurrent(c, k) /\ PipelineCurrent(c, k)

LEMMA SyncParts == SyncInv <=> UpdateWritten /\ \A c \in Clients : ClientSync(c)
BY DEF SyncInv, ClientSync

LEMMA SameClientSync ==
    ASSUME NEW c \in Clients, ClientSync(c), SameClient(c), SameCells, smUpdate' = smUpdate
    PROVE  ClientSync(c)'
<1>1. LoadFirst(c)'
  BY DEF ClientSync, SameClient, LoadFirst, Loaded
<1>2. ASSUME NEW k \in Cells PROVE EventsCurrent(c, k)' /\ PipelineCurrent(c, k)'
  BY DEF ClientSync, SameClient, SameCells, EventsCurrent, PipelineCurrent, UpdateUnderWay,
         Served, Loaded, Silent, Carries
<1> QED BY <1>1, <1>2 DEF ClientSync

LEMMA SameUpdateWritten ==
    ASSUME UpdateWritten, SameCells, smUpdate' = smUpdate
    PROVE  UpdateWritten'
BY DEF UpdateWritten, SameCells

LEMMA FrameSync ==
    ASSUME SyncInv, \A c \in Clients : SameClient(c), SameCells, smUpdate' = smUpdate
    PROVE  SyncInv'
<1>1. UpdateWritten'
  BY SyncParts, SameUpdateWritten
<1>2. ASSUME NEW c \in Clients PROVE ClientSync(c)'
  BY SyncParts, SameClientSync
<1> QED BY <1>1, <1>2, SyncParts DEF SyncInv, ClientSync

(***************************************************************************)
(* A broadcast appends to the inbox of every open handler, and drops the   *)
(* oldest event of a full one: then a cell that nothing in the inbox is    *)
(* about any more is among those the handler has missed.                   *)
(***************************************************************************)
LEMMA NewsTouches ==
    ASSUME NEW c \in Clients, NEW e \in DaemonEvent, NEW k \in Cells
    PROVE  k \in News(c, e) <=> Touches(e, k)
<1>1. c # SM /\ k # "connected"
  BY BusAssumption, CellsAssumption
<1>2. CASE e.type = "PacketReceived"
  BY <1>1, <1>2 DEF News, Touches
<1>3. CASE e.type = "StateUpdated"
  BY <1>1, <1>3 DEF News, Touches
<1>4. CASE e.type \in {"Connected", "Disconnected"}
  BY <1>1, <1>4 DEF News, Touches
<1> QED BY <1>2, <1>3, <1>4, EventTypes

LEMMA PublishEffect ==
    ASSUME TypeOK, NEW e \in DaemonEvent, Publish(Live, e), NEW c \in Clients
    PROVE  /\ handler[c] # "open" => inbox'[c] = inbox[c] /\ missed'[c] = missed[c]
           /\ handler[c] = "open" =>
                /\ inbox'[c] = Push(inbox[c], e)
                /\ missed'[c] = StillMissed(c, e)
<1>1. c \in Receivers /\ c # SM /\ (c \in Live <=> handler[c] = "open")
  BY BusAssumption DEF Receivers, Live
<1> QED BY <1>1 DEF Publish

LEMMA PublishCell ==
    ASSUME TypeOK, NEW e \in DaemonEvent, Publish(Live, e), NEW c \in Clients,
           handler[c] = "open", NEW k \in Cells, NEW v
    PROVE  /\ Touches(e, k) => Carries(inbox'[c], k, ValueIn(e, k))
           /\ ~Touches(e, k) =>
                /\ Silent(inbox[c], k) => Silent(inbox'[c], k)
                /\ Carries(inbox[c], k, v) => Carries(inbox'[c], k, v) \/ Silent(inbox'[c], k)
           /\ Silent(inbox'[c], k) /\ k \notin missed'[c] => Silent(inbox[c], k) /\ k \notin missed[c]
<1> DEFINE q == inbox[c]
           kept == IF Full(c) THEN Tail(q) ELSE q
<1>1. q \in Seq(DaemonEvent) /\ (Full(c) => q # << >>)
  BY BusAssumption DEF TypeOK, BusTypeOK, Receivers, Full
<1>2. kept \in Seq(DaemonEvent) /\ inbox'[c] = Append(kept, e)
  <2>1. inbox'[c] = Push(q, e)
    BY PublishEffect
  <2>2. Len(q) \in Nat /\ EventCap \in Nat
    BY <1>1, BusAssumption
  <2>3. Push(q, e) = Append(kept, e)
    BY <2>2 DEF Push, Full
  <2>4. kept \in Seq(DaemonEvent)
    BY <1>1
  <2> QED BY <2>1, <2>3, <2>4
<1>3. Silent(q, k) => Silent(kept, k)
  BY <1>1, SilentTail
<1>4. Carries(q, k, v) => Carries(kept, k, v) \/ Silent(kept, k)
  BY <1>1, CarriesTail
<1> HIDE DEF kept
<1>5. Touches(e, k) => Carries(inbox'[c], k, ValueIn(e, k))
  BY <1>2, TouchAppend
<1>6. ASSUME ~Touches(e, k)
      PROVE  /\ Silent(kept, k) => Silent(inbox'[c], k)
             /\ Carries(kept, k, v) => Carries(inbox'[c], k, v)
  BY <1>2, <1>6, SilentAppend, CarriesAppend
<1>7. ASSUME Silent(inbox'[c], k), k \notin missed'[c]
      PROVE  Silent(q, k) /\ k \notin missed[c]
  <2>1. inbox'[c] \in Seq(DaemonEvent)
    BY <1>2
  <2>2. \A i \in 1..Len(inbox'[c]) : k \notin News(c, inbox'[c][i])
    BY <1>7, <2>1, NewsTouches DEF Silent
  <2>3. k \notin missed[c] /\ (Full(c) => k \notin News(c, Head(q)))
    BY <1>7, <2>2, PublishEffect DEF StillMissed
  <2>4. Full(c) => ~Touches(Head(q), k)
    BY <1>1, <2>3, NewsTouches
  <2>5. Silent(kept, k)
    <3>1. Len(inbox'[c]) = Len(kept) + 1 /\ \A i \in 1..Len(kept) : inbox'[c][i] = kept[i]
      BY <1>2
    <3> QED BY <1>2, <1>7, <3>1 DEF Silent
  <2> QED BY <1>1, <2>3, <2>4, <2>5, SilentTail DEF kept
<1> QED BY <1>3, <1>4, <1>5, <1>6, <1>7

LEMMA PublishSync ==
    ASSUME TypeOK, SyncInv, NEW e \in DaemonEvent, Publish(Live, e),
           \A k \in Cells : ~Touches(e, k),
           UNCHANGED <<smVars, handler, socketVars, view, sent>>
    PROVE  SyncInv'
<1>1. UpdateWritten'
  BY DEF SyncInv, UpdateWritten, smVars
<1>2. ASSUME NEW c \in Clients PROVE ClientSync(c)'
  <2>1. LoadFirst(c)'
    BY DEF SyncInv, LoadFirst, Loaded, socketVars
  <2>2. ASSUME NEW k \in Cells PROVE EventsCurrent(c, k)' /\ PipelineCurrent(c, k)'
    <3>1. EventsCurrent(c, k) /\ PipelineCurrent(c, k)
      BY DEF SyncInv
    <3>2. CASE handler[c] # "open"
      BY <3>2 DEF EventsCurrent, PipelineCurrent, Served
    <3>3. CASE handler[c] = "open"
      <4>1. /\ Silent(inbox[c], k) => Silent(inbox'[c], k)
            /\ Carries(inbox[c], k, state[k]) => Carries(inbox'[c], k, state[k]) \/ Silent(inbox'[c], k)
            /\ Silent(inbox'[c], k) /\ k \notin missed'[c] => Silent(inbox[c], k) /\ k \notin missed[c]
        BY <3>3, PublishCell
      <4>2. EventsCurrent(c, k)'
        BY <3>1, <4>1 DEF EventsCurrent, UpdateUnderWay, Silent, Carries, smVars
      <4>3. PipelineCurrent(c, k)'
        BY <3>1, <4>1 DEF PipelineCurrent, UpdateUnderWay, Served, Loaded, Silent, Carries,
                          smVars, socketVars
      <4> QED BY <4>2, <4>3
    <3> QED BY <3>2, <3>3
  <2> QED BY <2>1, <2>2 DEF ClientSync
<1> QED BY <1>1, <1>2 DEF SyncInv, ClientSync

(***************************************************************************)
(* The state manager writes before it broadcasts.                          *)
(***************************************************************************)
LEMMA StateManagerSync ==
    ASSUME TypeOK, SyncInv, StateManagerNext, UNCHANGED clientVars
    PROVE  SyncInv'
<1> USE DEF clientVars
<1>1. \A c \in Clients : c # SM
  BY BusAssumption
<1>2. CASE SMPacket
  <2>1. \A c \in Clients : SameClient(c)
    BY <1>1, <1>2 DEF SMPacket, Receive, SameClient, handlerVars, socketVars
  <2>2. CASE UNCHANGED smVars
    BY <2>1, <2>2, FrameSync DEF smVars, SameCells
  <2>3. CASE Updates(Head(inbox[SM]).packet)
    <3> DEFINE u == [field |-> Head(inbox[SM]).packet.field,
                     value |-> Head(inbox[SM]).packet.value]
    <3>1. u \in StateUpdate /\ u.field \in Cells
      BY <2>3 DEF Updates, StateUpdate, Fields, FieldValues
    <3>2. state' = Apply(state, u) /\ smUpdate = None /\ smUpdate' = u
      BY <1>2, <2>3 DEF SMPacket
    <3> HIDE DEF u
    <3>3. u # None
      BY <3>1, NoneAssumption
    <3>4. state \in HeadphoneState /\ Cells \subseteq Fields
      BY DEF TypeOK, BozodTypeOK, Fields
    <3>5. state'[u.field] = u.value /\ \A k \in Cells : k # u.field => state'[k] = state[k]
      BY <3>1, <3>2, <3>4, ApplyType
    <3>6. UpdateWritten'
      BY <3>1, <3>2, <3>5 DEF UpdateWritten
    <3>7. ASSUME NEW c \in Clients PROVE ClientSync(c)'
      <4>1. LoadFirst(c)'
        BY <2>1 DEF SyncInv, SameClient, LoadFirst, Loaded
      <4>2. ASSUME NEW k \in Cells PROVE EventsCurrent(c, k)' /\ PipelineCurrent(c, k)'
        <5>1. CASE k = u.field
          BY <3>2, <3>3, <5>1 DEF EventsCurrent, PipelineCurrent, UpdateUnderWay
        <5>2. CASE k # u.field
          <6>1. ~UpdateUnderWay(k) /\ state'[k] = state[k]
            BY <3>2, <3>5, <5>2 DEF UpdateUnderWay
          <6>2. EventsCurrent(c, k)'
            <7>1. EventsCurrent(c, k)
              BY DEF SyncInv
            <7>2. handler'[c] = handler[c] /\ inbox'[c] = inbox[c]
              BY <2>1 DEF SameClient
            <7> QED BY ONLY <6>1, <7>1, <7>2 DEF EventsCurrent, Silent, Carries
          <6>3. PipelineCurrent(c, k)'
            <7>1. PipelineCurrent(c, k)
              BY DEF SyncInv
            <7>2. SameClient(c)
              BY <2>1
            <7> QED BY ONLY <6>1, <7>1, <7>2
                    DEF SameClient, PipelineCurrent, Served, Loaded, Silent, Carries
          <6> QED BY <6>2, <6>3
        <5> QED BY <5>1, <5>2
      <4> QED BY <4>1, <4>2 DEF ClientSync
    <3> QED BY <3>6, <3>7 DEF SyncInv, ClientSync
  <2> QED BY <1>2, <2>2, <2>3 DEF SMPacket
<1>3. CASE SMPublish
  <2> DEFINE e == StateUpdated(smUpdate)
  <2>1. e \in DaemonEvent
    BY <1>3, EventTypes DEF SMPublish, TypeOK, BozodTypeOK
  <2>2. Publish(Live, e) /\ smUpdate # None /\ smUpdate' = None /\ state' = state
    BY <1>3 DEF SMPublish
  <2>3. UpdateWritten'
    BY <2>2 DEF UpdateWritten
  <2>4. /\ \A k \in Cells : Touches(e, k) <=> k = smUpdate.field
        /\ ValueIn(e, smUpdate.field) = smUpdate.value
    BY DEF StateUpdated, Touches, ValueIn
  <2>5. smUpdate.field \in Cells /\ state[smUpdate.field] = smUpdate.value
    BY <2>2 DEF SyncInv, UpdateWritten
  <2> HIDE DEF e
  <2>6. ASSUME NEW c \in Clients PROVE ClientSync(c)'
    <3>1. /\ toDaemon' = toDaemon /\ toClient' = toClient /\ clientEnd' = clientEnd
          /\ handler' = handler /\ view' = view /\ sent' = sent
      BY <1>3 DEF SMPublish, handlerVars, socketVars
    <3>2. LoadFirst(c)'
      BY <3>1 DEF SyncInv, LoadFirst, Loaded
    <3>3. ASSUME NEW k \in Cells PROVE EventsCurrent(c, k)' /\ PipelineCurrent(c, k)'
      <4>1. CASE handler[c] # "open"
        BY <3>1, <4>1 DEF EventsCurrent, PipelineCurrent, Served
      <4>2. CASE handler[c] = "open" /\ k = smUpdate.field
        <5>1. Carries(inbox'[c], k, state[k])
          BY <2>1, <2>2, <2>4, <2>5, <4>2, PublishCell
        <5>2. ~Silent(inbox'[c], k)
          BY <5>1 DEF Carries, Silent
        <5> QED BY <2>2, <5>1, <5>2 DEF EventsCurrent, PipelineCurrent, Silent, Carries
      <4>3. CASE handler[c] = "open" /\ k # smUpdate.field
        <5>1. ~Touches(e, k) /\ ~UpdateUnderWay(k)
          BY <2>4, <4>3 DEF UpdateUnderWay
        <5>2. /\ Silent(inbox[c], k) => Silent(inbox'[c], k)
              /\ Carries(inbox[c], k, state[k]) =>
                    Carries(inbox'[c], k, state[k]) \/ Silent(inbox'[c], k)
              /\ Silent(inbox'[c], k) /\ k \notin missed'[c] =>
                    Silent(inbox[c], k) /\ k \notin missed[c]
          BY <2>1, <2>2, <4>3, <5>1, PublishCell
        <5>3. EventsCurrent(c, k)'
          BY <2>2, <3>1, <5>1, <5>2 DEF SyncInv, EventsCurrent, Silent, Carries
        <5>4. PipelineCurrent(c, k)'
          BY <2>2, <3>1, <5>1, <5>2 DEF SyncInv, PipelineCurrent, Served, Loaded, Silent, Carries
        <5> QED BY <5>3, <5>4
      <4> QED BY <4>1, <4>2, <4>3
    <3> QED BY <3>2, <3>3 DEF ClientSync
  <2> QED BY <2>3, <2>6 DEF SyncInv, ClientSync
<1>4. CASE SMOther
  <2>1. \A c \in Clients : SameClient(c)
    BY <1>1, <1>4 DEF SMOther, Receive, SameClient, handlerVars, socketVars
  <2>2. SameCells /\ smUpdate' = smUpdate
    BY <1>4, CellsAssumption DEF SMOther, SameCells, Apply, Connection, TypeOK, BozodTypeOK,
       HeadphoneState, Fields
  <2> QED BY <2>1, <2>2, FrameSync
<1>5. CASE SMLagged
  <2>1. \A c \in Clients : SameClient(c)
    BY <1>1, <1>5 DEF SMLagged, ReceiveLagged, SameClient, handlerVars, socketVars
  <2> QED BY <1>5, <2>1, FrameSync DEF SMLagged, smVars, SameCells
<1> QED BY <1>2, <1>3, <1>4, <1>5 DEF StateManagerNext

(***************************************************************************)
(* The connection manager and main only broadcast events about no cell,    *)
(* until the process ends and nobody is served any more.                   *)
(***************************************************************************)
LEMMA OtherEvents ==
    /\ \A k \in Cells : ~Touches(Connected, k) /\ ~Touches(Disconnected, k)
    /\ \A p \in Packet, k \in Cells : ~Touches(PacketReceived(p), k)
BY CellsAssumption DEF Touches, Connected, Disconnected, PacketReceived

LEMMA ConnectionManagerSync ==
    ASSUME TypeOK, SyncInv, ConnectionNext, UNCHANGED clientVars
    PROVE  SyncInv'
<1> USE DEF mainVars, smVars, handlerVars, busVars, clientVars
<1>1. CASE OpenStream \/ StreamFails \/ ConnSend
  <2>1. \A c \in Clients : SameClient(c)
    BY <1>1 DEF OpenStream, StreamFails, ConnSend, SameClient, socketVars
  <2> QED BY <1>1, <2>1, FrameSync DEF OpenStream, StreamFails, ConnSend, SameCells
<1>2. CASE ConnNotification
  <2>1. Head(air) \in Packet
    BY <1>2 DEF ConnNotification, TypeOK, HeadphonesTypeOK
  <2> QED BY <1>2, <2>1, EventTypes, OtherEvents, PublishSync DEF ConnNotification
<1>3. CASE ConnStreamEnd \/ ConnDisconnect
  BY <1>3, EventTypes, OtherEvents, PublishSync DEF ConnStreamEnd, ConnDisconnect
<1> QED BY <1>1, <1>2, <1>3 DEF ConnectionNext

LEMMA ProcessEndsSync ==
    ASSUME ProcessEnds
    PROVE  SyncInv'
<1>1. UpdateWritten'
  BY DEF ProcessEnds, UpdateWritten
<1>2. ASSUME NEW c \in Clients PROVE ClientSync(c)'
  <2>1. handler'[c] # "open" /\ (clientEnd'[c] = "open" => handler'[c] = "closed")
    BY DEF ProcessEnds
  <2> QED BY <2>1 DEF ClientSync, LoadFirst, EventsCurrent, PipelineCurrent, Served
<1> QED BY <1>1, <1>2 DEF SyncInv, ClientSync

LEMMA MainSync ==
    ASSUME TypeOK, SyncInv, MainNext, UNCHANGED clientVars
    PROVE  SyncInv'
<1> USE DEF smVars, handlerVars, busVars, clientVars
<1>1. CASE ConnectPeripheral
  BY <1>1, EventTypes, OtherEvents, PublishSync DEF ConnectPeripheral
<1>2. CASE MainQuery \/ EnterSelect
  <2>1. \A c \in Clients : SameClient(c)
    BY <1>2 DEF MainQuery, EnterSelect, SameClient, socketVars
  <2> QED BY <1>2, <2>1, FrameSync DEF MainQuery, EnterSelect, SameCells
<1>3. CASE ScanOrConnectFails \/ ShutDown \/ CtrlC \/ Killed
  BY <1>3, ProcessEndsSync DEF ScanOrConnectFails, ShutDown, CtrlC, Killed
<1> QED BY <1>1, <1>2, <1>3 DEF MainNext

-----------------------------------------------------------------------------
(* A handler subscribes before it takes the snapshot, and its client reads *)
(* snapshot and updates from one stream.                                   *)

LEMMA OneClientSync ==
    ASSUME SyncInv, NEW c \in Clients, ClientSync(c)',
           \A d \in Clients : d # c => SameClient(d),
           SameCells, smUpdate' = smUpdate
    PROVE  SyncInv'
<1>1. UpdateWritten'
  BY SyncParts, SameUpdateWritten
<1>2. ASSUME NEW d \in Clients, d # c PROVE ClientSync(d)'
  BY <1>2, SyncParts, SameClientSync
<1> QED BY <1>1, <1>2 DEF SyncInv, ClientSync

LEMMA BindSocketSync ==
    ASSUME SyncInv, BindSocket, UNCHANGED clientVars
    PROVE  SyncInv'
<1>1. \A c \in Clients : SameClient(c)
  BY DEF BindSocket, SameClient, handlerVars, busVars, socketVars, clientVars
<1> QED BY <1>1, FrameSync DEF BindSocket, smVars, SameCells

LEMMA AcceptSync ==
    ASSUME TypeOK, SyncInv, NEW c \in Clients, Accept(c), UNCHANGED clientVars
    PROVE  SyncInv'
<1> USE DEF TypeOK, BusTypeOK, BozodTypeOK, Receivers
<1>1. \A d \in Clients : d # c => SameClient(d)
  BY DEF Accept, Subscribe, SameClient, socketVars, clientVars
<1>2. /\ inbox'[c] = << >> /\ handler[c] = "none" /\ clientEnd[c] # "none"
      /\ handler'[c] = "open"
      /\ toDaemon' = toDaemon /\ sent' = sent /\ clientEnd' = clientEnd
  BY DEF Accept, Subscribe, socketVars, clientVars
<1>3. clientEnd[c] = "open" => ~Loaded(c)
  BY <1>2 DEF SyncInv, LoadFirst
<1>4. ClientSync(c)'
  <2>1. LoadFirst(c)'
    BY <1>2, <1>3 DEF SyncInv, LoadFirst, Loaded
  <2>2. \A k \in Cells : EventsCurrent(c, k)'
    BY <1>2 DEF EventsCurrent, Silent
  <2>3. \A k \in Cells : PipelineCurrent(c, k)'
    BY <1>2, <1>3 DEF PipelineCurrent, Served, Loaded
  <2> QED BY <2>1, <2>2, <2>3 DEF ClientSync
<1> QED BY <1>1, <1>4, OneClientSync DEF Accept, smVars, SameCells

LEMMA ClosedSync ==
    ASSUME NEW c \in Clients, handler'[c] # "open", clientEnd'[c] # "open"
    PROVE  ClientSync(c)'
BY DEF ClientSync, LoadFirst, EventsCurrent, PipelineCurrent, Served

LEMMA EndHandlerEffect ==
    ASSUME TypeOK, NEW c \in Clients, EndHandler(c)
    PROVE  /\ handler'[c] = "closed"
           /\ \A d \in Clients : d # c =>
                handler'[d] = handler[d] /\ inbox'[d] = inbox[d] /\ missed'[d] = missed[d]
BY DEF EndHandler, TypeOK, BusTypeOK, BozodTypeOK, Receivers

LEMMA WriteToEffect ==
    ASSUME TypeOK, NEW c \in Clients, NEW r, WriteTo(c, r)
    PROVE  /\ \A d \in Clients : d # c =>
                /\ handler'[d] = handler[d] /\ inbox'[d] = inbox[d] /\ missed'[d] = missed[d]
                /\ toClient'[d] = toClient[d]
           /\ \/ handler'[c] = "closed" /\ clientEnd[c] = "closed"
              \/ /\ toClient'[c] = Append(toClient[c], r)
                 /\ handler' = handler /\ inbox' = inbox /\ missed' = missed
BY EndHandlerEffect DEF WriteTo, busVars, TypeOK, SocketTypeOK

\* Reading a request keeps GetState first.
LEMMA TakeRequestSync ==
    ASSUME TypeOK, SyncInv, NEW c \in Clients, handler[c] = "open", toDaemon[c] # << >>,
           TakeRequest(c), handler'[c] # "none", UNCHANGED <<sent, clientEnd>>
    PROVE  /\ Head(toDaemon[c]) # GetState => (clientEnd[c] = "open" => Loaded(c))
           /\ clientEnd[c] = "open" => Loaded(c)'
           /\ LoadFirst(c)'
           /\ \A d \in Clients : d # c => toDaemon'[d] = toDaemon[d]
<1>1. toDaemon[c] \in Seq(IpcRequest) /\ sent[c] \in Nat
  BY ClientAssumption DEF TypeOK, SocketTypeOK, ClientTypeOK
<1>2. toDaemon'[c] = Tail(toDaemon[c]) /\ \A d \in Clients : d # c => toDaemon'[d] = toDaemon[d]
  BY DEF TakeRequest, TypeOK, SocketTypeOK
<1>3. Len(toDaemon'[c]) = Len(toDaemon[c]) - 1 /\ Len(toDaemon[c]) \in Nat \ {0}
  BY <1>1, <1>2
<1>4. clientEnd[c] = "open" => /\ Len(toDaemon[c]) <= sent[c]
                               /\ ~Loaded(c) => Head(toDaemon[c]) = GetState
  BY DEF SyncInv, LoadFirst
<1>5. clientEnd[c] = "open" => Len(toDaemon'[c]) < sent'[c]
  BY <1>1, <1>3, <1>4
<1>6. LoadFirst(c)'
  BY <1>1, <1>3, <1>5 DEF LoadFirst, Loaded
<1> QED BY <1>2, <1>4, <1>5, <1>6 DEF Loaded

\* A response about no cell changes nothing.
LEMMA PlainReplySync ==
    ASSUME TypeOK, SyncInv, NEW c \in Clients, NEW r \in IpcResponse,
           \A k \in Cells : ~Touches(r, k),
           WriteTo(c, r), LoadFirst(c)', Loaded(c)' => Loaded(c) \/ clientEnd[c] # "open",
           UNCHANGED <<smVars, view, sent, clientEnd>>
    PROVE  ClientSync(c)'
<1>1. CASE handler'[c] = "closed" /\ clientEnd[c] = "closed"
  BY <1>1, ClosedSync
<1>2. CASE toClient'[c] = Append(toClient[c], r) /\ handler' = handler /\ inbox' = inbox /\ missed' = missed
  <2>1. toClient[c] \in Seq(IpcResponse)
    BY DEF TypeOK, SocketTypeOK
  <2>2. ASSUME NEW k \in Cells PROVE EventsCurrent(c, k)' /\ PipelineCurrent(c, k)'
    <3>1. Silent(toClient[c], k) => Silent(toClient'[c], k)
      BY <1>2, <2>1, SilentAppend
    <3>2. Carries(toClient[c], k, state[k]) => Carries(toClient'[c], k, state[k])
      BY <1>2, <2>1, CarriesAppend
    <3>3. EventsCurrent(c, k)'
      BY <1>2 DEF SyncInv, EventsCurrent, UpdateUnderWay, Silent, Carries, smVars
    <3>4. PipelineCurrent(c, k)'
      BY <1>2, <3>1, <3>2 DEF SyncInv, PipelineCurrent, UpdateUnderWay, Served, Silent, Carries,
                              smVars
    <3> QED BY <3>3, <3>4
  <2> QED BY <2>2 DEF ClientSync
<1> QED BY <1>1, <1>2, WriteToEffect

LEMMA ServeRequestSync ==
    ASSUME TypeOK, SyncInv, NEW c \in Clients,
           HandleGetState(c) \/ HandleReconnect(c) \/ HandleCommand(c), UNCHANGED clientVars
    PROVE  SyncInv'
<1> USE DEF clientVars, Selecting
<1>0. /\ handler[c] = "open" /\ toDaemon[c] # << >> /\ TakeRequest(c)
      /\ UNCHANGED <<sent, clientEnd, smVars, view>>
  BY DEF HandleGetState, HandleReconnect, HandleCommand
<1>1. handler'[c] # "none"
  BY <1>0, WriteToEffect DEF HandleGetState, HandleReconnect, HandleCommand
<1>2. \A d \in Clients : d # c => SameClient(d)
  <2>1. \A d \in Clients : d # c => toDaemon'[d] = toDaemon[d]
    BY <1>0, <1>1, TakeRequestSync
  <2>2. CASE \E r : WriteTo(c, r)
    BY <1>0, <2>1, <2>2, WriteToEffect DEF SameClient
  <2>3. CASE UNCHANGED <<handler, toClient, busVars>>
    BY <1>0, <2>1, <2>3 DEF SameClient, busVars
  <2> QED BY <2>2, <2>3 DEF HandleGetState, HandleReconnect, HandleCommand
<1>3. CASE HandleGetState(c)
  <2>1. WriteTo(c, State(state)) /\ LoadFirst(c)'
    BY <1>0, <1>1, <1>3, TakeRequestSync DEF HandleGetState
  <2>2. ASSUME handler'[c] = "closed" /\ clientEnd[c] = "closed" PROVE ClientSync(c)'
    BY <1>0, <2>2, ClosedSync
  <2>3. ASSUME toClient'[c] = Append(toClient[c], State(state)),
               handler' = handler /\ inbox' = inbox /\ missed' = missed
        PROVE  ClientSync(c)'
    <3>1. toClient[c] \in Seq(IpcResponse) /\ State(state) \in IpcResponse
      BY ResponseTypes DEF TypeOK, SocketTypeOK, BozodTypeOK
    <3>2. ASSUME NEW k \in Cells PROVE EventsCurrent(c, k)' /\ PipelineCurrent(c, k)'
      <4>1. Touches(State(state), k) /\ ValueIn(State(state), k) = state[k]
        BY DEF Touches, ValueIn, State
      <4>2. Carries(toClient'[c], k, state[k])
        BY <2>3, <3>1, <4>1, TouchAppend
      <4>3. EventsCurrent(c, k)'
        BY <1>0, <2>3 DEF SyncInv, EventsCurrent, UpdateUnderWay, Silent, Carries, smVars
      <4>4. PipelineCurrent(c, k)'
        BY <1>0, <4>2 DEF PipelineCurrent, Carries, smVars
      <4> QED BY <4>3, <4>4
    <3> QED BY <2>1, <3>2 DEF ClientSync
  <2>4. ClientSync(c)'
    BY <2>1, <2>2, <2>3, WriteToEffect
  <2> QED BY <1>0, <1>2, <2>4, OneClientSync DEF smVars, SameCells
<1>4. CASE HandleReconnect(c)
  <2>1. WriteTo(c, OkResponse) /\ Head(toDaemon[c]) # GetState
    BY <1>4 DEF HandleReconnect, Reconnect, GetState
  <2>2. LoadFirst(c)' /\ (Loaded(c)' => Loaded(c) \/ clientEnd[c] # "open")
    BY <1>0, <1>1, <2>1, TakeRequestSync
  <2>3. OkResponse \in IpcResponse /\ \A k \in Cells : ~Touches(OkResponse, k)
    BY ResponseTypes DEF OkResponse, Touches
  <2>4. ClientSync(c)'
    BY <1>0, <2>1, <2>2, <2>3, PlainReplySync
  <2> QED BY <1>0, <1>2, <2>4, OneClientSync DEF smVars, SameCells
<1>5. CASE HandleCommand(c)
  <2>1. Head(toDaemon[c]) # GetState /\ UNCHANGED <<handler, toClient, inbox, missed>>
    BY <1>5 DEF HandleCommand, GetState, busVars
  <2>2. LoadFirst(c)' /\ (clientEnd[c] = "open" => Loaded(c))
    BY <1>0, <1>1, <2>1, TakeRequestSync
  <2>3. ASSUME NEW k \in Cells PROVE EventsCurrent(c, k)' /\ PipelineCurrent(c, k)'
    BY <1>0, <2>1, <2>2 DEF SyncInv, EventsCurrent, PipelineCurrent, UpdateUnderWay, Served, Silent,
                            Carries, smVars
  <2>4. ClientSync(c)'
    BY <2>2, <2>3 DEF ClientSync
  <2> QED BY <1>0, <1>2, <2>4, OneClientSync DEF smVars, SameCells
<1> QED BY <1>3, <1>4, <1>5

LEMMA SendPendingSync ==
    ASSUME TypeOK, SyncInv, NEW c \in Clients, SendPending(c), UNCHANGED clientVars
    PROVE  SyncInv'
<1>0. /\ handler[c] = "open" /\ UNCHANGED <<toDaemon, clientEnd, smVars, view, sent>>
  BY DEF SendPending, clientVars
<1>1. PICK r \in {OkResponse, ErrorResponse} : WriteTo(c, r)
  BY DEF SendPending
<1>2. r \in IpcResponse /\ \A k \in Cells : ~Touches(r, k)
  BY ResponseTypes DEF OkResponse, ErrorResponse, Touches
<1>3. \A d \in Clients : d # c => SameClient(d)
  BY <1>0, <1>1, WriteToEffect DEF SameClient
<1>4. handler'[c] # "none"
  BY <1>0, <1>1, WriteToEffect
<1>5. LoadFirst(c)' /\ (Loaded(c)' => Loaded(c))
  BY <1>0, <1>4 DEF SyncInv, LoadFirst, Loaded
<1>6. ClientSync(c)'
  BY <1>0, <1>1, <1>2, <1>5, PlainReplySync
<1> QED BY <1>0, <1>3, <1>6, OneClientSync DEF smVars, SameCells

LEMMA PushedUpdateCells ==
    ASSUME NEW e \in DaemonEvent, e.type # "PacketReceived", NEW k \in Cells
    PROVE  /\ Touches(e, k) <=> Touches(Update(PushedUpdate(e)), k)
           /\ Touches(e, k) => ValueIn(e, k) = ValueIn(Update(PushedUpdate(e)), k)
BY EventTypes, CellsAssumption DEF Touches, ValueIn, Update, PushedUpdate, Connection

LEMMA PushEventSync ==
    ASSUME TypeOK, SyncInv, NEW c \in Clients, PushEvent(c), UNCHANGED clientVars
    PROVE  SyncInv'
<1> DEFINE e == Head(inbox[c])
           q == inbox[c]
<1>0. /\ handler[c] = "open" /\ HasEvent(c)
      /\ UNCHANGED <<toDaemon, clientEnd, smVars, view, sent>>
  BY DEF PushEvent, Selecting, clientVars
<1>1. q \in Seq(DaemonEvent) /\ q # << >> /\ e \in DaemonEvent
  BY <1>0 DEF HasEvent, TypeOK, BusTypeOK, Receivers
<1>2. SameCells /\ smUpdate' = smUpdate
  BY <1>0 DEF SameCells, smVars
<1>3. CASE EndHandler(c) /\ UNCHANGED toClient /\ clientEnd[c] = "closed"
  <2>1. \A d \in Clients : d # c => SameClient(d)
    BY <1>0, <1>3, EndHandlerEffect DEF SameClient
  <2>2. ClientSync(c)'
    BY <1>0, <1>3, EndHandlerEffect, ClosedSync
  <2> QED BY <1>2, <2>1, <2>2, OneClientSync
<1>4. CASE Receive(c) /\ UNCHANGED handler
  <2>1. inbox'[c] = Tail(q) /\ missed' = missed /\ \A d \in Clients : d # c => inbox'[d] = inbox[d]
    BY <1>4 DEF Receive, TypeOK, BusTypeOK, Receivers
  <2>2. /\ \A d \in Clients : d # c => toClient'[d] = toClient[d]
        /\ \/ e.type = "PacketReceived" /\ toClient' = toClient
           \/ e.type # "PacketReceived" /\ clientEnd[c] = "open"
              /\ toClient'[c] = Append(toClient[c], Update(PushedUpdate(e)))
           \/ clientEnd[c] = "closed" /\ handler'[c] = "closed"
    BY EndHandlerEffect DEF PushEvent, TypeOK, SocketTypeOK
  <2>3. \A d \in Clients : d # c => SameClient(d)
    BY <1>0, <1>4, <2>1, <2>2 DEF SameClient
  <2>4. LoadFirst(c)'
    BY <1>0, <1>4 DEF SyncInv, LoadFirst, Loaded
  <2>5. ASSUME NEW k \in Cells PROVE EventsCurrent(c, k)'
    <3>1. Silent(q, k) => Silent(Tail(q), k)
      BY <1>1, SilentTail
    <3>2. Carries(q, k, state[k]) => Carries(Tail(q), k, state[k]) \/ Silent(Tail(q), k)
      BY <1>1, CarriesTail
    <3> QED BY <1>0, <1>4, <2>1, <3>1, <3>2
            DEF SyncInv, EventsCurrent, UpdateUnderWay, Silent, Carries, smVars
  <2>6. ASSUME NEW k \in Cells PROVE PipelineCurrent(c, k)'
    <3>0. SUFFICES ASSUME Served(c), Loaded(c), k \notin missed[c], ~UpdateUnderWay(k),
                          Silent(Tail(q), k)
                   PROVE  \/ Carries(toClient'[c], k, state[k])
                          \/ Silent(toClient'[c], k) /\ view[c][k] = state[k]
      BY <1>0, <1>2, <1>4, <2>1 DEF PipelineCurrent, Served, Loaded, UpdateUnderWay, Silent,
                                     Carries, smVars
    <3>1. Silent(q, k) \/ Carries(q, k, state[k])
      BY <1>0, <3>0 DEF SyncInv, EventsCurrent
    <3>2. ~Carries(Tail(q), k, state[k])
      BY <3>0 DEF Carries, Silent
    <3>3. CASE e.type = "PacketReceived" /\ toClient' = toClient
      <4>1. ~Touches(e, k)
        BY <3>3 DEF Touches
      <4>2. Silent(q, k)
        BY <1>1, <3>0, <4>1, SilentTail
      <4> QED BY <3>0, <3>3, <4>2 DEF SyncInv, PipelineCurrent, Carries, Silent
    <3>4. CASE /\ e.type # "PacketReceived"
               /\ toClient'[c] = Append(toClient[c], Update(PushedUpdate(e)))
      <4>1. toClient[c] \in Seq(IpcResponse) /\ Update(PushedUpdate(e)) \in IpcResponse
        BY <1>1, <3>4, PushedUpdateType, ResponseTypes DEF TypeOK, SocketTypeOK
      <4>2. CASE Touches(e, k)
        <5>1. ~Silent(q, k)
          BY <1>1, <4>2, SilentTail
        <5>2. ValueIn(e, k) = state[k]
          BY <1>1, <3>1, <3>2, <5>1, CarriesTail
        <5>3. /\ Touches(Update(PushedUpdate(e)), k)
              /\ ValueIn(Update(PushedUpdate(e)), k) = state[k]
          BY <1>1, <3>4, <4>2, <5>2, PushedUpdateCells
        <5> QED BY <3>4, <4>1, <5>3, TouchAppend
      <4>3. CASE ~Touches(e, k)
        <5>1. Silent(q, k)
          BY <1>1, <3>0, <4>3, SilentTail
        <5>2. ~Touches(Update(PushedUpdate(e)), k)
          BY <1>1, <3>4, <4>3, PushedUpdateCells
        <5>3. \/ Carries(toClient[c], k, state[k])
              \/ Silent(toClient[c], k) /\ view[c][k] = state[k]
          BY <3>0, <5>1 DEF SyncInv, PipelineCurrent
        <5>4. Carries(toClient[c], k, state[k]) => Carries(toClient'[c], k, state[k])
          BY <3>4, <4>1, <5>2, CarriesAppend
        <5>5. Silent(toClient[c], k) => Silent(toClient'[c], k)
          BY <3>4, <4>1, <5>2, SilentAppend
        <5> QED BY <5>3, <5>4, <5>5
      <4> QED BY <4>2, <4>3
    <3>5. CASE clientEnd[c] = "closed"
      BY <3>0, <3>5 DEF Served
    <3> QED BY <2>2, <3>3, <3>4, <3>5
  <2>7. ClientSync(c)'
    BY <2>4, <2>5, <2>6 DEF ClientSync
  <2> QED BY <1>2, <2>3, <2>7, OneClientSync
<1> QED BY <1>0, <1>3, <1>4 DEF PushEvent

LEMMA HandlerEndSync ==
    ASSUME TypeOK, SyncInv, NEW c \in Clients, HandlerLagged(c) \/ HandlerEof(c),
           UNCHANGED clientVars
    PROVE  SyncInv'
<1> USE DEF clientVars
<1>1. CASE HandlerLagged(c)
  <2>1. UNCHANGED <<inbox, missed, handler, socketVars, smVars>>
    BY <1>1 DEF HandlerLagged, ReceiveLagged, handlerVars, TypeOK, BusTypeOK, Receivers
  <2>2. \A d \in Clients : d # c => SameClient(d)
    BY <2>1 DEF SameClient, socketVars
  <2>3. ClientSync(c)'
    BY <2>1 DEF SyncInv, ClientSync, LoadFirst, Loaded, EventsCurrent, PipelineCurrent, UpdateUnderWay,
                Served, Silent, Carries, socketVars, smVars
  <2> QED BY <2>1, <2>2, <2>3, OneClientSync DEF smVars, SameCells
<1>2. CASE HandlerEof(c)
  <2>1. EndHandler(c) /\ clientEnd[c] = "closed" /\ UNCHANGED <<socketVars, smVars>>
    BY <1>2 DEF HandlerEof
  <2>2. \A d \in Clients : d # c => SameClient(d)
    BY <2>1, EndHandlerEffect DEF SameClient, socketVars
  <2>3. ClientSync(c)'
    BY <2>1, EndHandlerEffect, ClosedSync DEF socketVars
  <2> QED BY <2>1, <2>2, <2>3, OneClientSync DEF smVars, SameCells
<1> QED BY <1>1, <1>2

LEMMA ReadResponseSync ==
    ASSUME TypeOK, SyncInv, NEW c \in Clients, ReadResponse(c), UNCHANGED bozodVars
    PROVE  SyncInv'
<1> DEFINE r == Head(toClient[c])
           q == toClient[c]
<1>0. UNCHANGED <<inbox, missed, handler, smVars, toDaemon, clientEnd, sent>>
  BY DEF ReadResponse, bozodVars, busVars, handlerVars, smVars
<1>1. q \in Seq(IpcResponse) /\ q # << >> /\ r \in IpcResponse
  BY DEF ReadResponse, TypeOK, SocketTypeOK
<1>2. toClient'[c] = Tail(q) /\ \A d \in Clients : d # c => toClient'[d] = toClient[d]
  BY DEF ReadResponse, TypeOK, SocketTypeOK
<1>3. /\ \A d \in Clients : d # c => view'[d] = view[d]
      /\ \/ r.type = "State" /\ view'[c] = r.state
         \/ r.type = "StateUpdate" /\ view'[c] = Apply(view[c], r.update)
         \/ r.type \in {"Ok", "Error"} /\ view'[c] = view[c]
  BY DEF ReadResponse, TypeOK, ClientTypeOK
<1>4. \A d \in Clients : d # c => SameClient(d)
  BY <1>0, <1>2, <1>3 DEF SameClient
<1>5. SameCells /\ smUpdate' = smUpdate
  BY <1>0 DEF smVars, SameCells
<1>6. LoadFirst(c)'
  BY <1>0 DEF SyncInv, LoadFirst, Loaded
<1>7. ASSUME NEW k \in Cells PROVE EventsCurrent(c, k)' /\ PipelineCurrent(c, k)'
  <2>1. EventsCurrent(c, k)'
    BY <1>0 DEF SyncInv, EventsCurrent, UpdateUnderWay, Silent, Carries, smVars
  <2>2. Touches(r, k) => view'[c][k] = ValueIn(r, k)
    <3>1. CASE r.type = "StateUpdate"
      <4>1. view[c] \in HeadphoneState /\ r.update \in StateUpdate
        BY <1>1, <3>1, ResponseTypes DEF TypeOK, ClientTypeOK
      <4> QED BY <1>3, <3>1, <4>1, ApplyType DEF Touches, ValueIn
    <3>2. CASE r.type # "StateUpdate"
      BY <1>1, <1>3, <3>2, ResponseTypes DEF Touches, ValueIn
    <3> QED BY <3>1, <3>2
  <2>3. ~Touches(r, k) => view'[c][k] = view[c][k]
    <3>1. CASE r.type = "StateUpdate"
      <4>1. view[c] \in HeadphoneState /\ r.update \in StateUpdate /\ k \in Fields
        BY <1>1, <3>1, ResponseTypes DEF TypeOK, ClientTypeOK, Fields
      <4> QED BY <1>3, <3>1, <4>1, ApplyType DEF Touches
    <3>2. CASE r.type # "StateUpdate"
      BY <1>1, <1>3, <3>2, ResponseTypes DEF Touches
    <3> QED BY <3>1, <3>2
  <2>4. Silent(q, k) <=> ~Touches(r, k) /\ Silent(Tail(q), k)
    BY <1>1, SilentTail
  <2>5. Carries(q, k, state[k]) =>
          \/ Carries(Tail(q), k, state[k])
          \/ Silent(Tail(q), k) /\ Touches(r, k) /\ ValueIn(r, k) = state[k]
    BY <1>1, CarriesTail
  <2>6. PipelineCurrent(c, k)'
    <3>1. SUFFICES ASSUME Served(c), Loaded(c), k \notin missed[c], ~UpdateUnderWay(k),
                          Silent(inbox[c], k)
                   PROVE  \/ Carries(Tail(q), k, state[k])
                          \/ Silent(Tail(q), k) /\ view'[c][k] = state[k]
      BY <1>0, <1>2, <1>5 DEF PipelineCurrent, Served, Loaded, UpdateUnderWay, Silent, Carries,
                              smVars
    <3>2. \/ Carries(q, k, state[k])
          \/ Silent(q, k) /\ view[c][k] = state[k]
      BY <3>1 DEF SyncInv, PipelineCurrent
    <3> QED BY <2>2, <2>3, <2>4, <2>5, <3>2
  <2> QED BY <2>1, <2>6
<1>8. ClientSync(c)'
  BY <1>6, <1>7 DEF ClientSync
<1> QED BY <1>4, <1>5, <1>8, OneClientSync

LEMMA ClientStepSync ==
    ASSUME TypeOK, SyncInv, NEW c \in Clients, ClientStep(c)
    PROVE  SyncInv'
<1> USE DEF TypeOK, SocketTypeOK, ClientTypeOK
<1>0. UNCHANGED <<inbox, missed, handler, smVars, bozodVars>>
  BY DEF ClientStep, bozodVars, busVars, handlerVars
<1>1. SameCells /\ smUpdate' = smUpdate
  BY <1>0 DEF smVars, SameCells
<1>2. CASE Connect(c)
  <2>1. \A d \in Clients : d # c => SameClient(d)
    BY <1>0, <1>2 DEF Connect, SameClient
  <2>2. /\ clientEnd[c] = "none" /\ toDaemon'[c] = <<GetState>> /\ sent'[c] = 1
    BY <1>2 DEF Connect
  <2>3. ~Loaded(c)' /\ LoadFirst(c)'
    BY <2>2 DEF Loaded, LoadFirst
  <2>4. ASSUME NEW k \in Cells PROVE EventsCurrent(c, k)' /\ PipelineCurrent(c, k)'
    <3>1. PipelineCurrent(c, k)'
      BY <2>3 DEF PipelineCurrent
    <3> QED BY <1>0, <3>1 DEF SyncInv, EventsCurrent, PipelineCurrent, UpdateUnderWay, Silent, Carries,
                      smVars
  <2>5. ClientSync(c)'
    BY <2>3, <2>4 DEF ClientSync
  <2> QED BY <1>1, <2>1, <2>5, OneClientSync
<1>3. ASSUME NEW r \in Requests, SendRequest(c, r), handler[c] # "closed"
      PROVE  SyncInv'
  <2>1. \A d \in Clients : d # c => SameClient(d)
    BY <1>0, <1>3 DEF SendRequest, SameClient
  <2>2. /\ toDaemon[c] \in Seq(IpcRequest) /\ r \in IpcRequest /\ sent[c] \in Nat
        /\ clientEnd[c] = "open"
        /\ toDaemon'[c] = Append(toDaemon[c], r) /\ sent'[c] = sent[c] + 1
        /\ UNCHANGED <<toClient, clientEnd, view>>
    BY <1>3, ClientAssumption DEF SendRequest
  <2>3. /\ Len(toDaemon'[c]) = Len(toDaemon[c]) + 1
        /\ toDaemon[c] # << >> => toDaemon'[c] # << >> /\ Head(toDaemon'[c]) = Head(toDaemon[c])
    BY <2>2
  <2>4. Loaded(c)' <=> Loaded(c)
    BY <2>2, <2>3 DEF Loaded
  <2>5. LoadFirst(c)'
    BY <1>0, <1>3, <2>2, <2>3, <2>4 DEF SyncInv, LoadFirst
  <2>6. ASSUME NEW k \in Cells PROVE EventsCurrent(c, k)' /\ PipelineCurrent(c, k)'
    BY <1>0, <2>2, <2>4 DEF SyncInv, EventsCurrent, PipelineCurrent, UpdateUnderWay, Served,
                            Silent, Carries, smVars
  <2>7. ClientSync(c)'
    BY <2>5, <2>6 DEF ClientSync
  <2> QED BY <1>1, <2>1, <2>7, OneClientSync
<1>4. CASE ReadResponse(c)
  BY <1>0, <1>4, ReadResponseSync
<1>5. CASE Close(c)
  <2>1. \A d \in Clients : d # c => SameClient(d)
    BY <1>0, <1>5 DEF Close, SameClient, clientVars
  <2>2. clientEnd'[c] = "closed" /\ UNCHANGED <<toDaemon, toClient, view, sent>>
    BY <1>5 DEF Close, clientVars
  <2>3. ClientSync(c)'
    BY <1>0, <2>2 DEF SyncInv, ClientSync, LoadFirst, EventsCurrent, PipelineCurrent,
       UpdateUnderWay, Served, Silent, Carries, smVars
  <2> QED BY <1>1, <2>1, <2>3, OneClientSync
<1> QED BY <1>2, <1>3, <1>4, <1>5 DEF ClientStep

LEMMA InitSync == Init => SyncInv
<1> SUFFICES ASSUME Init PROVE SyncInv
  OBVIOUS
<1>1. smUpdate = None /\ \A c \in Clients : clientEnd[c] = "none" /\ handler[c] = "none"
  BY DEF Init, BozodInit, SocketInit
<1> QED BY <1>1 DEF SyncInv, UpdateWritten, LoadFirst, EventsCurrent, PipelineCurrent, Served

LEMMA StepSync == TypeOK /\ SyncInv /\ [Next]_vars => SyncInv'
<1> SUFFICES ASSUME TypeOK, SyncInv, [Next]_vars PROVE SyncInv'
  OBVIOUS
<1>1. CASE DaemonStep
  <2>1. UNCHANGED clientVars
    BY <1>1 DEF DaemonStep
  <2>2. CASE StateManagerNext
    BY <2>1, <2>2, StateManagerSync
  <2>3. CASE ConnectionNext
    BY <2>1, <2>3, ConnectionManagerSync
  <2>4. CASE MainNext
    BY <2>1, <2>4, MainSync
  <2>5. CASE BindSocket
    BY <2>1, <2>5, BindSocketSync
  <2>6. ASSUME NEW c \in Clients, Accept(c) PROVE SyncInv'
    BY <2>1, <2>6, AcceptSync
  <2>7. ASSUME NEW c \in Clients, HandlerNext(c) PROVE SyncInv'
    BY <2>1, <2>7, ServeRequestSync, SendPendingSync, PushEventSync, HandlerEndSync
       DEF HandlerNext
  <2> QED BY <1>1, <2>2, <2>3, <2>4, <2>5, <2>6, <2>7 DEF DaemonStep, BozodNext
<1>2. CASE \E c \in Clients : ClientStep(c)
  BY <1>2, ClientStepSync
<1>3. CASE HeadphonesStep \/ UNCHANGED vars
  <2>1. UNCHANGED <<bozodVars, clientVars, socketVars>>
    BY <1>3 DEF HeadphonesStep, vars
  <2>2. \A c \in Clients : SameClient(c)
    BY <2>1 DEF SameClient, bozodVars, handlerVars, busVars, clientVars, socketVars
  <2> QED BY <2>1, <2>2, FrameSync DEF bozodVars, smVars, SameCells
<1> QED BY <1>1, <1>2, <1>3 DEF Next

(***************************************************************************)
(* The inductive invariant: at every moment the last thing under way to a  *)
(* client about a cell is the daemon's own value of it.                    *)
(***************************************************************************)
THEOREM SyncInvariant == Spec => []SyncInv
<1>1. Init => SyncInv
  BY InitSync
<1>2. TypeOK /\ SyncInv /\ [Next]_vars => SyncInv'
  BY StepSync
<1> QED BY <1>1, <1>2, TypeCorrect, PTL DEF Spec

(***************************************************************************)
(* The TUI never settles on a wrong value: a client that has nothing on    *)
(* its way about a cell, and did not lose the last update of it, draws the *)
(* daemon's value.                                                         *)
(***************************************************************************)
THEOREM Convergence == Spec => []ViewConverges
<1>1. SyncInv => ViewConverges
  <2> SUFFICES ASSUME SyncInv, NEW c \in Clients, NEW k \in Cells,
                      Served(c), Loaded(c), k \notin missed[c],
                      ~UpdateUnderWay(k), Silent(inbox[c], k), Silent(toClient[c], k)
               PROVE  view[c][k] = state[k]
    BY DEF ViewConverges
  <2>1. ~Carries(toClient[c], k, state[k])
    BY DEF Silent, Carries
  <2> QED BY <2>1 DEF SyncInv, PipelineCurrent
<1> QED BY <1>1, SyncInvariant, PTL
=============================================================================
