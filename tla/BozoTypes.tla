------------------------------ MODULE BozoTypes ------------------------------
(***************************************************************************)
(* The vocabulary shared by the daemon, its clients and the headphones:    *)
(* HeadphoneState, StateUpdate, BmapPacket, DaemonEvent, BleCommand,       *)
(* IpcRequest and IpcResponse.                                             *)
(*                                                                         *)
(* A HeadphoneState is a function from its fields to their values.  Every  *)
(* field a packet can set is a "cell": product_name, battery, cnc,         *)
(* audio_mode_index, standby_timer_minutes, and one cell for each index of *)
(* audio_modes (the vector is keyed by mode_index, None = not present).    *)
(***************************************************************************)
EXTENDS Naturals, Sequences, FiniteSets

CONSTANTS
    Clients,    \* IPC clients of the daemon (TUI instances)
    Cells,      \* the fields of HeadphoneState set from BMAP packets
    Settable,   \* the cells some IpcRequest can set
    Supported,  \* the cells the headphones answer a Get for
    Values,     \* decoded payloads
    None,       \* Option::None, an empty Vec, an empty slot
    Malformed   \* a payload the typed parser rejects

ASSUME CellsAssumption ==
    /\ Settable \subseteq Cells
    /\ Supported \subseteq Cells
    /\ "connected" \notin Cells /\ "other" \notin Cells /\ "power" \notin Cells

ASSUME ValuesAssumption ==
    /\ None \notin Values /\ Malformed \notin Values /\ None # Malformed
    /\ TRUE \notin Values /\ FALSE \notin Values

Fields == Cells \cup {"connected"}
FieldValues == Values \cup {None} \cup BOOLEAN

HeadphoneState == [Fields -> FieldValues]
DefaultState == [f \in Fields |-> IF f = "connected" THEN FALSE ELSE None]

StateUpdate == [field : Fields, value : FieldValues]

Connection(connected) == [field |-> "connected", value |-> connected]

\* Overwrites one field: what each arm of App::apply_update and of
\* StateManager::parse_and_update does to the state it holds.
Apply(s, u) == [s EXCEPT ![u.field] = u.value]

(***************************************************************************)
(* BmapPacket.  "other" stands for every (function block, function) pair   *)
(* the daemon does not handle, "power" for Control/POWER; SetGet and Start *)
(* commands that set a cell are "Set".                                     *)
(***************************************************************************)
Responses == {"Status", "Error", "Result", "Processing"}
Packet ==
    [op : Responses \cup {"Get", "Set", "Start"},
     field : Cells \cup {"other", "power"},
     value : Values \cup {None, Malformed}]

IsResponse(p) == p.op \in Responses

\* Mutant: Result packets are dropped with Processing.
UpdatesStatusOnly(p) == p.op = "Status" /\ p.field \in Cells /\ p.value \in Values

\* The packets parse_and_update turns into an update.
Updates(p) ==
    /\ IsResponse(p) /\ p.op # "Error"
    /\ p.field \in Cells
    /\ p.value \in Values

BmapPacket(op, field, value) == [op |-> op, field |-> field, value |-> value]
Get(cell) == BmapPacket("Get", cell, None)
Set(cell, value) == BmapPacket("Set", cell, value)
PowerOffPacket == BmapPacket("Start", "power", None)

CommandPacket ==
    {Get(k) : k \in Cells} \cup {Set(k, v) : k \in Cells, v \in Values} \cup {PowerOffPacket}

SendPacket(p) == [type |-> "SendPacket", packet |-> p]
DisconnectCommand == [type |-> "Disconnect"]
BleCommand == [type : {"SendPacket"}, packet : CommandPacket] \cup {DisconnectCommand}
ASSUME NoneAssumption == None \notin StateUpdate /\ None \notin BleCommand

Connected == [type |-> "Connected"]
Disconnected == [type |-> "Disconnected"]
PacketReceived(p) == [type |-> "PacketReceived", packet |-> p]
StateUpdated(u) == [type |-> "StateUpdated", update |-> u]
DaemonEvent ==
    {Connected, Disconnected}
        \cup [type : {"PacketReceived"}, packet : Packet]
        \cup [type : {"StateUpdated"}, update : StateUpdate]

GetState == [type |-> "GetState"]
SetRequest(cell, value) == [type |-> "Set", field |-> cell, value |-> value]
PowerOff == [type |-> "PowerOff"]
Reconnect == [type |-> "Reconnect"]
Disconnect == [type |-> "Disconnect"]
IpcRequest ==
    {GetState, PowerOff, Reconnect, Disconnect}
        \cup [type : {"Set"}, field : Settable, value : Values]

State(s) == [type |-> "State", state |-> s]
Update(u) == [type |-> "StateUpdate", update |-> u]
OkResponse == [type |-> "Ok"]
ErrorResponse == [type |-> "Error"]
IpcResponse ==
    {OkResponse, ErrorResponse}
        \cup [type : {"State"}, state : HeadphoneState]
        \cup [type : {"StateUpdate"}, update : StateUpdate]
=============================================================================
