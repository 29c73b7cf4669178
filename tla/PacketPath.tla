----------------------------- MODULE PacketPath -----------------------------
(***************************************************************************)
(* A packet's way from the headphones into the daemon's state: to_bytes,   *)
(* segment, the link, Reassembler::feed, parse_many, parse_and_update.     *)
(* BleLink carries the bytes; the ones it delivers are looked up in wire.  *)
(***************************************************************************)
EXTENDS BleLink, StateStore

LOCAL INSTANCE SequencesExt

CONSTANT Transmissions  \* what is notified at once: packets, and the start of another

VARIABLES
    transmitted,
    wire,       \* its bytes
    received,   \* the packets parsed and broadcast, in order
    processed,  \* how many of them the state manager has processed
    cache,      \* StateManager.state
    published   \* the updates it has broadcast

storeVars == <<processed, cache, published>>
pathVars == <<vars, transmitted, wire, received, storeVars>>

PathInit ==
    /\ Init
    /\ transmitted = << >> /\ wire = << >> /\ received = << >>
    /\ processed = 0 /\ cache = DefaultState /\ published = << >>

PacketBytes(packets) == FlattenSeq([n \in 1..Len(packets) |-> ToBytes(packets[n])])
BytesOf(t) == PacketBytes(t.packets) \o t.tail

\* The headphones notify several packets in one go.
Transmit(t) ==
    /\ Send(Len(BytesOf(t)))
    /\ transmitted' = Append(transmitted, t)
    /\ wire' = Append(wire, BytesOf(t))
    /\ UNCHANGED <<received, storeVars>>

Parsed(bytes) ==
    LET good == SelectSeq(ParseMany(bytes), LAMBDA result : result.ok)
    IN  [n \in 1..Len(good) |-> good[n].packet]

\* A notification; the packets of the transmission it completes are parsed and
\* broadcast one by one, without an await between them.
Notification ==
    /\ Feed
    /\ LET data == Last(delivered')
           bytes == [j \in 1..Len(data) |-> wire[data[j][1]][data[j][2]]]
       IN  received' = IF delivered' = delivered THEN received ELSE received \o Parsed(bytes)
    /\ UNCHANGED <<transmitted, wire, storeVars>>

\* process_packet: write, then broadcast what was written.
ProcessPacket ==
    /\ processed < Len(received)
    /\ processed' = processed + 1
    /\ LET update == UpdateOf(received[processed + 1])
       IN  IF update = None THEN UNCHANGED <<cache, published>>
           ELSE /\ cache' = Updated(cache, update[1])
                /\ published' = Append(published, update[1])
    /\ UNCHANGED <<vars, transmitted, wire, received>>

PathNext ==
    \/ \E t \in Transmissions : Transmit(t)
    \/ Notification
    \/ ProcessPacket

PathSpec == PathInit /\ [][PathNext]_pathVars /\ WF_pathVars(Notification)

-----------------------------------------------------------------------------
\* An update as the value its cell then holds.
PublishedValue(u) ==
    CASE u.field = "battery" -> u.value
      [] u.field = "audio_modes" -> Some(u.value.name)
      [] OTHER -> Some(u.value)

\* Packets of a block and operator that enums.rs knows.
Known(p) == p.function_block \in FunctionBlock /\ p.operator \in Operator

KnownIn(t) == SelectSeq(t.packets, Known)

(***************************************************************************)
(* From end to end the path is a packet stream: every packet that enums.rs *)
(* knows reaches the event bus once, unchanged and in order, whatever      *)
(* shares its transmission (packets of unknown blocks or operators, the    *)
(* start of a packet that was cut off) and however it is segmented.        *)
(***************************************************************************)
Stream == INSTANCE PacketStream WITH
    Packets <- BmapPacket,
    sent <- FlattenSeq([i \in 1..Len(transmitted) |-> KnownIn(transmitted[i])]),
    delivered <- received
ImplementsStream == Stream!Spec

(***************************************************************************)
(* The typed HeadphoneState is a store of independent cells: a packet      *)
(* writes the one it is about, a mode config that of its index, and what   *)
(* is published is what the cell then holds.                               *)
(***************************************************************************)
Cache == INSTANCE CellStore WITH
    Cells <- Cells,
    cells <- [k \in Cells |-> ValueIn(cache, k)],
    published <- [n \in 1..Len(published) |->
        <<CellOf(published[n]), PublishedValue(published[n])>>]
ImplementsCells == Cache!Spec
=============================================================================
