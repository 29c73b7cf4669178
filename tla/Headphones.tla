------------------------------ MODULE Headphones ------------------------------
(***************************************************************************)
(* The headphones and the BLE link, as far as bozod depends on them.       *)
(* External to the repository: the device answers Get with Status (or      *)
(* Error for what it does not support), answers Set with Status, with      *)
(* Processing then Result, or with Error, and announces a change made on   *)
(* the device itself.  A notification reaches the daemon only while the    *)
(* notification stream is open.                                            *)
(***************************************************************************)
EXTENDS BozoTypes

CONSTANTS
    MaxPresses,       \* bound: changes and stray packets the device produces by itself
    MaxWriteFailures  \* bound: characteristic writes that fail

ASSUME HeadphonesAssumption == MaxPresses \in Nat /\ MaxWriteFailures \in Nat

VARIABLES
    device,    \* device[k]: the value the headphones hold for cell k
    air,       \* notifications in the stream, oldest first
    link,      \* "down", "up" (connected), "streaming" (notifications open), "lost"
    presses,
    failures

headphoneVars == <<device, air, link, presses, failures>>

HeadphonesTypeOK ==
    /\ device \in [Cells -> Values]
    /\ air \in Seq(Packet)
    /\ link \in {"down", "up", "streaming", "lost"}
    /\ presses \in 0..MaxPresses
    /\ failures \in 0..MaxWriteFailures

HeadphonesInit ==
    /\ device \in [Cells -> Values]
    /\ air = << >>
    /\ link = "down"
    /\ presses = 0
    /\ failures = 0

Notify(ps) == air' = IF link = "streaming" THEN air \o ps ELSE air

Answer(cell) ==
    BmapPacket(IF cell \in Supported THEN "Status" ELSE "Error", cell,
               IF cell \in Supported THEN device[cell] ELSE Malformed)

\* A write of packet p arrived.
React(p) ==
    \/ /\ p.op = "Get"
       /\ Notify(<<Answer(p.field)>>)
       /\ UNCHANGED <<device, link>>
    \/ /\ p.op = "Set"
       /\ device' = [device EXCEPT ![p.field] = p.value]
       /\ \/ Notify(<<BmapPacket("Status", p.field, p.value)>>)
          \/ Notify(<<BmapPacket("Processing", p.field, p.value),
                      BmapPacket("Result", p.field, p.value)>>)
       /\ UNCHANGED link
    \/ /\ p.op = "Set"
       /\ Notify(<<BmapPacket("Error", p.field, Malformed)>>)
       /\ UNCHANGED <<device, link>>
    \/ /\ p.op = "Start"
       /\ link' = "lost"
       /\ UNCHANGED <<device, air>>

\* The wearer changes something on the device (mode button, app on a phone, battery drain).
\* Before the link is up that is another initial device, after it nobody can tell.
Press(k, v) ==
    /\ presses < MaxPresses
    /\ link \in {"up", "streaming"}
    /\ k \in Supported /\ device[k] # v
    /\ presses' = presses + 1
    /\ device' = [device EXCEPT ![k] = v]
    /\ Notify(<<BmapPacket("Status", k, v)>>)
    /\ UNCHANGED <<link, failures>>

\* A notification about something bozod does not track, or cannot decode.
Stray(p) ==
    /\ presses < MaxPresses
    /\ link = "streaming"
    /\ presses' = presses + 1
    /\ Notify(<<p>>)
    /\ UNCHANGED <<device, link, failures>>

StrayPackets ==
    {BmapPacket("Status", "other", None)}
        \cup {BmapPacket("Status", k, Malformed) : k \in Cells}

LoseLink ==
    /\ link \in {"up", "streaming"}
    /\ link' = "lost"
    /\ UNCHANGED <<device, air, presses, failures>>

HeadphonesNext ==
    \/ \E k \in Cells, v \in Values : Press(k, v)
    \/ \E p \in StrayPackets : Stray(p)
    \/ LoseLink
=============================================================================
