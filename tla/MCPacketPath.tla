---------------------------- MODULE MCPacketPath ----------------------------
EXTENDS PacketPath

Notify(block, function, payload) == NewPacket(block, function, OpStatus, payload)
Zeros(n) == [k \in 1..n |-> 0]

\* A mode config as the headphones send it: 48 bytes, the name padded with zeros.
ModeConfigOf(i, name) ==
    Notify(AudioModes, ModeConfig, <<i, 0, 0, 0, 0, 0>> \o name \o Zeros(42 - Len(name)))

\* A packet the daemon does not handle (Wifi), of a given size.
Sized(length) == Notify(17, 1, [k \in 1..(length - HeaderSize) |-> k % 256])

Modes == {ModeConfigOf(0, <<81>>), ModeConfigOf(1, <<65>>), ModeConfigOf(1, [k \in 1..32 |-> 66]),
          Notify(AudioModes, CurrentMode, <<1>>)}

Whole == Modes \cup {
    Notify(Status, BatteryLevel, <<85, 1, 44, 0, 40, 255, 255, 1>>),
    Notify(Status, BatteryLevel, <<85, 1>>),
    Notify(Settings, Cnc, <<5, 10, 3>>),
    Notify(Settings, Cnc, <<5, 1>>),
    Notify(Settings, ProductName, <<0, 66, 200>>),
    Notify(Settings, StandbyTimer, <<20>>),
    NewPacket(AudioModes, CurrentMode, OpProcessing, <<0>>),
    NewPacket(AudioModes, ModeConfig, OpError, <<4>>)}

\* Packets of a block and of an operator that enums.rs does not know.
Unknown == {
    Notify(23, 1, <<1, 2>>),
    NewPacket(Settings, StandbyTimer, 9, <<1>>)}

Alone(p) == [packets |-> <<p>>, tail |-> << >>]

SomeTransmissions ==
    {Alone(p) : p \in Whole}
    \cup {Alone(Sized(length)) : length \in {4, 5, 19, 20, 38, 39, 57, 58, 259}}
    \cup {[packets |-> <<p, q>>, tail |-> << >>] : p, q \in Modes}
    \cup {[packets |-> <<u, Notify(Settings, StandbyTimer, <<30>>)>>, tail |-> tail] :
            u \in Unknown, tail \in {<< >>, <<1, 4>>, <<1, 4, 3, 1>>}}
    \cup {[packets |-> <<Sized(259), Sized(length)>>, tail |-> << >>] : length \in {44, 45}}
=============================================================================
