------------------------------ MODULE Protocol ------------------------------
(***************************************************************************)
(* protocol/*.rs: the packets the daemon sends and what it reads out of    *)
(* the payloads of those it receives.  An Option is a sequence of at most  *)
(* one element; a string is the sequence of its characters' codes.         *)
(***************************************************************************)
EXTENDS PacketCodec

None == << >>
Some(v) == <<v>>

\* function blocks, functions and operators, as enums.rs numbers them
Settings == 1
ProductName == 2
StandbyTimer == 4
Cnc == 5

Status == 2
BatteryLevel == 2

Control == 7
Power == 4

AudioModes == 31
CurrentMode == 3
ModeConfig == 6

OpGet == 1
OpSetGet == 2
OpStatus == 3
OpError == 4
OpStart == 5
OpResult == 6
OpProcessing == 7

NameQuery == NewPacket(Settings, ProductName, OpGet, << >>)
BatteryQuery == NewPacket(Status, BatteryLevel, OpGet, << >>)
CncQuery == NewPacket(Settings, Cnc, OpGet, << >>)
StandbyQuery == NewPacket(Settings, StandbyTimer, OpGet, << >>)
CurrentModeQuery == NewPacket(AudioModes, CurrentMode, OpGet, << >>)
ModeConfigQuery(i) == NewPacket(AudioModes, ModeConfig, OpGet, <<i>>)

\* Mutant: the modes are numbered from one.
InitialQueriesFromOne ==
    <<NameQuery, BatteryQuery, CncQuery, CurrentModeQuery, StandbyQuery>>
        \o [i \in 1..10 |-> ModeConfigQuery(i)]

\* StateManager::initial_queries
InitialQueries ==
    <<NameQuery, BatteryQuery, CncQuery, CurrentModeQuery, StandbyQuery>>
        \o [i \in 1..10 |-> ModeConfigQuery(i - 1)]

SetCnc(level, enabled) ==
    NewPacket(Settings, Cnc, OpSetGet, <<level, IF enabled THEN 1 ELSE 0>>)
SetStandby(minutes) == NewPacket(Settings, StandbyTimer, OpSetGet, <<minutes>>)
SetCurrentMode(i) == NewPacket(AudioModes, CurrentMode, OpStart, <<i, 0>>)
PowerOff == NewPacket(Control, Power, OpStart, <<0>>)

First(s) == IF s = << >> THEN None ELSE Some(s[1])

\* Four bytes per component; a shorter payload is a percentage alone.
ParseBattery(payload) ==
    LET Reading(o) ==
            [percentage |-> payload[o],
             remaining_minutes |->
                LET raw == payload[o + 1] * 256 + payload[o + 2]
                IN  IF raw = 65535 THEN None ELSE Some(raw),
             component_id |-> payload[o + 3]]
    IN  IF Len(payload) \in 1..3
        THEN <<[percentage |-> payload[1], remaining_minutes |-> None, component_id |-> 0]>>
        ELSE [n \in 1..(Len(payload) \div 4) |-> Reading(4 * n - 3)]

ParseCnc(payload) ==
    IF Len(payload) < 3 THEN None
    ELSE Some([current_step |-> payload[1],
               total_steps |-> payload[2],
               enabled |-> payload[3] % 2 = 1,
               user_enable_disable |-> (payload[3] \div 2) % 2 = 0])

\* from_utf8_lossy on ASCII and on bytes that belong to no UTF-8 sequence.
Lossy(bytes) == [n \in 1..Len(bytes) |-> IF bytes[n] < 128 THEN bytes[n] ELSE 65533]

\* payload.iter().filter(|b| b != 0)
NonZero(payload) ==
    LET kept[n \in 0..Len(payload)] ==
            IF n = 0 THEN << >>
            ELSE IF payload[n] = 0 THEN kept[n - 1] ELSE Append(kept[n - 1], payload[n])
    IN  kept[Len(payload)]

ParseName(payload) == Some(Lossy(NonZero(payload)))

ParseStandby(payload) == First(payload)

ParseCurrentMode(payload) == First(payload)

\* The name is bytes 6 to 37 of the payload, up to its first zero.
ParseModeConfig(payload) ==
    IF Len(payload) < 7 THEN None
    ELSE LET end == IF Len(payload) < 38 THEN Len(payload) ELSE 38
             Zero(n) == payload[n] = 0 /\ \A k \in 7..(n - 1) : payload[k] # 0
             last == IF \E n \in 7..end : Zero(n)
                     THEN (CHOOSE n \in 7..end : Zero(n)) - 1
                     ELSE end
         IN  Some([mode_index |-> payload[1], name |-> Lossy(SubSeq(payload, 7, last))])
=============================================================================
