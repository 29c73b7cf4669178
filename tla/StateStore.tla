----------------------------- MODULE StateStore -----------------------------
(***************************************************************************)
(* HeadphoneState with its typed fields, and the two ways it is written:   *)
(* by StateManager::parse_and_update from a packet, and by                 *)
(* App::apply_update from the StateUpdate that is broadcast for it.        *)
(***************************************************************************)
EXTENDS Protocol

DefaultState ==
    [connected |-> FALSE, product_name |-> None, battery |-> << >>, cnc |-> None,
     audio_mode_index |-> None, audio_modes |-> << >>, standby_timer_minutes |-> None]

Update(field, value) == [field |-> field, value |-> value]

\* Mutant: an Error is taken for a response that carries a value.
AcceptedError(packet) == packet.operator \in {OpStatus, OpError, OpResult, OpProcessing}

\* is_response, without Error
Accepted(packet) == packet.operator \in {OpStatus, OpResult, OpProcessing}

\* The arms of parse_and_update: None when the packet is not handled or does
\* not parse.
UpdateOf(packet) ==
    LET About(block, function) == packet.function_block = block /\ packet.function = function
        Parsed(field, value) == IF value = None THEN None ELSE Some(Update(field, value[1]))
    IN  IF ~Accepted(packet) THEN None
        ELSE CASE About(Status, BatteryLevel) ->
                    Some(Update("battery", ParseBattery(packet.payload)))
               [] About(Settings, Cnc) -> Parsed("cnc", ParseCnc(packet.payload))
               [] About(Settings, ProductName) ->
                    Parsed("product_name", ParseName(packet.payload))
               [] About(Settings, StandbyTimer) ->
                    Parsed("standby_timer_minutes", ParseStandby(packet.payload))
               [] About(AudioModes, CurrentMode) ->
                    Parsed("audio_mode_index", ParseCurrentMode(packet.payload))
               [] About(AudioModes, ModeConfig) ->
                    Parsed("audio_modes", ParseModeConfig(packet.payload))
               [] OTHER -> None

\* sort_by_key(|m| m.mode_index), which is stable.
SortedByIndex(modes) ==
    LET places == 1..Len(modes)
        Before(m, n) ==
            \/ modes[m].mode_index < modes[n].mode_index
            \/ modes[m].mode_index = modes[n].mode_index /\ m < n
        order == CHOOSE p \in [places -> places] :
                    /\ \A m \in places : \E n \in places : p[n] = m
                    /\ \A m, n \in places : m < n => Before(p[m], p[n])
    IN  [n \in places |-> modes[order[n]]]

\* Mutant: a mode that is known already is pushed once more.
UpsertBlind(modes, info) == SortedByIndex(Append(modes, info))

\* Replaces the mode of that index, or pushes it and sorts.
Upsert(modes, info) ==
    IF \E n \in 1..Len(modes) : modes[n].mode_index = info.mode_index
    THEN [n \in 1..Len(modes) |->
            IF modes[n].mode_index = info.mode_index THEN info ELSE modes[n]]
    ELSE SortedByIndex(Append(modes, info))

Updated(state, update) ==
    CASE update.field = "battery" -> [state EXCEPT !.battery = update.value]
      [] update.field = "connected" -> [state EXCEPT !.connected = update.value]
      [] update.field = "audio_modes" -> [state EXCEPT !.audio_modes = Upsert(@, update.value)]
      [] OTHER -> [state EXCEPT ![update.field] = Some(update.value)]

-----------------------------------------------------------------------------
(* The state as cells that are set one at a time.                          *)

CONSTANT ModeIndices  \* the audio modes there can be

Cells ==
    {"battery", "cnc", "product_name", "standby_timer_minutes", "audio_mode_index"} \X {0}
        \cup {"audio_modes"} \X ModeIndices

CellOf(update) ==
    <<update.field, IF update.field = "audio_modes" THEN update.value.mode_index ELSE 0>>

ValueIn(state, cell) ==
    IF cell[1] # "audio_modes" THEN state[cell[1]]
    ELSE LET named == SelectSeq(state.audio_modes, LAMBDA mode : mode.mode_index = cell[2])
         IN  [n \in 1..Len(named) |-> named[n].name]
=============================================================================
