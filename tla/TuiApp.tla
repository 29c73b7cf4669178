------------------------------- MODULE TuiApp -------------------------------
(***************************************************************************)
(* What the keys of the terminal UI do to the headphones: input.rs and     *)
(* App (app.rs), with the packets that handle_request and initial_queries  *)
(* make, and what ui.rs draws of the answers.                              *)
(*                                                                         *)
(* Between App and the headphones there are two queues: BozoSystem shows   *)
(* that the daemon hands commands down and updates up in order, and        *)
(* PacketPath that parse_and_update turns every answer into its update.    *)
(***************************************************************************)
EXTENDS Segmentation, StateStore

LOCAL INSTANCE SequencesExt

CONSTANTS
    Devices,      \* headphones, as they are when the TUI starts
    Keys,         \* bound: the keys that are pressed
    MaxCommands,  \* bound: commands on their way when a key is pressed
    MaxAnswers,   \* bound: answers on their way
    MaxTurns      \* bound: times the mode button is used

\* SegmentDataSize is 19 in the code; the longest command has six bytes.
ASSUME TuiAssumption ==
    /\ \A d \in Devices :
        /\ d \in [modes : SUBSET Byte, current : Byte, standby : Byte, on : {TRUE}]
        /\ d.current \in d.modes
    /\ MaxCommands \in Nat /\ MaxAnswers \in Nat /\ MaxTurns \in Nat
    /\ SegmentDataSize >= HeaderSize + 2

VARIABLES
    device,    \* external: [modes, current, standby, on]
    turns,
    asked,     \* how many initial queries the daemon has sent
    commands,  \* packets on their way to the headphones
    answers,   \* packets on their way back
    state,     \* App.state
    confirm,
    tui        \* "running", "quit" (should_quit) or "panicked"

deviceVars == <<device, turns>>
vars == <<deviceVars, asked, commands, answers, state, confirm, tui>>

Init ==
    /\ device \in Devices /\ turns = 0
    /\ asked = 0 /\ commands = << >> /\ answers = << >>
    /\ state = DefaultState
    /\ confirm = FALSE /\ tui = "running"

-----------------------------------------------------------------------------
(* The daemon and the headphones.                                          *)

\* main sends the next of initial_queries.
SendQuery ==
    /\ asked < Len(InitialQueries) /\ Len(commands) < MaxCommands
    /\ asked' = asked + 1
    /\ commands' = Append(commands, InitialQueries[asked + 1])
    /\ UNCHANGED <<deviceVars, answers, state, confirm, tui>>

About(p, block, function) == p.function_block = block /\ p.function = function
Answer(p, operator, payload) == NewPacket(p.function_block, p.function, operator, payload)
NameOf(i) == <<65 + i>>
ProductNameBytes == <<81, 67>>
ModeConfigPayload(i) == <<i, 0, 0, 0, 0, 0>> \o NameOf(i) \o <<0>>

\* What a command changes in headphones d.
Changed(d, p) ==
    CASE About(p, Control, Power) -> [d EXCEPT !.on = FALSE]
      [] About(p, Settings, StandbyTimer) /\ p.operator = OpSetGet ->
            [d EXCEPT !.standby = p.payload[1]]
      [] About(p, AudioModes, CurrentMode) /\ p.operator = OpStart /\ p.payload[1] \in d.modes ->
            [d EXCEPT !.current = p.payload[1]]
      [] OTHER -> d

\* What headphones d, changed already, answer: an Error for a mode they do not have.
AnswerTo(d, p) ==
    LET Value == CASE About(p, Settings, ProductName) -> ProductNameBytes
                   [] About(p, Settings, StandbyTimer) -> <<d.standby>>
                   [] About(p, Settings, Cnc) -> <<5, 10, 3>>
                   [] About(p, Status, BatteryLevel) -> <<85, 1, 44, 0>>
                   [] About(p, AudioModes, CurrentMode) -> <<d.current>>
                   [] OTHER -> ModeConfigPayload(p.payload[1])
    IN  IF p.function_block = AudioModes /\ p.payload # << >> /\ p.payload[1] \notin d.modes
        THEN Answer(p, OpError, <<4>>)
        ELSE Answer(p, IF p.operator = OpStart THEN OpResult ELSE OpStatus, Value)

DeviceStep ==
    /\ device.on /\ commands # << >> /\ Len(answers) < MaxAnswers
    /\ device' = Changed(device, Head(commands))
    /\ answers' = IF ~device'.on THEN answers
                  ELSE Append(answers, AnswerTo(device', Head(commands)))
    /\ commands' = Tail(commands)
    /\ UNCHANGED <<turns, asked, state, confirm, tui>>

\* The mode button: the headphones announce the mode they change to.
Turn ==
    /\ device.on /\ turns < MaxTurns /\ Len(answers) < MaxAnswers
    /\ turns' = turns + 1
    /\ \E i \in device.modes : device' = [device EXCEPT !.current = i]
    /\ answers' = Append(answers, AnswerTo(device', CurrentModeQuery))
    /\ UNCHANGED <<asked, commands, state, confirm, tui>>

-----------------------------------------------------------------------------
(* App.                                                                    *)

\* The next update the daemon makes of an answer, if it makes one.
PollIpc ==
    /\ tui = "running" /\ answers # << >>
    /\ answers' = Tail(answers)
    /\ LET update == UpdateOf(Head(answers))
       IN  state' = IF update = None THEN state ELSE Updated(state, update[1])
    /\ UNCHANGED <<deviceVars, asked, commands, confirm, tui>>

Request(packet) == commands' = Append(commands, packet)

\* A mode is asked for unless it is the current one.
RequestMode(i) ==
    IF <<i>> # state.audio_mode_index THEN Request(SetCurrentMode(i)) ELSE UNCHANGED commands

\* Mutant: the index is widened, as if it had not been cast to a signed byte.
AsI16(n) == n

AsI8(n) == IF n < 128 THEN n ELSE n - 256
NotNegative(n) == IF n < 0 THEN 0 ELSE n

\* current as i8 + delta: a sum that is no i8 panics in a debug build and wraps
\* around in a release build.
AdjustRawIndex(delta) ==
    LET sum == AsI8(state.audio_mode_index[1]) + delta
    IN  \/ /\ sum \in -128..127
           /\ RequestMode(NotNegative(sum)) /\ UNCHANGED tui
       \/ /\ sum \notin -128..127
           /\ RequestMode(NotNegative(AsI8(sum % 256))) /\ UNCHANGED tui
       \/ /\ sum \notin -128..127
           /\ tui' = "panicked" /\ UNCHANGED commands

\* Mutant: the mode's index is taken for its position.
PositionByIndex(modes, i) == IF i < Len(modes) THEN i ELSE 0

\* Positions count from zero; a mode that is not in the list is at position 0.
Position(modes, i) ==
    IF \E n \in 1..Len(modes) : modes[n].mode_index = i
    THEN (CHOOSE n \in 1..Len(modes) : modes[n].mode_index = i) - 1
    ELSE 0

CycleModes(delta) ==
    LET modes == state.audio_modes
        new_pos == (Position(modes, state.audio_mode_index[1]) + Len(modes) + delta) % Len(modes)
    IN  RequestMode(modes[new_pos + 1].mode_index) /\ UNCHANGED tui

\* Mutant: the raw index is adjusted even when the modes are known.
AudioModeAdjustRaw(delta) ==
    IF state.audio_mode_index = None THEN UNCHANGED <<commands, tui>>
    ELSE AdjustRawIndex(delta)

AudioModeAdjust(delta) ==
    IF state.audio_mode_index = None THEN UNCHANGED <<commands, tui>>
    ELSE IF state.audio_modes = << >> THEN AdjustRawIndex(delta)
    ELSE CycleModes(delta)

StandbyOptions == <<0, 5, 10, 20, 30, 60, 120>>

\* Mutant: the option that is not below the current one.
NextOptionFrom(current) ==
    LET n == SelectInSeq(StandbyOptions, LAMBDA o : o >= current)
    IN  StandbyOptions[IF n = 0 THEN 1 ELSE n]

NextOption(current) ==
    LET n == SelectInSeq(StandbyOptions, LAMBDA o : o > current)
    IN  StandbyOptions[IF n = 0 THEN 1 ELSE n]

\* A key that is read when no dialog is open.
Key(k) ==
    /\ k \in Keys /\ tui = "running" /\ ~confirm /\ Len(commands) < MaxCommands
    /\ UNCHANGED <<deviceVars, asked, answers, state>>

Plus == Key("+") /\ AudioModeAdjust(1) /\ UNCHANGED <<confirm>>
Minus == Key("-") /\ AudioModeAdjust(-1) /\ UNCHANGED <<confirm>>

StandbyCycle ==
    /\ Key("t")
    /\ LET minutes == state.standby_timer_minutes
       IN  Request(SetStandby(NextOption(IF minutes = None THEN 0 ELSE minutes[1])))
    /\ UNCHANGED <<confirm, tui>>

AskPowerOff == Key("p") /\ confirm' = TRUE /\ UNCHANGED <<commands, tui>>

Quit == Key("q") /\ tui' = "quit" /\ UNCHANGED <<commands, confirm>>

\* The keys of the dialog: y, and n or Esc.
AnswerDialog ==
    /\ tui = "running" /\ confirm /\ Len(commands) < MaxCommands
    /\ confirm' = FALSE
    /\ Request(PowerOff) \/ UNCHANGED commands
    /\ UNCHANGED <<deviceVars, asked, answers, state, tui>>

Next ==
    \/ SendQuery \/ DeviceStep \/ Turn \/ PollIpc
    \/ Plus \/ Minus \/ StandbyCycle
    \/ AskPowerOff \/ AnswerDialog \/ Quit

\* The tasks run on; nobody has to press a key.
Fairness == WF_vars(SendQuery) /\ WF_vars(DeviceStep) /\ WF_vars(PollIpc)

Spec == Init /\ [][Next]_vars /\ Fairness

-----------------------------------------------------------------------------
(* ui.rs: what is drawn of the state.  (The connection, which the header   *)
(* shows too, is BozoSystem's.)                                            *)

DrawHeader == state.product_name

DrawBattery == First(state.battery)

\* The names of the modes, which of them are highlighted, and the bare index
\* that is drawn when no mode is known.
DrawAudioMode ==
    [modes |-> [n \in 1..Len(state.audio_modes) |-> state.audio_modes[n].name],
     active |-> {n \in 1..Len(state.audio_modes) :
                    state.audio_mode_index = Some(state.audio_modes[n].mode_index)},
     raw |-> IF state.audio_modes = << >> THEN state.audio_mode_index ELSE None]

DrawStandby == state.standby_timer_minutes

DrawStatus == confirm

Screen == <<DrawHeader, DrawBattery, DrawAudioMode, DrawStandby, DrawStatus>>

-----------------------------------------------------------------------------
(* Properties.                                                             *)

IndicesIn(modes) == {modes[n].mode_index : n \in 1..Len(modes)}

(***************************************************************************)
(* Every variable has its type; the current mode and the discovered ones   *)
(* are modes the headphones have, the latter sorted and without doubles.   *)
(***************************************************************************)
TypeOK ==
    /\ device.modes \subseteq Byte /\ device.current \in Byte /\ device.standby \in Byte
    /\ turns \in 0..MaxTurns /\ asked \in 0..Len(InitialQueries)
    /\ Len(commands) <= MaxCommands /\ Len(answers) <= MaxAnswers
    /\ {state.audio_mode_index[1] : n \in 1..Len(state.audio_mode_index)} \subseteq device.modes
    /\ IndicesIn(state.audio_modes) \subseteq device.modes
    /\ \A m, n \in 1..Len(state.audio_modes) :
        m < n => state.audio_modes[m].mode_index < state.audio_modes[n].mode_index
    /\ confirm \in BOOLEAN
    /\ tui \in {"running", "quit", "panicked"}

\* All initial queries are answered, nothing is under way and no dialog is open.
Quiet ==
    /\ tui = "running" /\ ~confirm /\ device.on
    /\ asked = Len(InitialQueries) /\ commands = << >> /\ answers = << >>

\* The modes initial_queries asks about.
Discoverable == device.modes \cap 0..9

(***************************************************************************)
(* Once nothing is under way the screen tells what the headphones are:     *)
(* whatever was pressed, in the TUI or on the headphones, before, during   *)
(* and after discovery, it lists each mode initial_queries can discover    *)
(* once, and highlights the one they are in, if it is one of these.        *)
(***************************************************************************)
ScreenTrue ==
    Quiet =>
        \E indices \in [1..Len(state.audio_modes) -> Discoverable] :
            /\ \A i \in Discoverable : \E n \in DOMAIN indices : indices[n] = i
            /\ \A m, n \in DOMAIN indices : m < n => indices[m] < indices[n]
            /\ Screen =
                <<Some(ProductNameBytes),
                  Some([percentage |-> 85, remaining_minutes |-> Some(300), component_id |-> 0]),
                  [modes |-> [n \in DOMAIN indices |-> NameOf(indices[n])],
                   active |-> {n \in DOMAIN indices : indices[n] = device.current},
                   raw |-> IF indices = << >> THEN Some(device.current) ELSE None],
                  Some(device.standby),
                  FALSE>>

(***************************************************************************)
(* AudioModeAdjust adds to an i8: where overflow is checked, the sum can   *)
(* end the TUI.  A key press ends it in one case only: no mode has been    *)
(* discovered, and the headphones have been in a mode they number 127 or   *)
(* 128, at the ends of an i8.                                              *)
(***************************************************************************)
PanicHasCause ==
    tui = "panicked" =>
        /\ state.audio_modes = << >>
        /\ \E i \in device.modes \cap {127, 128} : state.audio_mode_index = Some(i)

(***************************************************************************)
(* send_packet gives up in the middle when a write fails.  No packet that  *)
(* is sent has a middle: a query and a command go out as one segment, that *)
(* can be parsed back, so the headphones never hold half a command.        *)
(***************************************************************************)
CommandsWhole ==
    \A n \in 1..Len(commands) :
        LET bytes == ToBytes(commands[n])
        IN  /\ Segment(bytes) = << <<0>> \o bytes >>
            /\ FromBytes(bytes) = Ok(commands[n])

(***************************************************************************)
(* As soon as one mode is discovered, a key press asks for a mode the      *)
(* headphones have: discovery may be half done, and the current mode may   *)
(* not be among the modes it has found or can ever find.                   *)
(***************************************************************************)
AskedModesExist ==
    [][(Plus \/ Minus) /\ state.audio_modes # << >> /\ commands' # commands
        => Last(commands').payload[1] \in device.modes]_vars

(***************************************************************************)
(* A user who goes on pressing + when the last press has come through, and *)
(* presses as often as he likes before that, on a view that is out of      *)
(* date, comes back to every discovered mode again and again, if he leaves *)
(* - alone.                                                                *)
(***************************************************************************)
PlusTours ==
    SF_vars(Plus /\ Quiet) /\ []<>Quiet /\ <>[][~Minus]_vars
        => \A i \in UNION {d.modes : d \in Devices} :
            []<>(i \in Discoverable => device.current = i)

\* In the same way t comes back to every option of the standby timer,
\* whatever the timer was set to before.
StandbyTours ==
    []<><<StandbyCycle /\ Quiet>>_vars
        => \A n \in 1..Len(StandbyOptions) : []<>(device.standby = StandbyOptions[n])
=============================================================================
