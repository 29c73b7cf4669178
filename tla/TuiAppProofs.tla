---------------------------- MODULE TuiAppProofs ----------------------------
(***************************************************************************)
(* What is proved of TuiApp, for all headphones, keys and bounds, and      *)
(* every segment that holds the longest command: the commands are whole,   *)
(* the modes that are asked for exist, and once nothing is under way the   *)
(* screen shows the headphones as they are.                                *)
(***************************************************************************)
EXTENDS TuiApp, PacketCodecProofs, SequenceFacts

LOCAL INSTANCE SequencesExt

\* The commands there are, and the answers headphones with these modes give.
ModeQueries == {ModeConfigQuery(i) : i \in 0..9}
Queries == {NameQuery, BatteryQuery, CncQuery, StandbyQuery, CurrentModeQuery} \cup ModeQueries
Commands ==
    Queries \cup {SetStandby(m) : m \in Byte} \cup {SetCurrentMode(i) : i \in Byte} \cup {PowerOff}

NameAnswer == Answer(NameQuery, OpStatus, ProductNameBytes)
BatteryAnswer == Answer(BatteryQuery, OpStatus, <<85, 1, 44, 0>>)
CncAnswer == Answer(CncQuery, OpStatus, <<5, 10, 3>>)
StandbyAnswer(m) == Answer(StandbyQuery, OpStatus, <<m>>)
CurrentAnswer(operator, i) == Answer(CurrentModeQuery, operator, <<i>>)
ModeAnswer(i) == Answer(ModeConfigQuery(i), OpStatus, ModeConfigPayload(i))
Refusal(function) == NewPacket(AudioModes, function, OpError, <<4>>)

StandbyNews == {StandbyAnswer(m) : m \in Byte}
CurrentNews(modes) == {CurrentAnswer(operator, i) : operator \in {OpStatus, OpResult}, i \in modes}
ModeAnswers(modes) == {ModeAnswer(i) : i \in modes \cap 0..9}
Answers(modes) ==
    {NameAnswer, BatteryAnswer, CncAnswer} \cup StandbyNews \cup CurrentNews(modes)
        \cup ModeAnswers(modes) \cup {Refusal(CurrentMode), Refusal(ModeConfig)}

\* What App makes of them.
BatteryView == <<[percentage |-> 85, remaining_minutes |-> Some(300), component_id |-> 0]>>
CncView == [current_step |-> 5, total_steps |-> 10, enabled |-> TRUE, user_enable_disable |-> FALSE]
ModeView(i) == [mode_index |-> i, name |-> NameOf(i)]
ModeViews(modes) == {ModeView(i) : i \in modes \cap 0..9}
Views(modes) ==
    [connected : BOOLEAN,
     product_name : {None, Some(ProductNameBytes)},
     battery : {None, BatteryView},
     cnc : {None, Some(CncView)},
     audio_mode_index : {None} \cup {Some(i) : i \in modes},
     audio_modes : Seq(ModeViews(modes)),
     standby_timer_minutes : {None} \cup {Some(m) : m \in Byte}]

Headphones == [modes : SUBSET Byte, current : Byte, standby : Byte, on : BOOLEAN]

Ascending(modes) ==
    \A m, n \in 1..Len(modes) : m < n => modes[m].mode_index < modes[n].mode_index

Shapes ==
    /\ device \in Headphones /\ device.current \in device.modes
    /\ turns \in 0..MaxTurns /\ asked \in 0..15
    /\ commands \in Seq(Commands) /\ Len(commands) <= MaxCommands
    /\ answers \in Seq(Answers(device.modes)) /\ Len(answers) <= MaxAnswers
    /\ state \in Views(device.modes) /\ Ascending(state.audio_modes)
    /\ confirm \in BOOLEAN /\ tui \in {"running", "quit", "panicked"}

\* Of a queue: x is in it; none of T is in it; the last of T in it is one of G.
Has(q, x) == \E n \in 1..Len(q) : q[n] = x
Lacks(q, T) == \A n \in 1..Len(q) : q[n] \notin T
Ends(q, T, G) ==
    \E m \in 1..Len(q) : q[m] \in G /\ \A n \in (m + 1)..Len(q) : q[n] \notin T

\* What was asked for is asked for still, or answered, or in the view.
NameComes ==
    asked >= 1 => Has(commands, NameQuery) \/ Has(answers, NameAnswer) \/ state.product_name # None
BatteryComes ==
    asked >= 2 => Has(commands, BatteryQuery) \/ Has(answers, BatteryAnswer) \/ state.battery # None
ModesCome ==
    \A i \in Discoverable : asked >= i + 6 =>
        \/ Has(commands, ModeConfigQuery(i))
        \/ Has(answers, ModeAnswer(i))
        \/ \E n \in 1..Len(state.audio_modes) : state.audio_modes[n].mode_index = i

\* What changes is told each time: the last answer is the one that counts.
CurrentTruth == {CurrentAnswer(operator, device.current) : operator \in {OpStatus, OpResult}}
CurrentComes ==
    asked >= 4 =>
        \/ Has(commands, CurrentModeQuery)
        \/ Ends(answers, CurrentNews(device.modes), CurrentTruth)
        \/ /\ Lacks(answers, CurrentNews(device.modes))
           /\ state.audio_mode_index = Some(device.current)
StandbyTruth == {StandbyAnswer(device.standby)}
StandbyComes ==
    asked >= 5 =>
        \/ Has(commands, StandbyQuery)
        \/ Ends(answers, StandbyNews, StandbyTruth)
        \/ Lacks(answers, StandbyNews) /\ state.standby_timer_minutes = Some(device.standby)

AppInv == Shapes /\ NameComes /\ BatteryComes /\ ModesCome /\ CurrentComes /\ StandbyComes

-----------------------------------------------------------------------------
(* The sorted list of modes.                                               *)

\* Some order of the places sorts a list to which one new mode was appended.
LEMMA OrderExists ==
    ASSUME NEW Info, \A x \in Info : x.mode_index \in Nat,
           NEW modes \in Seq(Info), Ascending(modes),
           NEW info \in Info, \A n \in 1..Len(modes) : modes[n].mode_index # info.mode_index,
           NEW s, s = Append(modes, info), NEW N, N = Len(modes)
    PROVE  \E p \in [1..(N + 1) -> 1..(N + 1)] :
             /\ \A m \in 1..(N + 1) : \E n \in 1..(N + 1) : p[n] = m
             /\ \A m, n \in 1..(N + 1) : m < n => s[p[m]].mode_index < s[p[n]].mode_index
<1>1. N \in Nat /\ \A n \in 1..N : modes[n] \in Info /\ modes[n].mode_index \in Nat
  OBVIOUS
<1>2. s[N + 1] = info /\ info.mode_index \in Nat /\ \A n \in 1..N : s[n] = modes[n]
  OBVIOUS
<1> DEFINE T == {n \in 1..(N + 1) : n = N + 1 \/ info.mode_index < modes[n].mode_index}
<1>3. T \in SUBSET Nat /\ N + 1 \in T
  BY <1>1
<1>4. PICK k \in T : \A n \in T : k <= n
  BY <1>3, Least
<1>5. k \in 1..(N + 1) /\ (k = N + 1 \/ info.mode_index < modes[k].mode_index)
  BY <1>4
<1>6. ASSUME NEW n \in 1..N, n < k PROVE modes[n].mode_index < info.mode_index
  <2>1. n \notin T
    BY <1>1, <1>4, <1>5, <1>6
  <2>2. ~(info.mode_index < modes[n].mode_index) /\ modes[n].mode_index # info.mode_index
    BY <1>1, <2>1
  <2> QED BY <1>1, <1>2, <2>2
<1>7. ASSUME NEW n \in 1..N, n >= k PROVE info.mode_index < modes[n].mode_index
  <2>1. k \in 1..N /\ info.mode_index < modes[k].mode_index
    BY <1>1, <1>5, <1>7
  <2>2. k < n => modes[k].mode_index < modes[n].mode_index
    BY <2>1 DEF Ascending
  <2>3. modes[k].mode_index \in Nat /\ modes[n].mode_index \in Nat
    BY <1>1, <2>1
  <2> QED BY <1>1, <1>2, <1>7, <2>1, <2>2, <2>3
<1> HIDE DEF T
<1> DEFINE p == [n \in 1..(N + 1) |-> IF n < k THEN n ELSE IF n = k THEN N + 1 ELSE n - 1]
<1>8. p \in [1..(N + 1) -> 1..(N + 1)]
  BY <1>1, <1>5
<1>10. ASSUME NEW b \in 1..(N + 1) PROVE \E a \in 1..(N + 1) : p[a] = b
  <2>1. CASE b < k
    BY <1>1, <1>5, <2>1
  <2>2. CASE b = N + 1
    BY <1>1, <1>5, <2>2
  <2>3. CASE b >= k /\ b # N + 1
    <3>1. b + 1 \in 1..(N + 1) /\ p[b + 1] = b
      BY <1>1, <1>5, <2>3
    <3> QED BY <3>1
  <2> QED BY <1>1, <1>5, <2>1, <2>2, <2>3
<1>9. ASSUME NEW m \in 1..(N + 1), NEW n \in 1..(N + 1), m < n
      PROVE  s[p[m]].mode_index < s[p[n]].mode_index
  <2>1. CASE n < k
    <3>1. p[m] = m /\ p[n] = n /\ m \in 1..N /\ n \in 1..N
      BY <1>1, <1>5, <1>9, <2>1
    <3> QED BY <1>2, <1>9, <3>1 DEF Ascending
  <2>2. CASE n = k
    <3>1. p[m] = m /\ p[n] = N + 1 /\ m \in 1..N /\ m < k
      BY <1>1, <1>5, <1>9, <2>2
    <3> QED BY <1>2, <1>6, <3>1
  <2>3. CASE m = k
    <3>1. p[m] = N + 1 /\ p[n] = n - 1 /\ n - 1 \in 1..N /\ n - 1 >= k
      BY <1>1, <1>5, <1>9, <2>3
    <3> QED BY <1>2, <1>7, <3>1
  <2>4. CASE m < k /\ n > k
    <3>1. p[m] = m /\ p[n] = n - 1 /\ m \in 1..N /\ n - 1 \in 1..N /\ n - 1 >= k
      BY <1>1, <1>5, <1>9, <2>4
    <3>2. m < n - 1
      BY <1>1, <1>5, <2>4
    <3> QED BY <1>2, <3>1, <3>2 DEF Ascending
  <2>5. CASE m > k
    <3>1. p[m] = m - 1 /\ p[n] = n - 1 /\ m - 1 \in 1..N /\ n - 1 \in 1..N /\ m - 1 < n - 1
      BY <1>1, <1>5, <1>9, <2>5
    <3> QED BY <1>2, <3>1 DEF Ascending
  <2> QED BY <1>1, <1>5, <1>9, <2>1, <2>2, <2>3, <2>4, <2>5
<1> HIDE DEF p
<1> QED BY <1>8, <1>9, <1>10

\* push and sort_by_key: the list stays sorted, and holds what it held and the new mode.
LEMMA SortedAppend ==
    ASSUME NEW Info, \A x \in Info : x.mode_index \in Nat,
           NEW modes \in Seq(Info), Ascending(modes),
           NEW info \in Info, \A n \in 1..Len(modes) : modes[n].mode_index # info.mode_index
    PROVE  \E t \in Seq(Info) :
             /\ t = SortedByIndex(Append(modes, info)) /\ Ascending(t)
             /\ \E n \in 1..Len(t) : t[n] = info
             /\ \A m \in 1..Len(modes) : \E n \in 1..Len(t) : t[n] = modes[m]
             /\ \A n \in 1..Len(t) : t[n] = info \/ \E m \in 1..Len(modes) : t[n] = modes[m]
<1> DEFINE s == Append(modes, info)
           N == Len(modes)
           places == 1..Len(s)
           Before(m, n) ==
                \/ s[m].mode_index < s[n].mode_index
                \/ s[m].mode_index = s[n].mode_index /\ m < n
           Sorts(p) ==
                /\ \A m \in places : \E n \in places : p[n] = m
                /\ \A m, n \in places : m < n => Before(p[m], p[n])
           order == CHOOSE p \in [places -> places] : Sorts(p)
<1>1. N \in Nat /\ Len(s) = N + 1 /\ s[N + 1] = info /\ \A n \in 1..N : s[n] = modes[n]
  OBVIOUS
<1>2. \A n \in 1..(N + 1) : s[n] \in Info /\ s[n].mode_index \in Nat
  BY <1>1
<1>3. \A m, n \in 1..(N + 1) : m # n => s[m].mode_index # s[n].mode_index
  <2>1. \A m, n \in 1..N : m # n => modes[m].mode_index # modes[n].mode_index
    <3> SUFFICES ASSUME NEW m \in 1..N, NEW n \in 1..N, m # n
                 PROVE  modes[m].mode_index # modes[n].mode_index
      OBVIOUS
    <3>1. modes[m].mode_index \in Nat /\ modes[n].mode_index \in Nat
      OBVIOUS
    <3>2. modes[m].mode_index < modes[n].mode_index \/ modes[n].mode_index < modes[m].mode_index
      BY DEF Ascending
    <3> QED BY <3>1, <3>2
  <2> QED BY <1>1, <2>1
<1>4. PICK t : t = SortedByIndex(s) /\ t = [n \in places |-> s[order[n]]]
  BY DEF SortedByIndex
<1>5. \E p \in [places -> places] : Sorts(p)
  <2>1. \E p \in [1..(N + 1) -> 1..(N + 1)] :
          /\ \A m \in 1..(N + 1) : \E n \in 1..(N + 1) : p[n] = m
          /\ \A m, n \in 1..(N + 1) : m < n => s[p[m]].mode_index < s[p[n]].mode_index
    <3> HIDE DEF s
    <3>1. s = Append(modes, info)
      BY DEF s
    <3> QED BY <3>1, OrderExists
  <2> HIDE DEF s
  <2> QED BY <1>1, <2>1
<1>6. order \in [places -> places] /\ Sorts(order)
  <2> HIDE DEF s, places, Sorts
  <2> QED BY <1>5
<1> HIDE DEF order, s
<1>7. PICK q : q = order
  OBVIOUS
<1>8. /\ q \in [1..(N + 1) -> 1..(N + 1)]
      /\ \A b \in 1..(N + 1) : \E a \in 1..(N + 1) : q[a] = b
      /\ \A m, n \in 1..(N + 1) : m < n => Before(q[m], q[n])
  BY <1>1, <1>6, <1>7
<1>9. t = [n \in 1..(N + 1) |-> s[q[n]]]
  BY <1>1, <1>4, <1>7
<1>10. t \in Seq(Info) /\ Len(t) = N + 1 /\ \A n \in 1..(N + 1) : t[n] = s[q[n]]
  BY <1>1, <1>2, <1>8, <1>9
<1>11. Ascending(t)
  <2> SUFFICES ASSUME NEW m \in 1..(N + 1), NEW n \in 1..(N + 1), m < n
               PROVE  t[m].mode_index < t[n].mode_index
    BY <1>10 DEF Ascending
  <2>1. q[m] \in 1..(N + 1) /\ q[n] \in 1..(N + 1) /\ Before(q[m], q[n])
    BY <1>8
  <2>3. q[m] # q[n]
    BY <1>2, <2>1
  <2>2. s[q[m]].mode_index # s[q[n]].mode_index
    BY <1>3, <2>1, <2>3
  <2> QED BY <1>10, <2>1, <2>2
<1>12. \E n \in 1..(N + 1) : t[n] = info
  <2>1. N + 1 \in 1..(N + 1) /\ s[N + 1] = info
    BY <1>1
  <2>2. PICK n \in 1..(N + 1) : q[n] = N + 1
    BY <1>8, <2>1
  <2> QED BY <1>10, <2>1, <2>2
<1>13. ASSUME NEW m \in 1..N PROVE \E n \in 1..(N + 1) : t[n] = modes[m]
  <2>1. m \in 1..(N + 1)
    BY <1>1
  <2>2. PICK a \in 1..(N + 1) : q[a] = m
    BY <1>8, <2>1
  <2>3. t[a] = s[m] /\ s[m] = modes[m]
    BY <1>1, <1>10, <2>2
  <2> QED BY <2>3
<1>14. ASSUME NEW n \in 1..(N + 1) PROVE t[n] = info \/ \E m \in 1..N : t[n] = modes[m]
  <2>1. PICK a \in 1..(N + 1) : q[n] = a
    BY <1>8
  <2>2. t[n] = s[a]
    BY <1>10, <2>1
  <2>3. CASE a = N + 1
    BY <1>1, <2>2, <2>3
  <2>4. CASE a \in 1..N
    BY <1>1, <2>2, <2>4
  <2> QED BY <1>1, <2>3, <2>4
<1>15. t = SortedByIndex(Append(modes, info))
  BY <1>4 DEF s
<1> QED BY <1>10, <1>11, <1>12, <1>13, <1>14, <1>15

\* Upsert: sorted, each mode once, none forgotten, the new one among them.
Merged(r, modes, info, Info) ==
    /\ r \in Seq(Info) /\ Ascending(r)
    /\ \E n \in 1..Len(r) : r[n] = info
    /\ \A m \in 1..Len(modes) : \E n \in 1..Len(r) : r[n].mode_index = modes[m].mode_index

LEMMA Upserted ==
    ASSUME NEW Info, \A x \in Info : x.mode_index \in Nat,
           NEW modes \in Seq(Info), Ascending(modes), NEW info \in Info
    PROVE  Merged(Upsert(modes, info), modes, info, Info)
<1>0. PICK r : r = Upsert(modes, info)
  OBVIOUS
<1> SUFFICES /\ r \in Seq(Info) /\ Ascending(r)
             /\ \E n \in 1..Len(r) : r[n] = info
             /\ \A m \in 1..Len(modes) :
                  \E n \in 1..Len(r) : r[n].mode_index = modes[m].mode_index
  BY <1>0 DEF Merged
<1>1. CASE \A n \in 1..Len(modes) : modes[n].mode_index # info.mode_index
  <2>1. r = SortedByIndex(Append(modes, info))
    BY <1>0, <1>1 DEF Upsert
  <2>2. /\ r \in Seq(Info) /\ Ascending(r)
        /\ \E n \in 1..Len(r) : r[n] = info
        /\ \A m \in 1..Len(modes) : \E n \in 1..Len(r) : r[n] = modes[m]
    <3>1. PICK u \in Seq(Info) :
             /\ u = SortedByIndex(Append(modes, info)) /\ Ascending(u)
             /\ \E n \in 1..Len(u) : u[n] = info
             /\ \A m \in 1..Len(modes) : \E n \in 1..Len(u) : u[n] = modes[m]
      BY <1>1, SortedAppend
    <3>2. u = r
      BY <2>1, <3>1
    <3> QED BY <3>1, <3>2
  <2>3. ASSUME NEW m \in 1..Len(modes)
        PROVE  \E n \in 1..Len(r) : r[n].mode_index = modes[m].mode_index
    <3>1. PICK n \in 1..Len(r) : r[n] = modes[m]
      BY <2>2
    <3> QED BY <3>1
  <2> QED BY <2>2, <2>3
<1>2. CASE \E n \in 1..Len(modes) : modes[n].mode_index = info.mode_index
  <2>1. r = [n \in 1..Len(modes) |->
                IF modes[n].mode_index = info.mode_index THEN info ELSE modes[n]]
    BY <1>0, <1>2 DEF Upsert
  <2>2. Len(modes) \in Nat /\ \A n \in 1..Len(modes) : modes[n] \in Info
    OBVIOUS
  <2>3. /\ r \in Seq(Info) /\ Len(r) = Len(modes)
        /\ \A n \in 1..Len(modes) : r[n].mode_index = modes[n].mode_index
    BY <2>1, <2>2
  <2>4. PICK n \in 1..Len(modes) : modes[n].mode_index = info.mode_index
    BY <1>2
  <2>5. r[n] = info
    BY <2>1, <2>4
  <2>6. Ascending(r)
    BY <2>3 DEF Ascending
  <2> QED BY <2>3, <2>5, <2>6
<1> QED BY <1>1, <1>2

-----------------------------------------------------------------------------
(* Commands and what the headphones make of them.                          *)

LEMMA CommandsOfDevices ==
    ASSUME NEW d \in Headphones, NEW p \in Commands
    PROVE  \/ /\ p \in Queries /\ Changed(d, p) = d
           \/ /\ \E m \in Byte : p = SetStandby(m) /\ Changed(d, p) = [d EXCEPT !.standby = m]
           \/ /\ \E i \in Byte :
                    /\ p = SetCurrentMode(i)
                    /\ Changed(d, p) = IF i \in d.modes THEN [d EXCEPT !.current = i] ELSE d
           \/ p = PowerOff /\ Changed(d, p) = [d EXCEPT !.on = FALSE]
<1>1. CASE p \in Queries
  <2>1. p.operator = OpGet /\ p.function_block # Control
    BY <1>1 DEF Queries, ModeQueries, NameQuery, BatteryQuery, CncQuery, StandbyQuery,
        CurrentModeQuery, ModeConfigQuery, NewPacket, OpGet, Settings, Status, AudioModes, Control
  <2>2. Changed(d, p) = d
    BY <2>1 DEF Changed, About, OpGet, OpSetGet, OpStart
  <2> QED BY <1>1, <2>2
<1>2. ASSUME NEW m \in Byte, p = SetStandby(m) PROVE Changed(d, p) = [d EXCEPT !.standby = m]
  BY <1>2 DEF Changed, About, SetStandby, NewPacket, Settings, StandbyTimer, OpSetGet,
      AudioModes, CurrentMode, Control, Power
<1>3. ASSUME NEW i \in Byte, p = SetCurrentMode(i)
      PROVE  Changed(d, p) = IF i \in d.modes THEN [d EXCEPT !.current = i] ELSE d
  BY <1>3 DEF Changed, About, SetCurrentMode, NewPacket, Settings, StandbyTimer, OpStart,
      AudioModes, CurrentMode, Control, Power
<1>4. ASSUME p = PowerOff PROVE Changed(d, p) = [d EXCEPT !.on = FALSE]
  BY <1>4 DEF Changed, About, PowerOff, NewPacket, Settings, StandbyTimer, AudioModes, CurrentMode,
      Control, Power
<1> QED BY <1>1, <1>2, <1>3, <1>4 DEF Commands

\* The answers of headphones e, after the change.
LEMMA AnswersToQueries ==
    ASSUME NEW e \in Headphones
    PROVE  /\ AnswerTo(e, NameQuery) = NameAnswer
           /\ AnswerTo(e, BatteryQuery) = BatteryAnswer
           /\ AnswerTo(e, CncQuery) = CncAnswer
           /\ AnswerTo(e, StandbyQuery) = StandbyAnswer(e.standby)
           /\ AnswerTo(e, CurrentModeQuery) = CurrentAnswer(OpStatus, e.current)
<1> USE DEF AnswerTo, Answer, About, NewPacket, Settings, ProductName, StandbyTimer, Cnc, Status,
        BatteryLevel, AudioModes, CurrentMode, ModeConfig, OpGet, OpStart, OpStatus
<1>1. AnswerTo(e, NameQuery) = NameAnswer
  BY DEF NameQuery, NameAnswer
<1>2. AnswerTo(e, BatteryQuery) = BatteryAnswer
  BY DEF BatteryQuery, BatteryAnswer
<1>3. AnswerTo(e, CncQuery) = CncAnswer
  BY DEF CncQuery, CncAnswer
<1>4. AnswerTo(e, StandbyQuery) = StandbyAnswer(e.standby)
  BY DEF StandbyQuery, StandbyAnswer
<1>5. AnswerTo(e, CurrentModeQuery) = CurrentAnswer(OpStatus, e.current)
  BY DEF CurrentModeQuery, CurrentAnswer
<1> QED BY <1>1, <1>2, <1>3, <1>4, <1>5

LEMMA AnswersToRest ==
    ASSUME NEW e \in Headphones
    PROVE  /\ \A m \in Byte : AnswerTo(e, SetStandby(m)) = StandbyAnswer(e.standby)
           /\ \A i \in Byte : AnswerTo(e, SetCurrentMode(i)) =
                IF i \in e.modes THEN CurrentAnswer(OpResult, e.current) ELSE Refusal(CurrentMode)
           /\ \A i \in 0..9 : AnswerTo(e, ModeConfigQuery(i)) =
                IF i \in e.modes THEN ModeAnswer(i) ELSE Refusal(ModeConfig)
<1> USE DEF AnswerTo, Answer, About, NewPacket, Settings, ProductName, StandbyTimer, Cnc, Status,
        BatteryLevel, AudioModes, CurrentMode, ModeConfig, OpGet, OpSetGet, OpStart, OpStatus,
        OpResult, OpError
<1>1. ASSUME NEW m \in Byte PROVE AnswerTo(e, SetStandby(m)) = StandbyAnswer(e.standby)
  BY DEF SetStandby, StandbyAnswer, StandbyQuery
<1>2. ASSUME NEW i \in Byte
      PROVE  AnswerTo(e, SetCurrentMode(i)) =
                IF i \in e.modes THEN CurrentAnswer(OpResult, e.current) ELSE Refusal(CurrentMode)
  BY DEF SetCurrentMode, CurrentAnswer, CurrentModeQuery, Refusal
<1>3. ASSUME NEW i \in 0..9
      PROVE  AnswerTo(e, ModeConfigQuery(i)) =
                IF i \in e.modes THEN ModeAnswer(i) ELSE Refusal(ModeConfig)
  BY DEF ModeConfigQuery, ModeAnswer, Refusal
<1> QED BY <1>1, <1>2, <1>3

-----------------------------------------------------------------------------
(* Answers and what App makes of them.                                     *)

\* The filter keeps a name without zeros as it is.
LEMMA AppendOne == ASSUME NEW a \in Int, NEW b \in Int PROVE Append(<<a>>, b) = <<a, b>>
<1> DEFINE s == Append(<<a>>, b)
<1>1. s \in Seq(Int)
  OBVIOUS
<1>2. Len(s) = 2
  OBVIOUS
<1>3. s[1] = a /\ s[2] = b
  OBVIOUS
<1> HIDE DEF s
<1>4. s = <<s[1], s[2]>>
  BY <1>1, <1>2, TwoElements
<1> QED BY <1>3, <1>4 DEF s

LEMMA NameRead == ParseName(ProductNameBytes) = Some(ProductNameBytes)
<1> DEFINE payload == ProductNameBytes
           Def(f) == [n \in 0..Len(payload) |->
                        IF n = 0 THEN << >>
                        ELSE IF payload[n] = 0 THEN f[n - 1] ELSE Append(f[n - 1], payload[n])]
           kept == CHOOSE f : f = Def(f)
           steps == [n \in 0..2 |->
                        IF n = 0 THEN << >> ELSE IF n = 1 THEN <<payload[1]>> ELSE payload]
<1>1. Len(payload) = 2 /\ payload[1] = 81 /\ payload[2] = 67
  BY DEF ProductNameBytes
<1>2. Append(<< >>, payload[1]) = <<payload[1]>> /\ Append(<<payload[1]>>, payload[2]) = payload
  <2>1. payload \in Seq(Int)
    BY DEF ProductNameBytes
  <2> HIDE DEF payload
  <2>2. payload = <<payload[1], payload[2]>>
    BY <1>1, <2>1, TwoElements
  <2>3. payload[1] \in Int /\ payload[2] \in Int
    BY <1>1
  <2>4. Append(<<payload[1]>>, payload[2]) = <<payload[1], payload[2]>>
    BY <2>3, AppendOne
  <2>5. Append(<< >>, payload[1]) = <<payload[1]>>
    OBVIOUS
  <2> QED BY <2>2, <2>4, <2>5
<1> HIDE DEF payload
<1>3. steps = Def(steps)
  <2>1. steps[0] = << >> /\ steps[1] = <<payload[1]>> /\ steps[2] = payload
    OBVIOUS
  <2>2. \A n \in 0..2 : steps[n] = IF n = 0 THEN << >>
                                 ELSE IF payload[n] = 0 THEN steps[n - 1]
                                 ELSE Append(steps[n - 1], payload[n])
    <3> HIDE DEF steps
    <3> SUFFICES ASSUME NEW n \in 0..2
                 PROVE  steps[n] = IF n = 0 THEN << >>
                                 ELSE IF payload[n] = 0 THEN steps[n - 1]
                                 ELSE Append(steps[n - 1], payload[n])
      OBVIOUS
    <3>1. CASE n = 0
      BY <2>1, <3>1
    <3>2. CASE n = 1
      <4>1. n - 1 = 0 /\ payload[n] # 0
        BY <1>1, <3>2
      <4> QED BY <1>2, <2>1, <3>2, <4>1
    <3>3. CASE n = 2
      <4>1. n - 1 = 1 /\ payload[n] # 0
        BY <1>1, <3>3
      <4> QED BY <1>2, <2>1, <3>3, <4>1
    <3> QED BY <3>1, <3>2, <3>3
  <2> QED BY <1>1, <2>2
<1>4. kept = Def(kept)
  <2> HIDE DEF Def, steps
  <2> QED BY <1>3
<1>5. NonZero(payload) = kept[2]
  BY <1>1 DEF NonZero
<1> HIDE DEF kept
<1>6. kept[2] = payload
  <2>1. \A n \in 0..2 : kept[n] = IF n = 0 THEN << >>
                          ELSE IF payload[n] = 0 THEN kept[n - 1]
                          ELSE Append(kept[n - 1], payload[n])
    BY <1>1, <1>4
  <2> HIDE DEF Def
  <2>2. kept[0] = << >>
    BY <2>1
  <2>3. kept[1] = Append(kept[0], payload[1])
    <3>1. 1 \in 0..2 /\ 1 - 1 = 0 /\ 1 # 0 /\ payload[1] # 0
      BY <1>1
    <3> QED BY <2>1, <3>1
  <2>4. kept[2] = Append(kept[1], payload[2])
    <3>1. 2 \in 0..2 /\ 2 - 1 = 1 /\ 2 # 0 /\ payload[2] # 0
      BY <1>1
    <3> QED BY <2>1, <3>1
  <2> QED BY <1>2, <2>2, <2>3, <2>4
<1>7. Lossy(payload) = payload
  <2>1. payload \in Seq(Int)
    BY DEF payload, ProductNameBytes
  <2>2. \A n \in 1..2 : payload[n] < 128
    BY <1>1
  <2>3. Lossy(payload) = [n \in 1..2 |-> payload[n]]
    BY <1>1, <2>2 DEF Lossy
  <2> QED BY <1>1, <2>1, <2>3
<1> QED BY <1>5, <1>6, <1>7 DEF payload, ParseName

\* Six bytes, the name from the seventh on, a zero behind it.
LEMMA ModeRead ==
    ASSUME NEW i \in 0..9
    PROVE  ParseModeConfig(ModeConfigPayload(i)) = Some(ModeView(i))
<1> DEFINE payload == ModeConfigPayload(i)
           Zero(n) == payload[n] = 0 /\ \A k \in 7..(n - 1) : payload[k] # 0
           part == SubSeq(payload, 7, 7)
<1>2. payload \in Seq(Nat) /\ Len(payload) = 8 /\ payload[1] = i /\ payload[7] = 65 + i /\ payload[8] = 0
  <2> DEFINE a == <<i, 0, 0, 0, 0, 0>>
             b == <<65 + i>>
             c == <<0>>
  <2>1. a \in Seq(Nat) /\ Len(a) = 6 /\ a[1] = i
    OBVIOUS
  <2>2. b \in Seq(Nat) /\ Len(b) = 1 /\ b[1] = 65 + i
    OBVIOUS
  <2>3. c \in Seq(Nat) /\ Len(c) = 1 /\ c[1] = 0
    OBVIOUS
  <2>4. payload = a \o b \o c
    BY DEF ModeConfigPayload, NameOf
  <2> HIDE DEF a, b, c, payload
  <2>0. a \in Seq(Nat) /\ b \in Seq(Nat) /\ c \in Seq(Nat)
    BY <2>1, <2>2, <2>3
  <2>5. PICK e : e = a \o b
    OBVIOUS
  <2>6. /\ a \o b \in Seq(Nat) /\ Len(a \o b) = Len(a) + Len(b)
        /\ \A n \in 1..Len(a) : (a \o b)[n] = a[n]
        /\ \A n \in 1..Len(b) : (a \o b)[Len(a) + n] = b[n]
    BY <2>0, Joined
  <2>7. /\ e \in Seq(Nat) /\ Len(e) = Len(a) + Len(b)
        /\ \A n \in 1..Len(a) : e[n] = a[n]
        /\ \A n \in 1..Len(b) : e[Len(a) + n] = b[n]
    BY <2>5, <2>6
  <2>8. Len(e) = 7 /\ e[1] = i /\ e[7] = 65 + i
    <3>1. 1 \in 1..Len(a) /\ 1 \in 1..Len(b) /\ Len(a) + 1 = 7 /\ Len(a) + Len(b) = 7
      BY <2>1, <2>2
    <3> QED BY <2>1, <2>2, <2>7, <3>1
  <2>9. /\ e \o c \in Seq(Nat) /\ Len(e \o c) = Len(e) + Len(c)
        /\ \A n \in 1..Len(e) : (e \o c)[n] = e[n]
        /\ \A n \in 1..Len(c) : (e \o c)[Len(e) + n] = c[n]
    <3>1. e \in Seq(Nat)
      BY <2>7
    <3> QED BY <2>0, <3>1, Joined
  <2>10. 1 \in 1..Len(e) /\ 7 \in 1..Len(e) /\ 1 \in 1..Len(c) /\ Len(e) + 1 = 8 /\ Len(e) + Len(c) = 8
    BY <2>3, <2>8
  <2>11. payload = e \o c
    BY <2>4, <2>5
  <2> QED BY <2>3, <2>8, <2>9, <2>10, <2>11
<1> HIDE DEF payload
<1>3. Zero(8) /\ ~Zero(7)
  BY <1>2
<1>4. (CHOOSE n \in 7..8 : Zero(n)) = 8
  <2>1. \A n \in 7..8 : Zero(n) => n = 8
    BY <1>3
  <2> HIDE DEF Zero
  <2> QED BY <1>3, <2>1
<1>5. part = <<65 + i>>
  <2>1. part \in Seq(Nat) /\ Len(part) = 1 /\ part[1] = payload[7]
    BY <1>2
  <2> HIDE DEF part
  <2>2. part = <<part[1]>>
    BY <2>1, OneElement
  <2> QED BY <1>2, <2>1, <2>2
<1>6. Lossy(<<65 + i>>) = <<65 + i>>
  <2> DEFINE c == <<65 + i>>
  <2>1. c \in Seq(Nat) /\ Len(c) = 1 /\ c[1] = 65 + i
    OBVIOUS
  <2> HIDE DEF c
  <2>2. c[1] < 128
    BY <2>1
  <2>3. Lossy(c) = [n \in 1..1 |-> c[n]]
    BY <2>1, <2>2 DEF Lossy
  <2>4. Lossy(c) = c
    BY <2>1, <2>3
  <2> QED BY <2>4 DEF c
<1>7. ParseModeConfig(payload) = Some([mode_index |-> i, name |-> Lossy(SubSeq(payload, 7, 7))])
  <2>1. \E n \in 7..8 : Zero(n)
    BY <1>3
  <2> QED BY <1>2, <1>4, <2>1 DEF ParseModeConfig
<1> QED BY <1>5, <1>6, <1>7 DEF payload, ModeView, NameOf

LEMMA BatteryRead == ParseBattery(<<85, 1, 44, 0>>) = BatteryView
<1> DEFINE payload == <<85, 1, 44, 0>>
           Reading(o) ==
             [percentage |-> payload[o],
              remaining_minutes |->
                LET raw == payload[o + 1] * 256 + payload[o + 2]
                IN  IF raw = 65535 THEN None ELSE Some(raw),
              component_id |-> payload[o + 3]]
           readings == [n \in 1..1 |-> Reading(1)]
<1>1. Len(payload) = 4 /\ payload[1] = 85 /\ payload[2] = 1 /\ payload[3] = 44 /\ payload[4] = 0
  OBVIOUS
<1> HIDE DEF payload
<1>2. Reading(1) = [percentage |-> 85, remaining_minutes |-> Some(300), component_id |-> 0]
  <2>1. payload[1 + 1] = 1 /\ payload[1 + 2] = 44 /\ payload[1 + 3] = 0
    BY <1>1
  <2>2. 1 * 256 + 44 = 300 /\ 300 # 65535
    OBVIOUS
  <2> QED BY <1>1, <2>1, <2>2
<1>3. ParseBattery(payload) = [n \in 1..(Len(payload) \div 4) |-> Reading(4 * n - 3)]
  BY <1>1 DEF ParseBattery
<1> HIDE DEF Reading
<1>4. ParseBattery(payload) = readings
  <2>1. Len(payload) \div 4 = 1
    BY <1>1
  <2>2. \A n \in 1..1 : 4 * n - 3 = 1
    OBVIOUS
  <2> QED BY <1>3, <2>1, <2>2
<1>5. readings = <<Reading(1)>>
  <2>1. readings \in Seq({Reading(1)}) /\ Len(readings) = 1 /\ readings[1] = Reading(1)
    OBVIOUS
  <2> HIDE DEF readings
  <2> QED BY <2>1, OneElement
<1> QED BY <1>2, <1>4, <1>5 DEF payload, BatteryView

\* What parse_and_update makes of each answer.
LEMMA UpdatesOfAnswers ==
    /\ UpdateOf(NameAnswer) = Some(Update("product_name", ProductNameBytes))
    /\ UpdateOf(BatteryAnswer) = Some(Update("battery", BatteryView))
    /\ UpdateOf(CncAnswer) = Some(Update("cnc", CncView))
    /\ \A m \in Byte : UpdateOf(StandbyAnswer(m)) = Some(Update("standby_timer_minutes", m))
    /\ \A i \in Byte, operator \in {OpStatus, OpResult} :
         UpdateOf(CurrentAnswer(operator, i)) = Some(Update("audio_mode_index", i))
    /\ \A i \in 0..9 : UpdateOf(ModeAnswer(i)) = Some(Update("audio_modes", ModeView(i)))
    /\ \A function : UpdateOf(Refusal(function)) = None
<1> USE DEF UpdateOf, Accepted, Answer, NewPacket, OpStatus, OpResult, OpProcessing, OpError,
        Status, BatteryLevel, Settings, Cnc, ProductName, StandbyTimer, AudioModes, CurrentMode,
        ModeConfig
<1>1. UpdateOf(NameAnswer) = Some(Update("product_name", ProductNameBytes))
  <2>1. UpdateOf(NameAnswer) = LET v == ParseName(ProductNameBytes)
                               IN  IF v = None THEN None ELSE Some(Update("product_name", v[1]))
    BY DEF NameAnswer, NameQuery
  <2>2. Some(ProductNameBytes) # None /\ Some(ProductNameBytes)[1] = ProductNameBytes
    BY DEF Some, None
  <2> QED BY <2>1, <2>2, NameRead
<1>2. UpdateOf(BatteryAnswer) = Some(Update("battery", BatteryView))
  <2>1. UpdateOf(BatteryAnswer) = Some(Update("battery", ParseBattery(<<85, 1, 44, 0>>)))
    BY DEF BatteryAnswer, BatteryQuery
  <2> QED BY <2>1, BatteryRead
<1>3. UpdateOf(CncAnswer) = Some(Update("cnc", CncView))
  <2>1. UpdateOf(CncAnswer) = LET v == ParseCnc(<<5, 10, 3>>)
                              IN  IF v = None THEN None ELSE Some(Update("cnc", v[1]))
    BY DEF CncAnswer, CncQuery
  <2>2. ParseCnc(<<5, 10, 3>>) = Some(CncView)
    <3>1. (3 % 2 = 1) = TRUE /\ ((3 \div 2) % 2 = 0) = FALSE
      OBVIOUS
    <3> DEFINE payload == <<5, 10, 3>>
    <3>2. Len(payload) = 3 /\ payload[1] = 5 /\ payload[2] = 10 /\ payload[3] = 3
      OBVIOUS
    <3> HIDE DEF payload
    <3>3. ParseCnc(payload) =
            Some([current_step |-> 5, total_steps |-> 10, enabled |-> 3 % 2 = 1,
                  user_enable_disable |-> (3 \div 2) % 2 = 0])
      BY <3>2 DEF ParseCnc
    <3> QED BY <3>1, <3>3 DEF CncView, payload
  <2>3. Some(CncView) # None /\ Some(CncView)[1] = CncView
    BY DEF Some, None
  <2> QED BY <2>1, <2>2, <2>3
<1>4. ASSUME NEW m \in Byte
      PROVE  UpdateOf(StandbyAnswer(m)) = Some(Update("standby_timer_minutes", m))
  <2>1. UpdateOf(StandbyAnswer(m)) =
            LET v == ParseStandby(<<m>>)
            IN  IF v = None THEN None ELSE Some(Update("standby_timer_minutes", v[1]))
    BY DEF StandbyAnswer, StandbyQuery
  <2>2. ParseStandby(<<m>>) = Some(m) /\ Some(m) # None /\ Some(m)[1] = m
    BY DEF ParseStandby, First, Some, None
  <2> QED BY <2>1, <2>2
<1>5. ASSUME NEW i \in Byte, NEW operator \in {OpStatus, OpResult}
      PROVE  UpdateOf(CurrentAnswer(operator, i)) = Some(Update("audio_mode_index", i))
  <2>1. UpdateOf(CurrentAnswer(operator, i)) =
            LET v == ParseCurrentMode(<<i>>)
            IN  IF v = None THEN None ELSE Some(Update("audio_mode_index", v[1]))
    BY DEF CurrentAnswer, CurrentModeQuery
  <2>2. ParseCurrentMode(<<i>>) = Some(i) /\ Some(i) # None /\ Some(i)[1] = i
    BY DEF ParseCurrentMode, First, Some, None
  <2> QED BY <2>1, <2>2
<1>6. ASSUME NEW i \in 0..9 PROVE UpdateOf(ModeAnswer(i)) = Some(Update("audio_modes", ModeView(i)))
  <2>1. UpdateOf(ModeAnswer(i)) =
            LET v == ParseModeConfig(ModeConfigPayload(i))
            IN  IF v = None THEN None ELSE Some(Update("audio_modes", v[1]))
    BY DEF ModeAnswer, ModeConfigQuery
  <2>2. Some(ModeView(i)) # None /\ Some(ModeView(i))[1] = ModeView(i)
    BY DEF Some, None
  <2> QED BY <2>1, <2>2, ModeRead
<1>7. ASSUME NEW function PROVE UpdateOf(Refusal(function)) = None
  BY DEF Refusal
<1> QED BY <1>1, <1>2, <1>3, <1>4, <1>5, <1>6, <1>7

\* What the view v becomes, w, when the answer a is taken.
Read(a, modes, v, w) ==
    \/ a = NameAnswer /\ w = [v EXCEPT !.product_name = Some(ProductNameBytes)]
    \/ a = BatteryAnswer /\ w = [v EXCEPT !.battery = BatteryView]
    \/ a = CncAnswer /\ w = [v EXCEPT !.cnc = Some(CncView)]
    \/ \E m \in Byte :
         a = StandbyAnswer(m) /\ w = [v EXCEPT !.standby_timer_minutes = Some(m)]
    \/ \E operator \in {OpStatus, OpResult}, i \in modes :
         a = CurrentAnswer(operator, i) /\ w = [v EXCEPT !.audio_mode_index = Some(i)]
    \/ \E i \in modes \cap 0..9 :
         a = ModeAnswer(i) /\ w = [v EXCEPT !.audio_modes = Upsert(@, ModeView(i))]
    \/ a \in {Refusal(CurrentMode), Refusal(ModeConfig)} /\ w = v

LEMMA Polled ==
    ASSUME NEW modes \in SUBSET Byte, NEW v \in Views(modes), Ascending(v.audio_modes),
           NEW a \in Answers(modes), NEW update, update = UpdateOf(a),
           NEW w, w = IF update = None THEN v ELSE Updated(v, update[1])
    PROVE  Read(a, modes, v, w)
<1>0. ASSUME NEW u, update = Some(u) PROVE w = Updated(v, u)
  BY <1>0 DEF Some, None
<1>1. CASE a = NameAnswer
  <2>1. w = Updated(v, Update("product_name", ProductNameBytes))
    BY <1>0, <1>1, UpdatesOfAnswers
  <2> QED BY <1>1, <2>1 DEF Updated, Update, Read
<1>2. CASE a = BatteryAnswer
  <2>1. w = Updated(v, Update("battery", BatteryView))
    BY <1>0, <1>2, UpdatesOfAnswers
  <2> QED BY <1>2, <2>1 DEF Updated, Update, Read
<1>3. CASE a = CncAnswer
  <2>1. w = Updated(v, Update("cnc", CncView))
    BY <1>0, <1>3, UpdatesOfAnswers
  <2> QED BY <1>3, <2>1 DEF Updated, Update, Read
<1>4. ASSUME NEW m \in Byte, a = StandbyAnswer(m)
      PROVE  w = [v EXCEPT !.standby_timer_minutes = Some(m)]
  <2>1. w = Updated(v, Update("standby_timer_minutes", m))
    BY <1>0, <1>4, UpdatesOfAnswers
  <2> QED BY <2>1 DEF Updated, Update
<1>5. ASSUME NEW operator \in {OpStatus, OpResult}, NEW i \in modes, a = CurrentAnswer(operator, i)
      PROVE  w = [v EXCEPT !.audio_mode_index = Some(i)]
  <2>1. w = Updated(v, Update("audio_mode_index", i))
    BY <1>0, <1>5, UpdatesOfAnswers
  <2> QED BY <2>1 DEF Updated, Update
<1>6. ASSUME NEW i \in modes \cap 0..9, a = ModeAnswer(i)
      PROVE  w = [v EXCEPT !.audio_modes = Upsert(@, ModeView(i))]
  <2>1. w = Updated(v, Update("audio_modes", ModeView(i)))
    BY <1>0, <1>6, UpdatesOfAnswers
  <2> QED BY <2>1 DEF Updated, Update
<1>7. CASE a \in {Refusal(CurrentMode), Refusal(ModeConfig)}
  BY <1>7, UpdatesOfAnswers DEF Read
<1> QED
  BY <1>1, <1>2, <1>3, <1>4, <1>5, <1>6, <1>7
  DEF Read, Answers, StandbyNews, CurrentNews, ModeAnswers

-----------------------------------------------------------------------------
(* Queues.                                                                 *)

\* What is in a queue after another element was put at its end.
LEMMA QueueAppend ==
    ASSUME NEW S, NEW q \in Seq(S), NEW y \in S, NEW x, NEW T, NEW G
    PROVE  /\ Has(Append(q, y), y)
           /\ Has(q, x) => Has(Append(q, y), x)
           /\ Lacks(q, T) /\ y \notin T => Lacks(Append(q, y), T)
           /\ Ends(q, T, G) /\ y \notin T => Ends(Append(q, y), T, G)
           /\ y \in G => Ends(Append(q, y), T, G)
<1>0. PICK r : r = Append(q, y)
  OBVIOUS
<1>1. Len(q) \in Nat /\ \A n \in 1..Len(q) : q[n] \in S
  OBVIOUS
<1>2. /\ r \in Seq(S) /\ Len(r) = Len(q) + 1 /\ r[Len(q) + 1] = y
      /\ \A n \in 1..Len(q) : r[n] = q[n]
  BY <1>0
<1>3. Has(r, y)
  <2>1. Len(q) + 1 \in 1..Len(r)
    BY <1>1, <1>2
  <2> QED BY <1>2, <2>1 DEF Has
<1>4. ASSUME Has(q, x) PROVE Has(r, x)
  <2>1. PICK n \in 1..Len(q) : q[n] = x
    BY <1>4 DEF Has
  <2>2. n \in 1..Len(r) /\ r[n] = x
    BY <1>1, <1>2, <2>1
  <2> QED BY <2>2 DEF Has
<1>5. ASSUME Lacks(q, T), y \notin T PROVE Lacks(r, T)
  <2> SUFFICES ASSUME NEW n \in 1..Len(r) PROVE r[n] \notin T
    BY DEF Lacks
  <2>1. n \in 1..Len(q) \/ n = Len(q) + 1
    BY <1>1, <1>2
  <2> QED BY <1>2, <1>5, <2>1 DEF Lacks
<1>6. ASSUME Ends(q, T, G), y \notin T PROVE Ends(r, T, G)
  <2>1. PICK m \in 1..Len(q) : q[m] \in G /\ \A n \in (m + 1)..Len(q) : q[n] \notin T
    BY <1>6 DEF Ends
  <2>2. m \in 1..Len(r) /\ r[m] \in G
    BY <1>1, <1>2, <2>1
  <2>3. ASSUME NEW n \in (m + 1)..Len(r) PROVE r[n] \notin T
    <3>1. (n \in (m + 1)..Len(q) /\ n \in 1..Len(q)) \/ n = Len(q) + 1
      BY <1>1, <1>2
    <3> QED BY <1>2, <1>6, <2>1, <3>1
  <2> QED BY <2>2, <2>3 DEF Ends
<1>7. ASSUME y \in G PROVE Ends(r, T, G)
  <2>1. Len(r) \in 1..Len(r) /\ r[Len(r)] \in G /\ (Len(r) + 1)..Len(r) = {}
    BY <1>1, <1>2, <1>7
  <2> QED BY <2>1 DEF Ends
<1> QED BY <1>0, <1>3, <1>4, <1>5, <1>6, <1>7

LEMMA TailLacks ==
    ASSUME NEW S, NEW q \in Seq(S), q # << >>, NEW T, Lacks(q, T)
    PROVE  Lacks(Tail(q), T) /\ Head(q) \notin T
<1>1. Len(q) \in Nat /\ Len(q) >= 1 /\ Head(q) = q[1]
  OBVIOUS
<1>2. PICK r : r = Tail(q)
  OBVIOUS
<1>3. Len(r) = Len(q) - 1 /\ \A n \in 1..(Len(q) - 1) : r[n] = q[n + 1]
  BY <1>2
<1>4. ASSUME NEW n \in 1..Len(r) PROVE r[n] \notin T
  <2>1. n + 1 \in 1..Len(q) /\ r[n] = q[n + 1]
    BY <1>1, <1>3
  <2> QED BY <2>1 DEF Lacks
<1>5. 1 \in 1..Len(q)
  BY <1>1
<1> QED BY <1>1, <1>2, <1>4, <1>5 DEF Lacks

\* What is in a queue after its first element was taken.
LEMMA QueueTail ==
    ASSUME NEW S, NEW q \in Seq(S), q # << >>, NEW x, NEW T, NEW G
    PROVE  /\ Has(q, x) => Head(q) = x \/ Has(Tail(q), x)
           /\ Lacks(q, T) => Lacks(Tail(q), T) /\ Head(q) \notin T
           /\ Ends(q, T, G) => Ends(Tail(q), T, G) \/ (Head(q) \in G /\ Lacks(Tail(q), T))
<1>0. PICK r : r = Tail(q)
  OBVIOUS
<1>1. Len(q) \in Nat /\ Len(q) >= 1 /\ Head(q) = q[1] /\ q[1] \in S
  OBVIOUS
<1>2. /\ r \in Seq(S) /\ Len(r) = Len(q) - 1 /\ \A n \in 1..(Len(q) - 1) : r[n] = q[n + 1]
  BY <1>0
<1>3. ASSUME Has(q, x) PROVE Head(q) = x \/ Has(r, x)
  <2>1. PICK n \in 1..Len(q) : q[n] = x
    BY <1>3 DEF Has
  <2>2. CASE n = 1
    BY <1>1, <2>1, <2>2
  <2>3. CASE n > 1
    <3>1. n - 1 \in 1..Len(r) /\ n - 1 \in 1..(Len(q) - 1) /\ (n - 1) + 1 = n
      BY <1>1, <1>2, <2>3
    <3>2. r[n - 1] = x
      BY <1>2, <2>1, <3>1
    <3> QED BY <3>1, <3>2 DEF Has
  <2> QED BY <2>2, <2>3
<1>4. ASSUME Lacks(q, T) PROVE Lacks(r, T) /\ Head(q) \notin T
  BY <1>0, <1>4, TailLacks
<1>5. ASSUME Ends(q, T, G) PROVE Ends(r, T, G) \/ (Head(q) \in G /\ Lacks(r, T))
  <2>1. PICK m \in 1..Len(q) : q[m] \in G /\ \A n \in (m + 1)..Len(q) : q[n] \notin T
    BY <1>5 DEF Ends
  <2>2. ASSUME NEW n \in m..Len(r), n >= 1 PROVE r[n] \notin T
    <3>1. n + 1 \in (m + 1)..Len(q) /\ r[n] = q[n + 1]
      BY <1>1, <1>2, <2>2
    <3> QED BY <2>1, <3>1
  <2>3. CASE m = 1
    BY <1>1, <2>1, <2>2, <2>3 DEF Lacks
  <2>4. CASE m > 1
    <3>1. m - 1 \in 1..Len(r) /\ m - 1 \in 1..(Len(q) - 1) /\ (m - 1) + 1 = m
      BY <1>1, <1>2, <2>4
    <3>2. r[m - 1] \in G
      BY <1>2, <2>1, <3>1
    <3>3. \A n \in ((m - 1) + 1)..Len(r) : r[n] \notin T
      BY <2>2, <2>4, <3>1
    <3>4. \E k \in 1..Len(r) : r[k] \in G /\ \A n \in (k + 1)..Len(r) : r[n] \notin T
      <4> DEFINE k == m - 1
      <4>1. k \in 1..Len(r) /\ r[k] \in G /\ \A n \in (k + 1)..Len(r) : r[n] \notin T
        BY <3>1, <3>2, <3>3
      <4> HIDE DEF k
      <4> QED BY <4>1
    <3> QED BY <3>4 DEF Ends
  <2> QED BY <2>3, <2>4
<1> QED BY <1>0, <1>3, <1>4, <1>5

-----------------------------------------------------------------------------
(* What App sends.                                                         *)

LEMMA OptionsAreBytes == \A current \in Byte : NextOption(current) \in Byte
<1> SUFFICES ASSUME NEW current \in Byte PROVE NextOption(current) \in Byte
  OBVIOUS
<1>1. \A n \in 1..7 : StandbyOptions[n] \in Byte
  <2>1. StandbyOptions \in Seq(Byte) /\ Len(StandbyOptions) = 7
    BY DEF StandbyOptions, Byte
  <2> SUFFICES ASSUME NEW n \in 1..7 PROVE StandbyOptions[n] \in Byte
    OBVIOUS
  <2>2. n \in 1..Len(StandbyOptions)
    BY <2>1
  <2> QED BY <2>1, <2>2, ElementOfSeq
<1> DEFINE T == {n \in 1..7 : StandbyOptions[n] > current}
           least == CHOOSE n \in T : \A m \in T : n <= m
<1>2. Len(StandbyOptions) = 7
  BY DEF StandbyOptions
<1>3. NextOption(current) = IF T = {} THEN StandbyOptions[1]
                            ELSE StandbyOptions[IF least = 0 THEN 1 ELSE least]
  BY <1>2 DEF NextOption, SelectInSeq, Min
<1>4. T # {} => least \in 1..7
  <2>1. T \in SUBSET Nat /\ T \subseteq 1..7
    OBVIOUS
  <2> HIDE DEF T
  <2>2. T # {} => \E n \in T : \A m \in T : n <= m
    BY <2>1, Least
  <2> QED BY <2>1, <2>2
<1> HIDE DEF T, least
<1> QED BY <1>1, <1>3, <1>4

\* initial_queries: the first five, then one for each mode.
LEMMA QueryAt ==
    /\ Len(InitialQueries) = 15
    /\ InitialQueries[1] = NameQuery /\ InitialQueries[2] = BatteryQuery
    /\ InitialQueries[3] = CncQuery /\ InitialQueries[4] = CurrentModeQuery
    /\ InitialQueries[5] = StandbyQuery
    /\ \A i \in 0..9 : InitialQueries[i + 6] = ModeConfigQuery(i)
<1> DEFINE S == Queries
           a == <<NameQuery, BatteryQuery, CncQuery, CurrentModeQuery, StandbyQuery>>
           b == [i \in 1..10 |-> ModeConfigQuery(i - 1)]
<1>1. a \in Seq(S) /\ Len(a) = 5
  BY DEF Queries
<1>2. /\ a[1] = NameQuery /\ a[2] = BatteryQuery /\ a[3] = CncQuery /\ a[4] = CurrentModeQuery
      /\ a[5] = StandbyQuery
  OBVIOUS
<1>3. b \in Seq(S) /\ Len(b) = 10
  <2>1. \A i \in 1..10 : ModeConfigQuery(i - 1) \in S
    <3>1. \A i \in 1..10 : i - 1 \in 0..9
      OBVIOUS
    <3> QED BY <3>1 DEF Queries, ModeQueries
  <2> QED BY <2>1
<1>4. \A i \in 0..9 : b[i + 1] = ModeConfigQuery(i)
  <2> SUFFICES ASSUME NEW i \in 0..9 PROVE b[i + 1] = ModeConfigQuery(i)
    OBVIOUS
  <2>1. i + 1 \in 1..10 /\ (i + 1) - 1 = i
    OBVIOUS
  <2> QED BY <2>1
<1> HIDE DEF S, a, b
<1>5. /\ Len(a \o b) = Len(a) + Len(b)
      /\ \A n \in 1..Len(a) : (a \o b)[n] = a[n]
      /\ \A n \in 1..Len(b) : (a \o b)[Len(a) + n] = b[n]
  <2>1. a \in Seq(S) /\ b \in Seq(S)
    BY <1>1, <1>3
  <2> QED BY <2>1, Joined
<1>6. ASSUME NEW i \in 0..9 PROVE (a \o b)[i + 6] = ModeConfigQuery(i)
  <2>1. i + 1 \in 1..Len(b) /\ Len(a) + (i + 1) = i + 6
    BY <1>1, <1>3
  <2> QED BY <1>4, <1>5, <2>1
<1>7. InitialQueries = a \o b
  BY DEF InitialQueries, a, b
<1>8. 1 \in 1..Len(a) /\ 2 \in 1..Len(a) /\ 3 \in 1..Len(a) /\ 4 \in 1..Len(a) /\ 5 \in 1..Len(a)
  BY <1>1
<1>9. Len(a) + Len(b) = 15
  BY <1>1, <1>3
<1> QED BY <1>2, <1>5, <1>6, <1>7, <1>8, <1>9

LEMMA QueriesAreCommands ==
    \A n \in 1..15 : InitialQueries[n] \in Queries
<1> SUFFICES ASSUME NEW n \in 1..15 PROVE InitialQueries[n] \in Queries
  OBVIOUS
<1>1. CASE n \in 1..5
  BY <1>1, QueryAt DEF Queries
<1>2. CASE n \in 6..15
  <2>1. n - 6 \in 0..9 /\ (n - 6) + 6 = n
    BY <1>2
  <2> QED BY <2>1, QueryAt DEF Queries, ModeQueries
<1> QED BY <1>1, <1>2

\* + and - ask for a byte, and for a mode of the headphones once one is discovered.
LEMMA ModeAsked ==
    ASSUME Shapes, NEW delta \in {1, -1}, AudioModeAdjust(delta), tui = "running"
    PROVE  /\ tui' \in {"running", "panicked"}
           /\ \/ commands' = commands
              \/ \E i \in Byte :
                    /\ commands' = Append(commands, SetCurrentMode(i))
                    /\ state.audio_modes # << >> => i \in device.modes
<1>1. /\ state.audio_modes \in Seq(ModeViews(device.modes))
      /\ state.audio_mode_index = None \/ \E i \in device.modes : state.audio_mode_index = Some(i)
      /\ device.modes \subseteq Byte
  BY DEF Shapes, Views, Headphones
<1>2. CASE state.audio_mode_index = None
  BY <1>2 DEF AudioModeAdjust
<1>3. CASE state.audio_mode_index # None /\ state.audio_modes = << >>
  <2>1. AdjustRawIndex(delta)
    BY <1>3 DEF AudioModeAdjust
  <2>2. PICK i \in Byte : state.audio_mode_index[1] = i
    BY <1>1, <1>3 DEF Some
  <2>3. ASSUME NEW n \in -128..127 PROVE NotNegative(n) \in Byte
    BY DEF NotNegative, Byte
  <2>4. AsI8(i) \in -128..127 /\ \A n \in 0..255 : AsI8(n) \in -128..127
    BY DEF AsI8, Byte
  <2>5. AsI8((AsI8(i) + delta) % 256) \in -128..127
    <3>1. PICK k \in -128..127 : AsI8(i) = k
      BY <2>4
    <3>2. (k + delta) % 256 \in 0..255
      OBVIOUS
    <3> QED BY <2>4, <3>1, <3>2
  <2>6. \/ tui' = tui /\ \E n \in -128..127 : RequestMode(NotNegative(n))
        \/ tui' = "panicked" /\ commands' = commands
    BY <2>1, <2>2, <2>5 DEF AdjustRawIndex
  <2> QED BY <1>3, <2>3, <2>6 DEF RequestMode, Request
<1>4. CASE state.audio_mode_index # None /\ state.audio_modes # << >>
  <2> DEFINE modes == state.audio_modes
             at == Position(modes, state.audio_mode_index[1])
  <2>1. CycleModes(delta)
    BY <1>4 DEF AudioModeAdjust
  <2>2. Len(modes) \in Nat \ {0}
    BY <1>1, <1>4
  <2>3. at \in 0..(Len(modes) - 1)
    BY <2>2 DEF Position
  <2>4. PICK next : next = (at + Len(modes) + delta) % Len(modes)
    OBVIOUS
  <2>5. next \in 0..(Len(modes) - 1)
    <3> HIDE DEF at, modes
    <3>1. PICK s \in Nat : s = at + Len(modes) + delta
      BY <2>2, <2>3
    <3>2. PICK l \in Nat \ {0} : l = Len(modes)
      BY <2>2
    <3>3. s % l \in 0..(l - 1)
      OBVIOUS
    <3> QED BY <2>4, <3>1, <3>2, <3>3
  <2>6. modes[next + 1] \in ModeViews(device.modes)
    <3>1. next + 1 \in 1..Len(modes)
      BY <2>2, <2>5
    <3> QED BY <1>1, <3>1
  <2>7. modes[next + 1].mode_index \in device.modes
    <3> HIDE DEF modes, at
    <3>1. PICK i \in device.modes \cap 0..9 : modes[next + 1] = ModeView(i)
      BY <2>6 DEF ModeViews
    <3> QED BY <3>1 DEF ModeView
  <2>8. RequestMode(modes[next + 1].mode_index) /\ tui' = tui
    BY <2>1, <2>4 DEF CycleModes
  <2> HIDE DEF modes
  <2>9. PICK i \in device.modes : modes[next + 1].mode_index = i
    BY <2>7
  <2> QED BY <1>1, <2>8, <2>9 DEF RequestMode, Request
<1> QED BY <1>2, <1>3, <1>4

Pressed == Plus \/ Minus \/ StandbyCycle \/ AskPowerOff \/ AnswerDialog \/ Quit

\* A key puts at most one command at the end of the queue, and touches nothing else
\* but the dialog and the TUI.
LEMMA Keyed ==
    ASSUME Shapes, Pressed
    PROVE  /\ device' = device /\ turns' = turns /\ asked' = asked /\ answers' = answers
           /\ state' = state /\ Len(commands) < MaxCommands
           /\ confirm' \in BOOLEAN /\ tui' \in {"running", "quit", "panicked"}
           /\ commands' = commands \/ \E c \in Commands : commands' = Append(commands, c)
<1> USE DEF Key, deviceVars
<1>1. \A i \in Byte : SetCurrentMode(i) \in Commands /\ SetStandby(i) \in Commands
  BY DEF Commands
<1>2. PowerOff \in Commands
  BY DEF Commands
<1>3. confirm \in BOOLEAN /\ tui \in {"running", "quit", "panicked"}
  BY DEF Shapes
<1>4. CASE Plus \/ Minus
  <2>1. PICK delta \in {1, -1} : AudioModeAdjust(delta)
    BY <1>4 DEF Plus, Minus
  <2>2. tui = "running"
    BY <1>4 DEF Plus, Minus
  <2>3. /\ tui' \in {"running", "panicked"}
        /\ commands' = commands \/ \E i \in Byte : commands' = Append(commands, SetCurrentMode(i))
    BY <2>1, <2>2, ModeAsked
  <2>4. /\ device' = device /\ turns' = turns /\ asked' = asked /\ answers' = answers
        /\ state' = state /\ Len(commands) < MaxCommands /\ confirm' = confirm
    BY <1>4 DEF Plus, Minus
  <2> QED BY <1>1, <1>3, <2>3, <2>4
<1>5. CASE StandbyCycle
  <2>1. state.standby_timer_minutes = None \/ \E m \in Byte : state.standby_timer_minutes = Some(m)
    BY DEF Shapes, Views
  <2>2. PICK m : m = IF state.standby_timer_minutes = None THEN 0 ELSE state.standby_timer_minutes[1]
    OBVIOUS
  <2>3. m \in Byte
    BY <2>1, <2>2 DEF Some, Byte
  <2>4. commands' = Append(commands, SetStandby(NextOption(m)))
    BY <1>5, <2>2 DEF StandbyCycle, Request
  <2>5. SetStandby(NextOption(m)) \in Commands
    BY <1>1, <2>3, OptionsAreBytes
  <2> QED BY <1>3, <1>5, <2>4, <2>5 DEF StandbyCycle
<1>6. CASE AskPowerOff \/ Quit
  BY <1>3, <1>6 DEF AskPowerOff, Quit
<1>7. CASE AnswerDialog
  BY <1>2, <1>3, <1>7 DEF AnswerDialog, Request
<1> QED BY <1>4, <1>5, <1>6, <1>7 DEF Pressed

\* Each kind of packet has its own block, function and operator.
LEMMA Kinds ==
    ASSUME NEW modes \in SUBSET Byte
    PROVE  /\ \A y \in CurrentNews(modes) :
                y.function_block = 31 /\ y.function = 3 /\ y.operator \in {3, 6}
           /\ \A y \in StandbyNews : y.function_block = 1 /\ y.function = 4 /\ y.operator = 3
           /\ NameAnswer.function_block = 1 /\ NameAnswer.function = 2
           /\ BatteryAnswer.function_block = 2 /\ BatteryAnswer.function = 2
           /\ CncAnswer.function_block = 1 /\ CncAnswer.function = 5
           /\ \A i \in 0..9 :
                /\ ModeAnswer(i).function_block = 31 /\ ModeAnswer(i).function = 6
                /\ ModeAnswer(i).operator = 3
           /\ \A function : Refusal(function).operator = 4 /\ Refusal(function).function_block = 31
<1> USE DEF Answer, NewPacket, OpStatus, OpResult, OpError, Status, BatteryLevel, Settings, Cnc,
        ProductName, StandbyTimer, AudioModes, CurrentMode, ModeConfig
<1>1. \A y \in CurrentNews(modes) : y.function_block = 31 /\ y.function = 3 /\ y.operator \in {3, 6}
  BY DEF CurrentNews, CurrentAnswer, CurrentModeQuery
<1>2. \A y \in StandbyNews : y.function_block = 1 /\ y.function = 4 /\ y.operator = 3
  BY DEF StandbyNews, StandbyAnswer, StandbyQuery
<1>3. /\ NameAnswer.function_block = 1 /\ NameAnswer.function = 2
      /\ BatteryAnswer.function_block = 2 /\ BatteryAnswer.function = 2
      /\ CncAnswer.function_block = 1 /\ CncAnswer.function = 5
  BY DEF NameAnswer, NameQuery, BatteryAnswer, BatteryQuery, CncAnswer, CncQuery
<1>4. \A i \in 0..9 : /\ ModeAnswer(i).function_block = 31 /\ ModeAnswer(i).function = 6
                      /\ ModeAnswer(i).operator = 3
  BY DEF ModeAnswer, ModeConfigQuery
<1>5. \A function : Refusal(function).operator = 4 /\ Refusal(function).function_block = 31
  BY DEF Refusal
<1> QED BY <1>1, <1>2, <1>3, <1>4, <1>5

LEMMA CommandKinds ==
    /\ NameQuery.function_block = 1 /\ NameQuery.function = 2
    /\ BatteryQuery.function_block = 2 /\ BatteryQuery.function = 2
    /\ CncQuery.function_block = 1 /\ CncQuery.function = 5
    /\ StandbyQuery.function_block = 1 /\ StandbyQuery.function = 4 /\ StandbyQuery.operator = 1
    /\ CurrentModeQuery.function_block = 31 /\ CurrentModeQuery.function = 3
    /\ CurrentModeQuery.operator = 1
    /\ \A i \in 0..9 :
         /\ ModeConfigQuery(i).function_block = 31 /\ ModeConfigQuery(i).function = 6
         /\ ModeConfigQuery(i).payload = <<i>>
    /\ \A m \in Byte :
         /\ SetStandby(m).function_block = 1 /\ SetStandby(m).function = 4
         /\ SetStandby(m).operator = 2
         /\ SetCurrentMode(m).function_block = 31 /\ SetCurrentMode(m).function = 3
         /\ SetCurrentMode(m).operator = 5
    /\ PowerOff.function_block = 7
<1> USE DEF NewPacket, OpGet, OpSetGet, OpStart, Status, BatteryLevel, Settings, Cnc, ProductName,
        StandbyTimer, AudioModes, CurrentMode, ModeConfig, Control, Power
<1>1. /\ NameQuery.function_block = 1 /\ NameQuery.function = 2
      /\ BatteryQuery.function_block = 2 /\ BatteryQuery.function = 2
      /\ CncQuery.function_block = 1 /\ CncQuery.function = 5
  BY DEF NameQuery, BatteryQuery, CncQuery
<1>2. /\ StandbyQuery.function_block = 1 /\ StandbyQuery.function = 4 /\ StandbyQuery.operator = 1
      /\ CurrentModeQuery.function_block = 31 /\ CurrentModeQuery.function = 3
      /\ CurrentModeQuery.operator = 1
  BY DEF StandbyQuery, CurrentModeQuery
<1>3. \A i \in 0..9 :
         /\ ModeConfigQuery(i).function_block = 31 /\ ModeConfigQuery(i).function = 6
         /\ ModeConfigQuery(i).payload = <<i>>
  BY DEF ModeConfigQuery
<1>4. \A m \in Byte :
         /\ SetStandby(m).function_block = 1 /\ SetStandby(m).function = 4
         /\ SetStandby(m).operator = 2
         /\ SetCurrentMode(m).function_block = 31 /\ SetCurrentMode(m).function = 3
         /\ SetCurrentMode(m).operator = 5
  BY DEF SetStandby, SetCurrentMode
<1>5. PowerOff.function_block = 7
  BY DEF PowerOff
<1> QED BY <1>1, <1>2, <1>3, <1>4, <1>5

-----------------------------------------------------------------------------
(* What the headphones do with the next command.                           *)

LEMMA Served ==
    ASSUME NEW d \in Headphones, d.current \in d.modes, d.on, NEW p \in Commands,
           NEW e, e = Changed(d, p), NEW y, e.on => y = AnswerTo(e, p),
           NEW modes, modes = d.modes
    PROVE  /\ e \in Headphones /\ e.modes = d.modes /\ e.current \in e.modes
           /\ ~e.on => p = PowerOff /\ e.current = d.current /\ e.standby = d.standby
           /\ e.on =>
                /\ y \in Answers(modes)
                /\ p = NameQuery => y = NameAnswer
                /\ p = BatteryQuery => y = BatteryAnswer
                /\ \A i \in modes \cap 0..9 : p = ModeConfigQuery(i) => y = ModeAnswer(i)
                /\ \/ y \in {CurrentAnswer(operator, e.current) : operator \in {OpStatus, OpResult}}
                   \/ y \notin CurrentNews(modes) /\ p # CurrentModeQuery /\ e.current = d.current
                /\ \/ y \in {StandbyAnswer(e.standby)}
                   \/ y \notin StandbyNews /\ p # StandbyQuery /\ e.standby = d.standby
<1>1. d.modes \in SUBSET Byte /\ d.current \in Byte /\ d.standby \in Byte /\ d.on = TRUE
  BY DEF Headphones
<1>2. \A i : i \in {CurrentAnswer(operator, d.current) : operator \in {OpStatus, OpResult}}
                => i \in CurrentNews(modes)
  BY DEF CurrentNews
<1>3. CASE p = PowerOff
  <2>1. p \notin Queries
    BY <1>3, CommandKinds DEF Queries, ModeQueries
  <2>2. e = [d EXCEPT !.on = FALSE]
    <3>1. \A m \in Byte : p # SetStandby(m) /\ p # SetCurrentMode(m)
      BY <1>3, CommandKinds
    <3> QED BY <2>1, <3>1, CommandsOfDevices
  <2> QED BY <1>1, <1>3, <2>2 DEF Headphones
<1> DEFINE CurrentTold == {CurrentAnswer(operator, e.current) : operator \in {OpStatus, OpResult}}
<1>4. CASE \E m \in Byte : p = SetStandby(m) /\ e = [d EXCEPT !.standby = m]
  <2>1. PICK m \in Byte : p = SetStandby(m) /\ e = [d EXCEPT !.standby = m]
    BY <1>4
  <2>2. e \in Headphones /\ e.modes = d.modes /\ e.current = d.current /\ e.standby = m /\ e.on
    BY <1>1, <2>1 DEF Headphones
  <2>3. AnswerTo(e, SetStandby(m)) = StandbyAnswer(e.standby)
    BY <2>2, AnswersToRest
  <2>4. y = StandbyAnswer(e.standby) /\ y \in StandbyNews
    BY <2>1, <2>2, <2>3 DEF StandbyNews
  <2>5. y \in Answers(modes) /\ y \notin CurrentNews(modes)
    BY <1>1, <2>4, Kinds DEF Answers
  <2>6. /\ p # NameQuery /\ p # BatteryQuery /\ p # CurrentModeQuery /\ p # StandbyQuery
        /\ \A i \in 0..9 : p # ModeConfigQuery(i)
    BY <2>1, CommandKinds
  <2> QED BY <2>2, <2>4, <2>5, <2>6
<1>5. CASE \E m \in Byte : /\ p = SetCurrentMode(m)
                           /\ e = IF m \in d.modes THEN [d EXCEPT !.current = m] ELSE d
  <2>1. PICK m \in Byte : /\ p = SetCurrentMode(m)
                          /\ e = IF m \in d.modes THEN [d EXCEPT !.current = m] ELSE d
    BY <1>5
  <2>2. /\ e \in Headphones /\ e.modes = d.modes /\ e.standby = d.standby /\ e.on
        /\ e.current \in e.modes
        /\ e.current = IF m \in d.modes THEN m ELSE d.current
    BY <1>1, <2>1 DEF Headphones
  <2>3. AnswerTo(e, SetCurrentMode(m)) =
            IF m \in e.modes THEN CurrentAnswer(OpResult, e.current) ELSE Refusal(CurrentMode)
    BY <2>2, AnswersToRest
  <2>4. \/ y \in CurrentTold /\ y \in CurrentNews(modes)
        \/ y = Refusal(CurrentMode) /\ e.current = d.current
    BY <2>1, <2>2, <2>3 DEF CurrentNews
  <2>5. y \in Answers(modes) /\ y \notin StandbyNews
    BY <1>1, <2>4, Kinds DEF Answers
  <2>6. y = Refusal(CurrentMode) => y \notin CurrentNews(modes)
    BY <1>1, Kinds
  <2>7. /\ p # NameQuery /\ p # BatteryQuery /\ p # CurrentModeQuery /\ p # StandbyQuery
        /\ \A i \in 0..9 : p # ModeConfigQuery(i)
    BY <2>1, CommandKinds
  <2> QED BY <2>2, <2>4, <2>5, <2>6, <2>7
<1>6. CASE p \in Queries /\ e = d
  <2>1. /\ AnswerTo(e, NameQuery) = NameAnswer
        /\ AnswerTo(e, BatteryQuery) = BatteryAnswer
        /\ AnswerTo(e, CncQuery) = CncAnswer
        /\ AnswerTo(e, StandbyQuery) = StandbyAnswer(e.standby)
        /\ AnswerTo(e, CurrentModeQuery) = CurrentAnswer(OpStatus, e.current)
    BY <1>6, AnswersToQueries
  <2>2. \A i \in 0..9 : AnswerTo(e, ModeConfigQuery(i)) =
                IF i \in e.modes THEN ModeAnswer(i) ELSE Refusal(ModeConfig)
    BY <1>6, AnswersToRest
  <2>3. /\ y = AnswerTo(e, p) /\ e \in Headphones /\ e.modes = d.modes /\ e.current \in e.modes
        /\ e.on
    BY <1>1, <1>6
  <2>4. CASE p = NameQuery
    <3>1. y = NameAnswer /\ y \in Answers(modes) /\ y \notin CurrentNews(modes) /\ y \notin StandbyNews
      BY <1>1, <2>1, <2>3, <2>4, Kinds DEF Answers
    <3>2. /\ p # BatteryQuery /\ p # CurrentModeQuery /\ p # StandbyQuery
          /\ \A i \in 0..9 : p # ModeConfigQuery(i)
      BY <2>4, CommandKinds
    <3> QED BY <1>6, <2>3, <3>1, <3>2
  <2>5. CASE p = BatteryQuery
    <3>1. /\ y = BatteryAnswer /\ y \in Answers(modes) /\ y \notin CurrentNews(modes)
          /\ y \notin StandbyNews
      BY <1>1, <2>1, <2>3, <2>5, Kinds DEF Answers
    <3>2. /\ p # NameQuery /\ p # CurrentModeQuery /\ p # StandbyQuery
          /\ \A i \in 0..9 : p # ModeConfigQuery(i)
      BY <2>5, CommandKinds
    <3> QED BY <1>6, <2>3, <3>1, <3>2
  <2>6. CASE p = CncQuery
    <3>1. /\ y = CncAnswer /\ y \in Answers(modes) /\ y \notin CurrentNews(modes)
          /\ y \notin StandbyNews
      BY <1>1, <2>1, <2>3, <2>6, Kinds DEF Answers
    <3>2. /\ p # NameQuery /\ p # BatteryQuery /\ p # CurrentModeQuery /\ p # StandbyQuery
          /\ \A i \in 0..9 : p # ModeConfigQuery(i)
      BY <2>6, CommandKinds
    <3> QED BY <1>6, <2>3, <3>1, <3>2
  <2>7. CASE p = StandbyQuery
    <3>1. y = StandbyAnswer(e.standby) /\ y \in StandbyNews
      BY <1>1, <1>6, <2>1, <2>3, <2>7 DEF StandbyNews
    <3>2. y \in Answers(modes) /\ y \notin CurrentNews(modes)
      BY <1>1, <3>1, Kinds DEF Answers
    <3>3. /\ p # NameQuery /\ p # BatteryQuery /\ p # CurrentModeQuery
          /\ \A i \in 0..9 : p # ModeConfigQuery(i)
      BY <2>7, CommandKinds
    <3> QED BY <1>6, <2>3, <3>1, <3>2, <3>3
  <2>8. CASE p = CurrentModeQuery
    <3>1. y = CurrentAnswer(OpStatus, e.current) /\ y \in CurrentTold /\ y \in CurrentNews(modes)
      BY <1>1, <1>6, <2>1, <2>3, <2>8 DEF CurrentNews
    <3>2. y \in Answers(modes) /\ y \notin StandbyNews
      BY <1>1, <3>1, Kinds DEF Answers
    <3>3. /\ p # NameQuery /\ p # BatteryQuery /\ p # StandbyQuery
          /\ \A i \in 0..9 : p # ModeConfigQuery(i)
      BY <2>8, CommandKinds
    <3> QED BY <1>6, <2>3, <3>1, <3>2, <3>3
  <2>9. ASSUME NEW j \in 0..9, p = ModeConfigQuery(j)
        PROVE  /\ y \in Answers(modes) /\ y \notin CurrentNews(modes) /\ y \notin StandbyNews
               /\ p # NameQuery /\ p # BatteryQuery /\ p # CurrentModeQuery /\ p # StandbyQuery
               /\ \A i \in modes \cap 0..9 : p = ModeConfigQuery(i) => y = ModeAnswer(i)
    <3>1. y = IF j \in modes THEN ModeAnswer(j) ELSE Refusal(ModeConfig)
      BY <2>2, <2>3, <2>9
    <3>2. y \in Answers(modes)
      BY <3>1 DEF Answers, ModeAnswers
    <3>3. y \notin CurrentNews(modes) /\ y \notin StandbyNews
      BY <1>1, <3>1, Kinds
    <3>4. p # NameQuery /\ p # BatteryQuery /\ p # CurrentModeQuery /\ p # StandbyQuery
      BY <2>9, CommandKinds
    <3>5. ASSUME NEW i \in modes \cap 0..9, p = ModeConfigQuery(i) PROVE y = ModeAnswer(i)
      <4>1. <<i>> = <<j>>
        BY <2>9, <3>5, CommandKinds
      <4>2. i = j
        BY <4>1
      <4> QED BY <3>1, <3>5, <4>2
    <3> QED BY <3>2, <3>3, <3>4, <3>5
  <2>10. CASE \E j \in 0..9 : p = ModeConfigQuery(j)
    BY <1>6, <2>3, <2>9, <2>10
  <2> QED BY <1>6, <2>4, <2>5, <2>6, <2>7, <2>8, <2>10 DEF Queries, ModeQueries
<1> QED BY <1>3, <1>4, <1>5, <1>6, CommandsOfDevices

\* Of a step of the headphones: what is answered, and what it says of them.
LEMMA DeviceStepped ==
    ASSUME Shapes, DeviceStep
    PROVE  /\ turns' = turns /\ asked' = asked /\ state' = state /\ confirm' = confirm /\ tui' = tui
           /\ commands # << >> /\ commands' = Tail(commands) /\ Len(answers) < MaxAnswers
           /\ device' \in Headphones /\ device'.modes = device.modes /\ device'.current \in device'.modes
           /\ \/ /\ answers' = answers /\ Head(commands) = PowerOff
                 /\ device'.current = device.current /\ device'.standby = device.standby
              \/ \E y \in Answers(device.modes) :
                    /\ answers' = Append(answers, y)
                    /\ Head(commands) = NameQuery => y = NameAnswer
                    /\ Head(commands) = BatteryQuery => y = BatteryAnswer
                    /\ \A i \in device.modes \cap 0..9 :
                            Head(commands) = ModeConfigQuery(i) => y = ModeAnswer(i)
                    /\ \/ y \in CurrentTruth'
                       \/ /\ y \notin CurrentNews(device.modes) /\ Head(commands) # CurrentModeQuery
                          /\ device'.current = device.current
                    /\ \/ y \in StandbyTruth'
                       \/ /\ y \notin StandbyNews /\ Head(commands) # StandbyQuery
                          /\ device'.standby = device.standby
<1>1. /\ device.on /\ commands # << >> /\ Len(answers) < MaxAnswers
      /\ device' = Changed(device, Head(commands))
      /\ answers' = IF ~device'.on THEN answers
                    ELSE Append(answers, AnswerTo(device', Head(commands)))
      /\ commands' = Tail(commands)
      /\ turns' = turns /\ asked' = asked /\ state' = state /\ confirm' = confirm /\ tui' = tui
  BY DEF DeviceStep
<1>2. device \in Headphones /\ device.current \in device.modes /\ commands \in Seq(Commands)
  BY DEF Shapes
<1>3. Head(commands) \in Commands
  BY <1>1, <1>2
<1> DEFINE p == Head(commands)
           e == device'
           y == AnswerTo(device', Head(commands))
           modes == device.modes
<1>4. /\ e \in Headphones /\ e.modes = device.modes /\ e.current \in e.modes
      /\ ~e.on => p = PowerOff /\ e.current = device.current /\ e.standby = device.standby
      /\ e.on =>
            /\ y \in Answers(modes)
            /\ p = NameQuery => y = NameAnswer
            /\ p = BatteryQuery => y = BatteryAnswer
            /\ \A i \in modes \cap 0..9 : p = ModeConfigQuery(i) => y = ModeAnswer(i)
            /\ \/ y \in {CurrentAnswer(operator, e.current) : operator \in {OpStatus, OpResult}}
               \/ y \notin CurrentNews(modes) /\ p # CurrentModeQuery /\ e.current = device.current
            /\ \/ y \in {StandbyAnswer(e.standby)}
               \/ y \notin StandbyNews /\ p # StandbyQuery /\ e.standby = device.standby
  <2>1. e = Changed(device, p) /\ (e.on => y = AnswerTo(e, p)) /\ modes = device.modes
    BY <1>1
  <2>2. p \in Commands
    BY <1>3
  <2>3. device \in Headphones /\ device.current \in device.modes /\ device.on
    BY <1>1, <1>2
  <2> HIDE DEF p, e, y, modes
  <2> QED BY ONLY <2>1, <2>2, <2>3, Served
<1>5. /\ CurrentTruth' = {CurrentAnswer(operator, e.current) : operator \in {OpStatus, OpResult}}
      /\ StandbyTruth' = {StandbyAnswer(e.standby)}
  BY DEF CurrentTruth, StandbyTruth
<1>6. CASE e.on
  <2>1. answers' = Append(answers, y)
    BY <1>1, <1>6
  <2> HIDE DEF p, e, y, modes
  <2> DEFINE Of(z) ==
                /\ answers' = Append(answers, z)
                /\ p = NameQuery => z = NameAnswer
                /\ p = BatteryQuery => z = BatteryAnswer
                /\ \A i \in modes \cap 0..9 : p = ModeConfigQuery(i) => z = ModeAnswer(i)
                /\ \/ z \in CurrentTruth'
                   \/ z \notin CurrentNews(modes) /\ p # CurrentModeQuery /\ e.current = device.current
                /\ \/ z \in StandbyTruth'
                   \/ z \notin StandbyNews /\ p # StandbyQuery /\ e.standby = device.standby
  <2>2. y \in Answers(modes) /\ Of(y)
    BY <1>4, <1>5, <1>6, <2>1
  <2>3. \E z \in Answers(modes) : Of(z)
    <3> HIDE DEF Of
    <3> QED BY <2>2
  <2>4. PICK z \in Answers(modes) : Of(z)
    BY <2>3
  <2> QED BY <1>1, <1>4, <2>4 DEF p, e, modes
<1>7. CASE ~e.on
  BY <1>1, <1>4, <1>7
<1> QED BY <1>6, <1>7

LEMMA Turned ==
    ASSUME Shapes, Turn
    PROVE  /\ turns' \in 0..MaxTurns /\ Len(answers) < MaxAnswers
           /\ asked' = asked /\ commands' = commands
           /\ state' = state /\ confirm' = confirm /\ tui' = tui
           /\ device' \in Headphones /\ device'.modes = device.modes /\ device'.current \in device'.modes
           /\ device'.standby = device.standby
           /\ \E y \in Answers(device.modes) :
                answers' = Append(answers, y) /\ y \in CurrentTruth' /\ y \notin StandbyNews
<1>1. PICK i \in device.modes : device' = [device EXCEPT !.current = i]
  BY DEF Turn
<1>2. device \in Headphones /\ device.modes \in SUBSET Byte /\ i \in Byte
  BY DEF Shapes, Headphones
<1>3. /\ device' \in Headphones /\ device'.modes = device.modes /\ device'.standby = device.standby
      /\ device'.current = i
  BY <1>1, <1>2 DEF Headphones
<1>4. AnswerTo(device', CurrentModeQuery) = CurrentAnswer(OpStatus, device'.current)
  BY <1>3, AnswersToQueries
<1>5. CurrentAnswer(OpStatus, device'.current) \in CurrentTruth'
  BY DEF CurrentTruth
<1>6. CurrentAnswer(OpStatus, device'.current) \in CurrentNews(device.modes)
  BY <1>3 DEF CurrentNews
<1>7. /\ CurrentAnswer(OpStatus, device'.current) \in Answers(device.modes)
      /\ CurrentAnswer(OpStatus, device'.current) \notin StandbyNews
  BY <1>2, <1>6, Kinds DEF Answers
<1>8. turns' \in 0..MaxTurns
  BY TuiAssumption DEF Turn, Shapes
<1>9. /\ answers' = Append(answers, AnswerTo(device', CurrentModeQuery)) /\ Len(answers) < MaxAnswers
      /\ asked' = asked /\ commands' = commands
      /\ state' = state /\ confirm' = confirm /\ tui' = tui
  BY DEF Turn
<1> QED BY <1>1, <1>3, <1>4, <1>5, <1>7, <1>8, <1>9

\* Of a step of App: what it makes of the answer.
LEMMA Taken ==
    ASSUME Shapes, PollIpc
    PROVE  /\ device' = device /\ turns' = turns /\ asked' = asked /\ commands' = commands
           /\ confirm' = confirm /\ tui' = tui
           /\ answers # << >> /\ answers' = Tail(answers) /\ Head(answers) \in Answers(device.modes)
           /\ \/ /\ Head(answers) = NameAnswer
                 /\ state' = [state EXCEPT !.product_name = Some(ProductNameBytes)]
              \/ Head(answers) = BatteryAnswer /\ state' = [state EXCEPT !.battery = BatteryView]
              \/ Head(answers) = CncAnswer /\ state' = [state EXCEPT !.cnc = Some(CncView)]
              \/ \E m \in Byte : /\ Head(answers) = StandbyAnswer(m)
                                 /\ state' = [state EXCEPT !.standby_timer_minutes = Some(m)]
              \/ \E operator \in {OpStatus, OpResult}, i \in device.modes :
                    /\ Head(answers) = CurrentAnswer(operator, i)
                    /\ state' = [state EXCEPT !.audio_mode_index = Some(i)]
              \/ \E i \in device.modes \cap 0..9 :
                    /\ Head(answers) = ModeAnswer(i)
                    /\ state' = [state EXCEPT !.audio_modes = Upsert(@, ModeView(i))]
              \/ Head(answers) \in {Refusal(CurrentMode), Refusal(ModeConfig)} /\ state' = state
<1>1. /\ answers # << >> /\ answers' = Tail(answers)
      /\ state' = IF UpdateOf(Head(answers)) = None THEN state
                  ELSE Updated(state, UpdateOf(Head(answers))[1])
      /\ device' = device /\ turns' = turns /\ asked' = asked /\ commands' = commands
      /\ confirm' = confirm /\ tui' = tui
  BY DEF PollIpc, deviceVars
<1>2. /\ answers \in Seq(Answers(device.modes)) /\ device.modes \in SUBSET Byte
      /\ state \in Views(device.modes) /\ Ascending(state.audio_modes)
  BY DEF Shapes, Headphones
<1>3. Head(answers) \in Answers(device.modes)
  BY <1>1, <1>2
<1> DEFINE a == Head(answers)
           update == UpdateOf(a)
           modes == device.modes
<1>4. state' = (IF update = None THEN state ELSE Updated(state, update[1])) /\ update = UpdateOf(a)
  BY <1>1
<1> HIDE DEF update
<1>5. Read(a, modes, state, state')
  <2> HIDE DEF a
  <2>1. a \in Answers(modes) /\ modes \in SUBSET Byte /\ state \in Views(modes)
    BY <1>2, <1>3 DEF a
  <2> HIDE DEF modes
  <2>2. PICK u : u = update /\ u = UpdateOf(a)
    BY <1>4
  <2>3. state' = IF u = None THEN state ELSE Updated(state, u[1])
    BY <1>4, <2>2
  <2> QED BY ONLY <1>2, <2>1, <2>2, <2>3, Polled
<1> QED BY <1>1, <1>3, <1>5 DEF Read

-----------------------------------------------------------------------------
(* The invariant.                                                          *)

LEMMA InitApp == ASSUME Init PROVE AppInv
<1>1. device \in Headphones /\ device.current \in device.modes
  BY TuiAssumption DEF Init, Headphones
<1>2. state \in Views(device.modes) /\ Ascending(state.audio_modes)
  <2>1. << >> \in Seq(ModeViews(device.modes))
    OBVIOUS
  <2> QED BY <2>1 DEF Init, DefaultState, Views, None, Ascending
<1>3. Shapes
  <2>1. << >> \in Seq(Commands) /\ << >> \in Seq(Answers(device.modes)) /\ Len(<< >>) = 0
    OBVIOUS
  <2>2. 0 \in 0..MaxTurns /\ 0 \in 0..15 /\ 0 <= MaxCommands /\ 0 <= MaxAnswers
    BY TuiAssumption
  <2> QED BY <1>1, <1>2, <2>1, <2>2 DEF Init, Shapes
<1>4. asked = 0
  BY DEF Init
<1>5. \A i \in Discoverable : i + 6 > 0
  BY DEF Discoverable
<1>6. NameComes /\ BatteryComes /\ CurrentComes /\ StandbyComes
  BY <1>4 DEF NameComes, BatteryComes, CurrentComes, StandbyComes
<1>7. ModesCome
  BY <1>4, <1>5 DEF ModesCome, Discoverable
<1> QED BY <1>3, <1>6, <1>7 DEF AppInv

\* What App's list of modes is after one more answer.
LEMMA ViewUpserted ==
    ASSUME Shapes, NEW i \in device.modes \cap 0..9
    PROVE  /\ ModeView(i).mode_index = i
           /\ Merged(Upsert(state.audio_modes, ModeView(i)), state.audio_modes, ModeView(i),
                     ModeViews(device.modes))
<1>1. \A x \in ModeViews(device.modes) : x.mode_index \in Nat
  BY DEF ModeViews, ModeView
<1>2. state.audio_modes \in Seq(ModeViews(device.modes)) /\ Ascending(state.audio_modes)
  BY DEF Shapes, Views
<1>3. ModeView(i) \in ModeViews(device.modes) /\ ModeView(i).mode_index = i
  BY DEF ModeViews, ModeView
<1> QED BY <1>1, <1>2, <1>3, Upserted

LEMMA ShapesKept == ASSUME Shapes, [Next]_vars PROVE Shapes'
<1>0. MaxCommands \in Nat /\ MaxAnswers \in Nat
  BY TuiAssumption
<1>1. /\ device \in Headphones /\ device.current \in device.modes
      /\ turns \in 0..MaxTurns /\ asked \in 0..15
      /\ commands \in Seq(Commands) /\ Len(commands) <= MaxCommands /\ Len(commands) \in Nat
      /\ answers \in Seq(Answers(device.modes)) /\ Len(answers) <= MaxAnswers /\ Len(answers) \in Nat
      /\ state \in Views(device.modes) /\ Ascending(state.audio_modes)
      /\ confirm \in BOOLEAN /\ tui \in {"running", "quit", "panicked"}
  BY DEF Shapes
<1>2. CASE SendQuery
  <2>1. /\ asked < 15 /\ Len(commands) < MaxCommands /\ asked' = asked + 1
        /\ commands' = Append(commands, InitialQueries[asked + 1])
        /\ device' = device /\ turns' = turns /\ answers' = answers /\ state' = state
        /\ confirm' = confirm /\ tui' = tui
    BY <1>2, QueryAt DEF SendQuery, deviceVars
  <2>2. InitialQueries[asked + 1] \in Commands
    <3>1. asked + 1 \in 1..15
      BY <1>1, <2>1
    <3> QED BY <3>1, QueriesAreCommands DEF Commands
  <2>3. commands' \in Seq(Commands) /\ Len(commands') = Len(commands) + 1
    BY <1>1, <2>1, <2>2
  <2>4. Len(commands') <= MaxCommands /\ asked' \in 0..15
    BY <1>0, <1>1, <2>1, <2>3
  <2> QED BY <1>1, <2>1, <2>3, <2>4 DEF Shapes
<1>3. CASE DeviceStep
  <2>1. /\ turns' = turns /\ asked' = asked /\ state' = state /\ confirm' = confirm /\ tui' = tui
        /\ commands # << >> /\ commands' = Tail(commands) /\ Len(answers) < MaxAnswers
        /\ device' \in Headphones /\ device'.modes = device.modes
        /\ device'.current \in device'.modes
        /\ answers' = answers \/ \E y \in Answers(device.modes) : answers' = Append(answers, y)
    BY <1>3, DeviceStepped
  <2>2. commands' \in Seq(Commands) /\ Len(commands') <= MaxCommands
    BY <1>0, <1>1, <2>1
  <2>3. answers' \in Seq(Answers(device.modes)) /\ Len(answers') <= MaxAnswers
    <3>1. CASE answers' = answers
      BY <1>1, <3>1
    <3>2. ASSUME NEW y \in Answers(device.modes), answers' = Append(answers, y)
          PROVE  answers' \in Seq(Answers(device.modes)) /\ Len(answers') = Len(answers) + 1
      BY <1>1, <3>2
    <3> QED BY <1>0, <1>1, <2>1, <3>1, <3>2
  <2> QED BY <1>1, <2>1, <2>2, <2>3 DEF Shapes
<1>4. CASE Turn
  <2>1. /\ turns' \in 0..MaxTurns /\ asked' = asked /\ commands' = commands
        /\ state' = state /\ confirm' = confirm /\ tui' = tui /\ Len(answers) < MaxAnswers
        /\ device' \in Headphones /\ device'.modes = device.modes
        /\ device'.current \in device'.modes
        /\ \E y \in Answers(device.modes) : answers' = Append(answers, y)
    BY <1>4, Turned
  <2>2. answers' \in Seq(Answers(device.modes)) /\ Len(answers') <= MaxAnswers
    <3>1. ASSUME NEW y \in Answers(device.modes), answers' = Append(answers, y)
          PROVE  answers' \in Seq(Answers(device.modes)) /\ Len(answers') = Len(answers) + 1
      BY <1>1, <3>1
    <3> QED BY <1>0, <1>1, <2>1, <3>1
  <2> QED BY <1>1, <2>1, <2>2 DEF Shapes
<1>5. CASE PollIpc
  <2>1. /\ device' = device /\ turns' = turns /\ asked' = asked /\ commands' = commands
        /\ confirm' = confirm /\ tui' = tui /\ answers # << >> /\ answers' = Tail(answers)
    BY <1>5, Taken
  <2>2. answers' \in Seq(Answers(device.modes)) /\ Len(answers') <= MaxAnswers
    BY <1>0, <1>1, <2>1
  <2>3. state' \in Views(device.modes) /\ Ascending(state'.audio_modes)
    <3>1. CASE \E i \in device.modes \cap 0..9 :
                    state' = [state EXCEPT !.audio_modes = Upsert(@, ModeView(i))]
      <4>1. PICK i \in device.modes \cap 0..9 :
                state' = [state EXCEPT !.audio_modes = Upsert(@, ModeView(i))]
        BY <3>1
      <4>3. PICK r : r = Upsert(state.audio_modes, ModeView(i))
        OBVIOUS
      <4>2. r \in Seq(ModeViews(device.modes)) /\ Ascending(r)
        BY <4>3, ViewUpserted DEF Merged
      <4>4. state' = [state EXCEPT !.audio_modes = r]
        BY <4>1, <4>3
      <4> QED BY <1>1, <4>2, <4>4 DEF Views
    <3>2. CASE \/ state' = [state EXCEPT !.product_name = Some(ProductNameBytes)]
               \/ state' = [state EXCEPT !.battery = BatteryView]
               \/ state' = [state EXCEPT !.cnc = Some(CncView)]
               \/ \E m \in Byte : state' = [state EXCEPT !.standby_timer_minutes = Some(m)]
               \/ \E i \in device.modes : state' = [state EXCEPT !.audio_mode_index = Some(i)]
               \/ state' = state
      BY <1>1, <3>2 DEF Views
    <3>3. \/ \E i \in device.modes \cap 0..9 :
                    state' = [state EXCEPT !.audio_modes = Upsert(@, ModeView(i))]
          \/ state' = [state EXCEPT !.product_name = Some(ProductNameBytes)]
          \/ state' = [state EXCEPT !.battery = BatteryView]
          \/ state' = [state EXCEPT !.cnc = Some(CncView)]
          \/ \E m \in Byte : state' = [state EXCEPT !.standby_timer_minutes = Some(m)]
          \/ \E i \in device.modes : state' = [state EXCEPT !.audio_mode_index = Some(i)]
          \/ state' = state
      BY <1>5, Taken
    <3> QED BY <3>1, <3>2, <3>3
  <2> QED BY <1>1, <2>1, <2>2, <2>3 DEF Shapes
<1>6. CASE Pressed
  <2>1. /\ device' = device /\ turns' = turns /\ asked' = asked /\ answers' = answers
        /\ state' = state /\ Len(commands) < MaxCommands
        /\ confirm' \in BOOLEAN /\ tui' \in {"running", "quit", "panicked"}
        /\ commands' = commands \/ \E c \in Commands : commands' = Append(commands, c)
    BY <1>6, Keyed
  <2>2. commands' \in Seq(Commands) /\ Len(commands') <= MaxCommands
    <3>1. CASE commands' = commands
      BY <1>1, <3>1
    <3>2. ASSUME NEW c \in Commands, commands' = Append(commands, c)
          PROVE  commands' \in Seq(Commands) /\ Len(commands') = Len(commands) + 1
      BY <1>1, <3>2
    <3> QED BY <1>0, <1>1, <2>1, <3>1, <3>2
  <2> QED BY <1>1, <2>1, <2>2 DEF Shapes
<1>7. CASE UNCHANGED vars
  BY <1>1, <1>7 DEF vars, deviceVars, Shapes
<1> QED BY <1>2, <1>3, <1>4, <1>5, <1>6, <1>7 DEF Next, Pressed

\* Query c, the nth of all, and an answer x that the headphones give to it: once the
\* query is sent, one of the two is under way until App takes the answer.
LEMMA Answered ==
    ASSUME Shapes, [Next]_vars, NEW n \in 1..15, NEW c, c = InitialQueries[n], NEW x,
           DeviceStep /\ Head(commands) = c => Has(answers', x),
           asked' >= n, ~Has(commands', c), ~Has(answers', x)
    PROVE  \/ PollIpc /\ Head(answers) = x
           \/ asked >= n /\ ~Has(commands, c) /\ ~Has(answers, x)
<1>1. /\ commands \in Seq(Commands) /\ answers \in Seq(Answers(device.modes)) /\ asked \in 0..15
  BY DEF Shapes
<1>2. CASE SendQuery
  <2>1. /\ asked < 15 /\ asked' = asked + 1 /\ answers' = answers
        /\ commands' = Append(commands, InitialQueries[asked + 1])
    BY <1>2, QueryAt DEF SendQuery
  <2>2. PICK y : y = InitialQueries[asked + 1]
    OBVIOUS
  <2>3. y \in Commands
    <3>1. asked + 1 \in 1..15
      BY <1>1, <2>1
    <3> QED BY <2>2, <3>1, QueriesAreCommands DEF Commands
  <2>4. Has(commands', y) /\ (Has(commands, c) => Has(commands', c))
    <3>1. Has(Append(commands, y), y) /\ (Has(commands, c) => Has(Append(commands, y), c))
      BY ONLY <1>1, <2>3, QueueAppend
    <3> QED BY <2>1, <2>2, <3>1
  <2>5. asked + 1 # n
    BY <2>2, <2>4
  <2> QED BY <1>1, <2>1, <2>4, <2>5
<1>3. CASE DeviceStep
  <2>1. /\ asked' = asked /\ commands # << >> /\ commands' = Tail(commands)
        /\ answers' = answers \/ \E y \in Answers(device.modes) : answers' = Append(answers, y)
    BY <1>3, DeviceStepped
  <2>2. Has(answers, x) => Has(answers', x)
    <3>1. ASSUME NEW y \in Answers(device.modes), answers' = Append(answers, y)
          PROVE  Has(answers, x) => Has(answers', x)
      BY <1>1, <3>1, QueueAppend
    <3> QED BY <2>1, <3>1
  <2>3. Has(commands, c) => Head(commands) = c \/ Has(commands', c)
    BY <1>1, <2>1, QueueTail
  <2> QED BY <1>3, <2>1, <2>2, <2>3
<1>4. CASE Turn
  <2>1. /\ asked' = asked /\ commands' = commands
        /\ \E y \in Answers(device.modes) : answers' = Append(answers, y)
    BY <1>4, Turned
  <2>2. Has(answers, x) => Has(answers', x)
    <3>1. PICK y \in Answers(device.modes) : answers' = Append(answers, y)
      BY <2>1
    <3> QED BY <1>1, <3>1, QueueAppend
  <2> QED BY <2>1, <2>2
<1>5. CASE PollIpc
  <2>1. asked' = asked /\ commands' = commands /\ answers # << >> /\ answers' = Tail(answers)
    BY <1>5, Taken
  <2>2. Has(answers, x) => Head(answers) = x \/ Has(answers', x)
    BY <1>1, <2>1, QueueTail
  <2> QED BY <1>5, <2>1, <2>2
<1>6. CASE Pressed
  <2>1. /\ asked' = asked /\ answers' = answers
        /\ commands' = commands \/ \E y \in Commands : commands' = Append(commands, y)
    BY <1>6, Keyed
  <2>2. Has(commands, c) => Has(commands', c)
    <3>1. ASSUME NEW y \in Commands, commands' = Append(commands, y)
          PROVE  Has(commands, c) => Has(commands', c)
      BY <1>1, <3>1, QueueAppend
    <3> QED BY <2>1, <3>1
  <2> QED BY <2>1, <2>2
<1>7. CASE UNCHANGED vars
  BY <1>7 DEF vars
<1> QED BY <1>2, <1>3, <1>4, <1>5, <1>6, <1>7 DEF Next, Pressed

\* Query c and the answers T, of which those in G (in H after the step) tell the truth:
\* a step that adds an answer of T, or changes the truth, tells it.
TruthTold(c, T, G, H) ==
    /\ DeviceStep \/ Turn =>
         \/ answers' = answers /\ G = H /\ (DeviceStep => Head(commands) # c)
         \/ \E y \in Answers(device.modes) :
                /\ answers' = Append(answers, y)
                /\ y \in H \/ (y \notin T /\ G = H /\ (DeviceStep => Head(commands) # c))
    /\ SendQuery \/ PollIpc \/ Pressed \/ UNCHANGED vars => G = H

\* App takes the truth, or has it already.
TruthTaken(n, c, T, G, H) ==
    /\ Lacks(answers', T) /\ G = H /\ asked >= n /\ ~Has(commands, c)
    /\ \/ PollIpc /\ Head(answers) \in G
       \/ Lacks(answers, T) /\ ~Ends(answers, T, G)

\* Once the nth query, c, is sent, it is on its way, or the last answer of T on its way
\* tells the truth, or there is none and App has taken the last one.
LEMMA Told ==
    ASSUME Shapes, [Next]_vars, NEW n \in 1..15, NEW c, c = InitialQueries[n],
           NEW T, NEW G, NEW H, TruthTold(c, T, G, H),
           asked >= n => Has(commands, c) \/ Ends(answers, T, G) \/ Lacks(answers, T),
           asked' >= n, ~Has(commands', c), ~Ends(answers', T, H)
    PROVE  TruthTaken(n, c, T, G, H)
<1> USE DEF TruthTold, TruthTaken
<1>1. /\ commands \in Seq(Commands) /\ answers \in Seq(Answers(device.modes)) /\ asked \in 0..15
  BY DEF Shapes
<1>2. CASE SendQuery
  <2>1. /\ asked < 15 /\ asked' = asked + 1 /\ answers' = answers /\ G = H
        /\ commands' = Append(commands, InitialQueries[asked + 1])
    BY <1>2, QueryAt DEF SendQuery
  <2>2. PICK y : y = InitialQueries[asked + 1]
    OBVIOUS
  <2>3. y \in Commands
    <3>1. asked + 1 \in 1..15
      BY <1>1, <2>1
    <3> QED BY <2>2, <3>1, QueriesAreCommands DEF Commands
  <2>4. Has(commands', y) /\ (Has(commands, c) => Has(commands', c))
    <3>1. commands \in Seq(Commands) /\ commands' = Append(commands, y)
      BY <1>1, <2>1, <2>2
    <3> QED BY ONLY <2>3, <3>1, QueueAppend
  <2>5. asked + 1 # n
    BY <2>2, <2>4
  <2> QED BY <1>1, <2>1, <2>4, <2>5
<1>3. CASE DeviceStep
  <2>1. asked' = asked /\ commands # << >> /\ commands' = Tail(commands)
    BY <1>3, DeviceStepped
  <2>2. Has(commands, c) => Head(commands) = c
    BY <1>1, <2>1, QueueTail
  <2>3. CASE answers' = answers /\ G = H /\ Head(commands) # c
    BY <2>1, <2>2, <2>3
  <2>4. CASE \E y \in Answers(device.modes) :
                    /\ answers' = Append(answers, y)
                    /\ y \in H \/ (y \notin T /\ G = H /\ Head(commands) # c)
    <3>1. PICK y \in Answers(device.modes) :
                    /\ answers' = Append(answers, y)
                    /\ y \in H \/ (y \notin T /\ G = H /\ Head(commands) # c)
      BY <2>4
    <3>2. y \notin H
      BY <1>1, <3>1, QueueAppend
    <3>3. /\ Ends(answers, T, G) => Ends(answers', T, G)
          /\ Lacks(answers, T) => Lacks(answers', T)
      BY <1>1, <3>1, <3>2, QueueAppend
    <3> QED BY <2>1, <2>2, <3>1, <3>2, <3>3
  <2> QED BY <1>3, <2>3, <2>4
<1>4. CASE Turn
  <2>1. asked' = asked /\ commands' = commands
    BY <1>4, Turned
  <2>2. CASE answers' = answers /\ G = H
    BY <2>1, <2>2
  <2>3. CASE \E y \in Answers(device.modes) :
                    answers' = Append(answers, y) /\ (y \in H \/ (y \notin T /\ G = H))
    <3>1. PICK y \in Answers(device.modes) :
                    answers' = Append(answers, y) /\ (y \in H \/ (y \notin T /\ G = H))
      BY <2>3
    <3>2. y \notin H
      BY <1>1, <3>1, QueueAppend
    <3>3. /\ Ends(answers, T, G) => Ends(answers', T, G)
          /\ Lacks(answers, T) => Lacks(answers', T)
      BY <1>1, <3>1, <3>2, QueueAppend
    <3> QED BY <2>1, <3>1, <3>2, <3>3
  <2> QED BY <1>4, <2>2, <2>3
<1>5. CASE PollIpc
  <2>1. /\ asked' = asked /\ commands' = commands /\ answers # << >> /\ answers' = Tail(answers)
        /\ G = H
    BY <1>5, Taken
  <2>2. /\ Ends(answers, T, G) => Ends(answers', T, G) \/ (Head(answers) \in G /\ Lacks(answers', T))
        /\ Lacks(answers, T) => Lacks(answers', T)
    BY <1>1, <2>1, QueueTail
  <2> QED BY <1>5, <2>1, <2>2
<1>6. CASE Pressed
  <2>1. /\ asked' = asked /\ answers' = answers /\ G = H
        /\ commands' = commands \/ \E y \in Commands : commands' = Append(commands, y)
    BY <1>6, Keyed
  <2>2. Has(commands, c) => Has(commands', c)
    <3>1. ASSUME NEW y \in Commands, commands' = Append(commands, y)
          PROVE  Has(commands, c) => Has(commands', c)
      BY <1>1, <3>1, QueueAppend
    <3> QED BY <2>1, <3>1
  <2> QED BY <2>1, <2>2
<1>7. CASE UNCHANGED vars
  BY <1>7 DEF vars
<1> QED BY <1>2, <1>3, <1>4, <1>5, <1>6, <1>7 DEF Next, Pressed

LEMMA StateChange ==
    ASSUME Shapes, [Next]_vars, ~PollIpc
    PROVE  state' = state /\ device'.modes = device.modes
<1>1. CASE SendQuery
  BY <1>1 DEF SendQuery, deviceVars
<1>2. CASE DeviceStep
  BY <1>2, DeviceStepped
<1>3. CASE Turn
  BY <1>3, Turned
<1>4. CASE Pressed
  BY <1>4, Keyed
<1>5. CASE UNCHANGED vars
  BY <1>5 DEF vars, deviceVars
<1> QED BY <1>1, <1>2, <1>3, <1>4, <1>5 DEF Next, Pressed

\* Each field is changed by its own answers, and by nothing else.
LEMMA FieldsTaken ==
    ASSUME Shapes, PollIpc
    PROVE  /\ \/ Head(answers) = NameAnswer /\ state'.product_name = Some(ProductNameBytes)
              \/ Head(answers) # NameAnswer /\ state'.product_name = state.product_name
           /\ \/ Head(answers) = BatteryAnswer /\ state'.battery = BatteryView
              \/ Head(answers) # BatteryAnswer /\ state'.battery = state.battery
           /\ \/ \E m \in Byte : /\ Head(answers) = StandbyAnswer(m)
                                 /\ state'.standby_timer_minutes = Some(m)
              \/ /\ Head(answers) \notin StandbyNews
                 /\ state'.standby_timer_minutes = state.standby_timer_minutes
           /\ \/ \E operator \in {OpStatus, OpResult}, i \in device.modes :
                    /\ Head(answers) = CurrentAnswer(operator, i)
                    /\ state'.audio_mode_index = Some(i)
              \/ /\ Head(answers) \notin CurrentNews(device.modes)
                 /\ state'.audio_mode_index = state.audio_mode_index
           /\ \/ \E i \in device.modes \cap 0..9 :
                    /\ Head(answers) = ModeAnswer(i)
                    /\ state'.audio_modes = Upsert(state.audio_modes, ModeView(i))
              \/ /\ \A i \in device.modes \cap 0..9 : Head(answers) # ModeAnswer(i)
                 /\ state'.audio_modes = state.audio_modes
<1>1. state \in Views(device.modes) /\ device.modes \in SUBSET Byte
  BY DEF Shapes, Headphones
<1> DEFINE a == Head(answers)
<1>2. CASE a = NameAnswer /\ state' = [state EXCEPT !.product_name = Some(ProductNameBytes)]
  <2>1. /\ a # BatteryAnswer /\ a \notin StandbyNews /\ a \notin CurrentNews(device.modes)
        /\ \A i \in device.modes \cap 0..9 : a # ModeAnswer(i)
    BY <1>1, <1>2, Kinds
  <2>2. /\ state'.product_name = Some(ProductNameBytes) /\ state'.battery = state.battery
        /\ state'.standby_timer_minutes = state.standby_timer_minutes
        /\ state'.audio_mode_index = state.audio_mode_index /\ state'.audio_modes = state.audio_modes
    BY <1>1, <1>2 DEF Views
  <2> QED BY <1>2, <2>1, <2>2
<1>3. CASE a = BatteryAnswer /\ state' = [state EXCEPT !.battery = BatteryView]
  <2>1. /\ a # NameAnswer /\ a \notin StandbyNews /\ a \notin CurrentNews(device.modes)
        /\ \A i \in device.modes \cap 0..9 : a # ModeAnswer(i)
    BY <1>1, <1>3, Kinds
  <2>2. /\ state'.product_name = state.product_name /\ state'.battery = BatteryView
        /\ state'.standby_timer_minutes = state.standby_timer_minutes
        /\ state'.audio_mode_index = state.audio_mode_index /\ state'.audio_modes = state.audio_modes
    BY <1>1, <1>3 DEF Views
  <2> QED BY <1>3, <2>1, <2>2
<1>4. CASE \/ a = CncAnswer /\ state' = [state EXCEPT !.cnc = Some(CncView)]
           \/ a \in {Refusal(CurrentMode), Refusal(ModeConfig)} /\ state' = state
  <2>1. /\ a # NameAnswer /\ a # BatteryAnswer /\ a \notin StandbyNews
        /\ a \notin CurrentNews(device.modes)
        /\ \A i \in device.modes \cap 0..9 : a # ModeAnswer(i)
    BY <1>1, <1>4, Kinds
  <2>2. /\ state'.product_name = state.product_name /\ state'.battery = state.battery
        /\ state'.standby_timer_minutes = state.standby_timer_minutes
        /\ state'.audio_mode_index = state.audio_mode_index /\ state'.audio_modes = state.audio_modes
    BY <1>1, <1>4 DEF Views
  <2> QED BY <2>1, <2>2
<1>5. ASSUME NEW m \in Byte, a = StandbyAnswer(m),
             state' = [state EXCEPT !.standby_timer_minutes = Some(m)]
      PROVE  /\ a # NameAnswer /\ a # BatteryAnswer /\ a \notin CurrentNews(device.modes)
             /\ \A i \in device.modes \cap 0..9 : a # ModeAnswer(i)
             /\ state'.product_name = state.product_name /\ state'.battery = state.battery
             /\ state'.standby_timer_minutes = Some(m)
             /\ state'.audio_mode_index = state.audio_mode_index
             /\ state'.audio_modes = state.audio_modes
  <2>1. a \in StandbyNews
    BY <1>5 DEF StandbyNews
  <2>2. /\ a # NameAnswer /\ a # BatteryAnswer /\ a \notin CurrentNews(device.modes)
        /\ \A i \in device.modes \cap 0..9 : a # ModeAnswer(i)
    BY <1>1, <2>1, Kinds
  <2> QED BY <1>1, <1>5, <2>2 DEF Views
<1>6. ASSUME NEW operator \in {OpStatus, OpResult}, NEW i \in device.modes,
             a = CurrentAnswer(operator, i), state' = [state EXCEPT !.audio_mode_index = Some(i)]
      PROVE  /\ a # NameAnswer /\ a # BatteryAnswer /\ a \notin StandbyNews
             /\ \A j \in device.modes \cap 0..9 : a # ModeAnswer(j)
             /\ state'.product_name = state.product_name /\ state'.battery = state.battery
             /\ state'.standby_timer_minutes = state.standby_timer_minutes
             /\ state'.audio_mode_index = Some(i) /\ state'.audio_modes = state.audio_modes
  <2>1. a \in CurrentNews(device.modes)
    BY <1>6 DEF CurrentNews
  <2>2. /\ a # NameAnswer /\ a # BatteryAnswer /\ a \notin StandbyNews
        /\ \A j \in device.modes \cap 0..9 : a # ModeAnswer(j)
    BY <1>1, <2>1, Kinds
  <2> QED BY <1>1, <1>6, <2>2 DEF Views
<1>7. ASSUME NEW i \in device.modes \cap 0..9, a = ModeAnswer(i),
             state' = [state EXCEPT !.audio_modes = Upsert(@, ModeView(i))]
      PROVE  /\ a # NameAnswer /\ a # BatteryAnswer /\ a \notin StandbyNews
             /\ a \notin CurrentNews(device.modes)
             /\ state'.product_name = state.product_name /\ state'.battery = state.battery
             /\ state'.standby_timer_minutes = state.standby_timer_minutes
             /\ state'.audio_mode_index = state.audio_mode_index
             /\ state'.audio_modes = Upsert(state.audio_modes, ModeView(i))
  <2>1. /\ a # NameAnswer /\ a # BatteryAnswer /\ a \notin StandbyNews
        /\ a \notin CurrentNews(device.modes)
    BY <1>1, <1>7, Kinds
  <2> QED BY <1>1, <1>7, <2>1 DEF Views
<1> HIDE DEF a
<1>8. CASE \E m \in Byte : /\ a = StandbyAnswer(m)
                           /\ state' = [state EXCEPT !.standby_timer_minutes = Some(m)]
  BY <1>5, <1>8 DEF a
<1>9. CASE \E operator \in {OpStatus, OpResult}, i \in device.modes :
                    /\ a = CurrentAnswer(operator, i)
                    /\ state' = [state EXCEPT !.audio_mode_index = Some(i)]
  BY <1>6, <1>9 DEF a
<1>10. CASE \E i \in device.modes \cap 0..9 :
                    /\ a = ModeAnswer(i)
                    /\ state' = [state EXCEPT !.audio_modes = Upsert(@, ModeView(i))]
  BY <1>7, <1>10 DEF a
<1> QED BY <1>2, <1>3, <1>4, <1>8, <1>9, <1>10, Taken DEF a

LEMMA NameKept == ASSUME Shapes, NameComes, [Next]_vars PROVE NameComes'
<1> SUFFICES ASSUME asked' >= 1, ~Has(commands', NameQuery), ~Has(answers', NameAnswer)
             PROVE  state'.product_name # None
  BY DEF NameComes
<1>1. state \in Views(device.modes) /\ answers \in Seq(Answers(device.modes))
  BY DEF Shapes
<1>2. DeviceStep /\ Head(commands) = NameQuery => Has(answers', NameAnswer)
  <2> SUFFICES ASSUME DeviceStep, Head(commands) = NameQuery PROVE Has(answers', NameAnswer)
    OBVIOUS
  <2>1. NameQuery # PowerOff
    BY CommandKinds
  <2>2. NameAnswer \in Answers(device.modes) /\ answers' = Append(answers, NameAnswer)
    BY <2>1, DeviceStepped
  <2> QED BY <1>1, <2>2, QueueAppend
<1>3. \/ PollIpc /\ Head(answers) = NameAnswer
      \/ asked >= 1 /\ ~Has(commands, NameQuery) /\ ~Has(answers, NameAnswer)
  <2>1. NameQuery = InitialQueries[1] /\ 1 \in 1..15
    BY QueryAt
  <2> QED BY ONLY Shapes, [Next]_vars, asked' >= 1, ~Has(commands', NameQuery),
                  ~Has(answers', NameAnswer), <1>2, <2>1, Answered
<1>4. CASE ~PollIpc
  BY <1>3, <1>4, StateChange DEF NameComes
<1>5. CASE PollIpc
  <2>1. \/ Head(answers) = NameAnswer /\ state'.product_name = Some(ProductNameBytes)
        \/ Head(answers) # NameAnswer /\ state'.product_name = state.product_name
    BY <1>5, FieldsTaken
  <2>2. Some(ProductNameBytes) # None
    BY DEF Some, None
  <2> QED BY <1>3, <2>1, <2>2 DEF NameComes
<1> QED BY <1>4, <1>5

LEMMA BatteryKept == ASSUME Shapes, BatteryComes, [Next]_vars PROVE BatteryComes'
<1> SUFFICES ASSUME asked' >= 2, ~Has(commands', BatteryQuery), ~Has(answers', BatteryAnswer)
             PROVE  state'.battery # None
  BY DEF BatteryComes
<1>1. state \in Views(device.modes) /\ answers \in Seq(Answers(device.modes))
  BY DEF Shapes
<1>2. DeviceStep /\ Head(commands) = BatteryQuery => Has(answers', BatteryAnswer)
  <2> SUFFICES ASSUME DeviceStep, Head(commands) = BatteryQuery PROVE Has(answers', BatteryAnswer)
    OBVIOUS
  <2>1. BatteryQuery # PowerOff
    BY CommandKinds
  <2>2. BatteryAnswer \in Answers(device.modes) /\ answers' = Append(answers, BatteryAnswer)
    BY <2>1, DeviceStepped
  <2> QED BY <1>1, <2>2, QueueAppend
<1>3. \/ PollIpc /\ Head(answers) = BatteryAnswer
      \/ asked >= 2 /\ ~Has(commands, BatteryQuery) /\ ~Has(answers, BatteryAnswer)
  <2>1. BatteryQuery = InitialQueries[2] /\ 2 \in 1..15
    BY QueryAt
  <2> QED BY ONLY Shapes, [Next]_vars, asked' >= 2, ~Has(commands', BatteryQuery),
                  ~Has(answers', BatteryAnswer), <1>2, <2>1, Answered
<1>4. CASE ~PollIpc
  BY <1>3, <1>4, StateChange DEF BatteryComes
<1>5. CASE PollIpc
  <2>1. \/ Head(answers) = BatteryAnswer /\ state'.battery = BatteryView
        \/ Head(answers) # BatteryAnswer /\ state'.battery = state.battery
    BY <1>5, FieldsTaken
  <2>2. BatteryView # None
    BY DEF BatteryView, None
  <2> QED BY <1>3, <2>1, <2>2 DEF BatteryComes
<1> QED BY <1>4, <1>5

LEMMA ModeAnswersDiffer ==
    ASSUME NEW i \in 0..9, NEW j \in 0..9, ModeAnswer(i) = ModeAnswer(j) PROVE i = j
<1>1. \A k \in 0..9 : ModeAnswer(k).payload = ModeConfigPayload(k)
  BY DEF ModeAnswer, Answer, NewPacket
<1>2. Some(ModeView(i)) = Some(ModeView(j))
  BY <1>1, ModeRead
<1>3. ModeView(i) = ModeView(j)
  BY <1>2 DEF Some
<1> QED BY <1>3 DEF ModeView

LEMMA ModesKept == ASSUME Shapes, ModesCome, [Next]_vars PROVE ModesCome'
<1>0. device'.modes = device.modes
  BY StateChange, Taken
<1> SUFFICES ASSUME NEW i \in device.modes \cap 0..9, asked' >= i + 6,
                    ~Has(commands', ModeConfigQuery(i)), ~Has(answers', ModeAnswer(i))
             PROVE  \E n \in 1..Len(state'.audio_modes) : state'.audio_modes[n].mode_index = i
  BY <1>0 DEF ModesCome, Discoverable
<1>1. answers \in Seq(Answers(device.modes)) /\ state \in Views(device.modes)
  BY DEF Shapes
<1>2. DeviceStep /\ Head(commands) = ModeConfigQuery(i) => Has(answers', ModeAnswer(i))
  <2> SUFFICES ASSUME DeviceStep, Head(commands) = ModeConfigQuery(i) PROVE Has(answers', ModeAnswer(i))
    OBVIOUS
  <2>1. ModeConfigQuery(i) # PowerOff
    BY CommandKinds
  <2>2. ModeAnswer(i) \in Answers(device.modes) /\ answers' = Append(answers, ModeAnswer(i))
    BY <2>1, DeviceStepped
  <2> QED BY <1>1, <2>2, QueueAppend
<1>3. \/ PollIpc /\ Head(answers) = ModeAnswer(i)
      \/ asked >= i + 6 /\ ~Has(commands, ModeConfigQuery(i)) /\ ~Has(answers, ModeAnswer(i))
  <2>1. ModeConfigQuery(i) = InitialQueries[i + 6] /\ i + 6 \in 1..15
    BY QueryAt
  <2> QED BY ONLY Shapes, [Next]_vars, asked' >= i + 6, ~Has(commands', ModeConfigQuery(i)),
                  ~Has(answers', ModeAnswer(i)), <1>2, <2>1, Answered
<1> DEFINE Known(modes) == \E n \in 1..Len(modes) : modes[n].mode_index = i
<1>4. asked >= i + 6 /\ ~Has(commands, ModeConfigQuery(i)) /\ ~Has(answers, ModeAnswer(i))
        => Known(state.audio_modes)
  BY DEF ModesCome, Discoverable
<1>5. CASE ~PollIpc
  BY <1>3, <1>4, <1>5, StateChange
<1>6. CASE PollIpc
  <2>1. ASSUME NEW j \in device.modes \cap 0..9, Head(answers) = ModeAnswer(j),
               state'.audio_modes = Upsert(state.audio_modes, ModeView(j))
        PROVE  Known(state'.audio_modes)
    <3>1. PICK r : r = Upsert(state.audio_modes, ModeView(j))
      OBVIOUS
    <3>2. state'.audio_modes = r
      BY <2>1, <3>1
    <3>3. Merged(r, state.audio_modes, ModeView(j), ModeViews(device.modes)) /\ ModeView(j).mode_index = j
      BY <3>1, ViewUpserted
    <3>4. CASE i = j
      <4>1. PICK n \in 1..Len(r) : r[n] = ModeView(j)
        BY <3>3 DEF Merged
      <4> QED BY <3>2, <3>3, <3>4, <4>1
    <3>5. CASE i # j
      <4>1. ModeAnswer(i) # ModeAnswer(j)
        BY <3>5, ModeAnswersDiffer
      <4>2. Known(state.audio_modes)
        BY <1>3, <1>4, <2>1, <4>1
      <4>3. PICK m \in 1..Len(state.audio_modes) : state.audio_modes[m].mode_index = i
        BY <4>2
      <4>4. PICK n \in 1..Len(r) : r[n].mode_index = i
        BY <3>3, <4>3 DEF Merged
      <4> QED BY <3>2, <4>4
    <3> QED BY <3>4, <3>5
  <2>2. CASE state'.audio_modes = state.audio_modes /\ Head(answers) # ModeAnswer(i)
    BY <1>3, <1>4, <2>2
  <2>3. \/ \E j \in device.modes \cap 0..9 :
              /\ Head(answers) = ModeAnswer(j)
              /\ state'.audio_modes = Upsert(state.audio_modes, ModeView(j))
        \/ state'.audio_modes = state.audio_modes /\ Head(answers) # ModeAnswer(i)
    BY <1>6, FieldsTaken
  <2> QED BY <2>1, <2>2, <2>3
<1> QED BY <1>5, <1>6

LEMMA CurrentKept == ASSUME Shapes, CurrentComes, [Next]_vars PROVE CurrentComes'
<1> DEFINE T == CurrentNews(device.modes)
           G == CurrentTruth
           H == CurrentTruth'
<1>0. device'.modes = device.modes
  BY StateChange, Taken
<1>1. answers \in Seq(Answers(device.modes)) /\ state \in Views(device.modes)
  BY DEF Shapes
<1>2. \A i : device'.current = device.current => G = H
  BY DEF CurrentTruth
<1>3. G = H => device'.current = device.current
  <2> SUFFICES ASSUME G = H PROVE device'.current = device.current
    OBVIOUS
  <2>1. CurrentAnswer(OpStatus, device.current) \in H
    BY DEF CurrentTruth
  <2>2. PICK operator \in {OpStatus, OpResult} :
            CurrentAnswer(OpStatus, device.current) = CurrentAnswer(operator, device'.current)
    BY <2>1 DEF CurrentTruth
  <2>3. <<device.current>> = <<device'.current>>
    BY <2>2 DEF CurrentAnswer, Answer, NewPacket
  <2> QED BY <2>3
<1>4. DeviceStep \/ Turn =>
             \/ answers' = answers /\ G = H /\ (DeviceStep => Head(commands) # CurrentModeQuery)
             \/ \E y \in Answers(device.modes) :
                    /\ answers' = Append(answers, y)
                    /\ \/ y \in H
                       \/ y \notin T /\ G = H /\ (DeviceStep => Head(commands) # CurrentModeQuery)
  <2>1. CASE DeviceStep
    <3>1. CurrentModeQuery # PowerOff
      BY CommandKinds
    <3> HIDE DEF T, G, H
    <3>2. \/ answers' = answers /\ Head(commands) = PowerOff /\ device'.current = device.current
          \/ \E y \in Answers(device.modes) :
                /\ answers' = Append(answers, y)
                /\ \/ y \in H
                   \/ /\ y \notin T /\ Head(commands) # CurrentModeQuery
                      /\ device'.current = device.current
      BY <2>1, DeviceStepped DEF T, H
    <3> QED BY <1>2, <3>1, <3>2
  <2>2. CASE Turn /\ ~DeviceStep
    BY <2>2, Turned
  <2> QED BY <2>1, <2>2
<1>5. SendQuery \/ PollIpc \/ Pressed \/ UNCHANGED vars => G = H
  <2>1. SendQuery \/ PollIpc \/ Pressed \/ UNCHANGED vars => device' = device
    BY Taken, Keyed DEF SendQuery, deviceVars, vars
  <2> QED BY <1>2, <2>1
<1> SUFFICES ASSUME asked' >= 4, ~Has(commands', CurrentModeQuery), ~Ends(answers', T, H)
             PROVE  Lacks(answers', T) /\ state'.audio_mode_index = Some(device'.current)
  BY <1>0 DEF CurrentComes
<1>6. /\ Lacks(answers', T) /\ G = H /\ asked >= 4 /\ ~Has(commands, CurrentModeQuery)
      /\ \/ PollIpc /\ Head(answers) \in G
         \/ Lacks(answers, T) /\ ~Ends(answers, T, G)
  <2>1. CurrentModeQuery = InitialQueries[4] /\ 4 \in 1..15
    BY QueryAt
  <2>2. asked >= 4 => Has(commands, CurrentModeQuery) \/ Ends(answers, T, G) \/ Lacks(answers, T)
    BY DEF CurrentComes
  <2> HIDE DEF T, G, H
  <2>3. PICK t, g, h : t = T /\ g = G /\ h = H
    OBVIOUS
  <2>4. asked >= 4 => Has(commands, CurrentModeQuery) \/ Ends(answers, t, g) \/ Lacks(answers, t)
    BY <2>2, <2>3
  <2>5. TruthTold(CurrentModeQuery, t, g, h)
    BY <1>4, <1>5, <2>3 DEF TruthTold
  <2>7. asked' >= 4 /\ ~Has(commands', CurrentModeQuery) /\ ~Ends(answers', t, h)
    BY <2>3
  <2>8. TruthTaken(4, CurrentModeQuery, t, g, h)
    BY ONLY Shapes, [Next]_vars, <2>1, <2>4, <2>5, <2>7, Told
  <2> QED BY <2>3, <2>8 DEF TruthTaken
<1>7. device'.current = device.current
  BY <1>3, <1>6
<1>8. CASE PollIpc /\ Head(answers) \in G
  <2>1. PICK operator \in {OpStatus, OpResult} : Head(answers) = CurrentAnswer(operator, device.current)
    BY <1>8 DEF CurrentTruth
  <2>2. Head(answers) \in T
    BY <2>1 DEF CurrentNews, Shapes
  <2>3. PICK o \in {OpStatus, OpResult}, i \in device.modes :
            Head(answers) = CurrentAnswer(o, i) /\ state'.audio_mode_index = Some(i)
    BY <1>8, <2>2, FieldsTaken
  <2>4. <<i>> = <<device.current>>
    BY <2>1, <2>3 DEF CurrentAnswer, Answer, NewPacket
  <2> QED BY <1>6, <1>7, <2>3, <2>4
<1>9. CASE Lacks(answers, T) /\ ~Ends(answers, T, G)
  <2>1. state.audio_mode_index = Some(device.current)
    BY <1>6, <1>9 DEF CurrentComes
  <2>2. state'.audio_mode_index = state.audio_mode_index
    <3>1. CASE PollIpc
      <4>1. Head(answers) \notin T
        <5>1. answers # << >>
          BY <3>1, Taken
        <5>2. answers \in Seq(Answers(device.modes)) /\ Lacks(answers, T)
          BY <1>1, <1>9
        <5> HIDE DEF T
        <5> QED BY ONLY <5>1, <5>2, TailLacks
      <4> QED BY <3>1, <4>1, FieldsTaken DEF CurrentNews
    <3> QED BY <3>1, StateChange
  <2> QED BY <1>6, <1>7, <2>1, <2>2
<1> QED BY <1>6, <1>8, <1>9

LEMMA StandbyKept == ASSUME Shapes, StandbyComes, [Next]_vars PROVE StandbyComes'
<1> DEFINE T == StandbyNews
           G == StandbyTruth
           H == StandbyTruth'
<1>1. answers \in Seq(Answers(device.modes)) /\ device.standby \in Byte
  BY DEF Shapes, Headphones
<1>2. device'.standby = device.standby => G = H
  BY DEF StandbyTruth
<1>3. G = H => device'.standby = device.standby
  <2> SUFFICES ASSUME G = H PROVE device'.standby = device.standby
    OBVIOUS
  <2>1. StandbyAnswer(device.standby) = StandbyAnswer(device'.standby)
    BY DEF StandbyTruth
  <2>2. <<device.standby>> = <<device'.standby>>
    BY <2>1 DEF StandbyAnswer, Answer, NewPacket
  <2> QED BY <2>2
<1>4. DeviceStep \/ Turn =>
             \/ answers' = answers /\ G = H /\ (DeviceStep => Head(commands) # StandbyQuery)
             \/ \E y \in Answers(device.modes) :
                    /\ answers' = Append(answers, y)
                    /\ \/ y \in H
                       \/ y \notin T /\ G = H /\ (DeviceStep => Head(commands) # StandbyQuery)
  <2>1. CASE DeviceStep
    <3>1. StandbyQuery # PowerOff
      BY CommandKinds
    <3> HIDE DEF T, G, H
    <3>2. \/ answers' = answers /\ Head(commands) = PowerOff /\ device'.standby = device.standby
          \/ \E y \in Answers(device.modes) :
                /\ answers' = Append(answers, y)
                /\ \/ y \in H
                   \/ /\ y \notin T /\ Head(commands) # StandbyQuery
                      /\ device'.standby = device.standby
      BY <2>1, DeviceStepped DEF T, H
    <3> QED BY <1>2, <3>1, <3>2
  <2>2. CASE Turn /\ ~DeviceStep
    BY <1>2, <2>2, Turned
  <2> QED BY <2>1, <2>2
<1>5. SendQuery \/ PollIpc \/ Pressed \/ UNCHANGED vars => G = H
  <2>1. SendQuery \/ PollIpc \/ Pressed \/ UNCHANGED vars => device' = device
    BY Taken, Keyed DEF SendQuery, deviceVars, vars
  <2> QED BY <1>2, <2>1
<1> SUFFICES ASSUME asked' >= 5, ~Has(commands', StandbyQuery), ~Ends(answers', T, H)
             PROVE  Lacks(answers', T) /\ state'.standby_timer_minutes = Some(device'.standby)
  BY DEF StandbyComes
<1>6. /\ Lacks(answers', T) /\ G = H /\ asked >= 5 /\ ~Has(commands, StandbyQuery)
      /\ \/ PollIpc /\ Head(answers) \in G
         \/ Lacks(answers, T) /\ ~Ends(answers, T, G)
  <2>1. StandbyQuery = InitialQueries[5] /\ 5 \in 1..15
    BY QueryAt
  <2>2. asked >= 5 => Has(commands, StandbyQuery) \/ Ends(answers, T, G) \/ Lacks(answers, T)
    BY DEF StandbyComes
  <2> HIDE DEF T, G, H
  <2>3. PICK t, g, h : t = T /\ g = G /\ h = H
    OBVIOUS
  <2>4. asked >= 5 => Has(commands, StandbyQuery) \/ Ends(answers, t, g) \/ Lacks(answers, t)
    BY <2>2, <2>3
  <2>5. TruthTold(StandbyQuery, t, g, h)
    BY <1>4, <1>5, <2>3 DEF TruthTold
  <2>7. asked' >= 5 /\ ~Has(commands', StandbyQuery) /\ ~Ends(answers', t, h)
    BY <2>3
  <2>8. TruthTaken(5, StandbyQuery, t, g, h)
    BY ONLY Shapes, [Next]_vars, <2>1, <2>4, <2>5, <2>7, Told
  <2> QED BY <2>3, <2>8 DEF TruthTaken
<1>7. device'.standby = device.standby
  BY <1>3, <1>6
<1>8. CASE PollIpc /\ Head(answers) \in G
  <2>1. Head(answers) = StandbyAnswer(device.standby) /\ Head(answers) \in T
    BY <1>1, <1>8 DEF StandbyTruth, StandbyNews
  <2>2. PICK m \in Byte : Head(answers) = StandbyAnswer(m) /\ state'.standby_timer_minutes = Some(m)
    BY <1>8, <2>1, FieldsTaken
  <2>3. <<m>> = <<device.standby>>
    BY <2>1, <2>2 DEF StandbyAnswer, Answer, NewPacket
  <2> QED BY <1>6, <1>7, <2>2, <2>3
<1>9. CASE Lacks(answers, T) /\ ~Ends(answers, T, G)
  <2>1. state.standby_timer_minutes = Some(device.standby)
    BY <1>6, <1>9 DEF StandbyComes
  <2>2. state'.standby_timer_minutes = state.standby_timer_minutes
    <3>1. CASE PollIpc
      <4>1. Head(answers) \notin T
        <5>1. answers # << >>
          BY <3>1, Taken
        <5>2. answers \in Seq(Answers(device.modes)) /\ Lacks(answers, T)
          BY <1>1, <1>9
        <5> HIDE DEF T
        <5> QED BY ONLY <5>1, <5>2, TailLacks
      <4> QED BY <3>1, <4>1, FieldsTaken DEF StandbyNews
    <3> QED BY <3>1, StateChange
  <2> QED BY <1>6, <1>7, <2>1, <2>2
<1> QED BY <1>6, <1>8, <1>9

\* The inductive invariant.
LEMMA AppInvKept == ASSUME AppInv, [Next]_vars PROVE AppInv'
BY ShapesKept, NameKept, BatteryKept, ModesKept, CurrentKept, StandbyKept DEF AppInv

LEMMA AlwaysAppInv == Spec => []AppInv
<1>1. Init => AppInv
  BY InitApp
<1>2. AppInv /\ [Next]_vars => AppInv'
  BY AppInvKept
<1> QED BY <1>1, <1>2, PTL DEF Spec

-----------------------------------------------------------------------------
(* What follows.                                                           *)

LEMMA TypesFollow == ASSUME AppInv PROVE TypeOK
<1>1. /\ device \in Headphones /\ turns \in 0..MaxTurns /\ asked \in 0..15
      /\ Len(commands) <= MaxCommands /\ Len(answers) <= MaxAnswers
      /\ state \in Views(device.modes) /\ Ascending(state.audio_modes)
      /\ confirm \in BOOLEAN /\ tui \in {"running", "quit", "panicked"}
  BY DEF AppInv, Shapes
<1>2. device.modes \subseteq Byte /\ device.current \in Byte /\ device.standby \in Byte
  BY <1>1 DEF Headphones
<1>3. {state.audio_mode_index[1] : n \in 1..Len(state.audio_mode_index)} \subseteq device.modes
  <2>1. state.audio_mode_index = << >> \/ \E i \in device.modes : state.audio_mode_index = <<i>>
    BY <1>1 DEF Views, None, Some
  <2>2. CASE state.audio_mode_index = << >>
    BY <2>2
  <2>3. CASE \E i \in device.modes : state.audio_mode_index = <<i>>
    BY <2>3
  <2> QED BY <2>1, <2>2, <2>3
<1>4. IndicesIn(state.audio_modes) \subseteq device.modes
  <2> SUFFICES ASSUME NEW n \in 1..Len(state.audio_modes)
               PROVE  state.audio_modes[n].mode_index \in device.modes
    BY DEF IndicesIn
  <2>1. state.audio_modes \in Seq(ModeViews(device.modes))
    BY <1>1 DEF Views
  <2>2. state.audio_modes[n] \in ModeViews(device.modes)
    BY <2>1
  <2>3. PICK i \in device.modes \cap 0..9 : state.audio_modes[n] = ModeView(i)
    BY <2>2 DEF ModeViews
  <2> QED BY <2>3 DEF ModeView
<1>5. Len(InitialQueries) = 15
  BY QueryAt
<1> QED BY <1>1, <1>2, <1>3, <1>4, <1>5 DEF TypeOK, Ascending

LEMMA ScreenFollows == ASSUME AppInv PROVE ScreenTrue
<1> SUFFICES ASSUME Quiet
             PROVE  \E indices \in [1..Len(state.audio_modes) -> Discoverable] :
                      /\ \A i \in Discoverable : \E n \in DOMAIN indices : indices[n] = i
                      /\ \A m, n \in DOMAIN indices : m < n => indices[m] < indices[n]
                      /\ Screen =
                          <<Some(ProductNameBytes),
                            Some([percentage |-> 85, remaining_minutes |-> Some(300), component_id |-> 0]),
                            [modes |-> [n \in DOMAIN indices |-> NameOf(indices[n])],
                             active |-> {n \in DOMAIN indices : indices[n] = device.current},
                             raw |-> IF indices = << >> THEN Some(device.current) ELSE None],
                            Some(device.standby),
                            FALSE>>
  BY DEF ScreenTrue
<1>1. /\ device \in Headphones /\ state \in Views(device.modes) /\ Ascending(state.audio_modes)
      /\ state.audio_modes \in Seq(ModeViews(device.modes))
  BY DEF AppInv, Shapes, Views
<1>2. /\ asked = 15 /\ commands = << >> /\ answers = << >> /\ confirm = FALSE
  BY QueryAt DEF Quiet, AppInv, Shapes
<1>3. \A x : ~Has(commands, x) /\ ~Has(answers, x)
  BY <1>2 DEF Has
<1>4. \A T, G : ~Ends(answers, T, G)
  BY <1>2 DEF Ends
<1>5. state.product_name = Some(ProductNameBytes) /\ state.battery = BatteryView
  BY <1>1, <1>2, <1>3 DEF AppInv, NameComes, BatteryComes, Views
<1>6. state.audio_mode_index = Some(device.current) /\ state.standby_timer_minutes = Some(device.standby)
  BY <1>2, <1>3, <1>4 DEF AppInv, CurrentComes, StandbyComes
<1> DEFINE modes == state.audio_modes
           N == Len(modes)
           indices == [n \in 1..N |-> modes[n].mode_index]
<1>7. N \in Nat /\ DOMAIN indices = 1..N
  BY <1>1
<1>8. ASSUME NEW n \in 1..N
      PROVE  indices[n] \in Discoverable /\ modes[n].name = NameOf(indices[n])
  <2>1. modes[n] \in ModeViews(device.modes)
    BY <1>1
  <2>2. PICK i \in device.modes \cap 0..9 : modes[n] = ModeView(i)
    BY <2>1 DEF ModeViews
  <2> QED BY <2>2 DEF ModeView, Discoverable
<1>9. indices \in [1..N -> Discoverable]
  BY <1>8
<1>10. \A i \in Discoverable : \E n \in 1..N : indices[n] = i
  <2> SUFFICES ASSUME NEW i \in Discoverable PROVE \E n \in 1..N : modes[n].mode_index = i
    OBVIOUS
  <2>1. asked >= i + 6
    BY <1>2 DEF Discoverable
  <2> QED BY <1>3, <2>1 DEF AppInv, ModesCome
<1>11. \A m, n \in 1..N : m < n => indices[m] < indices[n]
  BY <1>1 DEF Ascending
<1>12. indices = << >> <=> modes = << >>
  <2>1. N = 0 => indices = << >> /\ modes = << >>
    BY <1>1
  <2>2. N # 0 => indices # << >> /\ modes # << >>
    BY <1>7
  <2> QED BY <2>1, <2>2
<1>13. DrawHeader = Some(ProductNameBytes) /\ DrawStandby = Some(device.standby) /\ DrawStatus = FALSE
  BY <1>2, <1>5, <1>6 DEF DrawHeader, DrawStandby, DrawStatus
<1>14. DrawBattery =
          Some([percentage |-> 85, remaining_minutes |-> Some(300), component_id |-> 0])
  BY <1>5 DEF DrawBattery, BatteryView, First
<1>15. DrawAudioMode =
          [modes |-> [n \in 1..N |-> NameOf(indices[n])],
           active |-> {n \in 1..N : indices[n] = device.current},
           raw |-> IF indices = << >> THEN Some(device.current) ELSE None]
  <2>1. [n \in 1..N |-> modes[n].name] = [n \in 1..N |-> NameOf(indices[n])]
    BY <1>8
  <2>2. {n \in 1..N : state.audio_mode_index = Some(modes[n].mode_index)}
            = {n \in 1..N : indices[n] = device.current}
    <3>1. \A i : Some(device.current) = Some(i) <=> i = device.current
      BY DEF Some
    <3> QED BY <1>6, <3>1
  <2>3. (IF modes = << >> THEN state.audio_mode_index ELSE None)
            = IF indices = << >> THEN Some(device.current) ELSE None
    BY <1>6, <1>12
  <2> HIDE DEF indices
  <2> QED BY <2>1, <2>2, <2>3 DEF DrawAudioMode
<1> HIDE DEF indices
<1>16. Screen =
          <<Some(ProductNameBytes),
            Some([percentage |-> 85, remaining_minutes |-> Some(300), component_id |-> 0]),
            [modes |-> [n \in DOMAIN indices |-> NameOf(indices[n])],
             active |-> {n \in DOMAIN indices : indices[n] = device.current},
             raw |-> IF indices = << >> THEN Some(device.current) ELSE None],
            Some(device.standby),
            FALSE>>
  BY <1>7, <1>13, <1>14, <1>15 DEF Screen
<1> QED BY <1>7, <1>9, <1>10, <1>11, <1>16

\* A packet that fits into one segment goes out in one.
LEMMA OneSegment ==
    ASSUME NEW S, NEW data \in Seq(S), Len(data) > 0, Len(data) <= SegmentDataSize
    PROVE  Segment(data) = << <<0>> \o data >>
<1> DEFINE l == Len(data)
           s == SegmentDataSize
           total == SegmentCount(l)
           full == l \div s
           End(i) == IF i <= full THEN i * s ELSE l
           part(i) == <<Header(total - 1, i - 1)>> \o SubSeq(data, (i - 1) * s + 1, End(i))
           whole == <<0>> \o data
           parts == [i \in 1..1 |-> whole]
<1>1. l \in Nat /\ s \in Nat \ {0} /\ 0 < l /\ l <= s /\ data # << >>
  BY SegmentationAssumption
<1>2. (l = s /\ full = 1 /\ l % s = 0) \/ (l < s /\ full = 0 /\ l % s = l)
  <2> HIDE DEF l, s
  <2>1. PICK q \in Nat, r \in Nat : q = l \div s /\ r = l % s /\ r < s /\ l = s * q + r
    BY <1>1, Division
  <2>2. CASE q = 0
    BY <1>1, <2>1, <2>2
  <2>3. CASE q = 1
    BY <1>1, <2>1, <2>3
  <2>4. q <= 1
    <3>1. CASE q >= 2
      <4>1. s * q >= s * 2
        BY <1>1, <2>1, <3>1
      <4> QED BY <1>1, <2>1, <4>1
    <3> QED BY <2>1, <3>1
  <2> QED BY <2>1, <2>2, <2>3, <2>4
<1>3. total = 1
  BY <1>1, <1>2 DEF SegmentCount
<1>4. End(1) = l
  BY <1>1, <1>2
<1>5. Segment(data) = [i \in 1..total |-> part(i)]
  BY <1>1 DEF Segment
<1>6. part(1) = whole
  <2>1. (1 - 1) * s + 1 = 1
    BY <1>1
  <2>2. SubSeq(data, 1, l) = data
    OBVIOUS
  <2>3. Header(total - 1, 1 - 1) = 0
    BY <1>3 DEF Header
  <2> QED BY <1>4, <2>1, <2>2, <2>3
<1> HIDE DEF total, part, whole
<1>7. Segment(data) = parts
  BY <1>3, <1>5, <1>6
<1>8. parts = <<whole>>
  <2>1. parts \in Seq({whole}) /\ Len(parts) = 1 /\ parts[1] = whole
    OBVIOUS
  <2> HIDE DEF parts
  <2> QED BY <2>1, OneElement
<1> QED BY <1>7, <1>8 DEF whole

\* A command is a packet with at most two bytes of payload.
LEMMA CommandIsPacket ==
    ASSUME NEW p \in Commands
    PROVE  p \in BmapPacket /\ Len(p.payload) \in 0..2
<1>1. ASSUME NEW b \in FunctionBlock, NEW f \in Byte, NEW o \in Operator, NEW y \in Seq(Byte),
             Len(y) \in 0..2, p = NewPacket(b, f, o, y)
      PROVE  p \in BmapPacket /\ Len(p.payload) \in 0..2
  BY <1>1 DEF NewPacket, BmapPacket
<1>2. /\ Settings \in FunctionBlock /\ Status \in FunctionBlock /\ Control \in FunctionBlock
      /\ AudioModes \in FunctionBlock
      /\ ProductName \in Byte /\ StandbyTimer \in Byte /\ Cnc \in Byte /\ BatteryLevel \in Byte
      /\ Power \in Byte /\ CurrentMode \in Byte /\ ModeConfig \in Byte
      /\ OpGet \in Operator /\ OpSetGet \in Operator /\ OpStart \in Operator
  BY DEF OpGet, OpSetGet, OpStart, Status, BatteryLevel, Settings, Cnc, ProductName,
      StandbyTimer, AudioModes, CurrentMode, ModeConfig, Control, Power, Byte, Operator, FunctionBlock
<1>3. << >> \in Seq(Byte) /\ Len(<< >>) \in 0..2
  OBVIOUS
<1>4. ASSUME NEW m \in Byte PROVE <<m>> \in Seq(Byte) /\ Len(<<m>>) \in 0..2
  OBVIOUS
<1>5. ASSUME NEW m \in Byte PROVE <<m, 0>> \in Seq(Byte) /\ Len(<<m, 0>>) \in 0..2
  BY DEF Byte
<1>6. <<0>> \in Seq(Byte) /\ Len(<<0>>) \in 0..2 /\ \A i \in 0..9 : i \in Byte
  BY DEF Byte
<1>7. CASE \/ p = NewPacket(Settings, ProductName, OpGet, << >>)
           \/ p = NewPacket(Status, BatteryLevel, OpGet, << >>)
           \/ p = NewPacket(Settings, Cnc, OpGet, << >>)
           \/ p = NewPacket(Settings, StandbyTimer, OpGet, << >>)
           \/ p = NewPacket(AudioModes, CurrentMode, OpGet, << >>)
  BY <1>1, <1>2, <1>3, <1>7
<1>8. CASE \E i \in 0..9 : p = NewPacket(AudioModes, ModeConfig, OpGet, <<i>>)
  BY <1>1, <1>2, <1>4, <1>6, <1>8
<1>9. CASE \E m \in Byte : p = NewPacket(Settings, StandbyTimer, OpSetGet, <<m>>)
  BY <1>1, <1>2, <1>4, <1>9
<1>10. CASE \E m \in Byte : p = NewPacket(AudioModes, CurrentMode, OpStart, <<m, 0>>)
  BY <1>1, <1>2, <1>5, <1>10
<1>11. CASE p = NewPacket(Control, Power, OpStart, <<0>>)
  BY <1>1, <1>2, <1>6, <1>11
<1> QED
  BY <1>7, <1>8, <1>9, <1>10, <1>11
  DEF Commands, Queries, ModeQueries, NameQuery, BatteryQuery, CncQuery, StandbyQuery,
      CurrentModeQuery, ModeConfigQuery, SetStandby, SetCurrentMode, PowerOff

LEMMA CommandsFollow == ASSUME AppInv PROVE CommandsWhole
<1> SUFFICES ASSUME NEW n \in 1..Len(commands)
             PROVE  /\ Segment(ToBytes(commands[n])) = << <<0>> \o ToBytes(commands[n]) >>
                    /\ FromBytes(ToBytes(commands[n])) = Ok(commands[n])
  BY DEF CommandsWhole
<1>1. PICK p \in Commands : p = commands[n]
  BY DEF AppInv, Shapes
<1>2. p \in BmapPacket /\ Len(p.payload) \in 0..2
  BY CommandIsPacket
<1>3. FromBytes(ToBytes(p)) = Ok(p)
  <2>1. Len(p.payload) <= 255
    BY <1>2
  <2> QED BY ONLY <1>2, <2>1, RoundTrip
<1>4. /\ ToBytes(p) \in Seq(Int) /\ Len(ToBytes(p)) = 4 + Len(p.payload)
  <2> DEFINE header == <<p.function_block, p.function, PackedByte(p), Len(p.payload) % 256>>
  <2>1. /\ p.function_block \in Int /\ p.function \in Int /\ PackedByte(p) \in Int
        /\ Len(p.payload) % 256 \in Int
    <3>1. p.function_block \in FunctionBlock /\ p.function \in Byte /\ PackedByte(p) \in Byte
      BY <1>2, PackedFields DEF BmapPacket
    <3>2. FunctionBlock \subseteq Int /\ Byte \subseteq Int
      BY DEF FunctionBlock, Byte
    <3>3. Len(p.payload) % 256 \in Int
      BY <1>2
    <3> QED BY <3>1, <3>2, <3>3
  <2>2. header \in Seq(Int) /\ Len(header) = 4
    BY <2>1
  <2>3. p.payload \in Seq(Int)
    <3>1. p.payload \in Seq(Byte)
      BY <1>2 DEF BmapPacket
    <3> QED BY <3>1, BytesAreInts
  <2>4. ToBytes(p) = header \o p.payload
    BY DEF ToBytes
  <2> HIDE DEF header
  <2> QED BY ONLY <2>2, <2>3, <2>4, ConcatOf
<1>5. Len(ToBytes(p)) > 0 /\ Len(ToBytes(p)) <= SegmentDataSize
  <2>1. PICK k \in 0..2 : k = Len(p.payload)
    BY <1>2
  <2>2. PICK l : l = Len(ToBytes(p))
    OBVIOUS
  <2>3. l = 4 + k
    BY <1>4, <2>1, <2>2
  <2>4. SegmentDataSize \in Nat /\ SegmentDataSize >= 6
    BY TuiAssumption, SegmentationAssumption DEF HeaderSize
  <2>5. l > 0 /\ l <= SegmentDataSize
    BY <2>3, <2>4
  <2> QED BY <2>2, <2>5
<1>6. Segment(ToBytes(p)) = << <<0>> \o ToBytes(p) >>
  BY <1>4, <1>5, OneSegment
<1> QED BY <1>1, <1>3, <1>6

-----------------------------------------------------------------------------
(* A press that ends the TUI.                                              *)

\* What the headphones can be set to is fixed.
LEMMA ModesStay == ASSUME DeviceStep \/ Turn, Shapes PROVE device'.modes = device.modes
<1>1. CASE DeviceStep
  BY <1>1 DEF DeviceStep, Changed, Shapes, Headphones
<1>2. CASE Turn
  BY <1>2 DEF Turn, Shapes, Headphones
<1> QED BY <1>1, <1>2

LEMMA PanicPressed ==
    ASSUME Shapes, NEW delta \in {1, -1}, AudioModeAdjust(delta), tui = "running",
           tui' = "panicked"
    PROVE  /\ state.audio_modes = << >>
           /\ \E i \in device.modes \cap {127, 128} : state.audio_mode_index = Some(i)
<1>1. state.audio_mode_index # None /\ state.audio_modes = << >> /\ AdjustRawIndex(delta)
  BY DEF AudioModeAdjust, CycleModes
<1>2. PICK i \in device.modes : state.audio_mode_index = Some(i)
  BY <1>1 DEF Shapes, Views
<1>3. i \in 0..255
  BY DEF Shapes, Headphones, Byte
<1>4. AsI8(i) + delta \notin -128..127
  BY <1>1, <1>2 DEF AdjustRawIndex, Some
<1>5. i \in {127, 128}
  BY <1>3, <1>4 DEF AsI8
<1> QED BY <1>1, <1>2, <1>5

LEMMA PanicKept == ASSUME AppInv, PanicHasCause, [Next]_vars PROVE PanicHasCause'
<1> SUFFICES ASSUME tui' = "panicked"
             PROVE  /\ state'.audio_modes = << >>
                    /\ \E i \in device'.modes \cap {127, 128} : state'.audio_mode_index = Some(i)
  BY DEF PanicHasCause
<1>1. Shapes
  BY DEF AppInv
<1>2. CASE Plus \/ Minus
  <2>1. PICK delta \in {1, -1} : AudioModeAdjust(delta) /\ tui = "running"
    BY <1>2 DEF Plus, Minus, Key
  <2>2. device' = device /\ state' = state
    BY <1>2 DEF Plus, Minus, Key, deviceVars
  <2> QED BY <1>1, <2>1, <2>2, PanicPressed
<1>3. CASE DeviceStep \/ Turn
  <2>1. tui' = tui /\ state' = state
    BY <1>3 DEF DeviceStep, Turn
  <2> QED BY <1>1, <1>3, <2>1, ModesStay DEF PanicHasCause
<1>4. CASE PollIpc \/ Quit
  BY <1>4 DEF PollIpc, Quit, Key
<1>5. CASE SendQuery \/ StandbyCycle \/ AskPowerOff \/ AnswerDialog \/ UNCHANGED vars
  BY <1>5 DEF SendQuery, StandbyCycle, AskPowerOff, AnswerDialog, Key, vars, deviceVars, PanicHasCause
<1> QED BY <1>2, <1>3, <1>4, <1>5 DEF Next

\* Whatever was pressed, in whatever order the answers come (TuiApp).
THEOREM AppTypes == Spec => []TypeOK
<1>1. AppInv => TypeOK
  BY TypesFollow
<1> QED BY <1>1, AlwaysAppInv, PTL

\* Once nothing is under way the screen shows the headphones as they are (app.rs, ui.rs).
THEOREM ScreenShowsHeadphones == Spec => []ScreenTrue
<1>1. AppInv => ScreenTrue
  BY ScreenFollows
<1> QED BY <1>1, AlwaysAppInv, PTL

\* No command can be cut off in its middle (segment.rs, main.rs).
THEOREM NoHalfCommand == Spec => []CommandsWhole
<1>1. AppInv => CommandsWhole
  BY CommandsFollow
<1> QED BY <1>1, AlwaysAppInv, PTL

\* Only at the ends of an i8, and only without a discovered mode, can a key press
\* end the TUI (app.rs).
THEOREM PanicCause == Spec => []PanicHasCause
<1>1. Init => PanicHasCause
  BY DEF Init, PanicHasCause
<1>2. AppInv /\ PanicHasCause /\ [Next]_vars => PanicHasCause'
  BY PanicKept
<1> QED BY <1>1, <1>2, AlwaysAppInv, PTL DEF Spec

\* As soon as one mode is discovered, + and - ask for modes that exist (app.rs).
THEOREM AskedExist == Spec => AskedModesExist
<1>1. AppInv /\ [Next]_vars
        => [(Plus \/ Minus) /\ state.audio_modes # << >> /\ commands' # commands
                => Last(commands').payload[1] \in device.modes]_vars
  <2> SUFFICES ASSUME AppInv, Plus \/ Minus, state.audio_modes # << >>, commands' # commands
               PROVE  Last(commands').payload[1] \in device.modes
    OBVIOUS
  <2>1. PICK delta \in {1, -1} : AudioModeAdjust(delta) /\ tui = "running"
    BY DEF Plus, Minus, Key
  <2>2. PICK i \in Byte : commands' = Append(commands, SetCurrentMode(i)) /\ i \in device.modes
    BY <2>1, ModeAsked DEF AppInv
  <2>3. commands \in Seq(Commands)
    BY DEF AppInv, Shapes
  <2>4. Last(commands') = SetCurrentMode(i)
    BY <2>2, <2>3 DEF Last
  <2> QED BY <2>2, <2>4 DEF SetCurrentMode, NewPacket
<1> QED BY <1>1, AlwaysAppInv, PTL DEF Spec, AskedModesExist
=============================================================================
