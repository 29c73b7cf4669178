----------------------------- MODULE BozodProofs -----------------------------
(***************************************************************************)
(* What is proved of the daemon as a whole, for every number of clients    *)
(* and cells, every capacity and every bound.                              *)
(*                                                                         *)
(* The connected flag follows the connection manager: the events Connected *)
(* and Disconnected in the state manager's inbox are the changes of the    *)
(* flag that are still to come, and no other step touches it.              *)
(*                                                                         *)
(* Every other cell follows the headphones: what they say last about it is *)
(* followed through the notification stream and the state manager's inbox  *)
(* into the state; before they have said anything the initial query for    *)
(* the cell is still to be sent or written.                                *)
(*                                                                         *)
(* Every request has one reply: the replies in a stream are counted as a   *)
(* set of positions, and taking the first response shifts them.            *)
(***************************************************************************)
EXTENDS BozoSystemProofs, FiniteSetTheorems

-----------------------------------------------------------------------------
(* The connected flag.                                                     *)

IsFlag(e) == e.type \in {"Connected", "Disconnected"}

NoFlag(q) == \A i \in 1..Len(q) : ~IsFlag(q[i])
NoDisconnected(q) == \A i \in 1..Len(q) : q[i].type # "Disconnected"
LastIsDisconnected(q) ==
    \A i \in 1..Len(q) : q[i].type = "Connected" =>
        \E j \in (i + 1)..Len(q) : q[j].type = "Disconnected"

\* main connects once, and run() has a link as long as it does not end.
Stage ==
    /\ main = "scanning" => conn = "idle"
    /\ conn \in {"starting", "running"} => link # "down"

\* What the flag will be once the inbox is empty, unless its last change was lost.
FlagLost == "connected" \in missed[SM]
Settles ==
    main # "exited" =>
        /\ conn = "idle" => NoFlag(inbox[SM]) /\ ~state["connected"]
        /\ conn \in {"starting", "running"} =>
            /\ NoDisconnected(inbox[SM])
            /\ NoFlag(inbox[SM]) => state["connected"] \/ FlagLost
        /\ conn = "ended" /\ link = "down" =>
            /\ LastIsDisconnected(inbox[SM])
            /\ NoFlag(inbox[SM]) => ~state["connected"] \/ FlagLost

FlagInv == Stage /\ Settles

-----------------------------------------------------------------------------
(* Queues of events.                                                       *)

LEMMA AppendPlain ==
    ASSUME NEW S, NEW q \in Seq(S), NEW e \in S, ~IsFlag(e)
    PROVE  /\ NoFlag(Append(q, e)) <=> NoFlag(q)
           /\ NoDisconnected(q) => NoDisconnected(Append(q, e))
           /\ LastIsDisconnected(q) => LastIsDisconnected(Append(q, e))
<1> DEFINE r == Append(q, e)
<1>1. /\ Len(q) \in Nat /\ Len(r) = Len(q) + 1 /\ r[Len(q) + 1] = e
      /\ \A i \in 1..Len(q) : r[i] = q[i]
  OBVIOUS
<1>2. \A i \in 1..Len(r) : (i \in 1..Len(q) /\ r[i] = q[i]) \/ r[i] = e
  BY <1>1
<1>3. NoFlag(r) <=> NoFlag(q)
  <2>1. 1..Len(q) \subseteq 1..Len(r)
    BY <1>1
  <2> QED BY <1>1, <1>2, <2>1 DEF NoFlag
<1>4. NoDisconnected(q) => NoDisconnected(r)
  BY <1>2 DEF NoDisconnected, IsFlag
<1>5. ASSUME LastIsDisconnected(q), NEW i \in 1..Len(r), r[i].type = "Connected"
      PROVE  \E j \in (i + 1)..Len(r) : r[j].type = "Disconnected"
  <2>1. i \in 1..Len(q) /\ q[i].type = "Connected"
    BY <1>2, <1>5 DEF IsFlag
  <2>2. PICK j \in (i + 1)..Len(q) : q[j].type = "Disconnected"
    BY <1>5, <2>1 DEF LastIsDisconnected
  <2>3. j \in 1..Len(q) /\ j \in (i + 1)..Len(r)
    BY <1>1, <2>1
  <2> QED BY <1>1, <2>2, <2>3
<1> QED BY <1>3, <1>4, <1>5 DEF LastIsDisconnected

LEMMA AppendFlag ==
    ASSUME NEW S, NEW q \in Seq(S), NEW e \in S, IsFlag(e)
    PROVE  /\ ~NoFlag(Append(q, e))
           /\ NoFlag(q) /\ e.type # "Disconnected" => NoDisconnected(Append(q, e))
           /\ e.type = "Disconnected" => LastIsDisconnected(Append(q, e))
<1> DEFINE r == Append(q, e)
<1>1. /\ Len(q) \in Nat /\ Len(r) = Len(q) + 1 /\ r[Len(r)] = e /\ Len(r) \in 1..Len(r)
      /\ \A i \in 1..Len(r) : (i \in 1..Len(q) /\ r[i] = q[i]) \/ (i = Len(r) /\ r[i] = e)
  OBVIOUS
<1>2. ~NoFlag(r)
  BY <1>1 DEF NoFlag
<1>3. NoFlag(q) /\ e.type # "Disconnected" => NoDisconnected(r)
  BY <1>1 DEF NoFlag, NoDisconnected, IsFlag
<1>4. ASSUME e.type = "Disconnected", NEW i \in 1..Len(r), r[i].type = "Connected"
      PROVE  \E j \in (i + 1)..Len(r) : r[j].type = "Disconnected"
  <2>1. i # Len(r)
    BY <1>1, <1>4
  <2>2. Len(r) \in (i + 1)..Len(r)
    BY <1>1, <2>1
  <2> QED BY <1>1, <1>4, <2>2
<1> QED BY <1>2, <1>3, <1>4 DEF LastIsDisconnected

LEMMA TailOf ==
    ASSUME NEW S, NEW q \in Seq(S), q # << >>
    PROVE  /\ ~IsFlag(Head(q)) => (NoFlag(Tail(q)) <=> NoFlag(q))
           /\ NoFlag(q) => ~IsFlag(Head(q))
           /\ NoDisconnected(q) => Head(q).type # "Disconnected" /\ NoDisconnected(Tail(q))
           /\ LastIsDisconnected(q) =>
                /\ LastIsDisconnected(Tail(q))
                /\ Head(q).type = "Connected" => ~NoFlag(Tail(q))
<1> DEFINE r == Tail(q)
<1>1. /\ Len(q) \in Nat \ {0} /\ Len(r) = Len(q) - 1 /\ Head(q) = q[1]
      /\ \A i \in 1..Len(r) : r[i] = q[i + 1]
  OBVIOUS
<1>2. /\ \A i \in 1..Len(r) : i + 1 \in 1..Len(q)
      /\ \A i \in 1..Len(q) : i = 1 \/ (i - 1 \in 1..Len(r) /\ r[i - 1] = q[i])
      /\ 1 \in 1..Len(q)
  BY <1>1
<1>3. /\ ~IsFlag(Head(q)) => (NoFlag(r) <=> NoFlag(q))
      /\ NoFlag(q) => ~IsFlag(Head(q))
  BY <1>1, <1>2 DEF NoFlag
<1>4. NoDisconnected(q) => Head(q).type # "Disconnected" /\ NoDisconnected(r)
  BY <1>1, <1>2 DEF NoDisconnected
<1>5. ASSUME LastIsDisconnected(q), NEW i \in 1..Len(q), q[i].type = "Connected"
      PROVE  \E j \in i..Len(r) : r[j].type = "Disconnected"
  <2>1. PICK j \in (i + 1)..Len(q) : q[j].type = "Disconnected"
    BY <1>5 DEF LastIsDisconnected
  <2>2. j - 1 \in i..Len(r) /\ j \in 1..Len(q) /\ j # 1
    BY <1>1, <2>1
  <2>3. r[j - 1] = q[j]
    BY <1>2, <2>2
  <2> QED BY <2>1, <2>2, <2>3
<1>6. ASSUME LastIsDisconnected(q), NEW i \in 1..Len(r), r[i].type = "Connected"
      PROVE  \E j \in (i + 1)..Len(r) : r[j].type = "Disconnected"
  <2>1. i + 1 \in 1..Len(q) /\ q[i + 1].type = "Connected"
    BY <1>1, <1>2, <1>6
  <2> QED BY <1>5, <1>6, <2>1
<1>7. ASSUME LastIsDisconnected(q), Head(q).type = "Connected"
      PROVE  ~NoFlag(r)
  <2>1. PICK j \in 1..Len(r) : r[j].type = "Disconnected"
    BY <1>1, <1>2, <1>5, <1>7
  <2> QED BY <2>1 DEF NoFlag, IsFlag
<1> QED BY <1>3, <1>4, <1>6, <1>7 DEF LastIsDisconnected

-----------------------------------------------------------------------------
(* Steps that leave the flag alone, and those that broadcast.              *)

Flag == state["connected"]
SameLink == link' = "down" <=> link = "down"
SameStage == main' = main /\ conn' = conn /\ SameLink

LEMMA FlagFrame ==
    ASSUME FlagInv, SameStage, Flag' <=> Flag, inbox'[SM] = inbox[SM],
           missed'[SM] = missed[SM]
    PROVE  FlagInv'
<1>1. Stage'
  BY DEF FlagInv, Stage, SameStage, SameLink
<1>2. /\ NoFlag(inbox[SM])' <=> NoFlag(inbox[SM])
      /\ NoDisconnected(inbox[SM])' <=> NoDisconnected(inbox[SM])
      /\ LastIsDisconnected(inbox[SM])' <=> LastIsDisconnected(inbox[SM])
  BY DEF NoFlag, NoDisconnected, LastIsDisconnected, IsFlag
<1> QED BY <1>1, <1>2 DEF FlagInv, Settles, SameStage, SameLink, Flag, FlagLost

\* The fields the state manager still has news of in q.
NewsIn(q) == UNION {News(SM, q[i]) : i \in 1..Len(q)}

\* A broadcast event goes behind what the state manager has kept; what it has
\* not kept is missed unless there is later news.
LEMMA BroadcastToManager ==
    ASSUME TypeOK, NEW e \in DaemonEvent, Publish(Live, e)
    PROVE  \/ /\ inbox'[SM] = Append(inbox[SM], e)
              /\ missed'[SM] = missed[SM] \ NewsIn(inbox'[SM])
           \/ /\ inbox[SM] # << >>
              /\ inbox'[SM] = Append(Tail(inbox[SM]), e)
              /\ missed'[SM] = (missed[SM] \cup News(SM, Head(inbox[SM]))) \ NewsIn(inbox'[SM])
<1>1. SM \in Receivers /\ SM \in Live
  BY DEF Receivers, Live
<1>2. inbox[SM] \in Seq(DaemonEvent) /\ EventCap \in Nat \ {0}
  BY <1>1, BusAssumption DEF TypeOK, BusTypeOK
<1>3. /\ inbox'[SM] = Push(inbox[SM], e)
      /\ missed'[SM] = (missed[SM] \cup (IF Full(SM) THEN News(SM, Head(inbox[SM])) ELSE {}))
                           \ NewsIn(inbox'[SM])
  BY <1>1 DEF Publish, StillMissed, NewsIn
<1>4. Len(inbox[SM]) \in Nat /\ (Full(SM) <=> ~(Len(inbox[SM]) < EventCap))
  BY <1>2 DEF Full
<1>5. CASE Full(SM)
  <2>1. Push(inbox[SM], e) = Append(Tail(inbox[SM]), e) /\ inbox[SM] # << >>
    BY <1>2, <1>4, <1>5 DEF Push
  <2> QED BY <1>3, <1>5, <2>1
<1>6. CASE ~Full(SM)
  <2>1. Push(inbox[SM], e) = Append(inbox[SM], e)
    BY <1>4, <1>6 DEF Push
  <2> QED BY <1>3, <1>6, <2>1
<1> QED BY <1>5, <1>6

LEMMA FlagNews ==
    ASSUME NEW e \in DaemonEvent
    PROVE  "connected" \in News(SM, e) <=> IsFlag(e)
<1>1. CASE e.type = "PacketReceived"
  <2>1. "connected" \notin News(SM, e)
    BY <1>1, CellsAssumption DEF News, Updates
  <2> QED BY <1>1, <2>1 DEF IsFlag
<1>2. CASE e.type = "StateUpdated"
  BY <1>2 DEF News, IsFlag
<1>3. CASE e.type \in {"Connected", "Disconnected"}
  BY <1>3 DEF News, IsFlag
<1> QED BY <1>1, <1>2, <1>3, EventTypes

LEMMA FlagNewsIn ==
    ASSUME NEW q \in Seq(DaemonEvent)
    PROVE  "connected" \in NewsIn(q) <=> ~NoFlag(q)
<1>1. \A i \in 1..Len(q) : q[i] \in DaemonEvent
  OBVIOUS
<1>2. \A i \in 1..Len(q) : "connected" \in News(SM, q[i]) <=> IsFlag(q[i])
  BY <1>1, FlagNews
<1> QED BY <1>2 DEF NewsIn, NoFlag

\* What a broadcast does to the changes of the flag that are under way.
LEMMA FlagBroadcast ==
    ASSUME TypeOK, NEW e \in DaemonEvent, Publish(Live, e), NEW q, q = inbox[SM],
           NEW r, r = inbox'[SM]
    PROVE  /\ ~IsFlag(e) =>
                /\ NoFlag(q) => NoFlag(r)
                /\ NoDisconnected(q) => NoDisconnected(r)
                /\ LastIsDisconnected(q) => LastIsDisconnected(r)
                /\ NoFlag(r) => (NoFlag(q) /\ (FlagLost => FlagLost')) \/ FlagLost'
           /\ IsFlag(e) =>
                /\ ~NoFlag(r)
                /\ NoFlag(q) /\ e.type # "Disconnected" => NoDisconnected(r)
                /\ e.type = "Disconnected" => LastIsDisconnected(r)
<1>1. q \in Seq(DaemonEvent)
  BY DEF TypeOK, BusTypeOK, Receivers
<1>2. PICK kept \in Seq(DaemonEvent) :
        /\ r = Append(kept, e)
        /\ \/ kept = q /\ missed'[SM] = missed[SM] \ NewsIn(r)
           \/ /\ q # << >> /\ kept = Tail(q)
              /\ missed'[SM] = (missed[SM] \cup News(SM, Head(q))) \ NewsIn(r)
  <2>1. CASE r = Append(q, e) /\ missed'[SM] = missed[SM] \ NewsIn(r)
    BY <1>1, <2>1
  <2>2. CASE /\ q # << >> /\ r = Append(Tail(q), e)
             /\ missed'[SM] = (missed[SM] \cup News(SM, Head(q))) \ NewsIn(r)
    <3>1. Tail(q) \in Seq(DaemonEvent)
      BY <1>1, <2>2
    <3> QED BY <2>2, <3>1
  <2> QED BY <2>1, <2>2, BroadcastToManager
<1>3. /\ NoFlag(q) => NoFlag(kept)
      /\ NoDisconnected(q) => NoDisconnected(kept)
      /\ LastIsDisconnected(q) => LastIsDisconnected(kept)
      /\ q # << >> /\ kept = Tail(q) /\ NoFlag(kept) => NoFlag(q) \/ IsFlag(Head(q))
  <2>1. CASE q # << >> /\ kept = Tail(q)
    BY <1>1, <2>1, TailOf
  <2>2. CASE kept = q
    BY <2>2
  <2> QED BY <1>2, <2>1, <2>2
<1>4. ASSUME ~IsFlag(e)
      PROVE  /\ NoFlag(r) <=> NoFlag(kept)
             /\ NoDisconnected(kept) => NoDisconnected(r)
             /\ LastIsDisconnected(kept) => LastIsDisconnected(r)
  BY <1>2, <1>4, AppendPlain
<1>5. ASSUME IsFlag(e)
      PROVE  /\ ~NoFlag(r)
             /\ NoFlag(kept) /\ e.type # "Disconnected" => NoDisconnected(r)
             /\ e.type = "Disconnected" => LastIsDisconnected(r)
  BY <1>2, <1>5, AppendFlag
<1>6. ASSUME ~IsFlag(e), NoFlag(r)
      PROVE  (NoFlag(q) /\ (FlagLost => FlagLost')) \/ FlagLost'
  <2>1. r \in Seq(DaemonEvent)
    BY <1>2
  <2>2. "connected" \notin NewsIn(r) /\ NoFlag(kept)
    BY <1>4, <1>6, <2>1, FlagNewsIn
  <2>3. CASE kept = q /\ missed'[SM] = missed[SM] \ NewsIn(r)
    BY <2>2, <2>3 DEF FlagLost
  <2>4. CASE /\ q # << >> /\ kept = Tail(q)
             /\ missed'[SM] = (missed[SM] \cup News(SM, Head(q))) \ NewsIn(r)
    <3>1. Head(q) \in DaemonEvent
      BY <1>1, <2>4
    <3>2. IsFlag(Head(q)) => "connected" \in News(SM, Head(q))
      BY <3>1, FlagNews
    <3> QED BY <1>3, <2>2, <2>4, <3>2 DEF FlagLost
  <2> QED BY <1>2, <2>3, <2>4
<1> QED BY <1>3, <1>4, <1>5, <1>6

LEMMA PlainBroadcast ==
    ASSUME TypeOK, FlagInv, NEW e \in DaemonEvent, ~IsFlag(e), Publish(Live, e),
           SameStage, state' = state
    PROVE  FlagInv'
<1> DEFINE q == inbox[SM]
           r == inbox'[SM]
<1>1. Stage'
  BY DEF FlagInv, Stage, SameStage, SameLink
<1>2. /\ NoFlag(q) => NoFlag(r)
      /\ NoDisconnected(q) => NoDisconnected(r)
      /\ LastIsDisconnected(q) => LastIsDisconnected(r)
      /\ NoFlag(r) => (NoFlag(q) /\ (FlagLost => FlagLost')) \/ FlagLost'
  BY FlagBroadcast
<1>3. /\ NoFlag(inbox[SM])' <=> NoFlag(r)
      /\ NoDisconnected(inbox[SM])' <=> NoDisconnected(r)
      /\ LastIsDisconnected(inbox[SM])' <=> LastIsDisconnected(r)
  BY DEF NoFlag, NoDisconnected, LastIsDisconnected, IsFlag
<1> HIDE DEF q, r
<1>4. Flag' <=> Flag
  BY DEF Flag
<1>5. Settles'
  BY <1>2, <1>3, <1>4 DEF FlagInv, Settles, SameStage, SameLink, Flag, q
<1> QED BY <1>1, <1>5 DEF FlagInv

-----------------------------------------------------------------------------
(* The state manager takes the events in order.                            *)

LEMMA StateManagerFlag ==
    ASSUME TypeOK, FlagInv, StateManagerNext
    PROVE  FlagInv'
<1> USE DEF mainVars, connVars, smVars, headphoneVars
<1>0. SameStage
  BY DEF StateManagerNext, SMPacket, SMPublish, SMOther, SMLagged, SameStage, SameLink
<1>1. SM \in Receivers /\ inbox[SM] \in Seq(DaemonEvent)
  BY DEF TypeOK, BusTypeOK, Receivers
<1>2. state \in HeadphoneState
  BY DEF TypeOK, BozodTypeOK
<1>3. Stage'
  BY <1>0 DEF FlagInv, Stage, SameStage, SameLink
<1> DEFINE q == inbox[SM]
           r == Tail(q)
<1>4. ASSUME HasEvent(SM), Receive(SM)
      PROVE  q # << >> /\ missed'[SM] = missed[SM] /\ inbox'[SM] = r
  BY <1>1, <1>4 DEF HasEvent, Receive, TypeOK, BusTypeOK
<1>5. ASSUME inbox'[SM] = r
      PROVE  /\ NoFlag(inbox[SM])' <=> NoFlag(r)
             /\ NoDisconnected(inbox[SM])' <=> NoDisconnected(r)
             /\ LastIsDisconnected(inbox[SM])' <=> LastIsDisconnected(r)
  BY <1>5 DEF NoFlag, NoDisconnected, LastIsDisconnected, IsFlag
<1>6. ASSUME HasEvent(SM), Receive(SM), ~IsFlag(Head(q)), Flag' <=> Flag
      PROVE  FlagInv'
  <2>1. /\ NoFlag(r) <=> NoFlag(q)
        /\ NoDisconnected(q) => NoDisconnected(r)
        /\ LastIsDisconnected(q) => LastIsDisconnected(r)
    BY <1>1, <1>4, <1>6, TailOf
  <2> HIDE DEF q, r
  <2>2. Settles'
    BY <1>0, <1>4, <1>5, <1>6, <2>1 DEF FlagInv, Settles, SameStage, SameLink, Flag, FlagLost, q
  <2> QED BY <1>3, <2>2 DEF FlagInv
<1>7. CASE SMPacket
  <2>1. ~IsFlag(Head(q)) /\ HasEvent(SM) /\ Receive(SM)
    BY <1>7 DEF SMPacket, IsFlag
  <2>2. state'["connected"] = state["connected"]
    <3>1. CASE UNCHANGED smVars
      BY <3>1
    <3>2. CASE Updates(Head(inbox[SM]).packet)
      <4> DEFINE u == [field |-> Head(inbox[SM]).packet.field,
                       value |-> Head(inbox[SM]).packet.value]
      <4>1. u \in StateUpdate /\ u.field # "connected"
        BY <3>2, CellsAssumption DEF Updates, StateUpdate, Fields, FieldValues
      <4>2. state' = Apply(state, u)
        BY <1>7, <3>2 DEF SMPacket
      <4> HIDE DEF u
      <4> QED BY <1>2, <4>1, <4>2, ApplyType DEF Fields
    <3> QED BY <1>7, <3>1, <3>2 DEF SMPacket
  <2> QED BY <1>6, <2>1, <2>2 DEF Flag
<1>8. CASE SMPublish
  <2>1. StateUpdated(smUpdate) \in DaemonEvent /\ ~IsFlag(StateUpdated(smUpdate))
    BY <1>8, EventTypes DEF SMPublish, TypeOK, BozodTypeOK, IsFlag, StateUpdated
  <2> QED BY <1>0, <1>8, <2>1, PlainBroadcast DEF SMPublish
<1>9. CASE SMOther
  <2>1. HasEvent(SM) /\ Receive(SM)
    BY <1>9 DEF SMOther
  <2>2. CASE Head(q).type = "StateUpdated"
    BY <1>6, <1>9, <2>1, <2>2 DEF SMOther, IsFlag, Flag
  <2>3. CASE Head(q).type \in {"Connected", "Disconnected"}
    <3>1. Flag' <=> Head(q).type = "Connected"
      <4>1. state' = Apply(state, Connection(Head(q).type = "Connected"))
        BY <1>9, <2>3 DEF SMOther
      <4>2. (Head(q).type = "Connected") \in BOOLEAN
        OBVIOUS
      <4>3. Connection(Head(q).type = "Connected").field = "connected"
            /\ Connection(Head(q).type = "Connected").value = (Head(q).type = "Connected")
        BY DEF Connection
      <4>4. state'["connected"] = (Head(q).type = "Connected")
        BY <1>2, <4>1, <4>2, <4>3, ConnectionType, ApplyType
      <4> QED BY <4>4 DEF Flag
    <3>2. /\ ~NoFlag(q)
          /\ NoDisconnected(q) => Head(q).type # "Disconnected" /\ NoDisconnected(r)
          /\ LastIsDisconnected(q) =>
               /\ LastIsDisconnected(r)
               /\ Head(q).type = "Connected" => ~NoFlag(r)
      BY <1>1, <1>4, <2>1, <2>3, TailOf DEF IsFlag
    <3> HIDE DEF q, r
    <3>3. Settles'
      BY <1>0, <1>4, <1>5, <2>1, <2>3, <3>1, <3>2
         DEF FlagInv, Settles, SameStage, SameLink, Flag, FlagLost, q
    <3> QED BY <1>3, <3>3 DEF FlagInv
  <2> QED BY <1>9, <2>2, <2>3 DEF SMOther
<1>10. CASE SMLagged
  <2>1. missed'[SM] = missed[SM] /\ inbox'[SM] = inbox[SM] /\ state' = state
    BY <1>10 DEF SMLagged, ReceiveLagged
  <2> QED BY <1>0, <2>1, FlagFrame DEF Flag
<1> QED BY <1>7, <1>8, <1>9, <1>10 DEF StateManagerNext

-----------------------------------------------------------------------------
(* main broadcasts Connected once, run() Disconnected when the peer went   *)
(* or a client asked for it.                                               *)

LEMMA ConnectionManagerFlag ==
    ASSUME TypeOK, FlagInv, ConnectionNext
    PROVE  FlagInv'
<1> USE DEF mainVars, smVars, busVars, headphoneVars
<1>1. CASE OpenStream
  <2>1. Stage'
    BY <1>1 DEF OpenStream, FlagInv, Stage
  <2>2. Settles'
    BY <1>1 DEF OpenStream, FlagInv, Settles, Stage, NoFlag, NoDisconnected,
                LastIsDisconnected, IsFlag, FlagLost
  <2> QED BY <2>1, <2>2 DEF FlagInv
<1>2. CASE StreamFails \/ ConnStreamEnd
  <2>1. conn' = "ended" /\ link' # "down" /\ main' = main /\ main # "scanning"
    BY <1>2 DEF StreamFails, ConnStreamEnd, EndConnection, FlagInv, Stage
  <2> QED BY <2>1 DEF FlagInv, Stage, Settles
<1>3. CASE ConnNotification
  <2>1. Head(air) \in Packet
    BY <1>3 DEF ConnNotification, TypeOK, HeadphonesTypeOK
  <2>2. PacketReceived(Head(air)) \in DaemonEvent /\ ~IsFlag(PacketReceived(Head(air)))
    BY <2>1, EventTypes DEF IsFlag, PacketReceived
  <2> QED BY <1>3, <2>2, PlainBroadcast DEF ConnNotification, connVars, SameStage, SameLink
<1>4. CASE ConnSend
  <2>1. link # "down"
    BY <1>4 DEF ConnSend, FlagInv, Stage
  <2>2. SameStage
    BY <1>4, <2>1 DEF ConnSend, React, SameStage, SameLink
  <2> QED BY <1>4, <2>2, FlagFrame DEF ConnSend, Flag
<1>5. CASE ConnDisconnect
  <2> DEFINE r == inbox'[SM]
  <2>1. /\ Disconnected \in DaemonEvent /\ IsFlag(Disconnected)
        /\ Disconnected.type = "Disconnected"
    BY EventTypes DEF Disconnected, IsFlag
  <2>2. conn' = "ended" /\ main' = main /\ main # "scanning" /\ Publish(Live, Disconnected)
    BY <1>5 DEF ConnDisconnect, EndConnection, FlagInv, Stage
  <2>3. Stage'
    BY <2>2 DEF Stage
  <2>4. ~NoFlag(r) /\ LastIsDisconnected(r)
    BY <2>1, <2>2, FlagBroadcast
  <2>5. ~NoFlag(inbox[SM])' /\ LastIsDisconnected(inbox[SM])'
    BY <2>4 DEF NoFlag, LastIsDisconnected, IsFlag
  <2> QED BY <2>2, <2>3, <2>5 DEF FlagInv, Settles
<1> QED BY <1>1, <1>2, <1>3, <1>4, <1>5 DEF ConnectionNext

LEMMA MainFlag ==
    ASSUME TypeOK, FlagInv, MainNext
    PROVE  FlagInv'
<1>1. CASE ConnectPeripheral
  <2> DEFINE q == inbox[SM]
             r == inbox'[SM]
  <2>1. /\ Connected \in DaemonEvent /\ IsFlag(Connected)
        /\ Connected.type = "Connected"
    BY EventTypes DEF Connected, IsFlag
  <2>2. /\ main = "scanning" /\ main' = "starting" /\ conn = "idle" /\ conn' = "starting"
        /\ link' = "up" /\ Publish(Live, Connected)
    BY <1>1 DEF ConnectPeripheral, FlagInv, Stage
  <2>3. Stage'
    BY <2>2 DEF Stage
  <2>4. ~NoFlag(r) /\ (NoFlag(q) => NoDisconnected(r))
    BY <2>1, <2>2, FlagBroadcast
  <2>5. ~NoFlag(inbox[SM])' /\ (NoFlag(q) => NoDisconnected(inbox[SM])')
    BY <2>4 DEF NoFlag, NoDisconnected, IsFlag
  <2> QED BY <2>2, <2>3, <2>5 DEF FlagInv, Settles
<1>2. CASE MainQuery
  BY <1>2, FlagFrame DEF MainQuery, SameStage, SameLink, Flag, smVars, busVars, headphoneVars
<1>3. CASE EnterSelect
  <2>1. Stage'
    BY <1>3 DEF EnterSelect, FlagInv, Stage, connVars, headphoneVars
  <2>2. Settles'
    BY <1>3 DEF EnterSelect, FlagInv, Settles, NoFlag, NoDisconnected, LastIsDisconnected,
                IsFlag, FlagLost, connVars, smVars, busVars, headphoneVars
  <2> QED BY <2>1, <2>2 DEF FlagInv
<1>4. CASE ScanOrConnectFails \/ ShutDown \/ CtrlC \/ Killed
  <2>1. main' = "exited" /\ conn' = "ended"
    BY <1>4 DEF ScanOrConnectFails, ShutDown, CtrlC, Killed, ProcessEnds
  <2> QED BY <2>1 DEF FlagInv, Stage, Settles
<1> QED BY <1>1, <1>2, <1>3, <1>4 DEF MainNext

-----------------------------------------------------------------------------
(* The server, the clients and the headphones leave the state manager's    *)
(* inbox alone.                                                            *)

LEMMA HandlerEffect ==
    ASSUME TypeOK, NEW c \in Clients, Accept(c) \/ HandlerNext(c)
    PROVE  /\ inbox'[SM] = inbox[SM] /\ missed'[SM] = missed[SM]
           /\ UNCHANGED <<main, conn, state>> /\ UNCHANGED headphoneVars
<1>1. c # SM /\ SM \in Receivers /\ c \in Receivers
  BY BusAssumption DEF Receivers
<1>2. inbox'[SM] = inbox[SM] /\ missed'[SM] = missed[SM]
  BY <1>1 DEF Accept, HandlerNext, HandleGetState, HandleReconnect, HandleCommand,
     SendPending, PushEvent, HandlerLagged, HandlerEof, Subscribe, Receive, ReceiveLagged,
     WriteTo, EndHandler, busVars, TypeOK, BusTypeOK
<1>3. UNCHANGED <<main, conn, state>> /\ UNCHANGED headphoneVars
  BY DEF Accept, HandlerNext, HandleGetState, HandleReconnect, HandleCommand,
     SendPending, PushEvent, HandlerLagged, HandlerEof, mainVars, connVars, smVars,
     headphoneVars
<1> QED BY <1>2, <1>3

LEMMA HandlerFlag ==
    ASSUME TypeOK, FlagInv, NEW c \in Clients, Accept(c) \/ HandlerNext(c)
    PROVE  FlagInv'
BY HandlerEffect, FlagFrame DEF headphoneVars, SameStage, SameLink, Flag

LEMMA HeadphonesFlag ==
    ASSUME FlagInv, HeadphonesStep
    PROVE  FlagInv'
<1>1. SameLink
  BY DEF HeadphonesStep, HeadphonesNext, Press, Stray, LoseLink, SameLink
<1> QED BY <1>1, FlagFrame
        DEF HeadphonesStep, bozodVars, mainVars, connVars, smVars, busVars, SameStage, Flag

LEMMA InitFlag == Init => FlagInv
<1> SUFFICES ASSUME Init PROVE FlagInv
  OBVIOUS
<1>1. /\ conn = "idle" /\ inbox[SM] = << >> /\ state = DefaultState
  BY DEF Init, BozodInit, BusInit, Receivers
<1>2. NoFlag(inbox[SM])
  BY <1>1 DEF NoFlag
<1>3. ~state["connected"]
  BY <1>1 DEF DefaultState, Fields
<1> QED BY <1>1, <1>2, <1>3 DEF FlagInv, Stage, Settles

LEMMA StepFlag == TypeOK /\ FlagInv /\ [Next]_vars => FlagInv'
<1> SUFFICES ASSUME TypeOK, FlagInv, [Next]_vars PROVE FlagInv'
  OBVIOUS
<1>1. CASE DaemonStep
  <2>1. CASE BindSocket
    BY <2>1, FlagFrame
       DEF BindSocket, connVars, smVars, busVars, headphoneVars, SameStage, SameLink, Flag
  <2> QED BY <1>1, <2>1, StateManagerFlag, ConnectionManagerFlag, MainFlag, HandlerFlag
          DEF DaemonStep, BozodNext
<1>2. CASE \E c \in Clients : ClientStep(c)
  BY <1>2, FlagFrame DEF ClientStep, bozodVars, mainVars, connVars, smVars, busVars,
     headphoneVars, SameStage, SameLink, Flag
<1>3. CASE HeadphonesStep
  BY <1>3, HeadphonesFlag
<1>4. CASE UNCHANGED vars
  BY <1>4, FlagFrame DEF vars, bozodVars, mainVars, connVars, smVars, busVars,
     headphoneVars, SameStage, SameLink, Flag
<1> QED BY <1>1, <1>2, <1>3, <1>4 DEF Next

(***************************************************************************)
(* The connected flag of HeadphoneState follows the connection manager:    *)
(* a state manager with no event waiting, that has not lost the last       *)
(* change of the flag, shows true while run() goes on and false before     *)
(* connect() and after a requested disconnect.                             *)
(***************************************************************************)
THEOREM FlagFollows == Spec => []ConnectedFlag
<1>1. FlagInv => ConnectedFlag
  <2> SUFFICES ASSUME FlagInv, "connected" \notin missed[SM], inbox[SM] = << >>,
                      main # "exited"
               PROVE  /\ conn \in {"starting", "running"} => state["connected"]
                      /\ conn = "idle" => ~state["connected"]
                      /\ conn = "ended" /\ link = "down" => ~state["connected"]
    BY DEF ConnectedFlag
  <2>1. NoFlag(inbox[SM])
    BY DEF NoFlag
  <2> QED BY <2>1 DEF FlagInv, Settles, FlagLost
<1>2. TypeOK /\ FlagInv /\ [Next]_vars => FlagInv'
  BY StepFlag
<1> QED BY <1>1, <1>2, InitFlag, TypeCorrect, PTL DEF Spec

-----------------------------------------------------------------------------
(* The cells the headphones serve.                                         *)

\* Of a queue and a set of items: none is in it; the last in it is one of the good.
Lacks(q, T) == \A i \in 1..Len(q) : q[i] \notin T
Ends(q, T, G) ==
    \E i \in 1..Len(q) : q[i] \in G /\ \A j \in (i + 1)..Len(q) : q[j] \notin T

PacketNews(k) == {p \in Packet : Updates(p) /\ p.field = k}
PacketTrue(k) == {p \in PacketNews(k) : p.value = device[k]}
EventNews(k) == {PacketReceived(p) : p \in PacketNews(k)}
EventTrue(k) == {PacketReceived(p) : p \in PacketTrue(k)}

Asked(k) ==
    \/ \E i \in 1..Len(queries) : queries[i] = k
    \/ \E i \in 1..Len(queue) : queue[i] = SendPacket(Get(k))

\* What the state holds once everything said of k has arrived: the device's
\* value, unless news was lost, or nothing yet while the answer is outstanding.
Waiting(k) == Asked(k) \/ failures > 0
Right(k) ==
    \/ state[k] = device[k]
    \/ k \in missed[SM]
    \/ state[k] = None /\ Waiting(k)

Mirrored(k) ==
    \/ Ends(air, PacketNews(k), PacketTrue(k))
    \/ /\ Lacks(air, PacketNews(k))
       /\ \/ Ends(inbox[SM], EventNews(k), EventTrue(k))
          \/ Lacks(inbox[SM], EventNews(k)) /\ Right(k)

\* Nothing was ever said of k.
Untold(k) == Lacks(inbox[SM], EventNews(k)) /\ state[k] = None

Early == conn \in {"idle", "starting"}
Streaming == conn = "running" /\ link = "streaming"

MirrorInv ==
    /\ main = "scanning" => conn = "idle"
    /\ main = "running" => queries = << >>
    /\ Early =>
        /\ link # "streaming" /\ air = << >>
        /\ \A k \in Supported : Asked(k) /\ Untold(k)
    /\ Streaming => \A k \in Supported : Mirrored(k)

-----------------------------------------------------------------------------
(* Queues.                                                                 *)

LEMMA AppendOther ==
    ASSUME NEW S, NEW q \in Seq(S), NEW e \in S, NEW T, e \notin T, NEW G
    PROVE  /\ Lacks(q, T) => Lacks(Append(q, e), T)
           /\ Ends(q, T, G) => Ends(Append(q, e), T, G)
<1> DEFINE r == Append(q, e)
<1>1. /\ Len(q) \in Nat /\ Len(r) = Len(q) + 1
      /\ \A i \in 1..Len(q) : r[i] = q[i] /\ i \in 1..Len(r)
      /\ \A i \in 1..Len(r) : (i \in 1..Len(q) /\ r[i] = q[i]) \/ r[i] = e
  OBVIOUS
<1>2. Lacks(q, T) => Lacks(r, T)
  BY <1>1 DEF Lacks
<1>3. ASSUME Ends(q, T, G) PROVE Ends(r, T, G)
  <2>1. PICK i \in 1..Len(q) : q[i] \in G /\ \A j \in (i + 1)..Len(q) : q[j] \notin T
    BY <1>3 DEF Ends
  <2>2. \A j \in (i + 1)..Len(r) : j \in (i + 1)..Len(q) \/ r[j] = e
    BY <1>1
  <2>3. \A j \in (i + 1)..Len(q) : r[j] = q[j]
    BY <1>1
  <2> QED BY <1>1, <2>1, <2>2, <2>3 DEF Ends
<1> QED BY <1>2, <1>3

LEMMA AppendTrue ==
    ASSUME NEW S, NEW q \in Seq(S), NEW e \in S, NEW T, NEW G, e \in G
    PROVE  Ends(Append(q, e), T, G)
<1>1. /\ Len(Append(q, e)) \in 1..Len(Append(q, e))
      /\ Append(q, e)[Len(Append(q, e))] = e
      /\ (Len(Append(q, e)) + 1)..Len(Append(q, e)) = {}
  OBVIOUS
<1> QED BY <1>1 DEF Ends

LEMMA TailEnds ==
    ASSUME NEW S, NEW q \in Seq(S), q # << >>, NEW T, NEW G
    PROVE  /\ Lacks(q, T) => Head(q) \notin T /\ Lacks(Tail(q), T)
           /\ Ends(q, T, G) =>
                \/ Ends(Tail(q), T, G)
                \/ Head(q) \in G /\ Lacks(Tail(q), T)
<1> DEFINE r == Tail(q)
<1>1. /\ Len(q) \in Nat \ {0} /\ Len(r) = Len(q) - 1 /\ Head(q) = q[1]
      /\ \A i \in 1..Len(r) : r[i] = q[i + 1]
  OBVIOUS
<1>2. /\ \A i \in 1..Len(r) : i + 1 \in 1..Len(q)
      /\ \A i \in 1..Len(q) : i = 1 \/ (i - 1 \in 1..Len(r) /\ r[i - 1] = q[i])
      /\ 1 \in 1..Len(q)
  BY <1>1
<1>3. Lacks(q, T) => Head(q) \notin T /\ Lacks(r, T)
  BY <1>1, <1>2 DEF Lacks
<1>4. ASSUME Ends(q, T, G)
      PROVE  Ends(r, T, G) \/ (Head(q) \in G /\ Lacks(r, T))
  <2>1. PICK i \in 1..Len(q) : q[i] \in G /\ \A j \in (i + 1)..Len(q) : q[j] \notin T
    BY <1>4 DEF Ends
  <2>2. CASE i = 1
    <3>1. \A j \in 1..Len(r) : j + 1 \in (i + 1)..Len(q)
      BY <1>1, <2>2
    <3> QED BY <1>1, <2>1, <2>2, <3>1 DEF Lacks
  <2>3. CASE i # 1
    <3>1. i - 1 \in 1..Len(r) /\ r[i - 1] = q[i]
      BY <1>2, <2>3
    <3>2. \A j \in ((i - 1) + 1)..Len(r) : j + 1 \in (i + 1)..Len(q) /\ r[j] = q[j + 1]
      BY <1>1, <2>3
    <3> QED BY <2>1, <3>1, <3>2 DEF Ends
  <2> QED BY <2>2, <2>3
<1> QED BY <1>3, <1>4

LEMMA ConcatOne ==
    ASSUME NEW S, NEW q \in Seq(S), NEW a \in S
    PROVE  q \o <<a>> = Append(q, a)
OBVIOUS

LEMMA ConcatTwo ==
    ASSUME NEW S, NEW q \in Seq(S), NEW a \in S, NEW b \in S
    PROVE  q \o <<a, b>> = Append(Append(q, a), b)
OBVIOUS

LEMMA MoreQueued ==
    ASSUME NEW S, NEW q \in Seq(S), NEW e \in S
    PROVE  /\ \E i \in 1..Len(Append(q, e)) : Append(q, e)[i] = e
           /\ \A x : (\E i \in 1..Len(q) : q[i] = x)
                      => \E i \in 1..Len(Append(q, e)) : Append(q, e)[i] = x
<1>1. /\ Len(q) \in Nat /\ Len(Append(q, e)) = Len(q) + 1 /\ Append(q, e)[Len(q) + 1] = e
      /\ \A i \in 1..Len(q) : Append(q, e)[i] = q[i] /\ i \in 1..Len(Append(q, e))
      /\ Len(q) + 1 \in 1..Len(Append(q, e))
  OBVIOUS
<1> QED BY <1>1

LEMMA FewerQueued ==
    ASSUME NEW S, NEW q \in Seq(S), q # << >>, NEW x, \E i \in 1..Len(q) : q[i] = x
    PROVE  x = Head(q) \/ \E i \in 1..Len(Tail(q)) : Tail(q)[i] = x
<1>1. /\ Len(q) \in Nat \ {0} /\ Len(Tail(q)) = Len(q) - 1 /\ Head(q) = q[1]
      /\ \A i \in 1..Len(Tail(q)) : Tail(q)[i] = q[i + 1]
  OBVIOUS
<1>2. \A i \in 1..Len(q) : i = 1 \/ (i - 1 \in 1..Len(Tail(q)) /\ Tail(q)[i - 1] = q[i])
  BY <1>1
<1> QED BY <1>1, <1>2

-----------------------------------------------------------------------------
(* What events and packets are news.                                       *)

LEMMA CellsOf == Supported \subseteq Cells
BY CellsAssumption

LEMMA EventOf ==
    ASSUME NEW k, NEW p \in Packet
    PROVE  /\ PacketReceived(p) \in EventNews(k) <=> p \in PacketNews(k)
           /\ PacketReceived(p) \in EventTrue(k) <=> p \in PacketTrue(k)
<1>1. \A x : PacketReceived(x).packet = x
  BY DEF PacketReceived
<1> QED BY <1>1 DEF EventNews, EventTrue

LEMMA OtherEvent ==
    ASSUME NEW k, NEW e, e.type # "PacketReceived"
    PROVE  e \notin EventNews(k)
BY DEF EventNews, PacketReceived

LEMMA SameTruth ==
    ASSUME NEW k, device'[k] = device[k]
    PROVE  PacketTrue(k)' = PacketTrue(k) /\ EventTrue(k)' = EventTrue(k)
BY DEF PacketTrue, EventTrue

\* A notification with the value of a cell is news of that cell alone.
LEMMA ValueNews ==
    ASSUME NEW f \in Cells, NEW v \in Values, NEW op \in {"Status", "Processing", "Result"},
           NEW k
    PROVE  /\ BmapPacket(op, f, v) \in Packet
           /\ BmapPacket(op, f, v) \in PacketNews(k) <=> f = k
           /\ f = k /\ device'[k] = v => BmapPacket(op, f, v) \in PacketTrue(k)'
<1>1. BmapPacket(op, f, v) \in Packet
  BY DEF BmapPacket, Packet, Responses
<1>2. Updates(BmapPacket(op, f, v)) /\ BmapPacket(op, f, v).field = f
      /\ BmapPacket(op, f, v).value = v
  BY DEF Updates, IsResponse, Responses, BmapPacket
<1> QED BY <1>1, <1>2 DEF PacketNews, PacketTrue

LEMMA ErrorNews ==
    ASSUME NEW f \in Cells, NEW k
    PROVE  BmapPacket("Error", f, Malformed) \in Packet \ PacketNews(k)
BY DEF PacketNews, Updates, BmapPacket, Packet, Responses

LEMMA StrayNews ==
    ASSUME NEW p \in StrayPackets, NEW k
    PROVE  p \in Packet \ PacketNews(k)
<1>1. CASE p = BmapPacket("Status", "other", None)
  BY <1>1, CellsAssumption DEF PacketNews, Updates, BmapPacket, Packet, Responses
<1>2. CASE \E f \in Cells : p = BmapPacket("Status", f, Malformed)
  BY <1>2, ValuesAssumption DEF PacketNews, Updates, BmapPacket, Packet, Responses
<1> QED BY <1>1, <1>2 DEF StrayPackets

-----------------------------------------------------------------------------
(* The headphones say something more.                                      *)

\* The step says the value of cell k, or leaves alone what was said of it.
Tells(k) ==
    \/ Ends(air, PacketNews(k), PacketTrue(k))'
    \/ /\ device'[k] = device[k]
       /\ Lacks(air, PacketNews(k)) => Lacks(air', PacketNews(k))
       /\ Ends(air, PacketNews(k), PacketTrue(k)) => Ends(air', PacketNews(k), PacketTrue(k))

LEMMA TellOne ==
    ASSUME TypeOK, NEW k, NEW p \in Packet, link = "streaming", Notify(<<p>>),
           p \in PacketTrue(k)' \/ (p \notin PacketNews(k) /\ device'[k] = device[k])
    PROVE  Tells(k)
<1>1. air \in Seq(Packet) /\ air' = Append(air, p)
  BY ConcatOne DEF TypeOK, HeadphonesTypeOK, Notify
<1>2. CASE p \in PacketTrue(k)'
  <2>1. Ends(air', PacketNews(k), PacketTrue(k)')
    BY <1>1, <1>2, AppendTrue
  <2> QED BY <2>1 DEF Tells, Ends
<1>3. CASE p \notin PacketNews(k) /\ device'[k] = device[k]
  BY <1>1, <1>3, AppendOther DEF Tells
<1> QED BY <1>2, <1>3

LEMMA TellTwo ==
    ASSUME TypeOK, NEW k, NEW p \in Packet, NEW r \in Packet, link = "streaming",
           Notify(<<p, r>>),
           \/ r \in PacketTrue(k)'
           \/ p \notin PacketNews(k) /\ r \notin PacketNews(k) /\ device'[k] = device[k]
    PROVE  Tells(k)
<1>1. air \in Seq(Packet) /\ air' = Append(Append(air, p), r) /\ Append(air, p) \in Seq(Packet)
  BY ConcatTwo DEF TypeOK, HeadphonesTypeOK, Notify
<1>2. CASE r \in PacketTrue(k)'
  <2>1. Ends(air', PacketNews(k), PacketTrue(k)')
    BY <1>1, <1>2, AppendTrue
  <2> QED BY <2>1 DEF Tells, Ends
<1>3. CASE p \notin PacketNews(k) /\ r \notin PacketNews(k) /\ device'[k] = device[k]
  <2>1. /\ Lacks(air, PacketNews(k)) => Lacks(Append(air, p), PacketNews(k))
        /\ Ends(air, PacketNews(k), PacketTrue(k))
             => Ends(Append(air, p), PacketNews(k), PacketTrue(k))
    BY <1>1, <1>3, AppendOther
  <2>2. /\ Lacks(Append(air, p), PacketNews(k)) => Lacks(air', PacketNews(k))
        /\ Ends(Append(air, p), PacketNews(k), PacketTrue(k))
             => Ends(air', PacketNews(k), PacketTrue(k))
    BY <1>1, <1>3, AppendOther
  <2> QED BY <1>3, <2>1, <2>2 DEF Tells
<1> QED BY <1>2, <1>3

\* The parts of Mirrored in the next state, with the headphones' values unchanged.
LEMMA SameParts ==
    ASSUME NEW k, device'[k] = device[k], NEW r, r = inbox'[SM]
    PROVE  /\ Lacks(air, PacketNews(k))' <=> Lacks(air', PacketNews(k))
           /\ Ends(air, PacketNews(k), PacketTrue(k))'
                <=> Ends(air', PacketNews(k), PacketTrue(k))
           /\ Lacks(inbox[SM], EventNews(k))' <=> Lacks(r, EventNews(k))
           /\ Ends(inbox[SM], EventNews(k), EventTrue(k))'
                <=> Ends(r, EventNews(k), EventTrue(k))
<1>1. PacketTrue(k)' = PacketTrue(k) /\ EventTrue(k)' = EventTrue(k)
  BY SameTruth
<1> QED BY <1>1 DEF Lacks, Ends, PacketNews, EventNews

LEMMA Told ==
    ASSUME NEW k, Mirrored(k), Tells(k),
           Waiting(k) => Waiting(k)' \/ Ends(air, PacketNews(k), PacketTrue(k))',
           inbox'[SM] = inbox[SM], missed'[SM] = missed[SM], state'[k] = state[k]
    PROVE  Mirrored(k)'
<1>1. CASE Ends(air, PacketNews(k), PacketTrue(k))'
  BY <1>1 DEF Mirrored
<1>2. CASE /\ device'[k] = device[k]
           /\ Lacks(air, PacketNews(k)) => Lacks(air', PacketNews(k))
           /\ Ends(air, PacketNews(k), PacketTrue(k)) => Ends(air', PacketNews(k), PacketTrue(k))
  <2>1. /\ Lacks(air, PacketNews(k))' <=> Lacks(air', PacketNews(k))
        /\ Ends(air, PacketNews(k), PacketTrue(k))' <=> Ends(air', PacketNews(k), PacketTrue(k))
        /\ Lacks(inbox[SM], EventNews(k))' <=> Lacks(inbox[SM], EventNews(k))
        /\ Ends(inbox[SM], EventNews(k), EventTrue(k))'
             <=> Ends(inbox[SM], EventNews(k), EventTrue(k))
    BY <1>2, SameParts
  <2>2. Right(k) => Right(k)' \/ Ends(air, PacketNews(k), PacketTrue(k))'
    BY <1>2 DEF Right
  <2> QED BY <1>1, <1>2, <2>1, <2>2 DEF Mirrored
<1> QED BY <1>1, <1>2 DEF Tells

-----------------------------------------------------------------------------
(* Steps that say nothing new.                                             *)

LEMMA AskedFrame ==
    ASSUME NEW k, UNCHANGED <<queries, queue>>
    PROVE  Asked(k) => Asked(k)'
BY DEF Asked

LEMMA WaitingFrame ==
    ASSUME NEW k, Asked(k) => Asked(k)', failures' = failures
    PROVE  Waiting(k) => Waiting(k)'
BY DEF Waiting

LEMMA UntoldFrame ==
    ASSUME NEW k, Untold(k), inbox'[SM] = inbox[SM], state'[k] = state[k]
    PROVE  Untold(k)'
BY DEF Untold, Lacks, EventNews, PacketNews

LEMMA MirrorFrame ==
    ASSUME MirrorInv, UNCHANGED <<conn, link, air, device, failures>>,
           main' = main \/ main' # "scanning",
           main' = "running" => queries' = << >>,
           \A k \in Supported : Asked(k) => Asked(k)',
           inbox'[SM] = inbox[SM], missed'[SM] = missed[SM],
           \A k \in Supported : state'[k] = state[k]
    PROVE  MirrorInv'
<1>1. ASSUME NEW k \in Supported, Mirrored(k) PROVE Mirrored(k)'
  <2>1. Tells(k)
    BY DEF Tells
  <2> QED BY <1>1, <2>1, WaitingFrame, Told
<1>2. ASSUME NEW k \in Supported, Untold(k) PROVE Untold(k)'
  BY <1>2, UntoldFrame
<1> QED BY <1>1, <1>2 DEF MirrorInv, Early, Streaming

-----------------------------------------------------------------------------
(* An event is sent to the state manager.                                  *)

LEMMA CellNews ==
    ASSUME NEW k \in Cells, NEW e \in DaemonEvent
    PROVE  k \in News(SM, e) <=> e \in EventNews(k)
<1>1. CASE e.type = "PacketReceived"
  <2>1. e = PacketReceived(e.packet) /\ e.packet \in Packet
    BY <1>1 DEF DaemonEvent, Connected, Disconnected, PacketReceived
  <2>2. e \in EventNews(k) <=> Updates(e.packet) /\ e.packet.field = k
    BY <2>1, EventOf DEF PacketNews
  <2>3. k \in News(SM, e) <=> Updates(e.packet) /\ e.packet.field = k
    BY <1>1 DEF News
  <2> QED BY <2>2, <2>3
<1>2. CASE e.type # "PacketReceived"
  <2>1. e \notin EventNews(k)
    BY <1>2, OtherEvent
  <2>2. k \notin News(SM, e)
    BY <1>2, CellsAssumption DEF News
  <2> QED BY <2>1, <2>2
<1> QED BY <1>1, <1>2

LEMMA CellNewsIn ==
    ASSUME NEW k \in Cells, NEW q \in Seq(DaemonEvent)
    PROVE  k \in NewsIn(q) <=> ~Lacks(q, EventNews(k))
<1>1. \A i \in 1..Len(q) : q[i] \in DaemonEvent
  OBVIOUS
<1>2. \A i \in 1..Len(q) : k \in News(SM, q[i]) <=> q[i] \in EventNews(k)
  BY <1>1, CellNews
<1> QED BY <1>2 DEF NewsIn, Lacks

\* News sent is the last news.  Behind another event the last news is what it
\* was, or lost with nothing after it.
LEMMA NewsBroadcast ==
    ASSUME TypeOK, NEW e \in DaemonEvent, Publish(Live, e), NEW k \in Cells,
           NEW q, q = inbox[SM], NEW r, r = inbox'[SM]
    PROVE  /\ e \in EventTrue(k) => Ends(r, EventNews(k), EventTrue(k))
           /\ e \notin EventNews(k) =>
                /\ Lacks(q, EventNews(k)) =>
                     Lacks(r, EventNews(k)) /\ (k \in missed[SM] => k \in missed'[SM])
                /\ Ends(q, EventNews(k), EventTrue(k)) =>
                     \/ Ends(r, EventNews(k), EventTrue(k))
                     \/ Lacks(r, EventNews(k)) /\ k \in missed'[SM]
<1> DEFINE T == EventNews(k)
           G == EventTrue(k)
<1>0. \A x : x \in G => x \in T
  BY DEF EventNews, EventTrue, PacketTrue
<1> HIDE DEF T, G
<1>1. q \in Seq(DaemonEvent)
  BY DEF TypeOK, BusTypeOK, Receivers
<1>2. ASSUME NEW kept \in Seq(DaemonEvent), r = Append(kept, e)
      PROVE  /\ r \in Seq(DaemonEvent)
             /\ e \in G => Ends(r, T, G)
             /\ e \notin T => /\ Lacks(kept, T) => Lacks(r, T)
                              /\ Ends(kept, T, G) => Ends(r, T, G)
             /\ k \in NewsIn(r) <=> ~Lacks(r, T)
  <2>1. r \in Seq(DaemonEvent)
    BY <1>2
  <2>2. k \in NewsIn(r) <=> ~Lacks(r, T)
    BY <2>1, CellNewsIn DEF T
  <2>3. e \in G => Ends(r, T, G)
    BY <1>2, AppendTrue
  <2>4. e \notin T => /\ Lacks(kept, T) => Lacks(r, T)
                      /\ Ends(kept, T, G) => Ends(r, T, G)
    BY <1>2, AppendOther
  <2> QED BY <2>1, <2>2, <2>3, <2>4
<1>3. CASE r = Append(q, e) /\ missed'[SM] = missed[SM] \ NewsIn(r)
  BY <1>1, <1>2, <1>3 DEF T, G
<1>4. CASE /\ q # << >> /\ r = Append(Tail(q), e)
           /\ missed'[SM] = (missed[SM] \cup News(SM, Head(q))) \ NewsIn(r)
  <2>1. Tail(q) \in Seq(DaemonEvent) /\ Head(q) \in DaemonEvent
    BY <1>1, <1>4
  <2>2. k \in News(SM, Head(q)) <=> Head(q) \in T
    BY <2>1, CellNews DEF T
  <2>3. /\ Lacks(q, T) => Lacks(Tail(q), T)
        /\ Ends(q, T, G) => Ends(Tail(q), T, G) \/ (Head(q) \in G /\ Lacks(Tail(q), T))
    BY <1>1, <1>4, TailEnds
  <2>4. /\ e \in G => Ends(r, T, G)
        /\ e \notin T => /\ Lacks(Tail(q), T) => Lacks(r, T)
                         /\ Ends(Tail(q), T, G) => Ends(r, T, G)
        /\ k \in NewsIn(r) <=> ~Lacks(r, T)
    BY <1>2, <1>4, <2>1
  <2> QED BY <1>0, <1>4, <2>2, <2>3, <2>4 DEF T, G
<1> QED BY <1>3, <1>4, BroadcastToManager

\* The connection manager or the state manager sends anything but a packet.
LEMMA PlainEventMirror ==
    ASSUME TypeOK, MirrorInv, NEW e \in DaemonEvent, e.type # "PacketReceived",
           Publish(Live, e), UNCHANGED <<main, conn, queries, queue, state>>,
           UNCHANGED headphoneVars
    PROVE  MirrorInv'
<1> DEFINE r == inbox'[SM]
<1>1. \A k \in Supported : (Asked(k) => Asked(k)') /\ (Waiting(k) => Waiting(k)')
  BY AskedFrame, WaitingFrame DEF headphoneVars
<1>2. ASSUME NEW k \in Supported
      PROVE  /\ Lacks(inbox[SM], EventNews(k)) =>
                  Lacks(r, EventNews(k)) /\ (k \in missed[SM] => k \in missed'[SM])
             /\ Ends(inbox[SM], EventNews(k), EventTrue(k)) =>
                  \/ Ends(r, EventNews(k), EventTrue(k))
                  \/ Lacks(r, EventNews(k)) /\ k \in missed'[SM]
  BY CellsOf, OtherEvent, NewsBroadcast
<1>3. ASSUME NEW k \in Supported
      PROVE  /\ Lacks(air, PacketNews(k))' <=> Lacks(air, PacketNews(k))
             /\ Ends(air, PacketNews(k), PacketTrue(k))'
                  <=> Ends(air, PacketNews(k), PacketTrue(k))
             /\ Lacks(inbox[SM], EventNews(k))' <=> Lacks(r, EventNews(k))
             /\ Ends(inbox[SM], EventNews(k), EventTrue(k))'
                  <=> Ends(r, EventNews(k), EventTrue(k))
  BY SameParts DEF headphoneVars
<1> HIDE DEF r
<1>4. ASSUME NEW k \in Supported, Mirrored(k) PROVE Mirrored(k)'
  <2>1. Right(k) => Right(k)' \/ (k \in missed[SM] /\ k \notin missed'[SM])
    BY <1>1 DEF Right, headphoneVars
  <2>2. k \in missed'[SM] => Right(k)'
    BY DEF Right
  <2> QED BY <1>2, <1>3, <1>4, <2>1, <2>2 DEF Mirrored
<1>5. ASSUME NEW k \in Supported, Untold(k) PROVE Untold(k)'
  BY <1>2, <1>3, <1>5 DEF Untold
<1> QED BY <1>1, <1>4, <1>5 DEF MirrorInv, Early, Streaming, headphoneVars

-----------------------------------------------------------------------------
(* The state manager reads what the headphones said into the state.        *)

LEMMA StateManagerMirror ==
    ASSUME TypeOK, MirrorInv, StateManagerNext
    PROVE  MirrorInv'
<1>1. SM \in Receivers /\ inbox[SM] \in Seq(DaemonEvent) /\ state \in HeadphoneState
  BY DEF TypeOK, BusTypeOK, BozodTypeOK, Receivers
<1>2. /\ UNCHANGED <<main, conn, queries, queue>> /\ UNCHANGED headphoneVars
      /\ \A k \in Supported : Asked(k) => Asked(k)'
  <2>1. UNCHANGED <<main, conn, queries, queue>> /\ UNCHANGED headphoneVars
    BY DEF StateManagerNext, SMPacket, SMPublish, SMOther, SMLagged, mainVars, connVars
  <2> QED BY <2>1, AskedFrame
<1> DEFINE q == inbox[SM]
           r == Tail(q)
<1>3. ASSUME HasEvent(SM), Receive(SM)
      PROVE  q # << >> /\ missed' = missed /\ inbox'[SM] = r
  BY <1>1, <1>3 DEF HasEvent, Receive, TypeOK, BusTypeOK
\* The event in front becomes the state's value if it is news.
<1>4. ASSUME HasEvent(SM), Receive(SM),
             \A k \in Supported :
                /\ Head(q) \notin EventNews(k) => state'[k] = state[k]
                /\ Head(q) \in EventTrue(k) => state'[k] = device[k]
      PROVE  MirrorInv'
  <2>1. ASSUME NEW k \in Supported
        PROVE  /\ Lacks(q, EventNews(k)) => Head(q) \notin EventNews(k) /\ Lacks(r, EventNews(k))
               /\ Ends(q, EventNews(k), EventTrue(k)) =>
                    \/ Ends(r, EventNews(k), EventTrue(k))
                    \/ Head(q) \in EventTrue(k) /\ Lacks(r, EventNews(k))
    BY <1>1, <1>3, <1>4, TailEnds
  <2>2. ASSUME NEW k \in Supported
        PROVE  /\ Lacks(air, PacketNews(k))' <=> Lacks(air, PacketNews(k))
               /\ Ends(air, PacketNews(k), PacketTrue(k))'
                    <=> Ends(air, PacketNews(k), PacketTrue(k))
               /\ Lacks(inbox[SM], EventNews(k))' <=> Lacks(r, EventNews(k))
               /\ Ends(inbox[SM], EventNews(k), EventTrue(k))'
                    <=> Ends(r, EventNews(k), EventTrue(k))
    BY <1>2, <1>3, <1>4, SameParts DEF headphoneVars
  <2>3. missed' = missed
    BY <1>3, <1>4
  <2> HIDE DEF q, r
  <2>4. ASSUME NEW k \in Supported, Mirrored(k) PROVE Mirrored(k)'
    <3>1. device'[k] = device[k] /\ (Waiting(k) => Waiting(k)')
      BY <1>2, WaitingFrame DEF headphoneVars
    <3>2. Head(q) \notin EventNews(k) /\ Right(k) => Right(k)'
      BY <1>4, <2>3, <3>1 DEF Right
    <3>3. Head(q) \in EventTrue(k) => Right(k)'
      BY <1>4, <3>1 DEF Right
    <3> QED BY <2>1, <2>2, <2>4, <3>2, <3>3 DEF Mirrored, q
  <2>5. ASSUME NEW k \in Supported, Untold(k) PROVE Untold(k)'
    BY <1>4, <2>1, <2>2, <2>5 DEF Untold, q
  <2> QED BY <1>2, <2>4, <2>5 DEF MirrorInv, Early, Streaming, headphoneVars
<1>5. CASE SMPacket
  <2>1. HasEvent(SM) /\ Receive(SM) /\ Head(q).type = "PacketReceived"
    BY <1>5 DEF SMPacket
  <2>2. Head(q) \in DaemonEvent
    BY <1>1, <1>3, <2>1
  <2>3. Head(q) = PacketReceived(Head(q).packet) /\ Head(q).packet \in Packet
    BY <2>1, <2>2 DEF DaemonEvent, Connected, Disconnected, PacketReceived
  <2> DEFINE p == Head(q).packet
             u == [field |-> p.field, value |-> p.value]
  <2>4. ASSUME NEW k \in Supported
        PROVE  /\ Head(q) \notin EventNews(k) => state'[k] = state[k]
               /\ Head(q) \in EventTrue(k) => state'[k] = device[k]
    <3>0. k \in Cells /\ k \in Fields
      BY CellsOf DEF Fields
    <3>1. /\ Head(q) \in EventNews(k) <=> Updates(p) /\ p.field = k
          /\ Head(q) \in EventTrue(k) <=> Updates(p) /\ p.field = k /\ p.value = device[k]
      BY <2>3, EventOf DEF PacketNews, PacketTrue
    <3>2. CASE ~Updates(p)
      BY <1>5, <3>1, <3>2 DEF SMPacket, smVars
    <3>3. CASE Updates(p)
      <4>1. u \in StateUpdate /\ u.field = p.field /\ u.value = p.value
        BY <3>3 DEF Updates, StateUpdate, Fields, FieldValues
      <4>2. state' = Apply(state, u)
        BY <1>5, <3>3 DEF SMPacket
      <4> HIDE DEF u
      <4>3. state'[u.field] = u.value /\ \A f \in Fields : f # u.field => state'[f] = state[f]
        BY <1>1, <4>1, <4>2, ApplyType
      <4> HIDE DEF p
      <4> QED BY <3>0, <3>1, <3>3, <4>1, <4>3
    <3> QED BY <3>2, <3>3
  <2> QED BY <1>4, <2>1, <2>4
<1>6. CASE SMPublish
  <2>1. StateUpdated(smUpdate) \in DaemonEvent
        /\ StateUpdated(smUpdate).type # "PacketReceived"
    BY <1>6, EventTypes DEF SMPublish, TypeOK, BozodTypeOK, StateUpdated
  <2>2. Publish(Live, StateUpdated(smUpdate)) /\ state' = state
    BY <1>6 DEF SMPublish
  <2> QED BY <1>2, <2>1, <2>2, PlainEventMirror
<1>7. CASE SMOther
  <2>1. HasEvent(SM) /\ Receive(SM) /\ Head(q).type # "PacketReceived"
    BY <1>7 DEF SMOther
  <2>2. ASSUME NEW k \in Supported
        PROVE  /\ Head(q) \notin EventNews(k)
               /\ Head(q) \notin EventTrue(k)
               /\ state'[k] = state[k]
    <3>1. Head(q) \notin EventNews(k) /\ Head(q) \notin EventTrue(k)
      BY <2>1 DEF EventNews, EventTrue, PacketReceived
    <3>2. k \in Cells /\ k \in Fields /\ k # "connected"
      BY CellsOf, CellsAssumption DEF Fields
    <3>3. state'[k] = state[k]
      BY <1>1, <1>7, <3>2 DEF SMOther, Apply, Connection, HeadphoneState
    <3> QED BY <3>1, <3>3
  <2> QED BY <1>4, <2>1, <2>2
<1>8. CASE SMLagged
  <2>1. UNCHANGED <<inbox, missed, state>>
    BY <1>8 DEF SMLagged, ReceiveLagged, smVars
  <2> QED BY <1>2, <2>1, MirrorFrame DEF MirrorInv, headphoneVars
<1> QED BY <1>5, <1>6, <1>7, <1>8 DEF StateManagerNext

-----------------------------------------------------------------------------
(* The connection manager passes on what the headphones say, and asks.     *)

LEMMA NotificationMirror ==
    ASSUME TypeOK, MirrorInv, ConnNotification
    PROVE  MirrorInv'
<1> DEFINE p == Head(air)
           e == PacketReceived(p)
           q == inbox[SM]
           r == inbox'[SM]
<1>1. /\ air \in Seq(Packet) /\ air # << >> /\ p \in Packet /\ air' = Tail(air)
      /\ e \in DaemonEvent /\ Publish(Live, e)
  BY EventTypes DEF ConnNotification, TypeOK, HeadphonesTypeOK
<1>2. /\ UNCHANGED <<main, conn, queries, queue, state, device, link, failures>>
      /\ conn = "running"
  BY DEF ConnNotification, mainVars, connVars, smVars
<1>3. ASSUME NEW k \in Supported, Mirrored(k) PROVE Mirrored(k)'
  <2>1. Waiting(k) => Waiting(k)'
    BY <1>2, AskedFrame, WaitingFrame
  <2>2. /\ e \in EventNews(k) <=> p \in PacketNews(k)
        /\ e \in EventTrue(k) <=> p \in PacketTrue(k)
    BY <1>1, EventOf
  <2>3. /\ Lacks(air, PacketNews(k)) => p \notin PacketNews(k) /\ Lacks(air', PacketNews(k))
        /\ Ends(air, PacketNews(k), PacketTrue(k)) =>
             \/ Ends(air', PacketNews(k), PacketTrue(k))
             \/ p \in PacketTrue(k) /\ Lacks(air', PacketNews(k))
    BY <1>1, TailEnds
  <2>4. /\ e \in EventTrue(k) => Ends(r, EventNews(k), EventTrue(k))
        /\ e \notin EventNews(k) =>
             /\ Lacks(q, EventNews(k)) =>
                  Lacks(r, EventNews(k)) /\ (k \in missed[SM] => k \in missed'[SM])
             /\ Ends(q, EventNews(k), EventTrue(k)) =>
                  \/ Ends(r, EventNews(k), EventTrue(k))
                  \/ Lacks(r, EventNews(k)) /\ k \in missed'[SM]
    BY <1>1, CellsOf, NewsBroadcast
  <2>5. /\ Lacks(air, PacketNews(k))' <=> Lacks(air', PacketNews(k))
        /\ Ends(air, PacketNews(k), PacketTrue(k))' <=> Ends(air', PacketNews(k), PacketTrue(k))
        /\ Lacks(inbox[SM], EventNews(k))' <=> Lacks(r, EventNews(k))
        /\ Ends(inbox[SM], EventNews(k), EventTrue(k))'
             <=> Ends(r, EventNews(k), EventTrue(k))
    BY <1>2, SameParts
  <2>6. Right(k) => Right(k)' \/ (k \in missed[SM] /\ k \notin missed'[SM])
    BY <1>2, <2>1 DEF Right
  <2>7. k \in missed'[SM] => Right(k)'
    BY DEF Right
  <2> HIDE DEF p, e, q, r
  <2> QED BY <1>3, <2>2, <2>3, <2>4, <2>5, <2>6, <2>7 DEF Mirrored, q
<1> QED BY <1>2, <1>3 DEF MirrorInv, Early, Streaming

LEMMA ReactTells ==
    ASSUME TypeOK, NEW p \in CommandPacket, React(p), link = "streaming", link' = "streaming",
           NEW k \in Supported
    PROVE  Tells(k) /\ (p = Get(k) => Ends(air, PacketNews(k), PacketTrue(k))')
<1>0. /\ p.op = "Get" => p.field \in Cells
      /\ p.op = "Set" => p.field \in Cells /\ p.value \in Values
      /\ p = Get(k) => p.op = "Get" /\ p.field = k
  BY CommandTypes DEF Get, BmapPacket
<1>1. k \in Cells /\ device \in [Cells -> Values] /\ air \in Seq(Packet)
  BY CellsOf DEF TypeOK, HeadphonesTypeOK
<1>2. CASE /\ p.op = "Get"
           /\ Notify(<<Answer(p.field)>>)
           /\ UNCHANGED <<device, link>>
  <2>1. CASE p.field \in Supported
    <3>1. Answer(p.field) = BmapPacket("Status", p.field, device[p.field])
      BY <2>1 DEF Answer
    <3>2. device[p.field] \in Values
      BY <1>0, <1>1, <1>2
    <3>3. /\ Answer(p.field) \in Packet
          /\ p.field # k => Answer(p.field) \notin PacketNews(k)
          /\ p.field = k => Answer(p.field) \in PacketTrue(k)'
      BY <1>0, <1>2, <3>1, <3>2, ValueNews
    <3>4. Tells(k)
      BY <1>2, <3>3, TellOne
    <3>5. ASSUME p.field = k PROVE Ends(air, PacketNews(k), PacketTrue(k))'
      <4>1. air' = Append(air, Answer(k))
        BY <1>1, <1>2, <3>3, <3>5, ConcatOne DEF Notify
      <4>2. Ends(air', PacketNews(k), PacketTrue(k)')
        BY <1>1, <3>3, <3>5, <4>1, AppendTrue
      <4> QED BY <4>2 DEF Ends
    <3> QED BY <1>0, <3>4, <3>5
  <2>2. CASE p.field \notin Supported
    <3>1. Answer(p.field) = BmapPacket("Error", p.field, Malformed)
      BY <2>2 DEF Answer
    <3>2. Answer(p.field) \in Packet \ PacketNews(k)
      BY <1>0, <1>2, <3>1, ErrorNews
    <3> QED BY <1>0, <1>2, <2>2, <3>2, TellOne
  <2> QED BY <2>1, <2>2
<1>3. CASE /\ p.op = "Set"
           /\ device' = [device EXCEPT ![p.field] = p.value]
           /\ \/ Notify(<<BmapPacket("Status", p.field, p.value)>>)
              \/ Notify(<<BmapPacket("Processing", p.field, p.value),
                          BmapPacket("Result", p.field, p.value)>>)
  <2>1. /\ p.field = k => device'[k] = p.value
        /\ p.field # k => device'[k] = device[k]
    BY <1>1, <1>3
  <2>2. \A op \in {"Status", "Processing", "Result"} :
          /\ BmapPacket(op, p.field, p.value) \in Packet
          /\ p.field # k => BmapPacket(op, p.field, p.value) \notin PacketNews(k)
          /\ p.field = k => BmapPacket(op, p.field, p.value) \in PacketTrue(k)'
    BY <1>0, <1>3, <2>1, ValueNews
  <2>3. CASE Notify(<<BmapPacket("Status", p.field, p.value)>>)
    BY <1>0, <1>3, <2>1, <2>2, <2>3, TellOne
  <2>4. CASE Notify(<<BmapPacket("Processing", p.field, p.value),
                      BmapPacket("Result", p.field, p.value)>>)
    BY <1>0, <1>3, <2>1, <2>2, <2>4, TellTwo
  <2> QED BY <1>0, <1>3, <2>3, <2>4
<1>4. CASE /\ p.op = "Set"
           /\ Notify(<<BmapPacket("Error", p.field, Malformed)>>)
           /\ UNCHANGED <<device, link>>
  BY <1>0, <1>4, ErrorNews, TellOne
<1> QED BY <1>2, <1>3, <1>4 DEF React

LEMMA SendMirror ==
    ASSUME TypeOK, MirrorInv, ConnSend
    PROVE  MirrorInv'
<1> DEFINE p == Head(queue).packet
<1>1. /\ conn = "running" /\ conn' = conn /\ queue # << >> /\ queue' = Tail(queue)
      /\ Head(queue).type = "SendPacket"
      /\ UNCHANGED <<main, queries, state, inbox, missed>>
  BY DEF ConnSend, mainVars, smVars, busVars
<1>2. queue \in Seq(BleCommand) /\ failures \in Nat /\ p \in CommandPacket
  <2>1. queue \in Seq(BleCommand) /\ failures \in Nat
    BY HeadphonesAssumption DEF TypeOK, BozodTypeOK, HeadphonesTypeOK
  <2>2. Head(queue) \in BleCommand
    BY <1>1, <2>1
  <2> QED BY <1>1, <2>1, <2>2, CommandTypes
<1>3. ASSUME NEW k, Asked(k) PROVE Asked(k)' \/ p = Get(k)
  <2>1. CASE \E i \in 1..Len(queries) : queries[i] = k
    BY <1>1, <2>1 DEF Asked
  <2>2. CASE \E i \in 1..Len(queue) : queue[i] = SendPacket(Get(k))
    <3> DEFINE x == SendPacket(Get(k))
    <3>1. x = Head(queue) \/ \E i \in 1..Len(Tail(queue)) : Tail(queue)[i] = x
      BY <1>1, <1>2, <2>2, FewerQueued
    <3>2. CASE x = Head(queue)
      BY <3>2 DEF SendPacket
    <3>3. CASE \E i \in 1..Len(queue') : queue'[i] = SendPacket(Get(k))
      BY <3>3 DEF Asked
    <3> QED BY <1>1, <3>1, <3>2, <3>3
  <2> QED BY <1>3, <2>1, <2>2 DEF Asked
<1>4. ASSUME Streaming', NEW k \in Supported PROVE Mirrored(k)'
  <2>1. link' = "streaming"
    BY <1>4 DEF Streaming
  <2>2. /\ link = "streaming"
        /\ \/ React(p) /\ failures' = failures
           \/ failures' = failures + 1 /\ UNCHANGED <<device, air>>
    BY <1>2, <2>1 DEF ConnSend, headphoneVars
  <2>3. Mirrored(k)
    BY <1>1, <2>2 DEF MirrorInv, Streaming
  <2>4. CASE React(p) /\ failures' = failures
    <3>1. Tells(k) /\ (p = Get(k) => Ends(air, PacketNews(k), PacketTrue(k))')
      BY <1>2, <2>1, <2>2, <2>4, ReactTells
    <3>2. Waiting(k) => Waiting(k)' \/ Ends(air, PacketNews(k), PacketTrue(k))'
      BY <1>3, <2>4, <3>1 DEF Waiting
    <3> QED BY <1>1, <2>3, <3>1, <3>2, Told
\* A failed write says nothing, and the answer may never come.
  <2>5. CASE failures' = failures + 1 /\ UNCHANGED <<device, air>>
    <3>1. failures' > 0
      BY <1>2, <2>5
    <3>2. Tells(k) /\ Waiting(k)'
      BY <2>5, <3>1 DEF Tells, Waiting
    <3> QED BY <1>1, <2>3, <3>2, Told
  <2> QED BY <2>2, <2>4, <2>5
<1> QED BY <1>1, <1>4 DEF MirrorInv, Early

LEMMA ConnectionManagerMirror ==
    ASSUME TypeOK, MirrorInv, ConnectionNext
    PROVE  MirrorInv'
<1>1. CASE OpenStream
  <2>1. /\ conn = "starting" /\ conn' = "running"
        /\ UNCHANGED <<main, queries, queue, state, inbox, missed, device, air, failures>>
    BY <1>1 DEF OpenStream, mainVars, smVars, busVars
  <2>2. ASSUME NEW k \in Supported PROVE Mirrored(k)'
    <3>1. Asked(k) /\ Untold(k) /\ air = << >>
      BY <2>1 DEF MirrorInv, Early
    <3>2. Asked(k)' /\ Untold(k)'
      BY <2>1, <3>1, AskedFrame, UntoldFrame
    <3>3. Lacks(air, PacketNews(k))'
      BY <2>1, <3>1 DEF Lacks
    <3> QED BY <3>2, <3>3 DEF Mirrored, Untold, Right, Waiting
  <2> QED BY <2>1, <2>2 DEF MirrorInv, Early
<1>2. CASE StreamFails \/ ConnStreamEnd \/ ConnDisconnect
  <2>1. conn \in {"starting", "running"} /\ conn' = "ended" /\ UNCHANGED <<main, queries>>
    BY <1>2 DEF StreamFails, ConnStreamEnd, ConnDisconnect, EndConnection, mainVars
  <2> QED BY <2>1 DEF MirrorInv, Early, Streaming
<1> QED BY <1>1, <1>2, NotificationMirror, SendMirror DEF ConnectionNext

-----------------------------------------------------------------------------
(* main asks for every cell; the server only adds to the command queue.    *)

LEMMA CommandQueued ==
    ASSUME NEW b \in BleCommand, queue \in Seq(BleCommand), queue' = Append(queue, b)
    PROVE  /\ \E i \in 1..Len(queue') : queue'[i] = b
           /\ \A y : (\E i \in 1..Len(queue) : queue[i] = y)
                     => \E i \in 1..Len(queue') : queue'[i] = y
BY MoreQueued

LEMMA MainMirror ==
    ASSUME TypeOK, MirrorInv, MainNext
    PROVE  MirrorInv'
<1>1. CASE ConnectPeripheral
  <2>1. /\ conn = "idle" /\ conn' = "starting" /\ main' = "starting" /\ link' = "up"
        /\ UNCHANGED <<queries, queue, state, air>>
        /\ Publish(Live, Connected)
    BY <1>1 DEF ConnectPeripheral, MirrorInv, smVars
  <2>2. Connected \in DaemonEvent /\ Connected.type # "PacketReceived"
    BY EventTypes DEF Connected
  <2>3. ASSUME NEW k \in Supported PROVE Asked(k)' /\ Untold(k)'
    <3>1. Asked(k) /\ Untold(k) /\ k \in Cells
      BY <2>1, CellsOf DEF MirrorInv, Early
    <3>2. Asked(k)'
      BY <2>1, <3>1, AskedFrame
    <3>3. Lacks(inbox'[SM], EventNews(k))
      BY <2>1, <2>2, <3>1, OtherEvent, NewsBroadcast DEF Untold
    <3>4. Lacks(inbox[SM], EventNews(k))'
      BY <3>3 DEF Lacks, EventNews, PacketNews
    <3> QED BY <2>1, <3>1, <3>2, <3>4 DEF Untold
  <2> QED BY <2>1, <2>3 DEF MirrorInv, Early, Streaming
<1>2. CASE MainQuery
  <2> DEFINE x == SendPacket(Get(Head(queries)))
  <2>1. /\ main = "starting" /\ queries # << >> /\ queries' = Tail(queries)
        /\ UNCHANGED <<main, conn, state, inbox, missed>> /\ UNCHANGED headphoneVars
        /\ conn = "ended" \/ queue' = Append(queue, x)
    BY <1>2 DEF MainQuery, smVars, busVars
  <2>2. queries \in Seq(Cells) /\ queue \in Seq(BleCommand) /\ x \in BleCommand
    <3>1. queries \in Seq(Cells) /\ queue \in Seq(BleCommand)
      BY DEF TypeOK, BozodTypeOK
    <3>2. Head(queries) \in Cells
      BY <2>1, <3>1
    <3> QED BY <3>1, <3>2, CommandTypes
  <2>3. CASE conn = "ended"
    BY <2>1, <2>3 DEF MirrorInv, Early, Streaming
  <2>4. CASE queue' = Append(queue, x)
    <3>1. ASSUME NEW k, Asked(k) PROVE Asked(k)'
      <4>1. /\ \E i \in 1..Len(queue') : queue'[i] = x
            /\ \A y : (\E i \in 1..Len(queue) : queue[i] = y)
                      => \E i \in 1..Len(queue') : queue'[i] = y
        BY <2>2, <2>4, CommandQueued
      <4>2. CASE \E i \in 1..Len(queries) : queries[i] = k
        <5>1. k = Head(queries) \/ \E i \in 1..Len(Tail(queries)) : Tail(queries)[i] = k
          BY <2>1, <2>2, <4>2, FewerQueued
        <5>2. CASE k = Head(queries)
          BY <4>1, <5>2 DEF Asked
        <5>3. CASE \E i \in 1..Len(queries') : queries'[i] = k
          BY <5>3 DEF Asked
        <5> QED BY <2>1, <5>1, <5>2, <5>3
      <4>3. CASE \E i \in 1..Len(queue) : queue[i] = SendPacket(Get(k))
        BY <4>1, <4>3 DEF Asked
      <4> QED BY <3>1, <4>2, <4>3 DEF Asked
    <3> QED BY <2>1, <3>1, MirrorFrame DEF headphoneVars
  <2> QED BY <2>1, <2>3, <2>4
<1>3. CASE EnterSelect
  <2>1. /\ main' = "running" /\ queries = << >>
        /\ UNCHANGED <<queries, queue, conn, state, inbox, missed>> /\ UNCHANGED headphoneVars
    BY <1>3 DEF EnterSelect, connVars, smVars, busVars
  <2> QED BY <2>1, AskedFrame, MirrorFrame DEF headphoneVars
<1>4. CASE ScanOrConnectFails \/ ShutDown \/ CtrlC \/ Killed
  <2>1. main' = "exited" /\ conn' = "ended"
    BY <1>4 DEF ScanOrConnectFails, ShutDown, CtrlC, Killed, ProcessEnds
  <2> QED BY <2>1 DEF MirrorInv, Early, Streaming
<1> QED BY <1>1, <1>2, <1>3, <1>4 DEF MainNext

LEMMA HandlerMirror ==
    ASSUME TypeOK, MirrorInv, NEW c \in Clients, Accept(c) \/ HandlerNext(c)
    PROVE  MirrorInv'
<1>1. /\ inbox'[SM] = inbox[SM] /\ missed'[SM] = missed[SM]
      /\ UNCHANGED <<main, conn, state>> /\ UNCHANGED headphoneVars
  BY HandlerEffect
<1>2. queries' = queries
  BY DEF Accept, HandlerNext, HandleGetState, HandleReconnect, HandleCommand,
     SendPending, PushEvent, HandlerLagged, HandlerEof, mainVars
<1>3. CASE queue' = queue
  BY <1>1, <1>2, <1>3, AskedFrame, MirrorFrame DEF MirrorInv, headphoneVars
<1>4. CASE SendPending(c) /\ queue' = Append(queue, pending[c])
  <2>1. queue \in Seq(BleCommand) /\ pending[c] \in BleCommand
    BY <1>4 DEF TypeOK, BozodTypeOK, SendPending
  <2>2. \A y : (\E i \in 1..Len(queue) : queue[i] = y)
               => \E i \in 1..Len(queue') : queue'[i] = y
    BY <1>4, <2>1, CommandQueued
  <2>3. \A k \in Supported : Asked(k) => Asked(k)'
    BY <1>2, <2>2 DEF Asked
  <2> QED BY <1>1, <1>2, <2>3, MirrorFrame DEF MirrorInv, headphoneVars
<1>5. queue' = queue \/ (SendPending(c) /\ queue' = Append(queue, pending[c]))
  BY DEF Accept, HandlerNext, HandleGetState, HandleReconnect, HandleCommand,
     SendPending, PushEvent, HandlerLagged, HandlerEof, connVars
<1> QED BY <1>3, <1>4, <1>5

LEMMA HeadphonesMirror ==
    ASSUME TypeOK, MirrorInv, HeadphonesStep
    PROVE  MirrorInv'
<1>1. UNCHANGED <<main, queries, conn, queue, state, inbox, missed>>
  BY DEF HeadphonesStep, bozodVars, mainVars, connVars, smVars, busVars
<1>2. \A k \in Supported : (Asked(k) => Asked(k)') /\ (Untold(k) => Untold(k)')
  BY <1>1, AskedFrame, UntoldFrame
<1>3. CASE LoseLink
  <2>1. link' = "lost" /\ air' = air
    BY <1>3 DEF LoseLink
  <2> QED BY <1>1, <1>2, <2>1 DEF MirrorInv, Early, Streaming
<1>4. CASE \/ \E k \in Cells, v \in Values : Press(k, v)
           \/ \E p \in StrayPackets : Stray(p)
  <2>1. link' = link /\ failures' = failures /\ (link # "streaming" => air' = air)
    BY <1>4 DEF Press, Stray, Notify
  <2>2. ASSUME Streaming, NEW k \in Supported PROVE Mirrored(k)'
    <3>1. link = "streaming"
      BY <2>2 DEF Streaming
    <3>2. Mirrored(k)
      BY <2>2 DEF MirrorInv
    <3>3. k \in Cells /\ device \in [Cells -> Values]
      BY CellsOf DEF TypeOK, HeadphonesTypeOK
    <3>4. ASSUME \E f \in Cells, v \in Values : Press(f, v) PROVE Tells(k)
      <4>1. PICK f \in Cells, v \in Values : Press(f, v)
        BY <3>4
      <4> DEFINE p == BmapPacket("Status", f, v)
      <4>2. Notify(<<p>>) /\ device' = [device EXCEPT ![f] = v]
        BY <4>1 DEF Press
      <4>3. /\ f = k => device'[k] = v
            /\ f # k => device'[k] = device[k]
        BY <3>3, <4>2
      <4>4. /\ p \in Packet
            /\ p \in PacketNews(k) <=> f = k
            /\ f = k => p \in PacketTrue(k)'
        BY <4>3, ValueNews
      <4> HIDE DEF p
      <4> QED BY <3>1, <4>2, <4>3, <4>4, TellOne
    <3>5. ASSUME \E p \in StrayPackets : Stray(p) PROVE Tells(k)
      <4>1. PICK p \in StrayPackets : Stray(p)
        BY <3>5
      <4>2. p \in Packet /\ p \notin PacketNews(k)
        BY StrayNews
      <4>3. Notify(<<p>>) /\ device'[k] = device[k]
        BY <4>1 DEF Stray
      <4> QED BY <3>1, <4>2, <4>3, TellOne
    <3>6. Tells(k)
      BY <1>4, <3>4, <3>5
    <3>7. Waiting(k) => Waiting(k)'
      BY <1>2, <2>1, WaitingFrame
    <3> QED BY <1>1, <3>2, <3>6, <3>7, Told
  <2> QED BY <1>1, <1>2, <2>1, <2>2 DEF MirrorInv, Early, Streaming
<1> QED BY <1>3, <1>4 DEF HeadphonesStep, HeadphonesNext

LEMMA InitMirror == Init => MirrorInv
<1> SUFFICES ASSUME Init PROVE MirrorInv
  OBVIOUS
<1>1. /\ main = "scanning" /\ conn = "idle" /\ queries = InitialQueries
      /\ inbox[SM] = << >> /\ state = DefaultState /\ link = "down" /\ air = << >>
  BY DEF Init, BozodInit, BusInit, HeadphonesInit, Receivers
<1>2. ASSUME NEW k \in Supported PROVE Asked(k) /\ Untold(k)
  <2>1. Asked(k)
    BY <1>1, QueriesAssumption DEF Asked
  <2>2. k \in Fields /\ k # "connected"
    BY CellsOf, CellsAssumption DEF Fields
  <2> QED BY <1>1, <2>1, <2>2 DEF Untold, Lacks, DefaultState
<1> QED BY <1>1, <1>2 DEF MirrorInv, Early, Streaming

LEMMA StepMirror == TypeOK /\ MirrorInv /\ [Next]_vars => MirrorInv'
<1> SUFFICES ASSUME TypeOK, MirrorInv, [Next]_vars PROVE MirrorInv'
  OBVIOUS
\* Nothing that the mirror is made of changes.
<1>1. ASSUME UNCHANGED <<main, queries, conn, queue, state, inbox, missed>>,
             UNCHANGED headphoneVars
      PROVE  MirrorInv'
  BY <1>1, AskedFrame, MirrorFrame DEF MirrorInv, headphoneVars
<1>2. CASE DaemonStep
  <2>1. CASE BindSocket
    BY <1>1, <2>1 DEF BindSocket, connVars, smVars, busVars
  <2> QED BY <1>2, <2>1, StateManagerMirror, ConnectionManagerMirror, MainMirror,
             HandlerMirror DEF DaemonStep, BozodNext
<1>3. CASE \E c \in Clients : ClientStep(c)
  BY <1>1, <1>3 DEF ClientStep, bozodVars, mainVars, connVars, smVars, busVars
<1>4. CASE HeadphonesStep
  BY <1>4, HeadphonesMirror
<1>5. CASE UNCHANGED vars
  BY <1>1, <1>5 DEF vars, bozodVars, mainVars, connVars, smVars, busVars
<1> QED BY <1>2, <1>3, <1>4, <1>5 DEF Next

(***************************************************************************)
(* HeadphoneState mirrors the headphones: once main has sent its initial   *)
(* queries, and while the notification stream holds, the daemon has the    *)
(* device's value of every cell it serves whenever no command,             *)
(* notification or event is under way -- except a cell whose last packet   *)
(* the state manager lost, and a cell that is still unknown because a      *)
(* write failed.                                                           *)
(***************************************************************************)
THEOREM Mirroring == Spec => []DeviceMirrored
<1>1. MirrorInv => DeviceMirrored
  <2> SUFFICES ASSUME MirrorInv, main = "running", conn = "running", link = "streaming",
                      queue = << >>, air = << >>, inbox[SM] = << >>,
                      NEW k \in Supported, k \notin missed[SM]
               PROVE  state[k] = device[k] \/ (failures > 0 /\ state[k] = None)
    BY DEF DeviceMirrored
  <2>1. ~Asked(k)
    BY DEF MirrorInv, Asked
  <2>2. \A T, G : ~Ends(air, T, G) /\ ~Ends(inbox[SM], T, G)
    BY DEF Ends
  <2>3. Mirrored(k)
    BY DEF MirrorInv, Streaming
  <2> QED BY <2>1, <2>2, <2>3 DEF Mirrored, Right, Waiting
<1>2. TypeOK /\ MirrorInv /\ [Next]_vars => MirrorInv'
  BY StepMirror
<1> QED BY <1>1, <1>2, InitMirror, TypeCorrect, PTL DEF Spec

-----------------------------------------------------------------------------
(* The replies.                                                            *)

ReplyIndices(q) == {i \in 1..Len(q) : IsReply(q[i])}

LEMMA RepliesCount ==
    ASSUME NEW S, NEW q \in Seq(S)
    PROVE  /\ IsFiniteSet(ReplyIndices(q))
           /\ RepliesIn(q) = Cardinality(ReplyIndices(q)) /\ RepliesIn(q) \in Nat
<1>1. Len(q) \in Nat
  OBVIOUS
<1>2. IsFiniteSet(1..Len(q))
  BY <1>1, FS_Interval
<1>3. IsFiniteSet(ReplyIndices(q))
  BY <1>2, FS_Subset DEF ReplyIndices
<1> QED BY <1>3, FS_CardinalityType DEF RepliesIn, ReplyIndices

LEMMA RepliesAppend ==
    ASSUME NEW S, NEW q \in Seq(S), NEW r \in S
    PROVE  RepliesIn(Append(q, r)) = IF IsReply(r) THEN RepliesIn(q) + 1 ELSE RepliesIn(q)
<1> DEFINE t == Append(q, r)
<1>1. /\ Len(q) \in Nat /\ Len(t) = Len(q) + 1 /\ t[Len(q) + 1] = r /\ t \in Seq(S)
      /\ \A i \in 1..Len(q) : t[i] = q[i]
      /\ 1..Len(t) = 1..Len(q) \cup {Len(q) + 1} /\ Len(q) + 1 \notin 1..Len(q)
  OBVIOUS
<1>2. /\ IsReply(r) => ReplyIndices(t) = ReplyIndices(q) \cup {Len(q) + 1}
      /\ ~IsReply(r) => ReplyIndices(t) = ReplyIndices(q)
      /\ Len(q) + 1 \notin ReplyIndices(q)
  BY <1>1 DEF ReplyIndices
<1>3. IsFiniteSet(ReplyIndices(q)) /\ RepliesIn(q) = Cardinality(ReplyIndices(q))
      /\ RepliesIn(t) = Cardinality(ReplyIndices(t))
  BY <1>1, RepliesCount
<1>4. Cardinality(ReplyIndices(q) \cup {Len(q) + 1}) = Cardinality(ReplyIndices(q)) + 1
  BY <1>2, <1>3, FS_AddElement
<1> QED BY <1>2, <1>3, <1>4

LEMMA RepliesTail ==
    ASSUME NEW S, NEW q \in Seq(S), q # << >>
    PROVE  RepliesIn(q) = IF IsReply(Head(q)) THEN RepliesIn(Tail(q)) + 1
                                              ELSE RepliesIn(Tail(q))
<1> DEFINE t == Tail(q)
           later == ReplyIndices(q) \ {1}
           f == [i \in ReplyIndices(t) |-> i + 1]
<1>1. /\ Len(q) \in Nat \ {0} /\ Len(t) = Len(q) - 1 /\ t \in Seq(S) /\ Head(q) = q[1]
      /\ \A i \in 1..Len(t) : t[i] = q[i + 1] /\ i \in Nat /\ i + 1 \in 1..Len(q)
      /\ \A i \in 1..Len(q) : i # 1 => i - 1 \in 1..Len(t) /\ (i - 1) + 1 = i
  OBVIOUS
<1>2. /\ IsFiniteSet(ReplyIndices(q)) /\ RepliesIn(q) = Cardinality(ReplyIndices(q))
      /\ IsFiniteSet(ReplyIndices(t)) /\ RepliesIn(t) = Cardinality(ReplyIndices(t))
      /\ RepliesIn(q) \in Nat
  BY <1>1, RepliesCount
<1>3. /\ \A i \in ReplyIndices(t) : i + 1 \in later
      /\ \A i \in later : i - 1 \in ReplyIndices(t) /\ (i - 1) + 1 = i
  BY <1>1 DEF ReplyIndices
<1>4. f \in Bijection(ReplyIndices(t), later)
  <2>1. f \in Injection(ReplyIndices(t), later)
    BY <1>1, <1>3 DEF Injection, IsInjective, ReplyIndices
  <2>2. f \in Surjection(ReplyIndices(t), later)
    BY <1>3 DEF Surjection
  <2> QED BY <2>1, <2>2 DEF Bijection
<1>5. Cardinality(later) = Cardinality(ReplyIndices(t))
  BY <1>2, <1>4, FS_Bijection DEF ExistsBijection
<1>6. Cardinality(later) = IF 1 \in ReplyIndices(q) THEN Cardinality(ReplyIndices(q)) - 1
                                                   ELSE Cardinality(ReplyIndices(q))
  BY <1>2, FS_RemoveElement
<1>7. 1 \in ReplyIndices(q) <=> IsReply(Head(q))
  BY <1>1 DEF ReplyIndices
<1> QED BY <1>2, <1>5, <1>6, <1>7

-----------------------------------------------------------------------------
(* Every request c wrote is unread, executed, answered or answered and read.*)

Answered(c) ==
    sent[c] = Len(toDaemon[c]) + (IF pending[c] = None THEN 0 ELSE 1)
                + RepliesIn(toClient[c]) + replies[c]

ReplyOf(c) ==
    /\ clientEnd[c] = "none" =>
        handler[c] = "none" /\ pending[c] = None /\ toClient[c] = << >> /\ replies[c] = 0
    /\ clientEnd[c] = "open" /\ handler[c] # "closed" => Answered(c)

ReplyInv == \A c \in Clients : ReplyOf(c)

\* What c's replies depend on.
SameReplies(c) ==
    /\ toDaemon'[c] = toDaemon[c] /\ toClient'[c] = toClient[c]
    /\ clientEnd'[c] = clientEnd[c] /\ pending'[c] = pending[c]
    /\ sent'[c] = sent[c] /\ replies'[c] = replies[c]

LEMMA RepliesInNext == ASSUME NEW c PROVE RepliesIn(toClient[c])' = RepliesIn(toClient'[c])
BY DEF RepliesIn, IsReply

LEMMA KeepReplies ==
    ASSUME NEW c, ReplyOf(c), SameReplies(c),
           handler'[c] = handler[c] \/ (handler[c] # "closed" /\ clientEnd[c] # "none")
    PROVE  ReplyOf(c)'
<1>1. RepliesIn(toClient[c])' = RepliesIn(toClient[c])
  BY RepliesInNext DEF SameReplies
<1> QED BY <1>1 DEF ReplyOf, SameReplies, Answered

LEMMA GoneReplies ==
    ASSUME NEW c, clientEnd'[c] # "none", clientEnd'[c] # "open" \/ handler'[c] = "closed"
    PROVE  ReplyOf(c)'
BY DEF ReplyOf

LEMMA OneClientReplies ==
    ASSUME ReplyInv, NEW c \in Clients, ReplyOf(c)',
           \A d \in Clients : d # c => SameReplies(d) /\ handler'[d] = handler[d]
    PROVE  ReplyInv'
BY KeepReplies DEF ReplyInv

LEMMA ReplyTypes ==
    ASSUME TypeOK, NEW c \in Clients
    PROVE  /\ toDaemon[c] \in Seq(IpcRequest) /\ Len(toDaemon[c]) \in Nat
           /\ toClient[c] \in Seq(IpcResponse) /\ RepliesIn(toClient[c]) \in Nat
           /\ sent[c] \in Nat /\ replies[c] \in Nat
<1>1. toDaemon[c] \in Seq(IpcRequest) /\ toClient[c] \in Seq(IpcResponse)
      /\ sent[c] \in Nat /\ replies[c] \in Nat
  BY ClientAssumption DEF TypeOK, SocketTypeOK, ClientTypeOK
<1> QED BY <1>1, RepliesCount

-----------------------------------------------------------------------------
(* The handler of a client.                                                *)

\* A reply is written, or the client is gone.
LEMMA WriteReply ==
    ASSUME TypeOK, NEW c \in Clients, clientEnd[c] # "none", clientEnd' = clientEnd,
           NEW r \in IpcResponse, IsReply(r), WriteTo(c, r)
    PROVE  /\ \A d \in Clients : d # c => handler'[d] = handler[d] /\ toClient'[d] = toClient[d]
           /\ \/ ReplyOf(c)'
              \/ /\ handler' = handler
                 /\ RepliesIn(toClient[c])' = RepliesIn(toClient[c]) + 1
<1>1. CASE handler'[c] = "closed" /\ clientEnd[c] = "closed"
  BY <1>1, WriteToEffect, GoneReplies
<1>2. CASE toClient'[c] = Append(toClient[c], r) /\ handler' = handler
  <2>1. RepliesIn(Append(toClient[c], r)) = RepliesIn(toClient[c]) + 1
    BY ReplyTypes, RepliesAppend
  <2>2. RepliesIn(toClient[c])' = RepliesIn(toClient[c]) + 1
    BY <1>2, <2>1, RepliesInNext
  <2> QED BY <1>2, <2>2, WriteToEffect
<1> QED BY <1>1, <1>2, WriteToEffect

LEMMA RequestTaken ==
    ASSUME TypeOK, NEW c \in Clients, toDaemon[c] # << >>, TakeRequest(c)
    PROVE  /\ Len(toDaemon'[c]) = Len(toDaemon[c]) - 1
           /\ \A d \in Clients : d # c => toDaemon'[d] = toDaemon[d]
<1>1. toDaemon'[c] = Tail(toDaemon[c]) /\ \A d \in Clients : d # c => toDaemon'[d] = toDaemon[d]
  BY DEF TakeRequest, TypeOK, SocketTypeOK
<1> QED BY <1>1, ReplyTypes

LEMMA CommandIsSome ==
    ASSUME NEW r \in IpcRequest, r.type \in {"Set", "PowerOff", "Disconnect"}
    PROVE  CommandFor(r) # None
BY CommandForType, NoneAssumption

LEMMA HandlerReplies ==
    ASSUME TypeOK, ReplyInv, NEW c \in Clients, HandlerNext(c), UNCHANGED clientVars
    PROVE  ReplyInv'
<1> USE DEF clientVars
<1>0. ReplyOf(c) /\ OkResponse \in IpcResponse /\ ErrorResponse \in IpcResponse
      /\ State(state) \in IpcResponse
  BY ResponseTypes DEF ReplyInv, TypeOK, BozodTypeOK
<1>1. handler[c] = "open" /\ clientEnd[c] # "none" /\ clientEnd' = clientEnd
      /\ (clientEnd[c] = "open" => Answered(c))
  <2>1. handler[c] = "open"
    BY DEF HandlerNext, HandleGetState, HandleReconnect, HandleCommand, SendPending,
           PushEvent, HandlerLagged, HandlerEof, Selecting
  <2>2. clientEnd' = clientEnd
    BY DEF HandlerNext, HandleGetState, HandleReconnect, HandleCommand, SendPending,
           PushEvent, HandlerLagged, HandlerEof, socketVars
  <2> QED BY <1>0, <2>1, <2>2 DEF ReplyOf
<1>2. ASSUME NEW r \in IpcResponse, IsReply(r), toDaemon[c] # << >>,
             TakeRequest(c), WriteTo(c, r), pending[c] = None, pending' = pending
      PROVE  ReplyInv'
  <2>1. Len(toDaemon'[c]) = Len(toDaemon[c]) - 1
        /\ \A d \in Clients : d # c => toDaemon'[d] = toDaemon[d]
    BY <1>2, RequestTaken
  <2>2. /\ \A d \in Clients : d # c => handler'[d] = handler[d] /\ toClient'[d] = toClient[d]
        /\ ReplyOf(c)' \/ (handler' = handler
                           /\ RepliesIn(toClient[c])' = RepliesIn(toClient[c]) + 1)
    BY <1>1, <1>2, WriteReply
  <2>3. ReplyOf(c)'
    <3>1. CASE handler' = handler /\ RepliesIn(toClient[c])' = RepliesIn(toClient[c]) + 1
      <4>1. clientEnd[c] = "open" => Answered(c)'
        BY <1>1, <1>2, <2>1, <3>1, ReplyTypes DEF Answered
      <4> QED BY <1>1, <4>1 DEF ReplyOf
    <3> QED BY <2>2, <3>1
  <2>4. \A d \in Clients : d # c => SameReplies(d) /\ handler'[d] = handler[d]
    BY <1>1, <1>2, <2>1, <2>2 DEF SameReplies
  <2> QED BY <2>3, <2>4, OneClientReplies
<1>3. CASE HandleGetState(c) \/ HandleReconnect(c)
  <2>1. IsReply(State(state)) /\ IsReply(OkResponse)
    BY DEF IsReply, State, OkResponse
  <2> QED BY <1>0, <1>2, <1>3, <2>1 DEF HandleGetState, HandleReconnect, Selecting
<1>4. CASE HandleCommand(c)
  <2>1. Len(toDaemon'[c]) = Len(toDaemon[c]) - 1
        /\ \A d \in Clients : d # c => toDaemon'[d] = toDaemon[d]
    BY <1>4, RequestTaken DEF HandleCommand
  <2>2. /\ pending[c] = None /\ pending'[c] # None
        /\ \A d \in Clients : d # c => pending'[d] = pending[d]
    <3>1. pending \in [Clients -> BleCommand \cup {None}] /\ pending[c] = None
      BY <1>4 DEF HandleCommand, Selecting, TypeOK, BozodTypeOK
    <3>2. pending' = [pending EXCEPT ![c] = CommandFor(Head(toDaemon[c]))]
          /\ Head(toDaemon[c]).type \in {"Set", "PowerOff", "Disconnect"}
          /\ Head(toDaemon[c]) \in IpcRequest
      BY <1>4, ReplyTypes DEF HandleCommand
    <3>3. CommandFor(Head(toDaemon[c])) # None
      BY <3>2, CommandIsSome
    <3> QED BY <3>1, <3>2, <3>3
  <2>3. handler' = handler /\ toClient' = toClient
    BY <1>4 DEF HandleCommand
  <2>4. ReplyOf(c)'
    BY <1>1, <2>1, <2>2, <2>3, ReplyTypes, RepliesInNext DEF ReplyOf, Answered
  <2>5. \A d \in Clients : d # c => SameReplies(d) /\ handler'[d] = handler[d]
    BY <1>1, <2>1, <2>2, <2>3 DEF SameReplies
  <2> QED BY <2>4, <2>5, OneClientReplies
<1>5. CASE SendPending(c)
  <2>1. /\ pending[c] # None /\ pending'[c] = None /\ toDaemon' = toDaemon
        /\ \A d \in Clients : d # c => pending'[d] = pending[d]
    BY <1>5 DEF SendPending, TypeOK, BozodTypeOK
  <2>2. PICK r \in {OkResponse, ErrorResponse} : WriteTo(c, r)
    BY <1>5 DEF SendPending
  <2>3. r \in IpcResponse /\ IsReply(r)
    BY <1>0 DEF IsReply, OkResponse, ErrorResponse
  <2>4. /\ \A d \in Clients : d # c => handler'[d] = handler[d] /\ toClient'[d] = toClient[d]
        /\ ReplyOf(c)' \/ (handler' = handler
                           /\ RepliesIn(toClient[c])' = RepliesIn(toClient[c]) + 1)
    BY <1>1, <2>2, <2>3, WriteReply
  <2>5. ReplyOf(c)'
    <3>1. CASE handler' = handler /\ RepliesIn(toClient[c])' = RepliesIn(toClient[c]) + 1
      <4>1. clientEnd[c] = "open" => Answered(c)'
        <5> SUFFICES ASSUME clientEnd[c] = "open" PROVE Answered(c)'
          OBVIOUS
        <5>1. sent[c] = Len(toDaemon[c]) + 1 + RepliesIn(toClient[c]) + replies[c]
          BY <1>1, <2>1 DEF Answered
        <5>2. sent'[c] = Len(toDaemon'[c]) + RepliesIn(toClient[c])' + replies'[c]
          <6>1. sent'[c] = sent[c] /\ replies'[c] = replies[c] /\ toDaemon'[c] = toDaemon[c]
            BY <2>1
          <6>2. /\ Len(toDaemon[c]) \in Nat /\ RepliesIn(toClient[c]) \in Nat
                /\ sent[c] \in Nat /\ replies[c] \in Nat
            BY ReplyTypes
          <6>3. sent[c] = Len(toDaemon[c]) + (RepliesIn(toClient[c]) + 1) + replies[c]
            BY <5>1, <6>2
          <6> QED BY <3>1, <6>1, <6>3
        <5>3. Len(toDaemon'[c]) + 0 = Len(toDaemon'[c])
          BY <2>1, ReplyTypes
        <5> QED BY <2>1, <5>2, <5>3 DEF Answered
      <4> QED BY <1>1, <4>1 DEF ReplyOf
    <3> QED BY <2>4, <3>1
  <2>6. \A d \in Clients : d # c => SameReplies(d) /\ handler'[d] = handler[d]
    BY <1>1, <2>1, <2>4 DEF SameReplies
  <2> QED BY <2>5, <2>6, OneClientReplies
<1>6. CASE PushEvent(c) \/ HandlerLagged(c) \/ HandlerEof(c)
  <2>1. /\ toDaemon' = toDaemon /\ pending' = pending
        /\ \A d \in Clients : d # c => handler'[d] = handler[d] /\ toClient'[d] = toClient[d]
    BY <1>6 DEF PushEvent, HandlerLagged, HandlerEof, EndHandler, handlerVars, socketVars,
       TypeOK, BozodTypeOK, SocketTypeOK
  <2>2. ReplyOf(c)'
    <3>1. CASE handler' = handler /\ toClient' = toClient
      BY <1>0, <1>1, <2>1, <3>1, KeepReplies DEF SameReplies
    <3>2. CASE handler'[c] = "closed"
      BY <1>1, <3>2, GoneReplies
    <3>3. CASE /\ handler' = handler
               /\ HasEvent(c) /\ Head(inbox[c]).type # "PacketReceived"
               /\ toClient'[c] = Append(toClient[c], Update(PushedUpdate(Head(inbox[c]))))
      <4>1. ~IsReply(Update(PushedUpdate(Head(inbox[c]))))
        BY DEF IsReply, Update
      <4>2. RepliesIn(Append(toClient[c], Update(PushedUpdate(Head(inbox[c])))))
            = RepliesIn(toClient[c])
        <5>1. Head(inbox[c]) \in DaemonEvent
          BY <3>3 DEF HasEvent, TypeOK, BusTypeOK, Receivers
        <5>2. Update(PushedUpdate(Head(inbox[c]))) \in IpcResponse
          BY <3>3, <5>1, PushedUpdateType, ResponseTypes
        <5> QED BY <4>1, <5>2, ReplyTypes, RepliesAppend
      <4>3. RepliesIn(toClient[c])' = RepliesIn(toClient[c])
        BY <3>3, <4>2, RepliesInNext
      <4> QED BY <1>1, <2>1, <3>3, <4>3 DEF ReplyOf, Answered
    <3> QED BY <1>6, <3>1, <3>2, <3>3
            DEF PushEvent, HandlerLagged, HandlerEof, EndHandler, handlerVars, socketVars,
                TypeOK, BozodTypeOK, SocketTypeOK
  <2>3. \A d \in Clients : d # c => SameReplies(d) /\ handler'[d] = handler[d]
    BY <1>1, <2>1 DEF SameReplies
  <2> QED BY <2>2, <2>3, OneClientReplies
<1> QED BY <1>3, <1>4, <1>5, <1>6 DEF HandlerNext

-----------------------------------------------------------------------------
(* The clients.                                                            *)

LEMMA ClientReplies ==
    ASSUME TypeOK, ReplyInv, NEW c \in Clients, ClientStep(c)
    PROVE  ReplyInv'
<1>0. ReplyOf(c) /\ handler' = handler /\ pending' = pending
  BY DEF ReplyInv, ClientStep, bozodVars, handlerVars
<1>1. \A d \in Clients : d # c => SameReplies(d) /\ handler'[d] = handler[d]
  BY <1>0 DEF ClientStep, Connect, SendRequest, ReadResponse, Close, clientVars, SameReplies,
     TypeOK, SocketTypeOK, ClientTypeOK
<1>2. CASE Connect(c)
  <2>1. /\ handler[c] = "none" /\ pending[c] = None /\ toClient[c] = << >> /\ replies[c] = 0
        /\ toClient' = toClient /\ replies' = replies
        /\ clientEnd'[c] = "open" /\ toDaemon'[c] = <<GetState>> /\ sent'[c] = 1
    BY <1>0, <1>2 DEF Connect, ReplyOf, TypeOK, SocketTypeOK, ClientTypeOK
  <2>2. RepliesIn(toClient[c])' = 0
    <3>1. ReplyIndices(toClient[c]) = {}
      BY <2>1 DEF ReplyIndices
    <3>2. RepliesIn(toClient[c]) = 0
      BY <3>1, FS_EmptySet DEF RepliesIn, ReplyIndices
    <3> QED BY <2>1, <3>2, RepliesInNext
  <2>3. Len(<<GetState>>) = 1
    OBVIOUS
  <2>4. ReplyOf(c)'
    BY <1>0, <2>1, <2>2, <2>3 DEF ReplyOf, Answered
  <2> QED BY <1>1, <2>4, OneClientReplies
<1>3. ASSUME NEW r \in Requests, SendRequest(c, r), handler[c] # "closed" PROVE ReplyInv'
  <2>1. /\ clientEnd[c] = "open" /\ Answered(c) /\ clientEnd' = clientEnd
        /\ toDaemon'[c] = Append(toDaemon[c], r) /\ sent'[c] = sent[c] + 1
        /\ toClient' = toClient /\ replies' = replies
    BY <1>0, <1>3 DEF SendRequest, ReplyOf, TypeOK, SocketTypeOK, ClientTypeOK
  <2>2. Len(toDaemon'[c]) = Len(toDaemon[c]) + 1
    BY <2>1, ReplyTypes
  <2>3. RepliesIn(toClient[c])' = RepliesIn(toClient[c])
    BY <2>1, RepliesInNext
  <2>4. Answered(c)'
    <3>1. pending'[c] = pending[c] /\ replies'[c] = replies[c]
      BY <1>0, <2>1
    <3>2. /\ Len(toDaemon[c]) \in Nat /\ RepliesIn(toClient[c]) \in Nat
          /\ sent[c] \in Nat /\ replies[c] \in Nat
      BY ReplyTypes
    <3> DEFINE busy == IF pending[c] = None THEN 0 ELSE 1
    <3>3. sent[c] = Len(toDaemon[c]) + busy + RepliesIn(toClient[c]) + replies[c]
      BY <2>1 DEF Answered
    <3>4. busy \in Nat
      OBVIOUS
    <3> HIDE DEF busy
    <3>5. sent[c] + 1 = (Len(toDaemon[c]) + 1) + busy + RepliesIn(toClient[c]) + replies[c]
      BY <3>2, <3>3, <3>4
    <3> QED BY <2>1, <2>2, <2>3, <3>1, <3>5 DEF Answered, busy
  <2>5. ReplyOf(c)'
    BY <2>1, <2>4 DEF ReplyOf
  <2> QED BY <1>1, <2>5, OneClientReplies
<1>4. CASE ReadResponse(c)
  <2> DEFINE r == Head(toClient[c])
  <2>1. /\ clientEnd[c] = "open" /\ UNCHANGED <<toDaemon, clientEnd, sent>>
        /\ toClient[c] # << >> /\ toClient'[c] = Tail(toClient[c])
    BY <1>4 DEF ReadResponse, TypeOK, SocketTypeOK
  <2>2. replies'[c] = IF IsReply(r) THEN replies[c] + 1 ELSE replies[c]
    BY <1>4 DEF ReadResponse, IsReply, TypeOK, ClientTypeOK
  <2>3. RepliesIn(toClient[c]) = IF IsReply(r) THEN RepliesIn(toClient[c])' + 1
                                               ELSE RepliesIn(toClient[c])'
    <3>1. RepliesIn(toClient[c]) = IF IsReply(r) THEN RepliesIn(Tail(toClient[c])) + 1
                                                 ELSE RepliesIn(Tail(toClient[c]))
      BY <2>1, ReplyTypes, RepliesTail
    <3> QED BY <2>1, <3>1, RepliesInNext
  <2>4. RepliesIn(toClient[c])' \in Nat
    <3>1. RepliesIn(Tail(toClient[c])) \in Nat
      <4>1. Tail(toClient[c]) \in Seq(IpcResponse)
        BY <2>1, ReplyTypes
      <4> QED BY <4>1, RepliesCount
    <3> QED BY <2>1, <3>1, RepliesInNext
  <2>5. RepliesIn(toClient[c])' + replies'[c] = RepliesIn(toClient[c]) + replies[c]
    <3>1. RepliesIn(toClient[c]) \in Nat /\ replies[c] \in Nat
      BY ReplyTypes
    <3> HIDE DEF r
    <3>2. CASE IsReply(r)
      BY <2>2, <2>3, <2>4, <3>1, <3>2
    <3>3. CASE ~IsReply(r)
      BY <2>2, <2>3, <2>4, <3>1, <3>3
    <3> QED BY <3>2, <3>3
  <2>6. Answered(c) => Answered(c)'
    <3>1. pending'[c] = pending[c] /\ toDaemon'[c] = toDaemon[c] /\ sent'[c] = sent[c]
      BY <1>0, <2>1
    <3>2. replies'[c] \in Nat
      BY <2>2, ReplyTypes
    <3>3. /\ Len(toDaemon[c]) \in Nat /\ RepliesIn(toClient[c]) \in Nat
          /\ sent[c] \in Nat /\ replies[c] \in Nat
      BY ReplyTypes
    <3> DEFINE busy == IF pending[c] = None THEN 0 ELSE 1
    <3>4. busy \in Nat
      OBVIOUS
    <3> HIDE DEF busy, r
    <3>5. Len(toDaemon[c]) + busy + RepliesIn(toClient[c]) + replies[c]
          = Len(toDaemon[c]) + busy + RepliesIn(toClient[c])' + replies'[c]
      <4>1. PICK u \in Nat, v \in Nat : u = RepliesIn(toClient[c])' /\ v = replies'[c]
        BY <2>4, <3>2
      <4>2. PICK x \in Nat, y \in Nat : x = RepliesIn(toClient[c]) /\ y = replies[c]
        BY <3>3
      <4>3. PICK n \in Nat, b \in Nat : n = Len(toDaemon[c]) /\ b = busy
        BY <3>3, <3>4
      <4>4. u + v = x + y
        BY <2>5, <4>1, <4>2
      <4>5. n + b + x + y = n + b + u + v
        BY <4>4
      <4> QED BY <4>1, <4>2, <4>3, <4>5
    <3> QED BY <3>1, <3>5 DEF Answered, busy
  <2>7. ReplyOf(c)'
    BY <1>0, <2>1, <2>6 DEF ReplyOf
  <2> QED BY <1>1, <2>7, OneClientReplies
<1>5. CASE Close(c)
  <2>1. clientEnd'[c] = "closed"
    BY <1>5 DEF Close, TypeOK, SocketTypeOK
  <2> QED BY <1>1, <2>1, GoneReplies, OneClientReplies
<1> QED BY <1>2, <1>3, <1>4, <1>5 DEF ClientStep

-----------------------------------------------------------------------------
LEMMA InitReplies == Init => ReplyInv
BY DEF Init, BozodInit, ClientInit, SocketInit, ReplyInv, ReplyOf

LEMMA StepReplies == TypeOK /\ ReplyInv /\ [Next]_vars => ReplyInv'
<1> SUFFICES ASSUME TypeOK, ReplyInv, [Next]_vars PROVE ReplyInv'
  OBVIOUS
<1>1. ASSUME UNCHANGED handlerVars, UNCHANGED socketVars, UNCHANGED clientVars
      PROVE  ReplyInv'
  BY <1>1, KeepReplies DEF ReplyInv, SameReplies, handlerVars, socketVars, clientVars
<1>2. CASE DaemonStep
  <2>0. UNCHANGED clientVars
    BY <1>2 DEF DaemonStep
  <2>1. CASE StateManagerNext
    BY <1>1, <2>0, <2>1 DEF StateManagerNext, SMPacket, SMPublish, SMOther, SMLagged
  <2>2. CASE ConnectionNext
    BY <1>1, <2>0, <2>2 DEF ConnectionNext, OpenStream, StreamFails, ConnNotification,
       ConnStreamEnd, ConnSend, ConnDisconnect
  <2>3. CASE ConnectPeripheral \/ MainQuery \/ EnterSelect \/ BindSocket
    BY <1>1, <2>0, <2>3 DEF ConnectPeripheral, MainQuery, EnterSelect, BindSocket
  <2>4. CASE ScanOrConnectFails \/ ShutDown \/ CtrlC \/ Killed
    <3>1. /\ handler' = [c \in Clients |-> IF clientEnd[c] = "none" THEN "none" ELSE "closed"]
          /\ pending' = [c \in Clients |-> None]
          /\ UNCHANGED <<toClient, clientEnd, replies>>
      BY <2>0, <2>4 DEF ScanOrConnectFails, ShutDown, CtrlC, Killed, ProcessEnds, clientVars
    <3> QED BY <3>1 DEF ReplyInv, ReplyOf
  <2>5. ASSUME NEW c \in Clients, Accept(c) PROVE ReplyInv'
    <3>1. /\ clientEnd[c] # "none" /\ handler[c] = "none"
          /\ \A d \in Clients : d # c => handler'[d] = handler[d]
          /\ \A d \in Clients : SameReplies(d)
      BY <2>0, <2>5 DEF Accept, SameReplies, socketVars, clientVars, TypeOK, BozodTypeOK
    <3>2. ReplyOf(c)'
      BY <3>1, KeepReplies DEF ReplyInv
    <3> QED BY <3>1, <3>2, OneClientReplies
  <2> QED BY <1>2, <2>0, <2>1, <2>2, <2>3, <2>4, <2>5, HandlerReplies
          DEF DaemonStep, BozodNext, MainNext
<1>3. CASE \E c \in Clients : ClientStep(c)
  BY <1>3, ClientReplies
<1>4. CASE HeadphonesStep
  BY <1>1, <1>4 DEF HeadphonesStep, bozodVars
<1>5. CASE UNCHANGED vars
  BY <1>1, <1>5 DEF vars, bozodVars
<1> QED BY <1>2, <1>3, <1>4, <1>5 DEF Next

(***************************************************************************)
(* Replies and pushes share one stream and carry no id: a client that is   *)
(* served has as many replies, read or to be read, as the requests its     *)
(* handler has finished, so no answer is lost, doubled or shifted.         *)
(***************************************************************************)
THEOREM Replied == Spec => []OneReplyPerRequest
<1>1. ReplyInv => OneReplyPerRequest
  BY DEF ReplyInv, ReplyOf, OneReplyPerRequest, Served, Answered
<1>2. TypeOK /\ ReplyInv /\ [Next]_vars => ReplyInv'
  BY StepReplies
<1> QED BY <1>1, <1>2, InitReplies, TypeCorrect, PTL DEF Spec
=============================================================================
