------------------------------- MODULE EventBus -------------------------------
(***************************************************************************)
(* tokio::sync::broadcast as bozod uses it: one event bus shared by the    *)
(* state manager and every client handler.  Each receiver sees the last    *)
(* EventCap events sent since it subscribed; sending never waits, so a     *)
(* receiver that falls behind loses the oldest events, and its next recv() *)
(* reports RecvError::Lagged before it goes on with the events that are    *)
(* left.                                                                   *)
(*                                                                         *)
(* `missed' is a history variable: no action looks at it.  It says which   *)
(* fields a loss has really cost a receiver something of.                  *)
(***************************************************************************)
EXTENDS BozoTypes

CONSTANTS
    SM,        \* the state manager's receiver
    EventCap   \* broadcast::channel capacity (256 in main.rs)

ASSUME BusAssumption == EventCap \in Nat \ {0} /\ SM \notin Clients

VARIABLES
    inbox,   \* inbox[r]: the events r has not received yet
    gap,     \* gap[r]: "none", or whether a loss was already reported to r
    missed   \* missed[r]: the fields whose last news to r was lost

Receivers == Clients \cup {SM}

\* The fields event e tells receiver r something new about: the state manager
\* learns them from packets, the handlers from the updates it makes of these.
News(r, e) ==
    CASE e.type = "PacketReceived" ->
            IF r = SM /\ Updates(e.packet) THEN {e.packet.field} ELSE {}
      [] e.type = "StateUpdated" -> IF r = SM THEN {} ELSE {e.update.field}
      [] OTHER -> {"connected"}

BusTypeOK ==
    /\ inbox \in [Receivers -> Seq(DaemonEvent)]
    /\ \A r \in Receivers : Len(inbox[r]) <= EventCap
    /\ gap \in [Receivers -> {"none", "unreported", "reported"}]
    /\ missed \in [Receivers -> SUBSET Fields]

BusInit ==
    /\ inbox = [r \in Receivers |-> << >>]
    /\ gap = [r \in Receivers |-> "none"]
    /\ missed = [r \in Receivers |-> {}]

Full(r) == Len(inbox[r]) >= EventCap
Push(q, e) == IF Len(q) < EventCap THEN Append(q, e) ELSE Append(Tail(q), e)

\* What r has missed when e is sent to it as well: news that was lost, unless
\* there is later news of the same field in its inbox.
StillMissed(r, e) ==
    LET q == Push(inbox[r], e)
    IN  (missed[r] \cup (IF Full(r) THEN News(r, Head(inbox[r])) ELSE {}))
            \ UNION {News(r, q[i]) : i \in 1..Len(q)}

\* event_tx.send(e), with `live' the receivers that exist at that moment.
Publish(live, e) ==
    /\ inbox' = [r \in Receivers |-> IF r \in live THEN Push(inbox[r], e) ELSE inbox[r]]
    /\ gap' = [r \in Receivers |->
                 IF r \in live /\ Full(r) THEN "unreported" ELSE gap[r]]
    /\ missed' = [r \in Receivers |->
                    IF r \in live THEN StillMissed(r, e) ELSE missed[r]]

\* event_tx.subscribe(): the new receiver starts behind everything sent so far.
Subscribe(r) ==
    /\ inbox' = [inbox EXCEPT ![r] = << >>]
    /\ gap' = [gap EXCEPT ![r] = "none"]
    /\ missed' = [missed EXCEPT ![r] = {}]

\* recv() returns the oldest event r still has.
HasEvent(r) == gap[r] # "unreported" /\ inbox[r] # << >>
Receive(r) ==
    /\ inbox' = [inbox EXCEPT ![r] = Tail(@)]
    /\ UNCHANGED <<gap, missed>>

\* Mutant: after a loss the receiver subscribes again, and so loses the rest too.
ReceiveLaggedAgain(r) ==
    /\ gap[r] = "unreported"
    /\ gap' = [gap EXCEPT ![r] = "reported"]
    /\ inbox' = [inbox EXCEPT ![r] = << >>]
    /\ UNCHANGED missed

\* recv() returns Err(RecvError::Lagged(n)).
ReceiveLagged(r) ==
    /\ gap[r] = "unreported"
    /\ gap' = [gap EXCEPT ![r] = "reported"]
    /\ UNCHANGED <<inbox, missed>>

Silence ==
    /\ inbox' = [r \in Receivers |-> << >>]
    /\ UNCHANGED <<gap, missed>>
=============================================================================
