---------------------------- MODULE PacketStream ----------------------------
(***************************************************************************)
(* What a stream of messages promises: each is delivered once, whole and   *)
(* in the order they were sent.  Several may go or arrive in one step.     *)
(***************************************************************************)
EXTENDS Naturals, Sequences

CONSTANT Packets

VARIABLES sent, delivered

Init == sent = << >> /\ delivered = << >>

Send ==
    /\ sent' \in Seq(Packets)
    /\ Len(sent') > Len(sent) /\ SubSeq(sent', 1, Len(sent)) = sent
    /\ UNCHANGED delivered

Deliver ==
    /\ \E n \in (Len(delivered) + 1)..Len(sent) : delivered' = SubSeq(sent, 1, n)
    /\ UNCHANGED sent

Next == Send \/ Deliver

SafeSpec == Init /\ [][Next]_<<sent, delivered>>

\* Nothing that was sent stays behind once the sender pauses.
Spec == SafeSpec /\ []<>(delivered = sent)
=============================================================================
