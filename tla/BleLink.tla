------------------------------ MODULE BleLink ------------------------------
(***************************************************************************)
(* Packets from the headphones to the daemon: cut into segments as         *)
(* segment() cuts them, and put together again by the Reassembler that     *)
(* run() feeds each notification to.  Notifications arrive in order; one   *)
(* that nobody fetched in time is lost.                                    *)
(*                                                                         *)
(* Byte j of the i-th packet is <<i, j>>, so that what is delivered tells  *)
(* where it comes from.                                                    *)
(***************************************************************************)
EXTENDS Segmentation

LOCAL INSTANCE SequencesExt

CONSTANTS
    Lengths,     \* the sizes of the packets that are sent
    MaxPackets,  \* bound: packets sent
    MaxLosses    \* bound: segments lost or garbled

ASSUME LinkAssumption ==
    /\ Lengths \subseteq 0..MaxPacketSize
    /\ MaxPackets \in Nat /\ MaxLosses \in Nat

VARIABLES
    sent,       \* the packets, in the order they were sent
    air,        \* segments not received yet, with the packet each belongs to
    damaged,    \* the packets of which a segment was lost or garbled
    losses,
    segments,   \* Reassembler.segments
    expected,   \* Reassembler.expected_count, 0 for Option::None
    delivered   \* what feed has returned as Some(data)

vars == <<sent, air, damaged, losses, segments, expected, delivered>>

Bytes == (1..MaxPackets) \X (1..MaxPacketSize)
PacketOf(i, length) == [j \in 1..length |-> <<i, j>>]
Packets == {PacketOf(i, length) : i \in 1..MaxPackets, length \in Lengths}

LinkTypeOK ==
    /\ sent \in Seq(Packets) /\ Len(sent) <= MaxPackets
    /\ damaged \subseteq 1..Len(sent)
    /\ losses \in 0..MaxLosses
    /\ expected \in 0..16
    /\ Len(segments) \in {0, expected}
    /\ \A n \in 1..Len(segments) : segments[n] \in Seq(Bytes)
    /\ \A n \in 1..Len(air) : air[n].packet \in 1..Len(sent)

Init ==
    /\ sent = << >> /\ air = << >> /\ delivered = << >>
    /\ damaged = {} /\ losses = 0
    /\ segments = << >> /\ expected = 0

\* External: the headphones notify a whole packet, segment by segment.
Send(length) ==
    /\ Len(sent) < MaxPackets
    /\ LET i == Len(sent) + 1
           data == PacketOf(i, length)
           parts == Segment(data)
       IN  /\ sent' = Append(sent, data)
           /\ air' = air \o [n \in 1..Len(parts) |-> [packet |-> i, segment |-> parts[n]]]
    /\ UNCHANGED <<damaged, losses, segments, expected, delivered>>

\* External: the headphones break off; the rest of the packet is not notified.
SendFails(length) ==
    /\ Len(sent) < MaxPackets
    /\ losses < MaxLosses
    /\ losses' = losses + 1
    /\ LET i == Len(sent) + 1
           data == PacketOf(i, length)
           parts == Segment(data)
       IN  /\ sent' = Append(sent, data)
           /\ damaged' = damaged \cup {i}
           /\ \E n \in 0..(Len(parts) - 1) :
                air' = air \o [k \in 1..n |-> [packet |-> i, segment |-> parts[k]]]
    /\ UNCHANGED <<segments, expected, delivered>>

Damage ==
    /\ air # << >>
    /\ losses < MaxLosses
    /\ losses' = losses + 1
    /\ damaged' = damaged \cup {Head(air).packet}
    /\ UNCHANGED <<sent, segments, expected, delivered>>

Lose ==
    /\ Damage
    /\ air' = Tail(air)

\* An empty notification, or one whose index exceeds its maximum.
Garble ==
    /\ Damage
    /\ Head(air).segment # << >>
    /\ \E garbled \in {<< >>, <<Header(1, 2)>>} :
        air' = [air EXCEPT ![1].segment = garbled]

-----------------------------------------------------------------------------
(* Reassembler::feed, one action per outcome.                              *)

Fed == Head(air).segment
FedHeader == Fed[1]
FedCount == MaxIndex(FedHeader) + 1
FedData == Tail(Fed)

Feeding ==
    /\ air # << >>
    /\ air' = Tail(air)
    /\ UNCHANGED <<sent, damaged, losses>>

Reset == segments' = << >> /\ expected' = 0

\* Err(EmptySegment)
FeedEmpty ==
    /\ Feeding
    /\ Fed = << >>
    /\ UNCHANGED <<segments, expected, delivered>>

Multi == Fed # << >> /\ FedHeader # 0
Consistent == expected \in {0, FedCount}

\* Mutant: the consistency check comes before the single segment.
FeedSingleChecked ==
    /\ Feeding
    /\ Fed # << >> /\ FedHeader = 0
    /\ delivered' = IF Consistent THEN Append(delivered, FedData) ELSE delivered
    /\ Reset

\* Header 0x00: a packet of its own, whatever was being assembled.
FeedSingle ==
    /\ Feeding
    /\ Fed # << >> /\ FedHeader = 0
    /\ delivered' = Append(delivered, FedData)
    /\ Reset

\* Mutant: the count is overwritten, the slots stay as many as before.
FeedInconsistentAdopted ==
    /\ Feeding
    /\ Multi /\ ~Consistent
    /\ expected' = FedCount
    /\ UNCHANGED <<segments, delivered>>

\* Mutant: the error leaves what was being assembled in place.
FeedInconsistentKept ==
    /\ Feeding
    /\ Multi /\ ~Consistent
    /\ UNCHANGED <<segments, expected, delivered>>

\* Err(InconsistentMaxIndex): the segment is dropped with what it contradicts.
FeedInconsistent ==
    /\ Feeding
    /\ Multi /\ ~Consistent
    /\ Reset
    /\ UNCHANGED delivered

\* Err(IndexOutOfRange)
FeedOutOfRange ==
    /\ Feeding
    /\ Multi /\ Consistent
    /\ CurrentIndex(FedHeader) > MaxIndex(FedHeader)
    /\ Reset
    /\ UNCHANGED delivered

Stored ==
    LET slots == IF segments = << >> THEN [n \in 1..FedCount |-> << >>] ELSE segments
    IN  [slots EXCEPT ![CurrentIndex(FedHeader) + 1] = FedData]

Complete(slots) == IsLastSegment(Fed) /\ \A n \in 1..Len(slots) : slots[n] # << >>

\* Mutant: the last segment completes the packet, whatever is missing.
FeedStoreUnchecked ==
    /\ Feeding
    /\ Multi /\ Consistent
    /\ CurrentIndex(FedHeader) <= MaxIndex(FedHeader)
    /\ IF IsLastSegment(Fed)
       THEN /\ delivered' = Append(delivered, FlattenSeq(Stored))
            /\ Reset
       ELSE /\ segments' = Stored
            /\ expected' = FedCount
            /\ UNCHANGED delivered

FeedStore ==
    /\ Feeding
    /\ Multi /\ Consistent
    /\ CurrentIndex(FedHeader) <= MaxIndex(FedHeader)
    /\ \/ /\ Complete(Stored)
          /\ delivered' = Append(delivered, FlattenSeq(Stored))
          /\ Reset
       \/ /\ ~Complete(Stored)
          /\ segments' = Stored
          /\ expected' = FedCount
          /\ UNCHANGED delivered

Feed == FeedEmpty \/ FeedSingle \/ FeedInconsistent \/ FeedOutOfRange \/ FeedStore

Next ==
    \/ \E length \in Lengths : Send(length) \/ SendFails(length)
    \/ Lose \/ Garble
    \/ Feed

Spec == Init /\ [][Next]_vars

-----------------------------------------------------------------------------
SegmentsOf(i) == Len(Segment(sent[i]))

\* All segments of packet i reached feed as they were sent.
Arrived(i) ==
    /\ i \notin damaged
    /\ \A n \in 1..Len(air) : air[n].packet # i

DeliveredWhole(i) == \E n \in 1..Len(delivered) : delivered[n] = sent[i]

(***************************************************************************)
(* A packet in one segment is never the price of another's loss: if it     *)
(* arrived it is delivered, whatever was being assembled when it came.     *)
(***************************************************************************)
SinglesDelivered ==
    \A i \in 1..Len(sent) :
        Arrived(i) /\ SegmentsOf(i) = 1 => DeliveredWhole(i)

(***************************************************************************)
(* What a loss can cost a longer packet.  If it arrived it is delivered    *)
(* when the packet before it arrived, too, and was delivered or has as     *)
(* many segments: the second of two equally long packets always finds the  *)
(* reassembler in step, whatever was lost before.                          *)
(***************************************************************************)
Recovers ==
    \A i \in 1..Len(sent) :
        /\ Arrived(i)
        /\ \/ i = 1
           \/ Arrived(i - 1) /\ (DeliveredWhole(i - 1) \/ SegmentsOf(i - 1) = SegmentsOf(i))
        => DeliveredWhole(i)

(***************************************************************************)
(* What a loss cannot do: a delivered packet has at every offset a byte    *)
(* sent at that offset (no gap, no shift), and no byte is delivered twice. *)
(***************************************************************************)
OffsetsKept ==
    \A n \in 1..Len(delivered) : \A j \in 1..Len(delivered[n]) :
        /\ delivered[n][j][2] = j
        /\ \A m \in 1..Len(delivered) :
            m # n /\ j <= Len(delivered[m]) => delivered[m][j] # delivered[n][j]

(***************************************************************************)
(* There is no checksum, so a packet put together from two others is taken *)
(* for one that was sent.  It takes two damaged packets to make one: as    *)
(* long as a single packet was damaged, what is delivered is what was      *)
(* sent, in the order it was sent.                                         *)
(***************************************************************************)
OneLossNeverMixes ==
    \A i \in 1..MaxPackets : damaged \subseteq {i} =>
        \E source \in [1..Len(delivered) -> 1..Len(sent)] :
            \A n \in 1..Len(delivered) :
                /\ delivered[n] = sent[source[n]]
                /\ \A m \in 1..(n - 1) : source[m] < source[n]

-----------------------------------------------------------------------------
(* What the comments of segment.rs say, which does not survive a loss.     *)

(***************************************************************************)
(* feed "returns Some(data) when all segments received": a packet that     *)
(* arrived is delivered.  One lost segment of an earlier packet makes feed *)
(* drop the first segment of a later one of another length.                *)
(***************************************************************************)
AllReceivedDelivered ==
    \A i \in 1..Len(sent) : Arrived(i) => DeliveredWhole(i)
=============================================================================
