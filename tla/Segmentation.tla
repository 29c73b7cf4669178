---------------------------- MODULE Segmentation ----------------------------
(***************************************************************************)
(* bmap/segment.rs: how a BMAP packet is cut into BLE writes and           *)
(* notifications, and what Reassembler::feed makes of each of them.        *)
(*                                                                         *)
(* A segment is a sequence: the header byte (an integer), then the data    *)
(* bytes.  The empty sequence is an empty notification.                    *)
(***************************************************************************)
EXTENDS Naturals, Sequences

CONSTANT SegmentDataSize  \* 19 in segment.rs

ASSUME SegmentationAssumption == SegmentDataSize \in Nat \ {0}

\* The largest packet the 4-bit indices of the header can number.
MaxPacketSize == 16 * SegmentDataSize

Header(max, current) == (max % 16) * 16 + current
MaxIndex(header) == header \div 16
CurrentIndex(header) == header % 16

SegmentCount(length) ==
    length \div SegmentDataSize + (IF length % SegmentDataSize > 0 THEN 1 ELSE 0)

\* segment(data): chunks of SegmentDataSize bytes, the remainder last.
Segment(data) ==
    IF data = << >> THEN << <<0>> >>
    ELSE LET total == SegmentCount(Len(data))
             full == Len(data) \div SegmentDataSize
             End(i) == IF i <= full THEN i * SegmentDataSize ELSE Len(data)
         IN  [i \in 1..total |->
                <<Header(total - 1, i - 1)>>
                    \o SubSeq(data, (i - 1) * SegmentDataSize + 1, End(i))]

IsLastSegment(segment) ==
    \/ segment = << >>
    \/ segment[1] = 0
    \/ MaxIndex(segment[1]) = CurrentIndex(segment[1])
=============================================================================
