--------------------------- MODULE BleLinkProofs ---------------------------
(***************************************************************************)
(* What is proved of BleLink for every segment size, every number of       *)
(* packets and losses and every set of lengths up to what the header can   *)
(* number: the reassembler's slots are as many as it says and none is      *)
(* addressed outside them, and the four properties that say what a loss    *)
(* can and cannot do.                                                      *)
(*                                                                         *)
(* First come the facts of arithmetic and of sequences: where segment k of *)
(* a packet begins, and that segments in order flatten to the packet.      *)
(* Then the link is seen in numbers: of each place on the air and of each  *)
(* slot only the packet and the segment's number are kept (Counts, Owners, *)
(* Numbers, Origins), with the set of the packets delivered whole; the     *)
(* invariant Numeric and the steps that keep it are stated of these        *)
(* numbers alone.  Cutting ties them to the bytes, and the lemmas named    *)
(* ...View show that every action is one of the steps in numbers.          *)
(***************************************************************************)
EXTENDS BleLink, SequenceFacts

LOCAL INSTANCE SequencesExt

Part(s) == s # << >> => s[1] \in 0..255 /\ Tail(s) \in Seq(Bytes)
Parts == {s \in Seq(0..255 \cup Bytes) : Part(s)}
Item == [packet : 1..MaxPackets, segment : Parts]

LinkTypes ==
    /\ LinkTypeOK
    /\ air \in Seq(Item)
    /\ segments \in Seq(Seq(Bytes))

-----------------------------------------------------------------------------
(* Numbers: a header is a byte, and sixteen segments are enough.           *)

LEMMA FullSegments ==
    ASSUME NEW a \in Nat, NEW s \in Nat \ {0}
    PROVE  a \div s \in Nat /\ (a \div s) * s <= a
<1>1. PICK q \in Nat, r \in Nat : q = a \div s /\ a = s * q + r
  BY Division
<1>2. q * s <= a
  BY <1>1
<1> QED BY <1>1, <1>2

LEMMA SixteenAtMost ==
    ASSUME NEW s \in Nat \ {0}, NEW q \in Nat, NEW r \in Nat, s * q + r <= 16 * s
    PROVE  q <= 16 /\ (r > 0 => q <= 15)
<1>1. CASE q >= 17
  <2>1. s * q >= s * 17
    BY <1>1
  <2> QED BY <2>1
<1>2. CASE q = 16
  <2>1. s * q = 16 * s
    BY <1>2
  <2> QED BY <1>2, <2>1
<1> QED BY <1>1, <1>2

LEMMA SizeType == MaxPacketSize \in Nat
BY SegmentationAssumption DEF MaxPacketSize

LEMMA CountType ==
    ASSUME NEW n \in 0..MaxPacketSize
    PROVE  /\ SegmentCount(n) \in 0..16
           /\ n > 0 => SegmentCount(n) > 0
<1> DEFINE s == SegmentDataSize
<1>1. n \in Nat /\ s \in Nat \ {0}
  BY SizeType, SegmentationAssumption
<1>2. PICK q \in Nat, r \in Nat : q = n \div s /\ r = n % s /\ r < s /\ n = s * q + r
  BY <1>1, Division
<1>3. n = s * q + r
  BY <1>2
<1>4. s * q + r <= 16 * s
  BY <1>3, SizeType DEF MaxPacketSize
<1>5. SegmentCount(n) = q + (IF r > 0 THEN 1 ELSE 0)
  BY <1>2 DEF SegmentCount
<1> HIDE DEF s
<1>6. q <= 16 /\ (r > 0 => q <= 15)
  BY <1>1, <1>2, <1>4, SixteenAtMost
<1>7. SegmentCount(n) \in 0..16
  BY <1>2, <1>5, <1>6
<1>8. q = 0 => n = r
  BY <1>1, <1>2, <1>3
<1>9. ASSUME n > 0 PROVE SegmentCount(n) > 0
  BY <1>2, <1>5, <1>8, <1>9
<1> QED BY <1>7, <1>9

LEMMA HeaderType ==
    ASSUME NEW max \in 0..15, NEW current \in 0..15
    PROVE  Header(max, current) \in 0..255
BY DEF Header

LEMMA HeaderIndices ==
    ASSUME NEW h \in 0..255
    PROVE  MaxIndex(h) \in 0..15 /\ CurrentIndex(h) \in 0..15
BY DEF MaxIndex, CurrentIndex

\* The header of a garbled segment: an index past the last.
LEMMA GarbledHeader ==
    /\ Header(1, 2) = 18 /\ MaxIndex(Header(1, 2)) = 1 /\ CurrentIndex(Header(1, 2)) = 2
<1>1. Header(1, 2) = 18
  BY DEF Header
<1>2. MaxIndex(18) = 1 /\ CurrentIndex(18) = 2
  BY DEF MaxIndex, CurrentIndex
<1> QED BY <1>1, <1>2

-----------------------------------------------------------------------------
(* Segments.                                                               *)

LEMMA PartType ==
    ASSUME NEW h \in 0..255, NEW d \in Seq(Bytes)
    PROVE  /\ <<h>> \o d \in Parts /\ <<h>> \o d # << >>
           /\ (<<h>> \o d)[1] = h /\ Tail(<<h>> \o d) = d
<1> DEFINE B == 0..255 \cup Bytes
           s == <<h>> \o d
<1>1. <<h>> \in Seq(B) /\ Len(<<h>>) = 1 /\ <<h>>[1] = h /\ d \in Seq(B)
  BY SeqMonotonic
<1> HIDE DEF B
<1>2. s \in Seq(B) /\ Len(s) = 1 + Len(d) /\ Len(d) \in Nat
      /\ \A i \in 1..(1 + Len(d)) : s[i] = IF i <= 1 THEN h ELSE d[i - 1]
  BY <1>1, ConcatProperties
<1>3. s # << >> /\ s[1] = h
  BY <1>2
<1> HIDE DEF s
<1>4. Tail(s) \in Seq(B) /\ Len(Tail(s)) = Len(d)
      /\ \A i \in 1..Len(d) : Tail(s)[i] = s[i + 1]
  BY <1>2, <1>3, HeadTailProperties
<1>5. \A i \in 1..Len(d) : Tail(s)[i] = d[i]
  BY <1>2, <1>4
<1>6. Tail(s) = d
  BY <1>1, <1>4, <1>5, SeqEqual
<1> QED BY <1>2, <1>3, <1>6 DEF Parts, Part, B, s

LEMMA SegmentType ==
    ASSUME NEW data \in Seq(Bytes), Len(data) <= MaxPacketSize
    PROVE  /\ Segment(data) \in Seq(Parts)
           /\ Len(Segment(data)) \in 1..16
<1>1. CASE data = << >>
  <2>1. data \in Seq({0} \cup Bytes) /\ <<0>> \in Seq({0} \cup Bytes)
    BY SeqMonotonic
  <2>2. <<0>> \o data = <<0>>
    BY <1>1, <2>1, ConcatEmptySeq
  <2>3. 0 \in 0..255
    OBVIOUS
  <2>4. <<0>> \o data \in Parts
    BY <2>3, PartType
  <2>5. PICK p \in Parts : p = <<0>> \o data
    BY <2>4
  <2>6. Segment(data) = <<p>>
    BY <1>1, <2>2, <2>5 DEF Segment
  <2>7. <<p>> \in Seq(Parts) /\ Len(<<p>>) = 1
    OBVIOUS
  <2> QED BY <2>6, <2>7
<1>2. CASE data # << >>
  <2> DEFINE total == SegmentCount(Len(data))
             full == Len(data) \div SegmentDataSize
             End(i) == IF i <= full THEN i * SegmentDataSize ELSE Len(data)
             part(i) == <<Header(total - 1, i - 1)>>
                    \o SubSeq(data, (i - 1) * SegmentDataSize + 1, End(i))
  <2>0. Len(data) \in 1..MaxPacketSize
    BY <1>2, SizeType
  <2>1. total \in 1..16 /\ full \in Nat /\ full * SegmentDataSize <= Len(data)
    <3>1. total \in 1..16
      BY <2>0, CountType, SizeType
    <3>2. Len(data) \in Nat
      OBVIOUS
    <3>3. full \in Nat /\ full * SegmentDataSize <= Len(data)
      BY <3>2, SegmentationAssumption, FullSegments
    <3> QED BY <3>1, <3>3
  <2>2. Segment(data) = [i \in 1..total |-> part(i)]
    BY <1>2 DEF Segment
  <2>3. ASSUME NEW i \in 1..total PROVE part(i) \in Parts
    <3>1. total - 1 \in 0..15 /\ i - 1 \in 0..15
      BY <2>1
    <3>2. Header(total - 1, i - 1) \in 0..255
      BY <3>1, HeaderType
    <3>3. (i - 1) * SegmentDataSize + 1 \in Nat \ {0}
      BY <3>1, SegmentationAssumption
    <3>4. End(i) \in Nat /\ End(i) <= Len(data)
      <4>1. i \in Nat
        BY <2>1
      <4>2. i <= full => i * SegmentDataSize <= full * SegmentDataSize
        BY <2>1, <4>1, SegmentationAssumption, TimesMonotonic
      <4> HIDE DEF full
      <4> QED BY <2>0, <2>1, <4>1, <4>2, SegmentationAssumption, TimesNat
    <3>5. SubSeq(data, (i - 1) * SegmentDataSize + 1, End(i)) \in Seq(Bytes)
      BY <3>3, <3>4, SubSeqProperties
    <3> QED BY <3>2, <3>5, PartType
  <2> HIDE DEF total, part
  <2> QED BY <2>1, <2>2, <2>3
<1> QED BY <1>1, <1>2

-----------------------------------------------------------------------------
(* Sequences of anything, and what is on the air.                          *)

LEMMA AppendTo ==
    ASSUME NEW S, NEW q \in Seq(S), NEW e
    PROVE  /\ Append(q, e) \in Seq(S \cup {e})
           /\ Len(Append(q, e)) = Len(q) + 1 /\ Len(q) \in Nat
           /\ Append(q, e)[Len(q) + 1] = e
           /\ \A n \in 1..Len(q) : Append(q, e)[n] = q[n]
<1>1. q \in Seq(S \cup {e})
  BY SeqMonotonic
<1> QED BY <1>1

LEMMA PacketType ==
    ASSUME NEW i \in 1..MaxPackets, NEW length \in Lengths
    PROVE  /\ PacketOf(i, length) \in Seq(Bytes) /\ PacketOf(i, length) \in Packets
           /\ Len(PacketOf(i, length)) <= MaxPacketSize
<1>1. length \in Nat /\ length <= MaxPacketSize
  BY LinkAssumption, SizeType
<1>2. \A j \in 1..length : <<i, j>> \in Bytes
  BY <1>1, SizeType DEF Bytes
<1> QED BY <1>1, <1>2 DEF PacketOf, Packets

LEMMA ItemsType ==
    ASSUME NEW i \in 1..MaxPackets, NEW parts \in Seq(Parts), NEW n \in 0..Len(parts)
    PROVE  /\ [k \in 1..n |-> [packet |-> i, segment |-> parts[k]]] \in Seq(Item)
           /\ Len([k \in 1..n |-> [packet |-> i, segment |-> parts[k]]]) = n
<1>1. n \in Nat /\ \A k \in 1..n : parts[k] \in Parts
  OBVIOUS
<1>2. \A k \in 1..n : [packet |-> i, segment |-> parts[k]] \in Item
  BY <1>1 DEF Item
<1> QED BY <1>1, <1>2

-----------------------------------------------------------------------------
(* Sending.                                                                *)

LEMMA MoreSent ==
    ASSUME LinkTypes,
           NEW data \in Packets, NEW l \in 1..MaxPackets, l = Len(sent) + 1,
           sent' = Append(sent, data),
           NEW items \in Seq(Item), air' = air \o items,
           \A n \in 1..Len(items) : items[n].packet = l,
           damaged \subseteq damaged', damaged' \subseteq damaged \cup {l},
           losses' \in 0..MaxLosses,
           UNCHANGED <<segments, expected>>
    PROVE  LinkTypes'
<1>1. /\ sent \in Seq(Packets) /\ l \in Nat /\ Len(sent') = l
      /\ \A i \in 1..Len(sent) : sent'[i] = sent[i]
      /\ sent' \in Seq(Packets) /\ Len(sent') <= MaxPackets
      /\ \A i \in 1..l : i \in 1..Len(sent) \/ i = l
  BY LinkAssumption DEF LinkTypes, LinkTypeOK
<1>2. air \in Seq(Item)
  BY DEF LinkTypes
<1>3. /\ air' \in Seq(Item) /\ Len(air') = Len(air) + Len(items)
      /\ Len(air) \in Nat /\ Len(items) \in Nat
      /\ \A n \in 1..(Len(air) + Len(items)) :
           air'[n] = IF n <= Len(air) THEN air[n] ELSE items[n - Len(air)]
  BY <1>2, ConcatProperties
<1>5. ASSUME NEW n \in 1..Len(air') PROVE air'[n].packet \in 1..Len(sent')
  <2>1. CASE n <= Len(air)
    <3>1. n \in 1..Len(air) /\ air'[n] = air[n]
      BY <1>3, <2>1
    <3>2. air[n].packet \in 1..Len(sent)
      BY <3>1 DEF LinkTypes, LinkTypeOK
    <3> QED BY <1>1, <3>1, <3>2
  <2>2. CASE n > Len(air)
    <3>1. n - Len(air) \in 1..Len(items) /\ air'[n] = items[n - Len(air)]
      BY <1>3, <2>2
    <3> QED BY <1>1, <3>1
  <2> QED BY <1>3, <2>1, <2>2
<1>6. damaged' \subseteq 1..Len(sent')
  <2>1. damaged \subseteq 1..Len(sent)
    BY DEF LinkTypes, LinkTypeOK
  <2>2. 1..Len(sent) \cup {l} \subseteq 1..l
    BY <1>1
  <2> QED BY <1>1, <2>1, <2>2
<1>7. LinkTypeOK'
  <2>1. /\ expected' \in 0..16 /\ Len(segments') \in {0, expected'}
        /\ \A n \in 1..Len(segments') : segments'[n] \in Seq(Bytes)
    BY DEF LinkTypes, LinkTypeOK
  <2> QED BY <1>1, <1>5, <1>6, <2>1 DEF LinkTypeOK
<1> QED BY <1>3, <1>7 DEF LinkTypes

LEMMA TypesSent ==
    ASSUME LinkTypes, NEW length \in Lengths, Send(length) \/ SendFails(length)
    PROVE  LinkTypes'
<1>0. Len(sent) + 1 \in 1..MaxPackets
  BY LinkAssumption DEF LinkTypes, LinkTypeOK, Send, SendFails
<1>1. PICK l \in 1..MaxPackets : l = Len(sent) + 1
  BY <1>0
<1> DEFINE data == PacketOf(l, length)
           parts == Segment(data)
           Items(n) == [k \in 1..n |-> [packet |-> l, segment |-> parts[k]]]
<1>2. data \in Seq(Bytes) /\ data \in Packets /\ Len(data) <= MaxPacketSize
  BY <1>1, PacketType
<1>3. parts \in Seq(Parts) /\ Len(parts) \in 1..16
  BY <1>2, SegmentType
<1> HIDE DEF data, parts
<1>4. ASSUME NEW n \in 0..Len(parts)
      PROVE  /\ Items(n) \in Seq(Item) /\ Len(Items(n)) = n
             /\ \A k \in 1..Len(Items(n)) : Items(n)[k].packet = l
  BY <1>1, <1>3, ItemsType
<1>5. sent' = Append(sent, data)
  BY <1>1 DEF Send, SendFails, data
<1>6. air \in Seq(Item) /\ Len(air) \in Nat
  BY DEF LinkTypes
<1>7. CASE Send(length)
  <2>1. air' = air \o Items(Len(parts))
    BY <1>1, <1>7 DEF Send, data, parts
  <2>2. Len(parts) \in 0..Len(parts)
    BY <1>3
  <2> HIDE DEF Items
  <2>3. losses' \in 0..MaxLosses /\ damaged' = damaged
        /\ UNCHANGED <<segments, expected>>
    BY <1>7 DEF Send, LinkTypes, LinkTypeOK
  <2> QED BY <1>1, <1>2, <1>4, <1>5, <2>1, <2>2, <2>3, MoreSent
<1>8. CASE SendFails(length)
  <2>1. PICK n \in 0..(Len(parts) - 1) : air' = air \o Items(n)
    BY <1>1, <1>8 DEF SendFails, data, parts
  <2>2. n \in 0..Len(parts)
    BY <1>3
  <2> HIDE DEF Items
  <2>3. losses' \in 0..MaxLosses /\ damaged' = damaged \cup {l}
        /\ UNCHANGED <<segments, expected>>
    BY <1>1, <1>8, LinkAssumption DEF SendFails, LinkTypes, LinkTypeOK
  <2> QED BY <1>1, <1>2, <1>4, <1>5, <2>1, <2>2, <2>3, MoreSent
<1> QED BY <1>7, <1>8

-----------------------------------------------------------------------------
(* Losing and garbling the segment in front.                               *)

LEMMA FirstItem ==
    ASSUME LinkTypes, air # << >>
    PROVE  /\ Len(air) \in Nat \ {0} /\ 1 \in 1..Len(air) /\ Head(air) = air[1]
           /\ air[1] \in Item /\ air[1].packet \in 1..Len(sent) /\ air[1].segment \in Parts
           /\ Tail(air) \in Seq(Item) /\ Len(Tail(air)) = Len(air) - 1
           /\ \A n \in 1..Len(Tail(air)) : Tail(air)[n] = air[n + 1] /\ n + 1 \in 1..Len(air)
<1>1. air \in Seq(Item)
  BY DEF LinkTypes
<1>2. Len(air) \in Nat \ {0} /\ 1 \in 1..Len(air) /\ Head(air) = air[1] /\ air[1] \in Item
  BY <1>1
<1>3. air[1].packet \in 1..Len(sent)
  BY <1>2 DEF LinkTypes, LinkTypeOK
<1>4. air[1].segment \in Parts
  BY <1>2 DEF Item
<1>5. /\ Tail(air) \in Seq(Item) /\ Len(Tail(air)) = Len(air) - 1
      /\ \A n \in 1..Len(Tail(air)) : Tail(air)[n] = air[n + 1]
  BY <1>1, HeadTailProperties
<1>6. \A n \in 1..Len(Tail(air)) : n + 1 \in 1..Len(air)
  BY <1>2, <1>5
<1> QED BY <1>2, <1>3, <1>4, <1>5, <1>6

LEMMA TypesDamaged ==
    ASSUME LinkTypes, Lose \/ Garble
    PROVE  LinkTypes'
<1>0. air # << >> /\ Damage
  BY DEF Lose, Garble, Damage
<1>1. /\ losses' \in 0..MaxLosses /\ damaged' = damaged \cup {air[1].packet}
      /\ UNCHANGED <<sent, segments, expected>>
  BY <1>0, FirstItem, LinkAssumption DEF Damage, LinkTypes, LinkTypeOK
<1>2. damaged' \subseteq 1..Len(sent')
  BY <1>0, <1>1, FirstItem DEF LinkTypes, LinkTypeOK
<1>3. /\ air' \in Seq(Item)
      /\ \A n \in 1..Len(air') : air'[n].packet \in 1..Len(sent')
  <2>1. CASE Lose
    <3>1. air' = Tail(air)
      BY <2>1 DEF Lose
    <3>2. \A n \in 1..Len(air) : air[n].packet \in 1..Len(sent)
      BY DEF LinkTypes, LinkTypeOK
    <3>3. /\ Tail(air) \in Seq(Item)
          /\ \A n \in 1..Len(Tail(air)) : Tail(air)[n] = air[n + 1] /\ n + 1 \in 1..Len(air)
      BY <1>0, FirstItem
    <3>4. \A n \in 1..Len(Tail(air)) : Tail(air)[n].packet \in 1..Len(sent)
      BY <3>2, <3>3
    <3> QED BY <1>1, <3>1, <3>3, <3>4
  <2>2. CASE Garble
    <3>1. PICK garbled \in {<< >>, <<Header(1, 2)>>} : air' = [air EXCEPT ![1].segment = garbled]
      BY <2>2 DEF Garble
    <3>2. garbled \in Parts
      <4>1. CASE garbled = << >>
        BY <4>1 DEF Parts, Part
      <4>2. CASE garbled = <<Header(1, 2)>>
        <5>1. Header(1, 2) \in 0..255
          BY GarbledHeader
        <5>2. PICK h \in 0..255 : h = Header(1, 2)
          BY <5>1
        <5>3. garbled = <<h>>
          BY <4>2, <5>2
        <5>4. garbled \in Seq(0..255 \cup Bytes) /\ garbled[1] = h
          BY <5>3
        <5>5. Tail(garbled) \in Seq(Bytes)
          <6>1. Tail(<<h>>) = << >>
            OBVIOUS
          <6> QED BY <5>3, <6>1
        <5> QED BY <5>4, <5>5 DEF Parts, Part
      <4> QED BY <3>1, <4>1, <4>2
    <3>3. air \in Seq(Item)
      BY DEF LinkTypes
    <3>4. PICK item : item = [packet |-> air[1].packet, segment |-> garbled]
      OBVIOUS
    <3>5. item \in Item /\ item.packet = air[1].packet /\ air' = [air EXCEPT ![1] = item]
      <4>1. air[1] \in Item
        BY <1>0, FirstItem
      <4>2. air[1].packet \in 1..MaxPackets /\ [air[1] EXCEPT !.segment = garbled] = item
        BY <3>4, <4>1 DEF Item
      <4> QED BY <3>1, <3>2, <3>4, <4>2 DEF Item
    <3>6. /\ air' \in Seq(Item) /\ Len(air') = Len(air)
          /\ \A n \in 1..Len(air) : air'[n] = IF n = 1 THEN item ELSE air[n]
      BY <1>0, <3>3, <3>5, FirstItem, ExceptSeq
    <3>7. \A n \in 1..Len(air) : air[n].packet \in 1..Len(sent)
      BY DEF LinkTypes, LinkTypeOK
    <3>8. \A n \in 1..Len(air') : air'[n].packet = air[n].packet
      BY <3>5, <3>6
    <3> QED BY <1>1, <3>6, <3>7, <3>8
  <2> QED BY <2>1, <2>2
<1>4. LinkTypeOK'
  BY <1>1, <1>2, <1>3 DEF LinkTypes, LinkTypeOK
<1>5. segments' \in Seq(Seq(Bytes))
  BY <1>1 DEF LinkTypes
<1> QED BY <1>3, <1>4, <1>5 DEF LinkTypes

-----------------------------------------------------------------------------
(* Reassembler::feed.                                                      *)

LEMMA FedType ==
    ASSUME LinkTypes, air # << >>, Fed # << >>
    PROVE  /\ FedHeader \in 0..255 /\ FedData \in Seq(Bytes)
           /\ FedCount \in 1..16 /\ CurrentIndex(FedHeader) \in 0..15
           /\ FedCount = MaxIndex(FedHeader) + 1 /\ MaxIndex(FedHeader) \in 0..15
<1>1. FedHeader \in 0..255 /\ FedData \in Seq(Bytes)
  BY FirstItem DEF Fed, FedHeader, FedData, Parts, Part
<1>2. MaxIndex(FedHeader) \in 0..15 /\ CurrentIndex(FedHeader) \in 0..15
  BY <1>1, HeaderIndices
<1> QED BY <1>1, <1>2 DEF FedCount

\* The slot that is written is one of the slots there are.
LEMMA StoredType ==
    ASSUME LinkTypes, air # << >>, Multi, Consistent,
           CurrentIndex(FedHeader) <= MaxIndex(FedHeader)
    PROVE  Stored \in Seq(Seq(Bytes)) /\ Len(Stored) = FedCount
<1> DEFINE slots == IF segments = << >> THEN [n \in 1..FedCount |-> << >>] ELSE segments
           slot == CurrentIndex(FedHeader) + 1
<1>1. /\ FedCount \in 1..16 /\ slot \in 1..FedCount /\ FedData \in Seq(Bytes)
  BY FedType DEF Multi
<1>2. slots \in Seq(Seq(Bytes)) /\ Len(slots) = FedCount
  <2>1. CASE segments = << >>
    <3>1. << >> \in Seq(Bytes)
      OBVIOUS
    <3> QED BY <1>1, <2>1, <3>1
  <2>2. CASE segments # << >>
    <3>1. segments \in Seq(Seq(Bytes)) /\ Len(segments) # 0 /\ Len(segments) \in {0, expected}
      BY <2>2 DEF LinkTypes, LinkTypeOK
    <3>2. Len(segments) = expected /\ expected # 0
      BY <3>1
    <3>3. expected = FedCount
      BY <3>2 DEF Consistent
    <3> QED BY <2>2, <3>1, <3>2, <3>3
  <2> QED BY <2>1, <2>2
<1>3. Stored = [slots EXCEPT ![slot] = FedData]
  BY DEF Stored
<1> HIDE DEF slots, slot
<1> QED BY <1>1, <1>2, <1>3, ExceptSeq

LEMMA FeedEffect ==
    ASSUME LinkTypes, Feed
    PROVE  /\ Feeding
           /\ \/ UNCHANGED <<segments, expected>>
              \/ segments' = << >> /\ expected' = 0
              \/ segments' \in Seq(Seq(Bytes)) /\ Len(segments') = expected' /\ expected' \in 1..16
<1>0. Feeding /\ air # << >>
  BY DEF Feed, FeedEmpty, FeedSingle, FeedInconsistent, FeedOutOfRange, FeedStore, Feeding
<1>1. CASE FeedEmpty
  BY <1>0, <1>1 DEF FeedEmpty
<1>2. CASE FeedSingle
  BY <1>0, <1>2 DEF FeedSingle, Reset
<1>3. CASE FeedInconsistent \/ FeedOutOfRange
  BY <1>0, <1>3 DEF FeedInconsistent, FeedOutOfRange, Reset, Multi
<1>4. CASE FeedStore
  <2>1. Stored \in Seq(Seq(Bytes)) /\ Len(Stored) = FedCount /\ FedCount \in 1..16
    BY <1>0, <1>4, StoredType, FedType DEF FeedStore, Multi
  <2> QED BY <1>0, <1>4, <2>1 DEF FeedStore, Reset, Multi
<1> QED BY <1>1, <1>2, <1>3, <1>4 DEF Feed

LEMMA TypesFed ==
    ASSUME LinkTypes, Feed
    PROVE  LinkTypes'
<1>1. /\ air # << >> /\ air' = Tail(air) /\ UNCHANGED <<sent, damaged, losses>>
  BY FeedEffect DEF Feeding
<1>2. /\ air' \in Seq(Item)
      /\ \A n \in 1..Len(air') : air'[n].packet \in 1..Len(sent')
  <2>1. \A n \in 1..Len(air) : air[n].packet \in 1..Len(sent)
    BY DEF LinkTypes, LinkTypeOK
  <2> QED BY <1>1, <2>1, FirstItem
<1>3. /\ segments' \in Seq(Seq(Bytes)) /\ Len(segments') \in {0, expected'}
      /\ expected' \in 0..16
  <2>1. segments \in Seq(Seq(Bytes)) /\ Len(segments) \in {0, expected} /\ expected \in 0..16
    BY DEF LinkTypes, LinkTypeOK
  <2>2. << >> \in Seq(Seq(Bytes)) /\ Len(<< >>) = 0
    OBVIOUS
  <2>3. CASE UNCHANGED <<segments, expected>>
    BY <2>1, <2>3
  <2>4. CASE segments' = << >> /\ expected' = 0
    BY <2>2, <2>4
  <2>5. CASE segments' \in Seq(Seq(Bytes)) /\ Len(segments') = expected' /\ expected' \in 1..16
    BY <2>5
  <2> QED BY <2>3, <2>4, <2>5, FeedEffect
<1>4. \A n \in 1..Len(segments') : segments'[n] \in Seq(Bytes)
  BY <1>3
<1>5. LinkTypeOK'
  BY <1>1, <1>2, <1>3, <1>4 DEF LinkTypes, LinkTypeOK
<1> QED BY <1>2, <1>3, <1>5 DEF LinkTypes

-----------------------------------------------------------------------------
(* What a packet is cut into: segment k of a packet of l bytes holds the   *)
(* bytes from Start(k) on.                                                 *)

Start(k) == (k - 1) * SegmentDataSize
Count(l) == IF l = 0 THEN 1 ELSE SegmentCount(l)
ChunkLength(l, k) == IF k < Count(l) THEN SegmentDataSize ELSE l - Start(k)
Chunk(i, l, k) == [r \in 1..ChunkLength(l, k) |-> <<i, Start(k) + r>>]
Cut(i, l, k) == <<Header(Count(l) - 1, k - 1)>> \o Chunk(i, l, k)

LEMMA StartFacts ==
    /\ Start(1) = 0
    /\ \A k \in Nat \ {0} : Start(k) \in Nat /\ Start(k + 1) = Start(k) + SegmentDataSize
    /\ \A j, k \in Nat \ {0} : j < k => Start(j) + SegmentDataSize <= Start(k)
<1>1. SegmentDataSize \in Nat \ {0}
  BY SegmentationAssumption
<1>2. ASSUME NEW s \in Nat \ {0}
      PROVE  /\ (1 - 1) * s = 0
             /\ \A k \in Nat \ {0} :
                  (k - 1) * s \in Nat /\ ((k + 1) - 1) * s = (k - 1) * s + s
  OBVIOUS
<1>3. ASSUME NEW s \in Nat \ {0}, NEW j \in Nat \ {0}, NEW k \in Nat \ {0}, j < k
      PROVE  (j - 1) * s + s <= (k - 1) * s
  <2>1. j \in Nat /\ k - 1 \in Nat /\ j <= k - 1
    BY <1>3
  <2>2. j * s <= (k - 1) * s
    BY <2>1, TimesMonotonic
  <2> QED BY <2>2
<1> QED BY <1>1, <1>2, <1>3 DEF Start

LEMMA StartTimes == \A k \in Nat \ {0} : k * SegmentDataSize = Start(k) + SegmentDataSize
<1>1. ASSUME NEW s \in Nat \ {0} PROVE \A k \in Nat \ {0} : k * s = (k - 1) * s + s
  OBVIOUS
<1> QED BY <1>1, SegmentationAssumption DEF Start

LEMMA CountFacts ==
    ASSUME NEW l \in 0..MaxPacketSize
    PROVE  /\ Count(l) \in 1..16
           /\ l \in Nat /\ Start(Count(l)) \in Nat /\ Start(Count(l)) <= l
           /\ l <= Start(Count(l)) + SegmentDataSize
           /\ l > 0 => Start(Count(l)) < l
           /\ Count(l) > 1 => l > 0
           /\ \A k \in 1..Count(l) :
                /\ k < Count(l) => k <= l \div SegmentDataSize
                /\ k = Count(l) => k > l \div SegmentDataSize \/ k * SegmentDataSize = l
<1> DEFINE s == SegmentDataSize
<1>1. l \in Nat /\ s \in Nat \ {0}
  BY SizeType, SegmentationAssumption
<1>2. PICK q \in Nat, r \in Nat : q = l \div s /\ r = l % s /\ r < s /\ l = s * q + r
  BY <1>1, Division
<1>3. CASE l = 0
  BY <1>1, <1>3, StartFacts DEF Count, Start
<1>4. CASE l > 0
  <2>1. SegmentCount(l) \in 0..16 /\ SegmentCount(l) > 0
    BY <1>4, CountType
  <2>2. Count(l) = q + (IF r > 0 THEN 1 ELSE 0) /\ Count(l) \in 1..16
    BY <1>2, <1>4, <2>1 DEF Count, SegmentCount
  <2>3. Start(q + 1) = s * q
    BY <1>1, <1>2 DEF Start
  <2>4. CASE r > 0
    <3>1. Count(l) = q + 1
      BY <2>2, <2>4
    <3>2. l = Start(Count(l)) + r
      BY <1>2, <2>3, <3>1
    <3>3. Start(Count(l)) \in Nat
      BY <1>2, <3>1, StartFacts
    <3> QED BY <1>1, <1>2, <1>4, <2>2, <2>4, <3>1, <3>2, <3>3
  <2>5. CASE r = 0
    <3>1. Count(l) = q /\ q \in Nat \ {0} /\ l = s * q
      BY <1>1, <1>2, <2>2, <2>5
    <3>2. Start(q) \in Nat /\ Start(q + 1) = Start(q) + s /\ q * s = Start(q) + s
      BY <3>1, StartFacts, StartTimes
    <3>3. l = Start(q) + s
      BY <1>1, <2>3, <3>1, <3>2
    <3>4. \A k \in 1..Count(l) : (k < Count(l) => k <= q) /\ (k = Count(l) => k * s = l)
      BY <1>1, <2>3, <3>1, <3>2
    <3> HIDE DEF s
    <3> QED BY <1>1, <1>2, <1>4, <2>2, <3>1, <3>2, <3>3, <3>4 DEF s
  <2> QED BY <1>2, <2>4, <2>5
<1> QED BY <1>1, <1>3, <1>4

\* Every segment but the last is full, none but that of an empty packet is empty.
LEMMA ChunkFacts ==
    ASSUME NEW l \in 0..MaxPacketSize, NEW k \in 1..Count(l), NEW i \in 1..MaxPackets
    PROVE  /\ k \in Nat \ {0} /\ Start(k) \in Nat /\ ChunkLength(l, k) \in 0..SegmentDataSize
           /\ Start(k) + ChunkLength(l, k) <= l
           /\ k < Count(l) => ChunkLength(l, k) = SegmentDataSize
           /\ k = Count(l) => Start(k) + ChunkLength(l, k) = l
           /\ l > 0 => ChunkLength(l, k) > 0
           /\ Chunk(i, l, k) \in Seq(Bytes) /\ Len(Chunk(i, l, k)) = ChunkLength(l, k)
           /\ \A r \in 1..ChunkLength(l, k) : Chunk(i, l, k)[r] = <<i, Start(k) + r>>
<1> DEFINE s == SegmentDataSize
           c == Count(l)
           length == ChunkLength(l, k)
<1>1. s \in Nat \ {0} /\ c \in 1..16 /\ k \in Nat \ {0} /\ l \in Nat /\ l <= MaxPacketSize
  BY CountFacts, SizeType, SegmentationAssumption
<1>2. /\ Start(k) \in Nat /\ Start(c) \in Nat /\ Start(c) <= l /\ l <= Start(c) + s
      /\ l > 0 => Start(c) < l
      /\ k < c => Start(k) + s <= Start(c)
  <2>1. Start(c) \in Nat /\ Start(c) <= l /\ l <= Start(c) + s /\ (l > 0 => Start(c) < l)
    BY CountFacts
  <2>2. Start(k) \in Nat
    BY <1>1, StartFacts
  <2>4. c \in Nat \ {0}
    BY <1>1
  <2> HIDE DEF c, s
  <2>3. k < c => Start(k) + s <= Start(c)
    BY <1>1, <2>2, <2>4, StartFacts DEF s
  <2> QED BY <2>1, <2>2, <2>3
<1>3. length = IF k < c THEN s ELSE l - Start(k)
  BY DEF ChunkLength
<1> HIDE DEF s, c, length
<1>4. /\ length \in 0..s /\ Start(k) + length <= l
      /\ k < c => length = s
      /\ k = c => Start(k) + length = l
      /\ l > 0 => length > 0
  BY <1>1, <1>2, <1>3 DEF c
<1>5. \A r \in 1..length : <<i, Start(k) + r>> \in Bytes
  BY <1>1, <1>2, <1>4, SizeType DEF Bytes
<1>6. Chunk(i, l, k) = [r \in 1..length |-> <<i, Start(k) + r>>]
  BY DEF Chunk, length
<1>7. length \in Nat
  BY <1>1, <1>4
<1>8. Chunk(i, l, k) \in Seq(Bytes) /\ Len(Chunk(i, l, k)) = length
  BY <1>5, <1>6, <1>7
<1> QED BY <1>1, <1>2, <1>4, <1>6, <1>8 DEF s, c, length

LEMMA PacketFacts ==
    ASSUME NEW l \in 0..MaxPacketSize, NEW i \in 1..MaxPackets
    PROVE  /\ PacketOf(i, l) \in Seq(Bytes) /\ Len(PacketOf(i, l)) = l
           /\ \A j \in 1..l : PacketOf(i, l)[j] = <<i, j>>
<1>1. l \in Nat /\ \A j \in 1..l : <<i, j>> \in Bytes
  BY SizeType DEF Bytes
<1> QED BY <1>1 DEF PacketOf

\* segment() cuts a packet as Cut says.
LEMMA SegmentCut ==
    ASSUME NEW l \in 0..MaxPacketSize, NEW i \in 1..MaxPackets
    PROVE  /\ Len(Segment(PacketOf(i, l))) = Count(l)
           /\ \A k \in 1..Count(l) : Segment(PacketOf(i, l))[k] = Cut(i, l, k)
<1> DEFINE data == PacketOf(i, l)
<1>1. data \in Seq(Bytes) /\ Len(data) = l /\ \A j \in 1..l : data[j] = <<i, j>>
  BY PacketFacts
<1>2. l \in Nat /\ Count(l) \in 1..16
  BY CountFacts
<1> HIDE DEF data
<1>3. CASE l = 0
  <2>1. data = << >> /\ Count(l) = 1
    BY <1>1, <1>3 DEF Count
  <2>2. ChunkLength(l, 1) = 0
    BY <1>3, <2>1, StartFacts DEF ChunkLength
  <2>3. Chunk(i, l, 1) = << >>
    BY <2>2 DEF Chunk
  <2>4. Header(Count(l) - 1, 1 - 1) = 0
    BY <2>1 DEF Header
  <2>5. Cut(i, l, 1) = <<0>>
    <3>1. <<0>> \o << >> = <<0>>
      OBVIOUS
    <3> QED BY <2>3, <2>4, <3>1 DEF Cut
  <2>6. Segment(data) = << <<0>> >>
    BY <2>1 DEF Segment
  <2>7. \A k \in 1..Count(l) : k = 1
    BY <2>1
  <2> QED BY <2>1, <2>5, <2>6, <2>7 DEF data
<1>4. CASE l > 0
  <2> DEFINE total == SegmentCount(l)
             full == l \div SegmentDataSize
             End(k) == IF k <= full THEN k * SegmentDataSize ELSE l
             part(k) == <<Header(total - 1, k - 1)>>
                           \o SubSeq(data, (k - 1) * SegmentDataSize + 1, End(k))
  <2>1. data # << >> /\ total = Count(l)
    BY <1>1, <1>4 DEF Count
  <2>2. Segment(data) = [k \in 1..total |-> part(k)]
    BY <1>1, <2>1 DEF Segment
  <2>3. ASSUME NEW k \in 1..Count(l) PROVE part(k) = Cut(i, l, k)
    <3>1. /\ k \in Nat \ {0} /\ Start(k) \in Nat /\ ChunkLength(l, k) \in Nat
          /\ Start(k) + ChunkLength(l, k) <= l
          /\ k < Count(l) => ChunkLength(l, k) = SegmentDataSize
          /\ k = Count(l) => Start(k) + ChunkLength(l, k) = l
          /\ ChunkLength(l, k) > 0
          /\ Chunk(i, l, k) \in Seq(Bytes) /\ Len(Chunk(i, l, k)) = ChunkLength(l, k)
          /\ \A r \in 1..ChunkLength(l, k) : Chunk(i, l, k)[r] = <<i, Start(k) + r>>
      BY <1>4, ChunkFacts, SegmentationAssumption
    <3>2. (k < Count(l) => k <= full)
          /\ (k = Count(l) => k > full \/ k * SegmentDataSize = l)
      BY CountFacts
    <3>3. full \in Nat /\ k \in Nat /\ k <= Count(l)
      BY <1>2, FullSegments, SegmentationAssumption
    <3>4. Start(k) + SegmentDataSize = k * SegmentDataSize
      BY <3>1, StartTimes
    <3>5. End(k) = Start(k) + ChunkLength(l, k)
      <4>1. CASE k < Count(l)
        BY <3>1, <3>2, <3>4, <4>1
      <4>2. CASE k = Count(l) /\ k * SegmentDataSize = l
        BY <3>1, <4>2
      <4>3. CASE k = Count(l) /\ k > full
        <5>1. ~(k <= full)
          BY ONLY <3>3, <4>3
        <5> QED BY <3>1, <4>3, <5>1
      <4> QED BY <1>2, <3>2, <3>3, <4>1, <4>2, <4>3
    <3> DEFINE sub == SubSeq(data, Start(k) + 1, Start(k) + ChunkLength(l, k))
    <3>7. sub \in Seq(Bytes) /\ Len(sub) = ChunkLength(l, k)
          /\ \A r \in 1..ChunkLength(l, k) : sub[r] = data[Start(k) + r]
      <4>1. /\ data \in Seq(Bytes) /\ Start(k) \in Nat /\ ChunkLength(l, k) \in Nat
            /\ Start(k) + ChunkLength(l, k) <= Len(data)
        BY <1>1, <3>1
      <4> QED BY ONLY <4>1, Slice DEF sub
    <3>8. \A r \in 1..ChunkLength(l, k) : sub[r] = Chunk(i, l, k)[r]
      <4> SUFFICES ASSUME NEW r \in 1..ChunkLength(l, k) PROVE sub[r] = Chunk(i, l, k)[r]
        OBVIOUS
      <4>1. Start(k) + r \in 1..l
        BY <1>2, <3>1
      <4> HIDE DEF sub
      <4> QED BY <1>1, <3>1, <3>7, <4>1
    <3> HIDE DEF sub
    <3>9. sub = Chunk(i, l, k)
      BY <3>1, <3>7, <3>8, SeqEqual
    <3> QED BY <2>1, <3>5, <3>9 DEF Cut, sub, Start
  <2> HIDE DEF part, total
  <2>4. Count(l) \in Nat
    BY <1>2
  <2> QED BY <2>1, <2>2, <2>3, <2>4 DEF data
<1> QED BY <1>2, <1>3, <1>4

LEMMA HeaderParts ==
    ASSUME NEW max \in 0..15, NEW current \in 0..15
    PROVE  /\ Header(max, current) \in 0..255
           /\ MaxIndex(Header(max, current)) = max
           /\ CurrentIndex(Header(max, current)) = current
           /\ Header(max, current) = 0 <=> max = 0 /\ current = 0
BY DEF Header, MaxIndex, CurrentIndex

\* What feed reads out of a segment that was not garbled.
LEMMA CutFacts ==
    ASSUME NEW l \in 0..MaxPacketSize, NEW k \in 1..Count(l), NEW i \in 1..MaxPackets
    PROVE  LET t == Cut(i, l, k)
           IN  /\ t # << >> /\ t[1] \in 0..255 /\ Tail(t) = Chunk(i, l, k)
               /\ t[1] = 0 <=> Count(l) = 1
               /\ MaxIndex(t[1]) = Count(l) - 1 /\ CurrentIndex(t[1]) = k - 1
               /\ IsLastSegment(t) <=> k = Count(l)
               /\ t # <<Header(1, 2)>>
<1> DEFINE t == Cut(i, l, k)
           h == Header(Count(l) - 1, k - 1)
<1>0. PICK c \in 1..16 : c = Count(l)
  BY CountFacts
<1>1. Count(l) - 1 \in 0..15 /\ k - 1 \in 0..15 /\ Count(l) \in 1..16 /\ k \in 1..16 /\ k <= Count(l)
  <2>1. k \in 1..c
    BY <1>0
  <2>2. c - 1 \in 0..15 /\ k - 1 \in 0..15 /\ k \in 1..16 /\ k <= c
    BY ONLY c \in 1..16, <2>1
  <2> QED BY <1>0, <2>2
<1>2. /\ h \in 0..255 /\ MaxIndex(h) = Count(l) - 1 /\ CurrentIndex(h) = k - 1
      /\ h = 0 <=> Count(l) - 1 = 0 /\ k - 1 = 0
  <2>1. PICK x \in 0..15, y \in 0..15 : x = Count(l) - 1 /\ y = k - 1
    BY ONLY <1>1
  <2>2. /\ Header(x, y) \in 0..255
        /\ MaxIndex(Header(x, y)) = x /\ CurrentIndex(Header(x, y)) = y
        /\ Header(x, y) = 0 <=> x = 0 /\ y = 0
    BY ONLY x \in 0..15, y \in 0..15, HeaderParts
  <2> QED BY ONLY <2>1, <2>2 DEF h
<1>3. Chunk(i, l, k) \in Seq(Bytes) /\ (Count(l) > 1 => Len(Chunk(i, l, k)) > 0)
  <2>1. Count(l) > 1 => l > 0
    BY CountFacts
  <2>2. /\ l > 0 => ChunkLength(l, k) > 0
        /\ Chunk(i, l, k) \in Seq(Bytes) /\ Len(Chunk(i, l, k)) = ChunkLength(l, k)
    BY ChunkFacts
  <2> QED BY ONLY <2>1, <2>2
<1> HIDE DEF h
<1>4. t = <<h>> \o Chunk(i, l, k)
  BY DEF Cut, h
<1> HIDE DEF t
<1>5. t # << >> /\ t[1] = h /\ Tail(t) = Chunk(i, l, k)
  BY ONLY <1>2, <1>3, <1>4, PartType
<1>6. t[1] = 0 <=> Count(l) = 1
  <2>1. c - 1 = 0 <=> c = 1
    BY ONLY c \in 1..16
  <2>2. ASSUME c = 1 PROVE k - 1 = 0
    <3>1. k \in 1..1
      BY <1>0, <2>2
    <3> QED BY ONLY <3>1
  <2> QED BY ONLY <1>0, <1>2, <1>5, <2>1, <2>2
<1>7. IsLastSegment(t) <=> k = Count(l)
  <2>1. /\ MaxIndex(t[1]) = c - 1 /\ CurrentIndex(t[1]) = k - 1 /\ k <= c
        /\ t[1] = 0 <=> c = 1
    BY ONLY <1>0, <1>1, <1>2, <1>5, <1>6
  <2>2. /\ k - 1 = c - 1 <=> k = c
        /\ c = 1 => k = c
    BY ONLY <1>1, <2>1, c \in 1..16
  <2> QED BY ONLY <1>0, <1>5, <2>1, <2>2 DEF IsLastSegment
<1>8. t # <<Header(1, 2)>>
  <2> SUFFICES ASSUME t = <<Header(1, 2)>> PROVE FALSE
    OBVIOUS
  <2>1. Header(1, 2) # 0
    BY GarbledHeader
  <2>2. t[1] # 0 /\ Count(l) > 1
    BY <1>1, <1>6, <2>1
  <2>3. Tail(<<Header(1, 2)>>) = << >>
    OBVIOUS
  <2> QED BY <1>3, <1>5, <2>2, <2>3
<1> QED BY <1>2, <1>5, <1>6, <1>7, <1>8 DEF t

-----------------------------------------------------------------------------
(* Putting the slots together again.                                       *)

\* The recursive function in FlattenSeq exists.
LEMMA FlattenExists ==
    ASSUME NEW x, NEW N \in Nat \ {0}
    PROVE  \E f : f = [i \in 1..N |-> IF i = 1 THEN x[i] ELSE f[i - 1] \o x[i]]
<1> DEFINE Def(n, f) == [i \in 1..n |-> IF i = 1 THEN x[i] ELSE f[i - 1] \o x[i]]
           Exists(n) == \E f : f = Def(n, f)
           T == {n \in 1..N : ~ Exists(n)}
<1> HIDE DEF Exists
<1>1. ASSUME T # {} PROVE FALSE
  <2>1. T \in SUBSET Nat
    OBVIOUS
  <2>2. PICK n \in T : \A m \in T : n <= m
    BY <1>1, <2>1, Least
  <2>3. n \in 1..N /\ ~ Exists(n)
    OBVIOUS
  <2>4. CASE n = 1
    <3> DEFINE f == [i \in 1..1 |-> x[i]]
    <3>1. f = Def(1, f)
      OBVIOUS
    <3> QED BY <2>3, <2>4, <3>1 DEF Exists
  <2>5. CASE n > 1
    <3>1. n - 1 \in 1..N /\ n - 1 \notin T
      BY <2>2, <2>3, <2>5
    <3>2. PICK f : f = Def(n - 1, f)
      BY <3>1 DEF Exists
    <3> DEFINE g == [i \in 1..n |-> IF i < n THEN f[i] ELSE f[i - 1] \o x[i]]
    <3>3. \A i \in 1..(n - 1) : f[i] = IF i = 1 THEN x[i] ELSE f[i - 1] \o x[i]
      BY <3>2
    <3>4. \A i \in 1..n : g[i] = IF i = 1 THEN x[i] ELSE g[i - 1] \o x[i]
      <4> SUFFICES ASSUME NEW i \in 1..n PROVE g[i] = IF i = 1 THEN x[i] ELSE g[i - 1] \o x[i]
        OBVIOUS
      <4>1. CASE i = 1
        <5>1. i < n /\ i \in 1..(n - 1)
          BY <2>3, <2>5, <4>1
        <5> QED BY <3>3, <4>1, <5>1
      <4>2. CASE i # 1
        <5>1. i - 1 \in 1..n /\ i - 1 < n /\ i - 1 \in 1..(n - 1) /\ (i < n => i \in 1..(n - 1))
          BY <2>3, <4>2
        <5>2. g[i - 1] = f[i - 1]
          BY <5>1
        <5>3. g[i] = f[i - 1] \o x[i]
          BY <3>3, <4>2, <5>1
        <5> QED BY <4>2, <5>2, <5>3
      <4> QED BY <4>1, <4>2
    <3>5. g = Def(n, g)
      <4>1. g = [i \in 1..n |-> g[i]]
        OBVIOUS
      <4> HIDE DEF g
      <4> QED BY <3>4, <4>1
    <3> QED BY <2>3, <3>5 DEF Exists
  <2> QED BY <2>3, <2>4, <2>5
<1>2. N \in 1..N
  OBVIOUS
<1> QED BY <1>1, <1>2 DEF Exists

\* Slots that are full but for the last, one behind the other.
LEMMA Flattened ==
    ASSUME NEW S, NEW N \in Nat \ {0}, NEW x \in Seq(Seq(S)), Len(x) = N,
           \A k \in 1..N : k < N => Len(x[k]) = SegmentDataSize
    PROVE  /\ FlattenSeq(x) \in Seq(S)
           /\ Len(FlattenSeq(x)) = Start(N) + Len(x[N])
           /\ \A k \in 1..N : \A r \in 1..Len(x[k]) : FlattenSeq(x)[Start(k) + r] = x[k][r]
<1> DEFINE f == CHOOSE f : f = [i \in 1..N |-> IF i = 1 THEN x[i] ELSE f[i - 1] \o x[i]]
           Whole(y, n) ==
                /\ y \in Seq(S) /\ Len(y) = Start(n) + Len(x[n])
                /\ \A k \in 1..n : \A r \in 1..Len(x[k]) : y[Start(k) + r] = x[k][r]
           T == {n \in 1..N : ~ Whole(f[n], n)}
<1>1. FlattenSeq(x) = f[N]
  BY DEF FlattenSeq
<1>2. f = [i \in 1..N |-> IF i = 1 THEN x[i] ELSE f[i - 1] \o x[i]]
  BY FlattenExists
<1> HIDE DEF f
<1>3. \A i \in 1..N : f[i] = IF i = 1 THEN x[i] ELSE f[i - 1] \o x[i]
  BY <1>2
<1>4. \A k \in 1..N : x[k] \in Seq(S) /\ Len(x[k]) \in Nat
  OBVIOUS
<1>5. ASSUME T # {} PROVE FALSE
  <2>1. T \in SUBSET Nat
    OBVIOUS
  <2> HIDE DEF Whole
  <2>2. PICK n \in T : \A m \in T : n <= m
    BY <1>5, <2>1, Least
  <2>3. n \in 1..N /\ ~ Whole(f[n], n) /\ n \in Nat
    OBVIOUS
  <2>4. CASE n = 1
    <3>1. f[1] = x[1] /\ x[1] \in Seq(S) /\ Len(x[1]) \in Nat
      BY <1>3, <1>4, <2>3, <2>4
    <3>2. \A k \in 1..1 : k = 1
      OBVIOUS
    <3>3. \A r \in 1..Len(x[1]) : 0 + r = r
      OBVIOUS
    <3>4. 0 + Len(x[1]) = Len(x[1])
      BY <3>1
    <3>5. Start(1) = 0
      BY StartFacts
    <3>6. Whole(x[1], 1)
      BY <3>1, <3>2, <3>3, <3>4, <3>5 DEF Whole
    <3> QED BY <2>3, <2>4, <3>1, <3>6
  <2>5. CASE n > 1
    <3>1. PICK m \in Nat \ {0} : m = n - 1 /\ m \in 1..N /\ m < N /\ n = m + 1 /\ m \notin T
      BY <2>2, <2>3, <2>5
    <3>2. Whole(f[m], m)
      BY <3>1
    <3>3. f[n] = f[m] \o x[n]
      <4>1. n \in 1..N /\ n # 1 /\ n - 1 = m
        BY <2>3, <2>5, <3>1
      <4>2. f[n] = IF n = 1 THEN x[n] ELSE f[n - 1] \o x[n]
        BY <1>3, <4>1
      <4> QED BY <4>1, <4>2
    <3>4. PICK y \in Seq(S) :
             /\ y = f[m] /\ Len(y) = Start(m) + Len(x[m])
             /\ \A k \in 1..m : \A r \in 1..Len(x[k]) : y[Start(k) + r] = x[k][r]
      BY <3>2 DEF Whole
    <3>5. PICK z \in Seq(S) : z = x[n] /\ Len(z) \in Nat
      BY <1>4, <2>3
    <3>6. Len(y) = Start(n)
      <4>1. Len(x[m]) = SegmentDataSize
        BY <3>1
      <4>2. Start(m + 1) = Start(m) + SegmentDataSize
        BY <3>1, StartFacts
      <4> QED BY <3>1, <3>4, <4>1, <4>2
    <3>7. /\ y \o z \in Seq(S) /\ Len(y \o z) = Len(y) + Len(z)
          /\ \A j \in 1..Len(y) : (y \o z)[j] = y[j]
          /\ \A j \in 1..Len(z) : (y \o z)[Len(y) + j] = z[j]
      BY ONLY y \in Seq(S), z \in Seq(S), Joined
    <3>8. ASSUME NEW k \in 1..n, NEW r \in 1..Len(x[k])
          PROVE  (y \o z)[Start(k) + r] = x[k][r]
      <4>1. CASE k = n
        BY <3>5, <3>6, <3>7, <3>8, <4>1
      <4>2. CASE k # n
        <5>1. k \in 1..m /\ k \in Nat \ {0} /\ k \in 1..N /\ k < N /\ k < n
          BY <2>3, <3>1, <4>2
        <5>2. Start(k) + SegmentDataSize <= Start(n) /\ Start(k) \in Nat /\ Start(n) \in Nat
          BY <2>3, <2>5, <5>1, StartFacts
        <5>3. Len(x[k]) = SegmentDataSize
          BY <5>1
        <5>4. Start(k) + r \in 1..Len(y)
          <6>1. r \in Nat \ {0} /\ r <= SegmentDataSize /\ SegmentDataSize \in Nat
            BY <3>8, <5>3, SegmentationAssumption
          <6>2. Start(k) + r <= Start(n) /\ Start(k) + r > 0 /\ Start(k) + r \in Nat
            BY <5>2, <6>1
          <6> QED BY <3>6, <6>2
        <5> QED BY <3>4, <3>7, <3>8, <5>1, <5>4
      <4> QED BY <4>1, <4>2
    <3>9. Whole(y \o z, n)
      BY <3>5, <3>6, <3>7, <3>8 DEF Whole
    <3> QED BY <2>3, <3>3, <3>4, <3>5, <3>9
  <2> QED BY <2>3, <2>4, <2>5
<1>6. Whole(f[N], N)
  <2>1. N \in 1..N
    OBVIOUS
  <2> QED BY ONLY <1>5, <2>1
<1> QED BY <1>1, <1>6

\* Every byte of a packet lies in one of its segments.
LEMMA Placed ==
    ASSUME NEW N \in Nat \ {0}, NEW last \in Nat, last <= SegmentDataSize,
           NEW j \in 1..Start(N) + last
    PROVE  \E k \in 1..N : \E r \in 1..(IF k < N THEN SegmentDataSize ELSE last) : j = Start(k) + r
<1> DEFINE T == {k \in 1..N : Start(k) < j}
<1>1. SegmentDataSize \in Nat \ {0}
  BY SegmentationAssumption
<1>2. Start(1) = 0 /\ Start(N) \in Nat /\ j \in Nat \ {0} /\ j <= Start(N) + last
  BY StartFacts
<1>3. CASE Start(N) < j
  <2>1. PICK r \in Nat : r = j - Start(N)
    BY <1>2, <1>3
  <2>2. r \in 1..last /\ j = Start(N) + r /\ N \in 1..N /\ ~(N < N)
    BY <1>2, <1>3, <2>1
  <2> QED BY <2>2
<1>4. CASE ~(Start(N) < j)
  <2> DEFINE U == {k \in Nat \ {0} : j <= Start(k)}
  <2>1. U \in SUBSET Nat /\ N \in U
    BY <1>2, <1>4
  <2>2. PICK m \in U : \A n \in U : m <= n
    BY <2>1, Least
  <2>3. m \in Nat \ {0} /\ j <= Start(m) /\ m <= N
    BY <2>1, <2>2
  <2>4. m # 1
    BY <1>2, <2>3
  <2>5. PICK k \in Nat \ {0} : k = m - 1 /\ m = k + 1
    BY <2>3, <2>4
  <2>6. k \notin U /\ k \in 1..N /\ k < N
    BY <2>2, <2>3, <2>5
  <2>7. Start(k) \in Nat /\ Start(m) = Start(k) + SegmentDataSize
    BY <2>5, StartFacts
  <2>8. Start(k) < j
    BY <1>2, <2>6, <2>7
  <2>9. PICK r \in Nat : r = j - Start(k)
    BY <1>2, <2>7, <2>8
  <2>10. r \in 1..SegmentDataSize /\ j = Start(k) + r
    BY <1>1, <1>2, <2>3, <2>7, <2>8, <2>9
  <2> QED BY <2>6, <2>10
<1> QED BY <1>3, <1>4

-----------------------------------------------------------------------------
(* The link in numbers: how many segments each packet has, which packet    *)
(* and segment is in each place on the air (segment 0 if it was garbled)   *)
(* and in each slot (packet 0 if it is empty), and what was delivered      *)
(* whole.                                                                  *)

Genuine(t, l, k) == k \in 1..Count(l) /\ t.segment = Cut(t.packet, l, k)
Number(t, l) ==
    IF \E k \in 1..16 : Genuine(t, l, k) THEN CHOOSE k \in 1..16 : Genuine(t, l, k) ELSE 0
Origin(slot) == IF slot = << >> THEN 0 ELSE slot[1][1]

Counts == [i \in 1..Len(sent) |-> Count(Len(sent[i]))]
Owners == [n \in 1..Len(air) |-> air[n].packet]
Numbers == [n \in 1..Len(air) |-> Number(air[n], Len(sent[air[n].packet]))]
Origins == [k \in 1..Len(segments) |-> Origin(segments[k])]
Whole == {i \in 1..Len(Counts) : DeliveredWhole(i)}

ViewTypes ==
    /\ Counts \in Seq(1..16) /\ damaged \subseteq 1..Len(Counts)
    /\ Owners \in Seq(1..Len(Counts)) /\ Numbers \in Seq(0..16) /\ Len(Numbers) = Len(Owners)
    /\ Origins \in Seq(Nat) /\ expected \in 0..16 /\ Len(Origins) = expected

\* Packets come one after the other, and the segments of each from the first on that is
\* left.  Of a packet that was not damaged all are left, from there on.
Rising ==
    \A m, n \in 1..Len(Owners) : m < n =>
        \/ Owners[m] < Owners[n]
        \/ Owners[m] = Owners[n] /\ Numbers[m] < Numbers[n] /\ Numbers[n] >= 2
Stepwise ==
    \A n \in 1..(Len(Owners) - 1) :
        IF Owners[n + 1] = Owners[n] THEN Numbers[n] = 0 \/ Numbers[n + 1] = Numbers[n] + 1
        ELSE Numbers[n + 1] = 1
Numbered ==
    \A n \in 1..Len(Owners) :
        /\ Numbers[n] <= Counts[Owners[n]]
        /\ Numbers[n] = 0 => n = 1 /\ Owners[1] \in damaged
Unbroken ==
    \A n \in 1..Len(Owners) :
        Owners[n] \notin damaged /\ Numbers[n] < Counts[Owners[n]] =>
            n < Len(Owners) /\ Owners[n + 1] = Owners[n]
Present ==
    \A i \in 1..Len(Counts) : \A n \in 1..Len(Owners) :
        i \notin damaged /\ Owners[n] < i => \E m \in 1..Len(Owners) : Owners[m] = i

InOrder == Rising /\ Stepwise /\ Numbered /\ Unbroken /\ Present

Gone(i) == \A n \in 1..Len(Owners) : Owners[n] # i

\* The slots hold segments of packets with as many, and older than what is on the air.
InSlots ==
    /\ expected > 0 => expected >= 2 /\ \E k \in 1..expected : Origins[k] # 0
    /\ \A k \in 1..expected : Origins[k] # 0 =>
        /\ Origins[k] \in 1..Len(Counts) /\ Counts[Origins[k]] = expected
        /\ \A n \in 1..Len(Owners) :
            \/ Origins[k] < Owners[n]
            \/ Origins[k] = Owners[n] /\ (Numbers[n] = 0 \/ k < Numbers[n])

Holds(k, i) == k \in 1..expected /\ Origins[k] = i

\* Of a packet that was damaged a segment is missing for good.
Lacking ==
    \A i \in damaged : \E k \in 1..Counts[i] :
        ~ Holds(k, i) /\ \A n \in 1..Len(Owners) : Owners[n] = i => Numbers[n] # k

\* What Recovers asks of the packet before.
Follows(i) ==
    \/ i = 1
    \/ i - 1 \notin damaged /\ Gone(i - 1) /\ (i - 1 \in Whole \/ Counts[i - 1] = Counts[i])

\* A packet that is half fed has all it was fed in the slots but maybe the first segment,
\* which is there if it came in time.
InStep ==
    Len(Owners) > 0 /\ Owners[1] \notin damaged /\ Numbers[1] >= 2 =>
        /\ \A k \in 2..(Numbers[1] - 1) : Holds(k, Owners[1])
        /\ \/ Holds(1, Owners[1])
           \/ expected = 0
           \/ Origins[1] = 0 /\ Numbers[1] > 2
        /\ Follows(Owners[1]) => Holds(1, Owners[1])

Next1(p) ==
    \/ Len(Owners) = 0 /\ Len(Counts) = p
    \/ Len(Owners) > 0 /\ Owners[1] = p + 1 /\ Numbers[1] = 1

\* When a packet has come through, the slots are empty or as many as it has segments.
Ready ==
    \A p \in 1..Len(Counts) : p \notin damaged /\ Next1(p) =>
        expected \in {0, Counts[p]} /\ (p \in Whole => expected = 0)

\* No packet up to i was damaged.
Clean(i) == \A d \in damaged : d > i

Recovered ==
    \A i \in 1..Len(Counts) :
        i \notin damaged /\ Gone(i) /\ (Follows(i) \/ Clean(i) \/ Counts[i] = 1) => i \in Whole

\* What was delivered is older than what is in the slots and on the air.
WholeOld ==
    \A i \in Whole : Counts[i] >= 2 =>
        /\ \A n \in 1..Len(Owners) : i < Owners[n]
        /\ \A k \in 1..expected : Origins[k] = 0 \/ i < Origins[k]

Numeric ==
    ViewTypes /\ InOrder /\ InSlots /\ Lacking /\ InStep /\ Ready /\ Recovered /\ WholeOld

-----------------------------------------------------------------------------
(* The steps in numbers.                                                   *)

Sending(c, n) ==
    /\ c \in 1..16 /\ n \in 0..c
    /\ Len(Counts') = Len(Counts) + 1 /\ Counts'[Len(Counts) + 1] = c
    /\ \A i \in 1..Len(Counts) : Counts'[i] = Counts[i]
    /\ Len(Owners') = Len(Owners) + n
    /\ \A m \in 1..Len(Owners) : Owners'[m] = Owners[m] /\ Numbers'[m] = Numbers[m]
    /\ \A m \in Len(Owners) + 1..Len(Owners) + n :
         Owners'[m] = Len(Counts) + 1 /\ Numbers'[m] = m - Len(Owners)
    /\ \/ n = c /\ damaged' = damaged
       \/ n < c /\ damaged' = damaged \cup {Len(Counts) + 1}
    /\ Origins' = Origins /\ expected' = expected
    /\ Whole \subseteq Whole' /\ Whole' \subseteq Whole \cup {Len(Counts) + 1}
    /\ \A i \in Whole' \ Whole : Counts'[i] = 1

Passing ==
    /\ Counts' = Counts
    /\ Len(Owners) > 0 /\ Len(Owners') = Len(Owners) - 1
    /\ \A n \in 1..(Len(Owners) - 1) :
         Owners'[n] = Owners[n + 1] /\ Numbers'[n] = Numbers[n + 1]

Losing ==
    /\ Passing
    /\ damaged' = damaged \cup {Owners[1]}
    /\ Origins' = Origins /\ expected' = expected /\ Whole' = Whole

Garbling ==
    /\ Counts' = Counts
    /\ Len(Owners) > 0 /\ Len(Owners') = Len(Owners) /\ Numbers'[1] = 0
    /\ \A n \in 1..Len(Owners) :
         Owners'[n] = Owners[n] /\ (n > 1 => Numbers'[n] = Numbers[n])
    /\ damaged' = damaged \cup {Owners[1]}
    /\ Origins' = Origins /\ expected' = expected /\ Whole' = Whole

Emptied == Len(Origins') = 0 /\ expected' = 0

NewOrigin(k) == IF k = Numbers[1] THEN Owners[1] ELSE IF expected = 0 THEN 0 ELSE Origins[k]
Completing ==
    Numbers[1] = Counts[Owners[1]] /\ \A k \in 1..Counts[Owners[1]] : NewOrigin(k) # 0

WholeGrows == Whole \subseteq Whole' /\ \A i \in Whole' \ Whole : i = Owners[1] \/ Counts[i] = 1

Skipping ==
    /\ Numbers[1] = 0 /\ Whole' = Whole
    /\ Emptied \/ (Origins' = Origins /\ expected' = expected)
Single == Numbers[1] > 0 /\ Counts[Owners[1]] = 1 /\ Emptied /\ WholeGrows /\ Owners[1] \in Whole'
Many == Numbers[1] > 0 /\ Counts[Owners[1]] >= 2
Fits == expected \in {0, Counts[Owners[1]]}
Dropping == Many /\ ~Fits /\ Emptied /\ Whole' = Whole
Storing ==
    /\ Many /\ Fits /\ ~Completing
    /\ expected' = Counts[Owners[1]] /\ Whole' = Whole
    /\ \A k \in 1..Counts[Owners[1]] : Origins'[k] = NewOrigin(k)
Joining ==
    /\ Many /\ Fits /\ Completing /\ Emptied /\ WholeGrows
    /\ (\A k \in 1..Counts[Owners[1]] : NewOrigin(k) = Owners[1]) => Owners[1] \in Whole'

Receiving ==
    /\ Passing /\ damaged' = damaged
    /\ Skipping \/ Single \/ Dropping \/ Storing \/ Joining

\* The types, one by one.
LEMMA ViewFacts ==
    ASSUME ViewTypes
    PROVE  /\ Len(Counts) \in Nat /\ \A i \in 1..Len(Counts) : Counts[i] \in 1..16
           /\ Len(Owners) \in Nat
           /\ \A n \in 1..Len(Owners) :
                Owners[n] \in 1..Len(Counts) /\ Owners[n] \in Nat /\ Numbers[n] \in 0..16
                /\ Counts[Owners[n]] \in 1..16
           /\ expected \in 0..16 /\ \A k \in 1..expected : Origins[k] \in Nat
           /\ \A d \in damaged : d \in 1..Len(Counts)
<1>1. /\ Counts \in Seq(1..16) /\ damaged \subseteq 1..Len(Counts)
      /\ Owners \in Seq(1..Len(Counts)) /\ Numbers \in Seq(0..16) /\ Len(Numbers) = Len(Owners)
      /\ Origins \in Seq(Nat) /\ expected \in 0..16 /\ Len(Origins) = expected
  BY DEF ViewTypes
<1>2. Len(Counts) \in Nat /\ Len(Owners) \in Nat /\ \A i \in 1..Len(Counts) : Counts[i] \in 1..16
  BY <1>1
<1>3. ASSUME NEW n \in 1..Len(Owners) PROVE Owners[n] \in 1..Len(Counts) /\ Numbers[n] \in 0..16
  <2>1. n \in 1..Len(Numbers)
    BY <1>1
  <2>2. Owners[n] \in 1..Len(Counts)
    BY <1>1, ElementOfSeq
  <2>3. Numbers[n] \in 0..16
    BY <1>1, <2>1, ElementOfSeq
  <2> QED BY <2>2, <2>3
<1>4. \A k \in 1..expected : Origins[k] \in Nat
  BY <1>1
<1> QED BY <1>1, <1>2, <1>3, <1>4

\* What passes the head is one place further in front.
LEMMA Shifted ==
    ASSUME ViewTypes, Passing
    PROVE  /\ Len(Owners) \in Nat \ {0} /\ Len(Owners') = Len(Owners) - 1 /\ Counts' = Counts
           /\ \A n \in 1..Len(Owners') :
                /\ n + 1 \in 1..Len(Owners)
                /\ Owners'[n] = Owners[n + 1] /\ Numbers'[n] = Numbers[n + 1]
           /\ \A n \in 1..Len(Owners) : n = 1 \/ (n - 1 \in 1..Len(Owners') /\ Owners'[n - 1] = Owners[n])
           /\ 1 \in 1..Len(Owners)
<1>1. Len(Owners) \in Nat /\ Len(Owners) > 0 /\ Len(Owners') = Len(Owners) - 1 /\ Counts' = Counts
  BY ViewFacts DEF Passing
<1>2. \A n \in 1..(Len(Owners) - 1) : Owners'[n] = Owners[n + 1] /\ Numbers'[n] = Numbers[n + 1]
  BY DEF Passing
<1>3. ASSUME NEW n \in 1..Len(Owners), n # 1
      PROVE  n - 1 \in 1..Len(Owners') /\ Owners'[n - 1] = Owners[n]
  <2>1. n - 1 \in 1..Len(Owners') /\ n - 1 \in 1..(Len(Owners) - 1) /\ (n - 1) + 1 = n
    BY <1>1, <1>3
  <2> QED BY <1>2, <2>1
<1> QED BY <1>1, <1>2, <1>3

LEMMA OrderPassed ==
    ASSUME ViewTypes, InOrder, Passing,
           damaged \subseteq damaged', damaged' \subseteq damaged \cup {Owners[1]}
    PROVE  InOrder'
<1>1. /\ Len(Owners) \in Nat \ {0} /\ Len(Owners') = Len(Owners) - 1 /\ Counts' = Counts
      /\ \A n \in 1..Len(Owners') :
           n + 1 \in 1..Len(Owners) /\ Owners'[n] = Owners[n + 1] /\ Numbers'[n] = Numbers[n + 1]
      /\ \A n \in 1..Len(Owners) :
           n = 1 \/ (n - 1 \in 1..Len(Owners') /\ Owners'[n - 1] = Owners[n])
      /\ 1 \in 1..Len(Owners)
  BY Shifted
<1>2. \A n \in 1..Len(Owners) :
        Owners[n] \in Nat /\ Numbers[n] \in 0..16 /\ Counts[Owners[n]] \in 1..16
  BY ViewFacts
<1>3. Rising'
  <2> SUFFICES ASSUME NEW m \in 1..Len(Owners'), NEW n \in 1..Len(Owners'), m < n
               PROVE  \/ Owners'[m] < Owners'[n]
                      \/ Owners'[m] = Owners'[n] /\ Numbers'[m] < Numbers'[n] /\ Numbers'[n] >= 2
    BY DEF Rising
  <2>1. m + 1 \in 1..Len(Owners) /\ n + 1 \in 1..Len(Owners) /\ m + 1 < n + 1
    BY <1>1
  <2> QED BY <1>1, <2>1 DEF InOrder, Rising
<1>4. Stepwise'
  <2> SUFFICES ASSUME NEW n \in 1..(Len(Owners') - 1)
               PROVE  IF Owners'[n + 1] = Owners'[n]
                      THEN Numbers'[n] = 0 \/ Numbers'[n + 1] = Numbers'[n] + 1
                      ELSE Numbers'[n + 1] = 1
    BY DEF Stepwise
  <2>1. n \in 1..Len(Owners') /\ n + 1 \in 1..Len(Owners') /\ n + 1 \in 1..(Len(Owners) - 1)
    BY <1>1
  <2>2. IF Owners[n + 1 + 1] = Owners[n + 1]
        THEN Numbers[n + 1] = 0 \/ Numbers[n + 1 + 1] = Numbers[n + 1] + 1
        ELSE Numbers[n + 1 + 1] = 1
    BY <2>1 DEF InOrder, Stepwise
  <2> QED BY <1>1, <2>1, <2>2
<1>5. Numbered'
  <2> SUFFICES ASSUME NEW n \in 1..Len(Owners')
               PROVE  Numbers'[n] <= Counts'[Owners'[n]] /\ Numbers'[n] # 0
    BY DEF Numbered
  <2>1. n + 1 \in 1..Len(Owners) /\ n + 1 # 1
    BY <1>1
  <2> QED BY <1>1, <2>1 DEF InOrder, Numbered
<1>6. Unbroken'
  <2> SUFFICES ASSUME NEW n \in 1..Len(Owners'), Owners'[n] \notin damaged',
                      Numbers'[n] < Counts'[Owners'[n]]
               PROVE  n < Len(Owners') /\ Owners'[n + 1] = Owners'[n]
    BY DEF Unbroken
  <2>1. n + 1 \in 1..Len(Owners) /\ Owners[n + 1] \notin damaged
        /\ Numbers[n + 1] < Counts[Owners[n + 1]]
    BY <1>1
  <2>2. n + 1 < Len(Owners) /\ Owners[(n + 1) + 1] = Owners[n + 1]
    BY <2>1 DEF InOrder, Unbroken
  <2>3. n < Len(Owners') /\ n + 1 \in 1..Len(Owners')
    BY <1>1, <2>2
  <2> QED BY <1>1, <2>2, <2>3
<1>7. Present'
  <2> SUFFICES ASSUME NEW i \in 1..Len(Counts'), NEW n \in 1..Len(Owners'),
                      i \notin damaged', Owners'[n] < i
               PROVE  \E m \in 1..Len(Owners') : Owners'[m] = i
    BY DEF Present
  <2>1. n + 1 \in 1..Len(Owners) /\ Owners[n + 1] < i /\ i \in 1..Len(Counts) /\ i \notin damaged
    BY <1>1
  <2>2. PICK m \in 1..Len(Owners) : Owners[m] = i
    BY <2>1 DEF InOrder, Present
  <2>3. Owners[1] <= Owners[n + 1]
    <3>1. 1 < n + 1
      OBVIOUS
    <3> QED BY <1>1, <1>2, <2>1, <3>1 DEF InOrder, Rising
  <2>4. m # 1
    BY <1>1, <1>2, <2>1, <2>2, <2>3
  <2> QED BY <1>1, <2>2, <2>4
<1> QED BY <1>3, <1>4, <1>5, <1>6, <1>7 DEF InOrder

LEMMA OrderGarbled ==
    ASSUME ViewTypes, InOrder, Garbling
    PROVE  InOrder'
<1>1. /\ Len(Owners) \in Nat \ {0} /\ Len(Owners') = Len(Owners) /\ Counts' = Counts
      /\ \A n \in 1..Len(Owners) : Owners'[n] = Owners[n] /\ (n # 1 => Numbers'[n] = Numbers[n])
      /\ Numbers'[1] = 0 /\ 1 \in 1..Len(Owners)
      /\ damaged' = damaged \cup {Owners[1]}
  BY ViewFacts DEF Garbling
<1>2. \A n \in 1..Len(Owners) :
        Owners[n] \in Nat /\ Numbers[n] \in 0..16 /\ Counts[Owners[n]] \in 1..16
  BY ViewFacts
<1>3. Rising'
  <2> SUFFICES ASSUME NEW m \in 1..Len(Owners), NEW n \in 1..Len(Owners), m < n
               PROVE  \/ Owners'[m] < Owners'[n]
                      \/ Owners'[m] = Owners'[n] /\ Numbers'[m] < Numbers'[n] /\ Numbers'[n] >= 2
    BY <1>1 DEF Rising
  <2>1. n # 1 /\ Numbers'[n] = Numbers[n] /\ Owners'[m] = Owners[m] /\ Owners'[n] = Owners[n]
    BY <1>1
  <2>2. Numbers'[m] = Numbers[m] \/ Numbers'[m] = 0
    BY <1>1
  <2>3. \/ Owners[m] < Owners[n]
        \/ Owners[m] = Owners[n] /\ Numbers[m] < Numbers[n] /\ Numbers[n] >= 2
    BY DEF InOrder, Rising
  <2>4. Numbers[m] \in 0..16 /\ Numbers[n] \in 0..16 /\ Owners[m] \in Nat /\ Owners[n] \in Nat
    BY <1>2
  <2>5. CASE Owners[m] < Owners[n]
    BY <2>1, <2>5
  <2>6. CASE Owners[m] = Owners[n] /\ Numbers[m] < Numbers[n] /\ Numbers[n] >= 2
    <3>1. PICK x \in 0..16 : x = Numbers[n] /\ x >= 2
      BY <2>4, <2>6
    <3>2. 0 < x
      BY ONLY x \in 0..16, <3>1
    <3> QED BY <2>1, <2>2, <2>6, <3>1, <3>2
  <2> QED BY <2>3, <2>5, <2>6
<1>4. Stepwise'
  <2> SUFFICES ASSUME NEW n \in 1..(Len(Owners) - 1)
               PROVE  IF Owners'[n + 1] = Owners'[n]
                      THEN Numbers'[n] = 0 \/ Numbers'[n + 1] = Numbers'[n] + 1
                      ELSE Numbers'[n + 1] = 1
    BY <1>1 DEF Stepwise
  <2>1. n \in 1..Len(Owners) /\ n + 1 \in 1..Len(Owners) /\ n + 1 # 1
    BY <1>1
  <2>2. IF Owners[n + 1] = Owners[n] THEN Numbers[n] = 0 \/ Numbers[n + 1] = Numbers[n] + 1
        ELSE Numbers[n + 1] = 1
    BY <2>1 DEF InOrder, Stepwise
  <2> QED BY <1>1, <2>1, <2>2
<1>5. Numbered'
  BY <1>1, <1>2 DEF InOrder, Numbered
<1>6. Unbroken'
  <2> SUFFICES ASSUME NEW n \in 1..Len(Owners), Owners'[n] \notin damaged',
                      Numbers'[n] < Counts'[Owners'[n]]
               PROVE  n < Len(Owners) /\ Owners'[n + 1] = Owners'[n]
    BY <1>1 DEF Unbroken
  <2>1. n # 1 /\ Owners[n] \notin damaged /\ Numbers[n] < Counts[Owners[n]]
    BY <1>1
  <2>2. n < Len(Owners) /\ Owners[n + 1] = Owners[n]
    BY <2>1 DEF InOrder, Unbroken
  <2>3. n + 1 \in 1..Len(Owners)
    BY <1>1, <2>2
  <2> QED BY <1>1, <2>2, <2>3
<1>7. Present'
  BY <1>1 DEF InOrder, Present
<1> QED BY <1>3, <1>4, <1>5, <1>6, <1>7 DEF InOrder

LEMMA OrderSent ==
    ASSUME ViewTypes, InOrder, NEW c, NEW n, Sending(c, n)
    PROVE  InOrder'
<1> DEFINE L == Len(Owners)
           l == Len(Counts) + 1
<1>1. /\ L \in Nat /\ c \in 1..16 /\ n \in 0..c /\ Len(Owners') = L + n
      /\ Len(Counts) \in Nat /\ Len(Counts') = l /\ Counts'[l] = c
      /\ \A i \in 1..Len(Counts) : Counts'[i] = Counts[i] /\ i < l
      /\ \A m \in 1..L : Owners'[m] = Owners[m] /\ Numbers'[m] = Numbers[m]
      /\ \A m \in L + 1..L + n : Owners'[m] = l /\ Numbers'[m] = m - L
      /\ (n = c /\ damaged' = damaged) \/ (n < c /\ damaged' = damaged \cup {l})
  BY ViewFacts DEF Sending
<1>2. /\ \A m \in 1..L :
           /\ Owners[m] \in 1..Len(Counts) /\ Owners[m] \in Nat /\ Owners[m] < l
           /\ Numbers[m] \in 0..16 /\ Counts[Owners[m]] \in 1..16
      /\ l \notin damaged
  BY ViewFacts
<1> HIDE DEF L, l
<1>3. \A m \in 1..Len(Owners') :
        \/ m \in 1..L /\ Owners'[m] = Owners[m] /\ Numbers'[m] = Numbers[m]
             /\ Owners'[m] # l
        \/ m \in L + 1..L + n /\ Owners'[m] = l /\ Numbers'[m] = m - L
  BY <1>1, <1>2
<1>4. Rising'
  <2> SUFFICES ASSUME NEW j \in 1..Len(Owners'), NEW m \in 1..Len(Owners'), j < m
               PROVE  \/ Owners'[j] < Owners'[m]
                      \/ Owners'[j] = Owners'[m] /\ Numbers'[j] < Numbers'[m] /\ Numbers'[m] >= 2
    BY DEF Rising
  <2>1. CASE m \in 1..L
    <3>1. j \in 1..L
      BY <1>1, <2>1
    <3>2. \/ Owners[j] < Owners[m]
          \/ Owners[j] = Owners[m] /\ Numbers[j] < Numbers[m] /\ Numbers[m] >= 2
      BY <2>1, <3>1 DEF InOrder, Rising, L
    <3> QED BY <1>1, <2>1, <3>1, <3>2
  <2>2. CASE m \in L + 1..L + n /\ j \in 1..L
    BY <1>1, <1>2, <2>2
  <2>3. CASE m \in L + 1..L + n /\ j \in L + 1..L + n
    BY <1>1, <2>3
  <2> QED BY <1>3, <2>1, <2>2, <2>3
<1>5. Stepwise'
  <2> SUFFICES ASSUME NEW m \in 1..(Len(Owners') - 1)
               PROVE  IF Owners'[m + 1] = Owners'[m]
                      THEN Numbers'[m] = 0 \/ Numbers'[m + 1] = Numbers'[m] + 1
                      ELSE Numbers'[m + 1] = 1
    BY DEF Stepwise
  <2>1. m \in 1..Len(Owners') /\ m + 1 \in 1..Len(Owners')
    BY <1>1
  <2>2. CASE m + 1 \in 1..L
    <3>1. m \in 1..L /\ m \in 1..(L - 1)
      BY <1>1, <2>2
    <3>2. IF Owners[m + 1] = Owners[m] THEN Numbers[m] = 0 \/ Numbers[m + 1] = Numbers[m] + 1
          ELSE Numbers[m + 1] = 1
      BY <3>1 DEF InOrder, Stepwise, L
    <3> QED BY <1>1, <2>2, <3>1, <3>2
  <2>3. CASE m + 1 = L + 1
    <3>1. m \in 1..L /\ m + 1 \in L + 1..L + n
      BY <1>1, <2>1, <2>3
    <3>2. Owners'[m + 1] # Owners'[m] /\ Numbers'[m + 1] = 1
      BY <1>1, <1>3, <2>3, <3>1
    <3> QED BY <3>2
  <2>4. CASE m + 1 > L + 1
    <3>1. m \in L + 1..L + n /\ m + 1 \in L + 1..L + n /\ (m + 1) - L = (m - L) + 1
      BY <1>1, <2>1, <2>4
    <3> QED BY <1>1, <3>1
  <2> QED BY <1>1, <2>1, <2>2, <2>3, <2>4
<1>6. Numbered'
  <2> SUFFICES ASSUME NEW m \in 1..Len(Owners')
               PROVE  /\ Numbers'[m] <= Counts'[Owners'[m]]
                      /\ Numbers'[m] = 0 => m = 1 /\ Owners'[1] \in damaged'
    BY DEF Numbered
  <2>1. CASE m \in 1..L
    <3>1. /\ Numbers[m] <= Counts[Owners[m]]
          /\ Numbers[m] = 0 => m = 1 /\ Owners[1] \in damaged
      BY <2>1 DEF InOrder, Numbered, L
    <3>2. Counts'[Owners'[m]] = Counts[Owners[m]] /\ Numbers'[m] = Numbers[m] /\ damaged \subseteq damaged'
      BY <1>1, <1>2, <2>1
    <3> QED BY <1>1, <2>1, <3>1, <3>2
  <2>2. CASE m \in L + 1..L + n
    BY <1>1, <2>2
  <2> QED BY <1>3, <2>1, <2>2
<1>7. Unbroken'
  <2> SUFFICES ASSUME NEW m \in 1..Len(Owners'), Owners'[m] \notin damaged',
                      Numbers'[m] < Counts'[Owners'[m]]
               PROVE  m < Len(Owners') /\ Owners'[m + 1] = Owners'[m]
    BY DEF Unbroken
  <2>1. CASE m \in 1..L
    <3>1. Owners[m] \notin damaged /\ Numbers[m] < Counts[Owners[m]]
      BY <1>1, <1>2, <2>1
    <3>2. m < L /\ Owners[m + 1] = Owners[m]
      BY <2>1, <3>1 DEF InOrder, Unbroken, L
    <3>3. m + 1 \in 1..L
      BY <1>1, <2>1, <3>2
    <3> QED BY <1>1, <2>1, <3>2, <3>3
  <2>2. CASE m \in L + 1..L + n
    <3>1. n = c /\ m - L < c
      BY <1>1, <2>2
    <3>2. m < L + n /\ m + 1 \in L + 1..L + n
      BY <1>1, <2>2, <3>1
    <3> QED BY <1>1, <2>2, <3>2
  <2> QED BY <1>3, <2>1, <2>2
<1>8. Present'
  <2> SUFFICES ASSUME NEW i \in 1..Len(Counts'), NEW m \in 1..Len(Owners'),
                      i \notin damaged', Owners'[m] < i
               PROVE  \E j \in 1..Len(Owners') : Owners'[j] = i
    BY DEF Present
  <2>1. CASE i = l
    <3>1. n = c /\ L + 1 \in L + 1..L + n /\ L + 1 \in 1..Len(Owners')
      BY <1>1, <2>1
    <3> QED BY <1>1, <2>1, <3>1
  <2>2. CASE i # l
    <3>1. i \in 1..Len(Counts) /\ i < l
      BY <1>1, <2>2 DEF l
    <3>2. m \in 1..L /\ Owners[m] < i /\ i \notin damaged
      <4>1. ~(m \in L + 1..L + n)
        BY <1>1, <3>1
      <4> QED BY <1>1, <1>3, <4>1
    <3>3. PICK j \in 1..L : Owners[j] = i
      BY <3>1, <3>2 DEF InOrder, Present, L
    <3>4. j \in 1..Len(Owners')
      BY <1>1
    <3> QED BY <1>1, <3>3, <3>4
  <2> QED BY <2>1, <2>2
<1> QED BY <1>4, <1>5, <1>6, <1>7, <1>8 DEF InOrder

\* A packet is gone when its last segment has passed; and nobody is gone before its time.
LEMMA GonePassed ==
    ASSUME ViewTypes, InOrder, Passing
    PROVE  /\ \A n \in 1..Len(Owners) : Owners[1] <= Owners[n]
           /\ \A i \in 1..Len(Counts) :
                /\ Gone(i) => Gone(i)'
                /\ Gone(i)' => Gone(i) \/ i = Owners[1]
                /\ i # Owners[1] => (Gone(i)' <=> Gone(i))
                /\ i \notin damaged /\ Owners[1] < i => ~ Gone(i)
                /\ i = Owners[1] /\ i \notin damaged =>
                     Numbers[1] > 0 /\ (Gone(i)' => Numbers[1] = Counts[i])
<1>1. /\ Len(Owners) \in Nat \ {0} /\ Len(Owners') = Len(Owners) - 1 /\ Counts' = Counts
      /\ \A n \in 1..Len(Owners') :
           n + 1 \in 1..Len(Owners) /\ Owners'[n] = Owners[n + 1] /\ Numbers'[n] = Numbers[n + 1]
      /\ \A n \in 1..Len(Owners) :
           n = 1 \/ (n - 1 \in 1..Len(Owners') /\ Owners'[n - 1] = Owners[n])
      /\ 1 \in 1..Len(Owners)
  BY Shifted
<1>2. \A n \in 1..Len(Owners) :
        Owners[n] \in Nat /\ Numbers[n] \in 0..16 /\ Counts[Owners[n]] \in 1..16
  BY ViewFacts
<1>3. ASSUME NEW n \in 1..Len(Owners) PROVE Owners[1] <= Owners[n]
  <2>1. n = 1 \/ 1 < n
    OBVIOUS
  <2> QED BY <1>1, <1>2, <2>1 DEF InOrder, Rising
<1>4. ASSUME NEW i \in 1..Len(Counts)
      PROVE  (Gone(i) => Gone(i)') /\ (Gone(i)' => Gone(i) \/ i = Owners[1])
  BY <1>1 DEF Gone
<1>5. ASSUME NEW i \in 1..Len(Counts), i \notin damaged, Owners[1] < i PROVE ~ Gone(i)
  BY <1>1, <1>5 DEF Gone, InOrder, Present
<1>6. ASSUME NEW i \in 1..Len(Counts), i = Owners[1], i \notin damaged
      PROVE  Numbers[1] > 0 /\ (Gone(i)' => Numbers[1] = Counts[i])
  <2>1. Numbers[1] <= Counts[i] /\ Numbers[1] # 0 /\ Numbers[1] \in 0..16 /\ Counts[i] \in 1..16
    BY <1>1, <1>2, <1>6 DEF InOrder, Numbered
  <2>2. Numbers[1] < Counts[i] => ~ Gone(i)'
    <3> SUFFICES ASSUME Numbers[1] < Counts[i] PROVE ~ Gone(i)'
      OBVIOUS
    <3>1. 1 < Len(Owners) /\ Owners[1 + 1] = Owners[1]
      BY <1>1, <1>6 DEF InOrder, Unbroken
    <3>2. 1 \in 1..Len(Owners') /\ Owners'[1] = i
      BY <1>1, <1>6, <3>1
    <3>3. Gone(i)' => Owners'[1] # i
      BY ONLY <3>2 DEF Gone
    <3> QED BY <3>2, <3>3
  <2>3. PICK q \in 0..16, c \in 1..16 : q = Numbers[1] /\ c = Counts[i]
    BY <2>1
  <2>4. q <= c /\ q # 0
    BY <2>1, <2>3
  <2>5. q > 0 /\ (q < c \/ q = c)
    BY ONLY q \in 0..16, c \in 1..16, <2>4
  <2> QED BY <2>2, <2>3, <2>5
<1> QED BY <1>3, <1>4, <1>5, <1>6

LEMMA GoneSent ==
    ASSUME ViewTypes, NEW c, NEW n, Sending(c, n), NEW l, l = Len(Counts) + 1
    PROVE  /\ \A i \in 1..Len(Counts) : Gone(i)' <=> Gone(i)
           /\ l \in damaged' \/ ~ Gone(l)'
<1> DEFINE L == Len(Owners)
<1>1. /\ L \in Nat /\ c \in 1..16 /\ n \in 0..c /\ Len(Owners') = L + n
      /\ Len(Counts) \in Nat /\ \A i \in 1..Len(Counts) : i # l
      /\ \A m \in 1..L : Owners'[m] = Owners[m]
      /\ \A m \in L + 1..L + n : Owners'[m] = l
      /\ n = c \/ l \in damaged'
  BY ViewFacts DEF Sending
<1>2. PICK K : K = L
  OBVIOUS
<1>3. /\ \A m \in 1..Len(Owners') : m \in 1..K \/ m \in K + 1..K + n
      /\ \A m \in 1..K : m \in 1..Len(Owners')
      /\ n = c => K + 1 \in K + 1..K + n /\ K + 1 \in 1..Len(Owners')
  BY <1>1, <1>2
<1>4. ASSUME NEW i \in 1..Len(Counts) PROVE Gone(i)' <=> Gone(i)
  <2>1. (\A m \in 1..Len(Owners') : Owners'[m] # i) <=> (\A m \in 1..Len(Owners) : Owners[m] # i)
    BY <1>1, <1>2, <1>3
  <2> QED BY ONLY <2>1 DEF Gone
<1>5. n = c => ~ Gone(l)'
  <2> SUFFICES ASSUME n = c PROVE ~ Gone(l)'
    OBVIOUS
  <2>1. K + 1 \in 1..Len(Owners') /\ Owners'[K + 1] = l
    BY <1>1, <1>2, <1>3
  <2> QED BY ONLY <2>1 DEF Gone
<1> QED BY <1>1, <1>4, <1>5

LEMMA FollowsPassed ==
    ASSUME ViewTypes, InOrder, Recovered, Passing, damaged \subseteq damaged',
           NEW i \in 1..Len(Counts), Follows(i)',
           \A j \in Whole' \ Whole : j = Owners[1] \/ Counts[j] = 1,
           i - 1 # Owners[1]
    PROVE  Follows(i)
<1>1. CASE i = 1
  BY <1>1 DEF Follows
<1>2. CASE i # 1
  <2>1. /\ i - 1 \notin damaged' /\ Gone(i - 1)' /\ Counts' = Counts
        /\ i - 1 \in Whole' \/ Counts[i - 1] = Counts[i]
    BY <1>2 DEF Follows, Passing
  <2>2. i - 1 \in 1..Len(Counts)
    BY <1>2, ViewFacts
  <2>3. i - 1 \notin damaged /\ Gone(i - 1)
    BY <2>1, <2>2, GonePassed
  <2>4. i - 1 \in Whole' => i - 1 \in Whole
    <3>1. Counts[i - 1] = 1 => i - 1 \in Whole
      BY <2>2, <2>3 DEF Recovered
    <3> QED BY <3>1
  <2> QED BY <2>1, <2>3, <2>4 DEF Follows
<1> QED BY <1>1, <1>2

-----------------------------------------------------------------------------
(* The slots.                                                              *)

LEMMA SlotsSent ==
    ASSUME ViewTypes, InSlots, NEW c, NEW n, Sending(c, n)
    PROVE  InSlots'
<1> DEFINE L == Len(Owners)
           l == Len(Counts) + 1
<1>1. /\ L \in Nat /\ n \in Nat /\ Len(Owners') = L + n
      /\ Len(Counts) \in Nat /\ Len(Counts') = l
      /\ \A i \in 1..Len(Counts) : Counts'[i] = Counts[i] /\ i < l /\ i \in 1..Len(Counts')
      /\ \A m \in 1..L : Owners'[m] = Owners[m] /\ Numbers'[m] = Numbers[m]
      /\ \A m \in L + 1..L + n : Owners'[m] = l
      /\ Origins' = Origins /\ expected' = expected
  BY ViewFacts DEF Sending
<1> HIDE DEF L, l
<1>2. \A m \in 1..Len(Owners') : m \in 1..L \/ m \in L + 1..L + n
  BY <1>1
<1>3. ASSUME NEW k \in 1..expected, Origins[k] # 0
      PROVE  /\ Origins[k] \in 1..Len(Counts') /\ Counts'[Origins[k]] = expected
             /\ \A m \in 1..Len(Owners') :
                  \/ Origins[k] < Owners'[m]
                  \/ Origins[k] = Owners'[m] /\ (Numbers'[m] = 0 \/ k < Numbers'[m])
  <2>1. PICK i \in 1..Len(Counts) : i = Origins[k] /\ Counts[i] = expected
    BY <1>3 DEF InSlots
  <2>2. i \in 1..Len(Counts') /\ Counts'[i] = expected /\ i < l
    BY <1>1, <2>1
  <2>3. ASSUME NEW m \in 1..L
        PROVE  \/ i < Owners'[m]
               \/ i = Owners'[m] /\ (Numbers'[m] = 0 \/ k < Numbers'[m])
    <3>1. m \in 1..Len(Owners) /\ Owners'[m] = Owners[m] /\ Numbers'[m] = Numbers[m]
      BY <1>1 DEF L
    <3>2. \/ i < Owners[m]
          \/ i = Owners[m] /\ (Numbers[m] = 0 \/ k < Numbers[m])
      BY <1>3, <2>1, <3>1 DEF InSlots
    <3> QED BY <3>1, <3>2
  <2> QED BY <1>1, <1>2, <2>1, <2>2, <2>3
<1>4. expected > 0 => expected >= 2 /\ \E k \in 1..expected : Origins[k] # 0
  BY DEF InSlots
<1> QED BY <1>1, <1>3, <1>4 DEF InSlots

LEMMA SlotsDamaged ==
    ASSUME ViewTypes, InSlots, Losing \/ Garbling
    PROVE  InSlots'
<1>1. CASE Losing
  <2>1. /\ Counts' = Counts /\ Origins' = Origins /\ expected' = expected
        /\ \A n \in 1..Len(Owners') :
             n + 1 \in 1..Len(Owners) /\ Owners'[n] = Owners[n + 1] /\ Numbers'[n] = Numbers[n + 1]
    BY <1>1, Shifted DEF Losing
  <2> QED BY <2>1 DEF InSlots
<1>2. CASE Garbling
  <2>1. /\ Counts' = Counts /\ Origins' = Origins /\ expected' = expected
        /\ Len(Owners) \in Nat /\ Len(Owners') = Len(Owners) /\ Numbers'[1] = 0
        /\ \A n \in 1..Len(Owners) : Owners'[n] = Owners[n] /\ (n # 1 => Numbers'[n] = Numbers[n])
    BY <1>2, ViewFacts DEF Garbling
  <2> QED BY <2>1 DEF InSlots
<1> QED BY <1>1, <1>2

\* What a segment that was not garbled does to the slots.
LEMMA SlotsReceived ==
    ASSUME ViewTypes, InOrder, InSlots, Receiving
    PROVE  InSlots'
<1>1. /\ Len(Owners) \in Nat \ {0} /\ Counts' = Counts /\ 1 \in 1..Len(Owners)
      /\ \A n \in 1..Len(Owners') :
           n + 1 \in 1..Len(Owners) /\ Owners'[n] = Owners[n + 1] /\ Numbers'[n] = Numbers[n + 1]
  BY Shifted DEF Receiving
<1>2. /\ Owners[1] \in 1..Len(Counts) /\ Owners[1] \in Nat /\ Numbers[1] \in 0..16
      /\ Counts[Owners[1]] \in 1..16 /\ expected \in 0..16
  BY <1>1, ViewFacts
<1>3. CASE Emptied
  <2>1. expected' = 0 /\ ~(0 > 0) /\ \A k \in 1..0 : FALSE
    BY <1>3 DEF Emptied
  <2> QED BY <2>1 DEF InSlots
<1>4. CASE Origins' = Origins /\ expected' = expected
  <2>1. ASSUME NEW k \in 1..expected, Origins[k] # 0, NEW n \in 1..Len(Owners')
        PROVE  \/ Origins[k] < Owners'[n]
               \/ Origins[k] = Owners'[n] /\ (Numbers'[n] = 0 \/ k < Numbers'[n])
    <3>1. n + 1 \in 1..Len(Owners) /\ Owners'[n] = Owners[n + 1] /\ Numbers'[n] = Numbers[n + 1]
      BY <1>1
    <3>2. PICK m \in 1..Len(Owners) : Owners'[n] = Owners[m] /\ Numbers'[n] = Numbers[m]
      BY <3>1
    <3>3. \/ Origins[k] < Owners[m]
          \/ Origins[k] = Owners[m] /\ (Numbers[m] = 0 \/ k < Numbers[m])
      BY <2>1 DEF InSlots
    <3> QED BY <3>2, <3>3
  <2>2. \A k \in 1..expected : Origins[k] # 0 =>
          Origins[k] \in 1..Len(Counts) /\ Counts[Origins[k]] = expected
    BY DEF InSlots
  <2>3. expected > 0 => expected >= 2 /\ \E k \in 1..expected : Origins[k] # 0
    BY DEF InSlots
  <2> QED BY <1>1, <1>4, <2>1, <2>2, <2>3 DEF InSlots
<1>5. CASE Storing
  <2> DEFINE i == Owners[1]
             c == Counts[i]
             q == Numbers[1]
  <2>1. /\ q > 0 /\ c >= 2 /\ expected \in {0, c} /\ expected' = c
        /\ \A k \in 1..c : Origins'[k] = IF k = q THEN i ELSE IF expected = 0 THEN 0 ELSE Origins[k]
    BY <1>5 DEF Storing, Many, Fits, NewOrigin
  <2>2. q \in 1..c /\ i # 0 /\ c \in 1..16 /\ i \in 1..Len(Counts)
    BY <1>1, <1>2, <2>1 DEF InOrder, Numbered
  <2>3. \A n \in 1..Len(Owners') : i < Owners'[n] \/ (i = Owners'[n] /\ q < Numbers'[n])
    <3> SUFFICES ASSUME NEW n \in 1..Len(Owners')
                 PROVE  i < Owners'[n] \/ (i = Owners'[n] /\ q < Numbers'[n])
      OBVIOUS
    <3>1. n + 1 \in 1..Len(Owners) /\ 1 < n + 1
      BY <1>1
    <3>2. Owners[1] < Owners[n + 1] \/ (Owners[1] = Owners[n + 1] /\ Numbers[1] < Numbers[n + 1])
      BY <1>1, <3>1 DEF InOrder, Rising
    <3> QED BY <1>1, <3>2
  <2> HIDE DEF i, c, q
  <2>4. ASSUME NEW k \in 1..c, Origins'[k] # 0
        PROVE  /\ Origins'[k] \in 1..Len(Counts) /\ Counts[Origins'[k]] = c
               /\ \A n \in 1..Len(Owners') :
                    \/ Origins'[k] < Owners'[n]
                    \/ Origins'[k] = Owners'[n] /\ (Numbers'[n] = 0 \/ k < Numbers'[n])
    <3>1. CASE k = q
      BY <2>1, <2>2, <2>3, <3>1 DEF c
    <3>2. CASE k # q
      <4>1. expected = c /\ Origins'[k] = Origins[k] /\ k \in 1..expected
        BY <2>1, <2>4, <3>2
      <4> QED BY <1>1, <2>4, <4>1 DEF InSlots
    <3> QED BY <3>1, <3>2
  <2>5. Origins'[q] # 0
    BY <2>1, <2>2
  <2> QED BY <1>1, <2>1, <2>2, <2>4, <2>5 DEF InSlots
<1> QED BY <1>3, <1>4, <1>5 DEF Receiving, Skipping, Single, Dropping, Joining

-----------------------------------------------------------------------------
(* What is missing.                                                        *)

LEMMA LackingSent ==
    ASSUME ViewTypes, InSlots, Lacking, NEW c, NEW n, Sending(c, n)
    PROVE  Lacking'
<1> DEFINE L == Len(Owners)
<1>0. PICK l : l = Len(Counts) + 1
  OBVIOUS
<1>1. /\ L \in Nat /\ c \in 1..16 /\ n \in 0..c /\ Len(Owners') = L + n
      /\ Len(Counts) \in Nat /\ Len(Counts') = l /\ Counts'[l] = c
      /\ \A i \in 1..Len(Counts) : Counts'[i] = Counts[i] /\ i # l
      /\ \A m \in 1..L : Owners'[m] = Owners[m] /\ Numbers'[m] = Numbers[m]
      /\ \A m \in L + 1..L + n : Owners'[m] = l /\ Numbers'[m] = m - L
      /\ damaged' = damaged \/ (n < c /\ damaged' = damaged \cup {l})
      /\ Origins' = Origins /\ expected' = expected
  BY <1>0, ViewFacts DEF Sending
<1>2. /\ \A m \in 1..L : Owners[m] # l
      /\ \A d \in damaged : d \in 1..Len(Counts)
  BY <1>1, ViewFacts
<1> HIDE DEF L
<1>3. \A m \in 1..Len(Owners') : m \in 1..L \/ m \in L + 1..L + n
  BY <1>1
<1>4. ASSUME NEW i \in damaged
      PROVE  \E k \in 1..Counts'[i] :
               ~ Holds(k, i)' /\ \A m \in 1..Len(Owners') : Owners'[m] = i => Numbers'[m] # k
  <2>1. PICK k \in 1..Counts[i] :
           ~ Holds(k, i) /\ \A m \in 1..L : Owners[m] = i => Numbers[m] # k
    BY DEF Lacking, L
  <2>2. i # l /\ Counts'[i] = Counts[i]
    BY <1>1, <1>2
  <2>3. ~ Holds(k, i)'
    BY <1>1, <2>1 DEF Holds
  <2>4. \A m \in 1..Len(Owners') : Owners'[m] = i => Numbers'[m] # k
    BY <1>1, <1>3, <2>1, <2>2
  <2> QED BY <2>2, <2>3, <2>4
<1>5. ASSUME n < c
      PROVE  \E k \in 1..Counts'[l] :
               ~ Holds(k, l)' /\ \A m \in 1..Len(Owners') : Owners'[m] = l => Numbers'[m] # k
  <2>1. c \in 1..Counts'[l]
    BY <1>1
  <2>2. ~ Holds(c, l)'
    <3>1. \A k \in 1..expected : Origins[k] # l
      <4>1. l # 0 /\ \A k \in 1..expected : Origins[k] = 0 \/ Origins[k] \in 1..Len(Counts)
        BY <1>0, <1>1 DEF InSlots
      <4> QED BY <1>1, <4>1
    <3> QED BY <1>1, <3>1 DEF Holds
  <2>3. \A m \in L + 1..L + n : m - L # c
    BY <1>1, <1>5
  <2>4. \A m \in 1..Len(Owners') : Owners'[m] = l => Numbers'[m] # c
    BY <1>1, <1>2, <1>3, <2>3
  <2> QED BY ONLY <2>1, <2>2, <2>4
<1> QED BY <1>1, <1>4, <1>5 DEF Lacking

\* The segment in front is in no slot yet, and comes once.
LEMMA HeadOnce ==
    ASSUME ViewTypes, InOrder, InSlots, Len(Owners) > 0, NEW i, i = Owners[1], i \notin damaged
    PROVE  /\ Numbers[1] \in 1..Counts[i] /\ ~ Holds(Numbers[1], i)
           /\ \A n \in 1..Len(Owners) : n # 1 /\ Owners[n] = i => Numbers[1] < Numbers[n]
<1>1. 1 \in 1..Len(Owners) /\ Len(Owners) \in Nat
  BY ViewFacts
<1>2. \A n \in 1..Len(Owners) :
        Owners[n] \in Nat /\ Owners[n] \in 1..Len(Counts) /\ Numbers[n] \in 0..16
        /\ Counts[Owners[n]] \in 1..16
  BY ViewFacts
<1>3. Numbers[1] <= Counts[i] /\ Numbers[1] # 0
  BY <1>1 DEF InOrder, Numbered
<1>4. Numbers[1] \in 1..Counts[i] /\ i # 0 /\ i \in Nat
  <2>1. PICK q \in 0..16, c \in 1..16 : q = Numbers[1] /\ c = Counts[i]
    BY <1>1, <1>2
  <2>2. q <= c /\ q # 0
    BY <1>3, <2>1
  <2>3. q \in 1..c
    BY ONLY q \in 0..16, c \in 1..16, <2>2
  <2>4. i \in 1..Len(Counts) /\ i \in Nat
    BY <1>1, <1>2
  <2>5. i # 0
    BY <2>4
  <2> QED BY <2>1, <2>3, <2>4, <2>5
<1>5. ASSUME Holds(Numbers[1], i) PROVE FALSE
  <2>1. Numbers[1] \in 1..expected /\ Origins[Numbers[1]] = i
    BY <1>5 DEF Holds
  <2>2. i < Owners[1] \/ Numbers[1] = 0 \/ Numbers[1] < Numbers[1]
    BY <1>1, <1>4, <2>1 DEF InSlots
  <2> QED BY <1>1, <1>2, <1>3, <1>4, <2>2
<1>6. ASSUME NEW n \in 1..Len(Owners), n # 1, Owners[n] = i PROVE Numbers[1] < Numbers[n]
  <2>1. 1 < n
    BY <1>1, <1>6
  <2>2. Owners[1] < Owners[n] \/ Numbers[1] < Numbers[n]
    BY <1>1, <2>1 DEF InOrder, Rising
  <2> QED BY <1>4, <1>6, <2>2
<1> QED BY <1>4, <1>5, <1>6

LEMMA LackingDamaged ==
    ASSUME ViewTypes, InOrder, InSlots, Lacking, Losing \/ Garbling
    PROVE  Lacking'
<1>1. /\ Len(Owners) > 0 /\ Len(Owners) \in Nat /\ Counts' = Counts
      /\ damaged' = damaged \cup {Owners[1]} /\ Origins' = Origins /\ expected' = expected
      /\ \A n \in 1..Len(Owners') :
           \/ Numbers'[n] = 0
           \/ \E m \in 1..Len(Owners) :
                m # 1 /\ Owners'[n] = Owners[m] /\ Numbers'[n] = Numbers[m]
  <2>1. CASE Losing
    <3>1. /\ Len(Owners) \in Nat \ {0}
          /\ \A n \in 1..Len(Owners') : /\ n + 1 \in 1..Len(Owners) /\ n + 1 # 1
                /\ Owners'[n] = Owners[n + 1] /\ Numbers'[n] = Numbers[n + 1]
      BY <2>1, Shifted DEF Losing
    <3> QED BY <2>1, <3>1 DEF Losing, Passing
  <2>2. CASE Garbling
    BY <2>2, ViewFacts DEF Garbling
  <2> QED BY <2>1, <2>2
<1>2. ASSUME NEW i \in damaged
      PROVE  \E k \in 1..Counts[i] :
               ~ Holds(k, i)' /\ \A n \in 1..Len(Owners') : Owners'[n] = i => Numbers'[n] # k
  <2>1. PICK k \in 1..Counts[i] :
           ~ Holds(k, i) /\ \A n \in 1..Len(Owners) : Owners[n] = i => Numbers[n] # k
    BY DEF Lacking
  <2>2. ~ Holds(k, i)' /\ k # 0
    BY <1>1, <2>1 DEF Holds
  <2>3. \A n \in 1..Len(Owners') : Owners'[n] = i => Numbers'[n] # k
    BY <1>1, <2>1, <2>2
  <2> QED BY <2>2, <2>3
<1>3. ASSUME NEW i, i = Owners[1], i \notin damaged
      PROVE  \E k \in 1..Counts[i] :
               ~ Holds(k, i)' /\ \A n \in 1..Len(Owners') : Owners'[n] = i => Numbers'[n] # k
  <2>1. PICK k \in 1..Counts[i] : k = Numbers[1] /\ ~ Holds(k, i)
           /\ \A n \in 1..Len(Owners) : n # 1 /\ Owners[n] = i => k < Numbers[n]
    BY <1>1, <1>3, HeadOnce
  <2>2. ~ Holds(k, i)' /\ k # 0 /\ k \in Nat
    BY <1>1, <2>1 DEF Holds
  <2>3. \A n \in 1..Len(Owners) : n # 1 /\ Owners[n] = i => Numbers[n] # k
    BY <2>1, <2>2
  <2>4. \A n \in 1..Len(Owners') : Owners'[n] = i => Numbers'[n] # k
    BY <1>1, <2>2, <2>3
  <2> QED BY <2>2, <2>4
<1> QED BY <1>1, <1>2, <1>3 DEF Lacking

LEMMA LackingReceived ==
    ASSUME ViewTypes, Lacking, Receiving
    PROVE  Lacking'
<1>1. /\ Counts' = Counts /\ damaged' = damaged /\ 1 \in 1..Len(Owners) /\ expected \in 0..16
      /\ \A n \in 1..Len(Owners') :
           n + 1 \in 1..Len(Owners) /\ Owners'[n] = Owners[n + 1] /\ Numbers'[n] = Numbers[n + 1]
  BY Shifted, ViewFacts DEF Receiving
<1> SUFFICES ASSUME NEW i \in damaged
             PROVE  \E k \in 1..Counts[i] :
                      /\ ~ Holds(k, i)'
                      /\ \A m \in 1..Len(Owners') : Owners'[m] = i => Numbers'[m] # k
  BY <1>1 DEF Lacking
<1>2. PICK k \in 1..Counts[i] :
         ~ Holds(k, i) /\ \A m \in 1..Len(Owners) : Owners[m] = i => Numbers[m] # k
  BY DEF Lacking
<1>3. i # 0
  BY ViewFacts
<1>4. ~ Holds(k, i)'
  <2>1. CASE Emptied
    <3>1. expected' = 0 /\ ~(k \in 1..0)
      BY <2>1 DEF Emptied
    <3> QED BY <3>1 DEF Holds
  <2>2. CASE Origins' = Origins /\ expected' = expected
    BY <1>2, <2>2 DEF Holds
  <2>3. CASE Storing
    <3> SUFFICES ASSUME k \in 1..expected', Origins'[k] = i PROVE FALSE
      BY DEF Holds
    <3>1. Origins'[k] = IF k = Numbers[1] THEN Owners[1] ELSE IF expected = 0 THEN 0 ELSE Origins[k]
      BY <2>3 DEF Storing, NewOrigin
    <3>2. k # Numbers[1] \/ Owners[1] # i
      BY <1>1, <1>2
    <3>3. expected # 0 /\ Origins[k] = i
      BY <1>3, <3>1, <3>2
    <3>4. expected = expected'
      BY <2>3, <3>3 DEF Storing, Fits
    <3> QED BY <1>2, <3>3, <3>4 DEF Holds
  <2> QED BY <2>1, <2>2, <2>3 DEF Receiving, Skipping, Single, Dropping, Joining
<1>5. \A m \in 1..Len(Owners') : Owners'[m] = i => Numbers'[m] # k
  BY <1>1, <1>2
<1> QED BY ONLY k \in 1..Counts[i], <1>4, <1>5

-----------------------------------------------------------------------------
(* Keeping in step.                                                        *)

LEMMA FollowsSent ==
    ASSUME ViewTypes, NEW c, NEW n, Sending(c, n), NEW i \in 1..Len(Counts), Follows(i)'
    PROVE  Follows(i)
<1>1. CASE i = 1
  BY <1>1 DEF Follows
<1>2. CASE i # 1
  <2>1. PICK p \in 1..Len(Counts) : p = i - 1
    BY <1>2, ViewFacts
  <2>2. PICK l : l = Len(Counts) + 1
    OBVIOUS
  <2>3. /\ p \notin damaged' /\ Gone(p)' /\ (p \in Whole' \/ Counts'[p] = Counts'[i])
    BY <1>2, <2>1 DEF Follows
  <2>4. damaged \subseteq damaged' /\ Whole' \subseteq Whole \cup {l} /\ p # l
        /\ Counts'[p] = Counts[p] /\ Counts'[i] = Counts[i]
    <3>1. p # l
      BY <2>2, ViewFacts
    <3> QED BY <2>2, <3>1 DEF Sending
  <2>5. Gone(p)
    BY <2>2, <2>3, GoneSent
  <2> QED BY <2>1, <2>3, <2>4, <2>5 DEF Follows
<1> QED BY <1>1, <1>2

LEMMA StepSent ==
    ASSUME ViewTypes, InStep, NEW c, NEW n, Sending(c, n)
    PROVE  InStep'
<1> SUFFICES ASSUME Len(Owners') > 0, Owners'[1] \notin damaged', Numbers'[1] >= 2
             PROVE  /\ \A k \in 2..(Numbers'[1] - 1) : Holds(k, Owners[1])'
                    /\ \/ Holds(1, Owners[1])'
                       \/ expected' = 0
                       \/ Origins'[1] = 0 /\ Numbers'[1] > 2
                    /\ Follows(Owners[1])' => Holds(1, Owners[1])'
  BY DEF InStep
<1>1. /\ Len(Owners) \in Nat /\ n \in Nat /\ Len(Owners') = Len(Owners) + n
      /\ \A m \in 1..Len(Owners) : Owners'[m] = Owners[m] /\ Numbers'[m] = Numbers[m]
      /\ \A m \in Len(Owners) + 1..Len(Owners) + n : Numbers'[m] = m - Len(Owners)
      /\ damaged \subseteq damaged' /\ Origins' = Origins /\ expected' = expected
  BY ViewFacts DEF Sending
<1>2. Len(Owners) > 0 /\ 1 \in 1..Len(Owners)
  <2>1. CASE Len(Owners) = 0
    <3>1. 1 \in Len(Owners) + 1..Len(Owners) + n /\ 1 - Len(Owners) = 1
      BY <1>1, <2>1
    <3> QED BY <1>1, <3>1
  <2> QED BY <1>1, <2>1
<1>3. PICK i \in 1..Len(Counts) : i = Owners[1] /\ i = Owners'[1]
  BY <1>1, <1>2, ViewFacts
<1>4. Numbers'[1] = Numbers[1] /\ i \notin damaged
  BY <1>1, <1>2, <1>3
<1>5. \A k : Holds(k, i)' <=> Holds(k, i)
  BY <1>1 DEF Holds
<1>6. /\ \A k \in 2..(Numbers[1] - 1) : Holds(k, i)
      /\ Holds(1, i) \/ expected = 0 \/ (Origins[1] = 0 /\ Numbers[1] > 2)
      /\ Follows(i) => Holds(1, i)
  BY <1>2, <1>3, <1>4 DEF InStep
<1>7. Follows(i)' => Follows(i)
  BY FollowsSent
<1> QED BY <1>1, <1>3, <1>4, <1>5, <1>6, <1>7

LEMMA ReadySent ==
    ASSUME ViewTypes, Ready, NEW c, NEW n, Sending(c, n)
    PROVE  Ready'
<1> SUFFICES ASSUME NEW p \in 1..Len(Counts'), p \notin damaged', Next1(p)'
             PROVE  expected' \in {0, Counts'[p]} /\ (p \in Whole' => expected' = 0)
  BY DEF Ready
<1>0. PICK l : l = Len(Counts) + 1
  OBVIOUS
<1>1. /\ Len(Owners) \in Nat /\ c \in 1..16 /\ n \in 0..c /\ Len(Owners') = Len(Owners) + n
      /\ Len(Counts) \in Nat /\ Len(Counts') = l
      /\ \A i \in 1..Len(Counts) : Counts'[i] = Counts[i] /\ i # l
      /\ \A m \in 1..Len(Owners) : Owners'[m] = Owners[m] /\ Numbers'[m] = Numbers[m]
      /\ \A m \in Len(Owners) + 1..Len(Owners) + n : Owners'[m] = l
      /\ damaged \subseteq damaged' /\ expected' = expected
      /\ n = 0 => l \in damaged'
      /\ Whole' \subseteq Whole \cup {l}
  BY <1>0, ViewFacts DEF Sending
<1>2. Next1(p) /\ p \in 1..Len(Counts)
  <2>1. CASE Len(Owners) > 0
    <3>1. 1 \in 1..Len(Owners) /\ Len(Owners') > 0
      BY <1>1, <2>1
    <3>2. Owners[1] = p + 1 /\ Numbers[1] = 1 /\ Owners[1] \in 1..Len(Counts)
      BY <1>1, <3>1, ViewFacts DEF Next1
    <3> QED BY <1>1, <2>1, <3>2 DEF Next1
  <2>2. CASE Len(Owners) = 0 /\ n > 0
    <3>1. 1 \in Len(Owners) + 1..Len(Owners) + n /\ Len(Owners') > 0
      BY <1>1, <2>2
    <3>2. Owners'[1] = l /\ l = p + 1
      BY <1>1, <3>1 DEF Next1
    <3>3. p = Len(Counts)
      BY <1>0, <1>1, <3>2
    <3> QED BY <1>1, <2>2, <3>3 DEF Next1
  <2>3. CASE Len(Owners) = 0 /\ n = 0
    <3>1. p = l
      BY <1>1, <2>3 DEF Next1
    <3> QED BY <1>1, <2>3, <3>1
  <2> QED BY <1>1, <2>1, <2>2, <2>3
<1>3. p \notin damaged /\ p # l /\ Counts'[p] = Counts[p]
  BY <1>1, <1>2
<1> QED BY <1>1, <1>2, <1>3 DEF Ready

LEMMA RecoveredSent ==
    ASSUME ViewTypes, Recovered, NEW c, NEW n, Sending(c, n)
    PROVE  Recovered'
<1> SUFFICES ASSUME NEW i \in 1..Len(Counts'), i \notin damaged', Gone(i)',
                    Follows(i)' \/ Clean(i)' \/ Counts'[i] = 1
             PROVE  i \in Whole'
  BY DEF Recovered
<1>0. PICK l : l = Len(Counts) + 1
  OBVIOUS
<1>1. i # l
  BY <1>0, GoneSent
<1>2. i \in 1..Len(Counts)
  BY <1>0, <1>1, ViewFacts DEF Sending
<1>3. damaged \subseteq damaged' /\ Counts'[i] = Counts[i] /\ Whole \subseteq Whole'
  BY <1>2 DEF Sending
<1>4. Gone(i)
  BY <1>0, <1>2, GoneSent
<1>5. Clean(i)' => Clean(i)
  BY <1>3 DEF Clean
<1>6. Follows(i)' => Follows(i)
  BY <1>2, FollowsSent
<1> QED BY <1>2, <1>3, <1>4, <1>5, <1>6 DEF Recovered

-----------------------------------------------------------------------------
(* ... when a segment leaves the air.                                      *)

\* Only the last segment of a packet that was not damaged makes way for the next packet.
LEMMA NextPassed ==
    ASSUME ViewTypes, InOrder, Passing, damaged \subseteq damaged',
           NEW p \in 1..Len(Counts), p \notin damaged', Next1(p)'
    PROVE  Owners[1] = p /\ Gone(p)' /\ Numbers[1] > 0 /\ Numbers[1] = Counts[p]
<1>1. /\ Len(Owners) \in Nat \ {0} /\ Len(Owners') = Len(Owners) - 1 /\ Counts' = Counts
      /\ \A n \in 1..Len(Owners') :
           n + 1 \in 1..Len(Owners) /\ Owners'[n] = Owners[n + 1] /\ Numbers'[n] = Numbers[n + 1]
      /\ \A n \in 1..Len(Owners) :
           n = 1 \/ (n - 1 \in 1..Len(Owners') /\ Owners'[n - 1] = Owners[n])
      /\ 1 \in 1..Len(Owners)
  BY Shifted
<1>2. \A n \in 1..Len(Owners) :
        Owners[n] \in 1..Len(Counts) /\ Owners[n] \in Nat /\ Numbers[n] \in 0..16
  BY ViewFacts
<1>3. Gone(p)' /\ Owners[1] <= p
  <2>1. CASE Len(Owners') = 0 /\ Len(Counts') = p
    <3>1. Gone(p)'
      <4>1. \A n \in 1..Len(Owners') : FALSE
        BY <2>1
      <4> QED BY <4>1 DEF Gone
    <3> QED BY <1>1, <1>2, <2>1, <3>1
  <2>2. CASE Len(Owners') > 0 /\ Owners'[1] = p + 1 /\ Numbers'[1] = 1
    <3>1. 2 \in 1..Len(Owners) /\ Owners[2] = p + 1 /\ Numbers[2] = 1
      <4>1. 1 \in 1..Len(Owners') /\ 1 + 1 = 2
        BY <1>1, <2>2
      <4> QED BY <1>1, <2>2, <4>1
    <3>2. Owners[1] < Owners[2]
      <4>1. \/ Owners[1] < Owners[2]
            \/ Owners[1] = Owners[2] /\ Numbers[1] < Numbers[2] /\ Numbers[2] >= 2
        BY <1>1, <3>1 DEF InOrder, Rising
      <4> QED BY <3>1, <4>1
    <3>3. ASSUME NEW n \in 1..Len(Owners') PROVE Owners'[n] # p
      <4>1. n + 1 \in 1..Len(Owners) /\ (n + 1 = 2 \/ 2 < n + 1) /\ Owners'[n] = Owners[n + 1]
        BY <1>1
      <4>2. Owners[2] <= Owners[n + 1]
        BY <1>2, <3>1, <4>1 DEF InOrder, Rising
      <4> QED BY <1>2, <3>1, <4>1, <4>2
    <3>4. Gone(p)'
      BY <3>3 DEF Gone
    <3> QED BY <1>1, <1>2, <3>1, <3>2, <3>4
  <2> QED BY <2>1, <2>2 DEF Next1
<1>4. Owners[1] = p
  <2>1. Gone(p) \/ p = Owners[1]
    BY <1>3, GonePassed
  <2>2. p \notin damaged
    OBVIOUS
  <2>3. Owners[1] < p => ~ Gone(p)
    BY <2>2, GonePassed
  <2> QED BY <1>1, <1>2, <1>3, <2>1, <2>3
<1>5. Numbers[1] > 0 /\ Numbers[1] = Counts[p]
  <2>1. p \notin damaged /\ p = Owners[1]
    BY <1>4
  <2> QED BY <1>3, <2>1, GonePassed
<1> QED BY <1>3, <1>4, <1>5

\* A packet that is half through after a step was in front before it, one segment behind.
LEMMA HalfPassed ==
    ASSUME ViewTypes, InOrder, Passing, damaged \subseteq damaged',
           Len(Owners') > 0, Owners'[1] \notin damaged', Numbers'[1] >= 2
    PROVE  /\ Owners'[1] = Owners[1] /\ Numbers'[1] = Numbers[1] + 1 /\ Numbers[1] \in 1..15
           /\ Numbers[1] < Counts[Owners[1]]
<1>1. /\ Len(Owners) \in Nat \ {0} /\ Len(Owners') = Len(Owners) - 1
      /\ 1 \in 1..Len(Owners) /\ 2 \in 1..Len(Owners) /\ 1 \in 1..(Len(Owners) - 1)
      /\ Owners'[1] = Owners[2] /\ Numbers'[1] = Numbers[2]
  <2>1. /\ Len(Owners) \in Nat \ {0} /\ Len(Owners') = Len(Owners) - 1
        /\ \A n \in 1..Len(Owners') :
             n + 1 \in 1..Len(Owners) /\ Owners'[n] = Owners[n + 1] /\ Numbers'[n] = Numbers[n + 1]
    BY Shifted
  <2>2. 1 \in 1..Len(Owners') /\ 1 + 1 = 2
    BY <2>1
  <2> QED BY <2>1, <2>2
<1>2. \A n \in 1..Len(Owners) : Numbers[n] \in 0..16 /\ Counts[Owners[n]] \in 1..16
  BY ViewFacts
<1>3. IF Owners[2] = Owners[1] THEN Numbers[1] = 0 \/ Numbers[2] = Numbers[1] + 1
      ELSE Numbers[2] = 1
  <2>1. 1 + 1 = 2
    OBVIOUS
  <2> QED BY <1>1, <2>1 DEF InOrder, Stepwise
<1>4. Owners[2] = Owners[1]
  BY <1>1, <1>3
<1>5. Numbers[1] # 0 /\ Numbers[2] <= Counts[Owners[2]]
  BY <1>1, <1>4 DEF InOrder, Numbered
<1>6. PICK q \in 0..16, r \in 0..16, c \in 1..16 :
         q = Numbers[1] /\ r = Numbers[2] /\ c = Counts[Owners[1]]
  BY <1>1, <1>2
<1>7. r = q + 1 /\ q # 0 /\ r <= c
  <2>1. q # 0
    BY <1>5, <1>6
  <2>2. r <= c
    BY <1>4, <1>5, <1>6
  <2>3. r = q + 1
    BY <1>3, <1>4, <1>6, <2>1
  <2> QED BY <2>1, <2>2, <2>3
<1>8. q \in 1..15 /\ q < c
  BY <1>7
<1> QED BY <1>1, <1>4, <1>6, <1>7, <1>8

LEMMA StepsDamaged ==
    ASSUME ViewTypes, InOrder, Losing \/ Garbling
    PROVE  InStep' /\ Ready'
<1>1. CASE Losing
  <2>1. Passing /\ damaged \subseteq damaged' /\ Owners[1] \in damaged' /\ Counts' = Counts
    BY <1>1 DEF Losing, Passing
  <2>2. ASSUME Len(Owners') > 0, Owners'[1] \notin damaged', Numbers'[1] >= 2 PROVE FALSE
    BY <2>1, <2>2, HalfPassed
  <2>3. ASSUME NEW p \in 1..Len(Counts), p \notin damaged', Next1(p)' PROVE FALSE
    BY <2>1, <2>3, NextPassed
  <2>4. InStep'
    <3>1. ~(Len(Owners') > 0 /\ Owners'[1] \notin damaged' /\ Numbers'[1] >= 2)
      BY <2>2
    <3> QED BY ONLY <3>1 DEF InStep
  <2>5. Ready'
    BY <2>1, <2>3 DEF Ready
  <2> QED BY <2>4, <2>5
<1>2. CASE Garbling
  <2>1. Len(Owners') > 0 /\ Numbers'[1] = 0
    BY <1>2 DEF Garbling
  <2>2. ~(Numbers'[1] >= 2) /\ Numbers'[1] # 1 /\ Len(Owners') # 0
    BY <2>1
  <2> QED BY <2>2 DEF InStep, Ready, Next1
<1> QED BY <1>1, <1>2

LEMMA RecoveredDamaged ==
    ASSUME ViewTypes, InOrder, Recovered, Losing \/ Garbling
    PROVE  Recovered'
<1> SUFFICES ASSUME NEW i \in 1..Len(Counts'), i \notin damaged', Gone(i)',
                    Follows(i)' \/ Clean(i)' \/ Counts'[i] = 1
             PROVE  i \in Whole'
  BY DEF Recovered
<1>1. /\ Counts' = Counts /\ damaged' = damaged \cup {Owners[1]} /\ Whole' = Whole
      /\ i \in 1..Len(Counts) /\ i # Owners[1] /\ i \notin damaged
  BY DEF Losing, Garbling, Passing
<1>2. Clean(i)' => Clean(i)
  BY <1>1 DEF Clean
<1>3. CASE Losing
  <2>1. Passing /\ damaged \subseteq damaged'
    BY <1>1, <1>3 DEF Losing
  <2>2. Gone(i)
    BY <1>1, <2>1, GonePassed
  <2>3. ASSUME Follows(i)' PROVE Follows(i)
    <3>1. i = 1 \/ i - 1 # Owners[1]
      BY <1>1, <2>3 DEF Follows
    <3>2. i = 1 => Follows(i)
      BY DEF Follows
    <3>3. \A j \in Whole' \ Whole : j = Owners[1] \/ Counts[j] = 1
      BY <1>1
    <3> QED BY <1>1, <2>1, <2>3, <3>1, <3>2, <3>3, FollowsPassed
  <2> QED BY <1>1, <1>2, <2>2, <2>3 DEF Recovered
<1>4. CASE Garbling
  <2>1. Len(Owners') = Len(Owners) /\ \A n \in 1..Len(Owners) : Owners'[n] = Owners[n]
    BY <1>4 DEF Garbling
  <2>2. ASSUME NEW j PROVE Gone(j)' <=> Gone(j)
    BY <2>1 DEF Gone
  <2>3. Follows(i)' => Follows(i)
    BY <1>1, <2>2 DEF Follows
  <2> QED BY <1>1, <1>2, <2>2, <2>3 DEF Recovered
<1> QED BY <1>3, <1>4

-----------------------------------------------------------------------------
(* ... when feed gets it.                                                  *)

\* The first segment of a packet that follows one that came through fits.
LEMMA Timely ==
    ASSUME ViewTypes, InOrder, InSlots, Ready, Len(Owners) > 0, Numbers[1] = 1,
           NEW i \in 1..Len(Counts), i = Owners[1], Follows(i)
    PROVE  Fits
<1>1. /\ 1 \in 1..Len(Owners) /\ expected \in 0..16
      /\ i \in Nat \ {0} /\ Counts[i] \in 1..16 /\ Len(Counts) \in Nat
  BY ViewFacts
<1>2. CASE i = 1
  <2>1. ASSUME expected > 0 PROVE FALSE
    <3>1. PICK k \in 1..expected : Origins[k] # 0
      BY <2>1 DEF InSlots
    <3>2. Origins[k] \in 1..Len(Counts)
          /\ (Origins[k] < Owners[1] \/ Numbers[1] = 0 \/ k < Numbers[1])
      BY <1>1, <3>1 DEF InSlots
    <3> QED BY <1>1, <1>2, <3>2
  <2> QED BY <1>1, <2>1 DEF Fits
<1>3. CASE i # 1
  <2>1. PICK p \in 1..Len(Counts) : p = i - 1 /\ i = p + 1
    BY <1>1, <1>3
  <2>2. p \notin damaged /\ (p \in Whole \/ Counts[p] = Counts[i])
    BY <1>3, <2>1 DEF Follows
  <2>3. Next1(p)
    BY <2>1 DEF Next1
  <2>4. expected \in {0, Counts[p]} /\ (p \in Whole => expected = 0)
    BY <2>2, <2>3 DEF Ready
  <2> QED BY <2>2, <2>4 DEF Fits
<1> QED BY <1>2, <1>3

LEMMA HoldsFits ==
    ASSUME ViewTypes, InSlots, NEW k, NEW i \in 1..Len(Counts), Holds(k, i)
    PROVE  expected = Counts[i] /\ expected # 0 /\ Origins[k] = i /\ k \in 1..expected /\ i # 0
<1>1. k \in 1..expected /\ Origins[k] = i /\ i # 0 /\ expected \in 0..16
  BY ViewFacts DEF Holds
<1> QED BY <1>1 DEF InSlots

\* What the segment before the last does not complete.
LEMMA Halfway ==
    ASSUME Receiving, Numbers[1] \in 1..15, Numbers[1] < Counts[Owners[1]],
           Counts[Owners[1]] \in 1..16
    PROVE  Dropping \/ Storing
<1>1. ~ Skipping /\ ~ Single /\ ~ Completing
  BY DEF Skipping, Single, Completing
<1> QED BY <1>1 DEF Receiving, Joining

LEMMA WholeReceived ==
    ASSUME Receiving
    PROVE  Whole \subseteq Whole' /\ \A j \in Whole' \ Whole : j = Owners[1] \/ Counts[j] = 1
BY DEF Receiving, Skipping, Single, Dropping, Storing, Joining, WholeGrows

LEMMA StepReceived ==
    ASSUME ViewTypes, InOrder, InSlots, InStep, Ready, Recovered, Receiving
    PROVE  InStep'
<1> SUFFICES ASSUME Len(Owners') > 0, Owners'[1] \notin damaged', Numbers'[1] >= 2
             PROVE  /\ \A k \in 2..(Numbers'[1] - 1) : Holds(k, Owners[1])'
                    /\ \/ Holds(1, Owners[1])'
                       \/ expected' = 0
                       \/ Origins'[1] = 0 /\ Numbers'[1] > 2
                    /\ Follows(Owners[1])' => Holds(1, Owners[1])'
  BY DEF InStep
<1>1. Passing /\ damaged' = damaged /\ Counts' = Counts
  BY DEF Receiving, Passing
<1>2. /\ Owners'[1] = Owners[1] /\ Numbers'[1] = Numbers[1] + 1 /\ Numbers[1] \in 1..15
      /\ Numbers[1] < Counts[Owners[1]] /\ Len(Owners) > 0
  BY <1>1, HalfPassed DEF Passing
<1>3. PICK a \in 1..Len(Counts), q \in 1..15, c \in 1..16 :
         /\ a = Owners[1] /\ a = Owners'[1] /\ q = Numbers[1] /\ Numbers'[1] = q + 1
         /\ c = Counts[a] /\ q < c
  <2>1. 1 \in 1..Len(Owners)
    BY <1>2, ViewFacts
  <2> QED BY <1>2, <2>1, ViewFacts
<1>4. a \notin damaged /\ a # 0 /\ expected \in 0..16
  BY <1>1, <1>3, ViewFacts
<1>5. q >= 2 => /\ \A k \in 2..(q - 1) : Holds(k, a)
                /\ Holds(1, a) \/ expected = 0 \/ (Origins[1] = 0 /\ q > 2)
                /\ Follows(a) => Holds(1, a)
  BY <1>2, <1>3, <1>4 DEF InStep
<1>6. Follows(a)' => Follows(a)
  <2>1. a - 1 # Owners[1] /\ \A j \in Whole' \ Whole : j = Owners[1] \/ Counts[j] = 1
    BY <1>3, WholeReceived
  <2> QED BY <1>1, <2>1, FollowsPassed
<1>7. \A k : Holds(k, a) => expected = c /\ expected # 0 /\ Origins[k] = a
  BY <1>3, HoldsFits
<1>8. CASE Dropping
  <2>1. expected' = 0 /\ ~ Fits
    BY <1>8 DEF Dropping, Emptied
  <2>2. expected # 0 /\ expected # c
    BY <1>3, <2>1 DEF Fits
  <2>3. q = 1
    <3>1. ASSUME q >= 2 PROVE FALSE
      <4>1. \A k : ~ Holds(k, a)
        BY <1>7, <2>2
      <4>2. q > 2
        BY <1>5, <2>2, <3>1, <4>1
      <4>3. 2 \in 2..(q - 1)
        BY <1>3, <4>2
      <4> QED BY <1>5, <3>1, <4>1, <4>3
    <3> QED BY <1>3, <3>1
  <2>4. ~ Follows(a)'
    BY <1>2, <1>3, <1>6, <2>1, <2>3, Timely
  <2>5. \A k \in 2..((q + 1) - 1) : FALSE
    BY <2>3
  <2> QED BY <1>3, <2>1, <2>4, <2>5
<1>9. CASE Storing
  <2>1. expected' = c /\ \A k \in 1..c :
          Origins'[k] = IF k = q THEN a ELSE IF expected = 0 THEN 0 ELSE Origins[k]
    BY <1>3, <1>9 DEF Storing, NewOrigin
  <2>2. \A k \in 1..c : Holds(k, a) => Holds(k, a)'
    BY <1>7, <2>1 DEF Holds
  <2>3. Holds(q, a)' /\ 1 \in 1..c
    BY <1>3, <2>1 DEF Holds
  <2>4. ASSUME NEW k \in 2..((q + 1) - 1) PROVE Holds(k, a)'
    <3>1. CASE k = q
      BY <2>3, <3>1
    <3>2. CASE k # q
      <4>1. k \in 2..(q - 1) /\ q >= 2 /\ k \in 1..c
        BY <1>3, <3>2
      <4> QED BY <1>5, <2>2, <4>1
    <3> QED BY <3>1, <3>2
  <2>5. CASE q = 1
    BY <1>3, <2>3, <2>4, <2>5
  <2>6. CASE q # 1
    <3>1. q >= 2 /\ q + 1 > 2
      BY <1>3, <2>6
    <3>2. Holds(1, a)' \/ Origins'[1] = 0
      <4>1. Origins'[1] = IF expected = 0 THEN 0 ELSE Origins[1]
        BY <2>1, <2>3, <2>6
      <4> QED BY <1>5, <2>2, <2>3, <3>1, <4>1
    <3>3. Follows(a)' => Holds(1, a)'
      BY <1>5, <1>6, <2>2, <2>3, <3>1
    <3> QED BY <1>3, <2>4, <3>1, <3>2, <3>3
  <2> QED BY <2>5, <2>6
<1> QED BY <1>2, <1>3, <1>8, <1>9, Halfway

LEMMA ReadyReceived ==
    ASSUME ViewTypes, InOrder, WholeOld, Receiving
    PROVE  Ready'
<1>1. Passing /\ damaged' = damaged /\ Counts' = Counts /\ Len(Owners) > 0
  BY DEF Receiving, Passing
<1> SUFFICES ASSUME NEW p \in 1..Len(Counts), p \notin damaged', Next1(p)'
             PROVE  expected' \in {0, Counts[p]} /\ (p \in Whole' => expected' = 0)
  BY <1>1 DEF Ready
<1>2. Owners[1] = p /\ Numbers[1] > 0 /\ 1 \in 1..Len(Owners)
  BY <1>1, NextPassed, ViewFacts
<1>3. ~ Skipping
  BY <1>2, ViewFacts DEF Skipping
<1>4. CASE Emptied
  BY <1>4 DEF Emptied
<1>5. CASE Storing
  <2>1. expected' = Counts[p] /\ Counts[p] >= 2 /\ Whole' = Whole
    BY <1>2, <1>5 DEF Storing, Many
  <2>2. ASSUME p \in Whole PROVE FALSE
    <3>1. p < Owners[1]
      BY <1>2, <2>1, <2>2 DEF WholeOld
    <3> QED BY <1>2, <3>1
  <2> QED BY <2>1, <2>2
<1> QED BY <1>3, <1>4, <1>5 DEF Receiving, Single, Dropping, Joining

LEMMA RecoveredReceived ==
    ASSUME ViewTypes, InOrder, InSlots, InStep, Ready, Recovered, Receiving
    PROVE  Recovered'
<1>1. Passing /\ damaged' = damaged /\ Counts' = Counts /\ Len(Owners) > 0
  BY DEF Receiving, Passing
<1> SUFFICES ASSUME NEW i \in 1..Len(Counts), i \notin damaged, Gone(i)',
                    Follows(i)' \/ Clean(i) \/ Counts[i] = 1
             PROVE  i \in Whole'
  BY <1>1 DEF Recovered, Clean
<1>2. /\ Whole \subseteq Whole' /\ \A j \in Whole' \ Whole : j = Owners[1] \/ Counts[j] = 1
      /\ 1 \in 1..Len(Owners) /\ Owners[1] \in Nat /\ i \in Nat /\ Owners[1] \in 1..Len(Counts)
      /\ Numbers[1] \in 0..16 /\ Counts[i] \in 1..16
  BY <1>1, WholeReceived, ViewFacts
<1>3. Follows(i)' /\ i - 1 # Owners[1] => Follows(i)
  BY <1>1, <1>2, FollowsPassed
<1>4. CASE Gone(i)
  <2>1. i - 1 # Owners[1]
    <3>1. ~(Owners[1] < i)
      BY <1>1, <1>4, GonePassed
    <3> QED BY <1>2, <3>1
  <2> QED BY <1>2, <1>3, <1>4, <2>1 DEF Recovered
<1>5. CASE ~ Gone(i)
  <2>1. i = Owners[1] /\ Numbers[1] > 0 /\ Numbers[1] = Counts[i]
    BY <1>1, <1>5, GonePassed
  <2>2. ~ Skipping /\ (Single => i \in Whole')
    BY <2>1 DEF Skipping, Single
  <2>3. ASSUME Many PROVE i \in Whole'
    <3>1. Counts[i] >= 2
      BY <2>1, <2>3 DEF Many
    <3>2. i - 1 # Owners[1]
      BY <1>2, <2>1
    <3>3. Clean(i) => Follows(i)
      <4> SUFFICES ASSUME Clean(i), i # 1 PROVE Follows(i)
        BY DEF Follows
      <4>1. PICK p \in 1..Len(Counts) : p = i - 1 /\ p < i
        BY <1>2
      <4>2. p \notin damaged /\ Clean(p)
        <5>1. \A d \in damaged : d > i /\ d \in Nat
          BY ViewFacts DEF Clean
        <5>2. \A d \in damaged : d > p /\ d # p
          BY <1>2, <4>1, <5>1
        <5> QED BY <5>2 DEF Clean
      <4>3. Gone(p)
        <5>1. \A n \in 1..Len(Owners) : i <= Owners[n] /\ Owners[n] \in Nat
          BY <1>1, <2>1, GonePassed, ViewFacts
        <5>2. \A n \in 1..Len(Owners) : Owners[n] # p
          BY <1>2, <4>1, <5>1
        <5> QED BY <5>2 DEF Gone
      <4>4. p \in Whole
        BY <4>2, <4>3 DEF Recovered
      <4> QED BY <4>1, <4>2, <4>3, <4>4 DEF Follows
    <3>4. Follows(i)
      BY <1>3, <3>1, <3>2, <3>3
    <3>5. /\ \A k \in 2..(Numbers[1] - 1) : Holds(k, i)
          /\ Holds(1, i)
      BY <1>1, <2>1, <3>1, <3>4 DEF InStep
    <3>6. expected = Counts[i] /\ expected # 0
      BY <3>5, HoldsFits
    <3>7. ASSUME NEW k \in 1..Counts[i] PROVE NewOrigin(k) = i
      <4>1. CASE k = Numbers[1]
        BY <2>1, <4>1 DEF NewOrigin
      <4>2. CASE k # Numbers[1]
        <5>1. k = 1 \/ k \in 2..(Numbers[1] - 1)
          BY <1>2, <2>1, <4>2
        <5>2. Holds(k, i)
          BY <3>5, <5>1
        <5> QED BY <3>6, <4>2, <5>2 DEF NewOrigin, Holds
      <4> QED BY <4>1, <4>2
    <3>8. Completing /\ Fits
      <4>1. i # 0
        BY ViewFacts
      <4> QED BY <2>1, <3>6, <3>7, <4>1 DEF Completing, Fits
    <3>9. ~ Single /\ ~ Dropping /\ ~ Storing
      BY <2>1, <3>1, <3>8 DEF Single, Dropping, Storing
    <3>10. Joining
      BY <2>2, <3>9 DEF Receiving
    <3> QED BY <2>1, <3>7, <3>10 DEF Joining
  <2> QED BY <2>2, <2>3 DEF Receiving, Dropping, Storing, Joining
<1> QED BY <1>4, <1>5

-----------------------------------------------------------------------------
(* What was delivered stays behind.                                        *)

LEMMA OldSent ==
    ASSUME ViewTypes, WholeOld, NEW c, NEW n, Sending(c, n)
    PROVE  WholeOld'
<1>0. PICK l : l = Len(Counts) + 1
  OBVIOUS
<1>1. /\ Len(Owners) \in Nat /\ n \in Nat /\ Len(Owners') = Len(Owners) + n
      /\ Len(Counts) \in Nat /\ \A i \in 1..Len(Counts) : Counts'[i] = Counts[i] /\ i < l
      /\ \A m \in 1..Len(Owners) : Owners'[m] = Owners[m]
      /\ \A m \in Len(Owners) + 1..Len(Owners) + n : Owners'[m] = l
      /\ Origins' = Origins /\ expected' = expected
      /\ \A i \in Whole' \ Whole : Counts'[i] = 1
  BY <1>0, ViewFacts DEF Sending
<1> SUFFICES ASSUME NEW i \in Whole', Counts'[i] >= 2
             PROVE  /\ \A m \in 1..Len(Owners') : i < Owners'[m]
                    /\ \A k \in 1..expected' : Origins'[k] = 0 \/ i < Origins'[k]
  BY DEF WholeOld
<1>2. i \in Whole /\ i \in 1..Len(Counts)
  <2>1. i \in Whole
    BY <1>1
  <2> QED BY <1>1, <2>1 DEF Whole
<1>3. /\ \A m \in 1..Len(Owners) : i < Owners[m]
      /\ \A k \in 1..expected : Origins[k] = 0 \/ i < Origins[k]
  BY <1>1, <1>2 DEF WholeOld
<1>4. \A m \in 1..Len(Owners') : m \in 1..Len(Owners) \/ m \in Len(Owners) + 1..Len(Owners) + n
  BY <1>1
<1> QED BY <1>1, <1>2, <1>3, <1>4

LEMMA OldDamaged ==
    ASSUME ViewTypes, WholeOld, Losing \/ Garbling
    PROVE  WholeOld'
<1>1. /\ Counts' = Counts /\ Whole' = Whole /\ Origins' = Origins /\ expected' = expected
      /\ \A n \in 1..Len(Owners') : \E m \in 1..Len(Owners) : Owners'[n] = Owners[m]
  <2>1. CASE Losing
    <3>1. \A n \in 1..Len(Owners') : n + 1 \in 1..Len(Owners) /\ Owners'[n] = Owners[n + 1]
      BY <2>1, Shifted DEF Losing
    <3> QED BY <2>1, <3>1 DEF Losing, Passing
  <2>2. CASE Garbling
    BY <2>2 DEF Garbling
  <2> QED BY <2>1, <2>2
<1> QED BY <1>1 DEF WholeOld

\* Behind the last segment of a packet come only younger ones.
LEMMA LastPassed ==
    ASSUME ViewTypes, InOrder, Passing, Numbers[1] = Counts[Owners[1]]
    PROVE  \A n \in 1..Len(Owners') : Owners[1] < Owners'[n]
<1> SUFFICES ASSUME NEW n \in 1..Len(Owners') PROVE Owners[1] < Owners'[n]
  OBVIOUS
<1>1. /\ n + 1 \in 1..Len(Owners) /\ 1 \in 1..Len(Owners) /\ 1 < n + 1
      /\ Owners'[n] = Owners[n + 1]
  BY Shifted
<1>2. Numbers[n + 1] <= Counts[Owners[n + 1]]
  BY <1>1 DEF InOrder, Numbered
<1>3. \/ Owners[1] < Owners[n + 1]
      \/ Owners[1] = Owners[n + 1] /\ Numbers[1] < Numbers[n + 1]
  BY <1>1 DEF InOrder, Rising
<1>4. PICK q \in 0..16, c \in 1..16 : q = Numbers[n + 1] /\ c = Counts[Owners[n + 1]] /\ q <= c
  BY <1>1, <1>2, ViewFacts
<1>5. ~(c < q)
  BY <1>4
<1> QED BY <1>1, <1>3, <1>4, <1>5

LEMMA OldReceived ==
    ASSUME ViewTypes, InOrder, WholeOld, Receiving
    PROVE  WholeOld'
<1>1. Passing /\ Counts' = Counts /\ Len(Owners) > 0
  BY DEF Receiving, Passing
<1>2. /\ \A n \in 1..Len(Owners') : n + 1 \in 1..Len(Owners) /\ Owners'[n] = Owners[n + 1]
      /\ 1 \in 1..Len(Owners)
  BY <1>1, Shifted
<1> SUFFICES ASSUME NEW i \in Whole', Counts[i] >= 2
             PROVE  /\ \A m \in 1..Len(Owners') : i < Owners'[m]
                    /\ \A k \in 1..expected' : Origins'[k] = 0 \/ i < Origins'[k]
  BY <1>1 DEF WholeOld
<1>3. CASE i \in Whole
  <2>1. /\ \A n \in 1..Len(Owners) : i < Owners[n]
        /\ \A k \in 1..expected : Origins[k] = 0 \/ i < Origins[k]
    BY <1>3 DEF WholeOld
  <2>2. \A n \in 1..Len(Owners') : i < Owners'[n]
    BY <1>2, <2>1
  <2>3. CASE Emptied
    <3>1. \A k \in 1..expected' : FALSE
      BY <2>3 DEF Emptied
    <3> QED BY <2>2, <3>1
  <2>4. CASE Origins' = Origins /\ expected' = expected
    BY <2>1, <2>2, <2>4
  <2>5. CASE Storing
    <3>1. /\ expected' = Counts[Owners[1]] /\ (expected = 0 \/ expected = expected')
          /\ \A k \in 1..expected' : Origins'[k] =
               IF k = Numbers[1] THEN Owners[1] ELSE IF expected = 0 THEN 0 ELSE Origins[k]
      BY <2>5 DEF Storing, Fits, NewOrigin
    <3>2. ASSUME NEW k \in 1..expected' PROVE Origins'[k] = 0 \/ i < Origins'[k]
      BY <1>2, <2>1, <3>1
    <3> QED BY <2>2, <3>2
  <2> QED BY <2>3, <2>4, <2>5 DEF Receiving, Skipping, Single, Dropping, Joining
<1>4. CASE i \notin Whole
  <2>1. Joining \/ Single
    BY <1>4 DEF Receiving, Skipping, Dropping, Storing
  <2>2. i = Owners[1] /\ Emptied
    <3>1. i = Owners[1] \/ Counts[i] = 1
      BY <1>4, WholeReceived
    <3> QED BY <2>1, <3>1 DEF Single, Joining
  <2>3. Numbers[1] = Counts[Owners[1]]
    BY <2>1, <2>2 DEF Single, Joining, Completing
  <2>4. \A n \in 1..Len(Owners') : i < Owners'[n]
    BY <1>1, <2>2, <2>3, LastPassed
  <2>5. \A k \in 1..expected' : FALSE
    BY <2>2 DEF Emptied
  <2> QED BY <2>4, <2>5
<1> QED BY <1>3, <1>4

LEMMA NumericStep ==
    ASSUME Numeric, ViewTypes', (\E c, n : Sending(c, n)) \/ Losing \/ Garbling \/ Receiving
    PROVE  Numeric'
<1>1. /\ ViewTypes /\ InOrder /\ InSlots /\ Lacking /\ InStep /\ Ready /\ Recovered /\ WholeOld
  BY DEF Numeric
<1>2. ASSUME NEW c, NEW n, Sending(c, n) PROVE Numeric'
  BY <1>1, <1>2, OrderSent, SlotsSent, LackingSent, StepSent, ReadySent, RecoveredSent, OldSent
     DEF Numeric
<1>3. CASE Losing \/ Garbling
  <2>1. InOrder'
    <3>1. CASE Losing
      <4>1. Passing /\ damaged \subseteq damaged' /\ damaged' \subseteq damaged \cup {Owners[1]}
        BY <3>1 DEF Losing
      <4> QED BY <1>1, <4>1, OrderPassed
    <3> QED BY <1>1, <1>3, <3>1, OrderGarbled
  <2> QED BY <1>1, <1>3, <2>1, SlotsDamaged, LackingDamaged, StepsDamaged, RecoveredDamaged,
             OldDamaged
          DEF Numeric
<1>4. CASE Receiving
  <2>1. InOrder'
    <3>1. Passing /\ damaged \subseteq damaged' /\ damaged' \subseteq damaged \cup {Owners[1]}
      BY <1>4 DEF Receiving
    <3> QED BY <1>1, <3>1, OrderPassed
  <2> QED BY <1>1, <1>4, <2>1, SlotsReceived, LackingReceived, StepReceived, ReadyReceived,
             RecoveredReceived, OldReceived
          DEF Numeric
<1> QED BY <1>2, <1>3, <1>4

\* It takes two damaged packets to put one together from two others.
LEMMA NoMixture ==
    ASSUME Numeric, Len(Owners) > 0, Many, Fits, Completing,
           NEW a \in 1..Len(Counts), a = Owners[1], \A x, y \in damaged : x = y
    PROVE  \A k \in 1..Counts[a] : NewOrigin(k) = a
<1>1. /\ ViewTypes /\ InOrder /\ InSlots /\ Lacking /\ InStep /\ Ready /\ Recovered /\ WholeOld
  BY DEF Numeric
<1>2. /\ 1 \in 1..Len(Owners) /\ a \in Nat
      /\ Numbers[1] = Counts[a] /\ Numbers[1] >= 2 /\ Counts[a] \in 1..16
      /\ \A n \in 1..Len(Owners) : Owners[n] \in Nat
  BY <1>1, ViewFacts DEF Many, Completing
<1> SUFFICES ASSUME NEW k \in 1..Counts[a], k # Numbers[1] PROVE NewOrigin(k) = a
  BY DEF NewOrigin
<1>3. NewOrigin(k) = Origins[k] /\ Origins[k] # 0 /\ expected = Counts[a] /\ k \in 1..expected
  <2>1. NewOrigin(k) # 0
    BY DEF Completing
  <2>2. expected # 0 /\ NewOrigin(k) = Origins[k]
    BY <2>1 DEF NewOrigin
  <2> QED BY <2>1, <2>2 DEF Fits
<1>4. CASE a \notin damaged
  <2>1. /\ \A j \in 2..(Numbers[1] - 1) : Holds(j, a)
        /\ Holds(1, a) \/ expected = 0 \/ Origins[1] = 0
    BY <1>1, <1>2, <1>4 DEF InStep
  <2>2. k = 1 \/ k \in 2..(Numbers[1] - 1)
    BY <1>2
  <2>3. Holds(k, a)
    BY <1>2, <1>3, <2>1, <2>2
  <2> QED BY <1>3, <2>3 DEF Holds
<1>5. CASE a \in damaged
  <2>1. PICK j \in 1..Counts[a] : ~ Holds(j, a) /\ j # Numbers[1]
    BY <1>1, <1>2, <1>5 DEF Lacking
  <2>2. NewOrigin(j) = Origins[j] /\ Origins[j] # 0 /\ j \in 1..expected
    <3>1. NewOrigin(j) # 0
      BY DEF Completing
    <3>2. NewOrigin(j) = Origins[j]
      BY <2>1, <3>1 DEF NewOrigin
    <3> QED BY <1>3, <3>1, <3>2
  <2>3. PICK b \in 1..Len(Counts) : b = Origins[j] /\ Counts[b] = Counts[a] /\ (b < a \/ b = a)
    BY <1>1, <1>2, <1>3, <2>2 DEF InSlots
  <2>4. b < a /\ b \in Nat
    BY <2>1, <2>2, <2>3 DEF Holds
  <2>5. b \notin damaged /\ Clean(b)
    BY <1>2, <1>5, <2>4 DEF Clean
  <2>6. Gone(b)
    <3>1. \A n \in 1..Len(Owners) : a <= Owners[n]
      BY <1>1, <1>2 DEF InOrder, Rising
    <3>2. \A n \in 1..Len(Owners) : Owners[n] # b
      BY <1>2, <2>4, <3>1
    <3> QED BY <3>2 DEF Gone
  <2>7. b \in Whole
    BY <1>1, <2>5, <2>6 DEF Recovered
  <2>8. b < Origins[j]
    BY <1>1, <1>2, <2>2, <2>3, <2>7 DEF WholeOld
  <2> QED BY <2>3, <2>4, <2>8
<1> QED BY <1>4, <1>5

-----------------------------------------------------------------------------
(* The link seen in numbers.                                               *)

Garbage == {<< >>, <<Header(1, 2)>>}

\* What is on the air and in the slots is cut from what was sent.
Cutting ==
    /\ \A i \in 1..Len(sent) :
         Len(sent[i]) \in 0..MaxPacketSize /\ sent[i] = PacketOf(i, Len(sent[i]))
    /\ \A n \in 1..Len(air) : Numbers[n] = 0 => air[n].segment \in Garbage
    /\ Len(segments) = expected
    /\ \A k \in 1..expected :
         Origins[k] # 0 => segments[k] = Chunk(Origins[k], Len(sent[Origins[k]]), k)

LEMMA NumberFacts ==
    ASSUME NEW l \in 0..MaxPacketSize, NEW t, t.packet \in 1..MaxPackets
    PROVE  /\ Number(t, l) \in 0..16
           /\ Number(t, l) # 0 => Genuine(t, l, Number(t, l))
           /\ \A k \in 1..Count(l) : t.segment = Cut(t.packet, l, k) => Number(t, l) = k
           /\ t.segment \in Garbage => Number(t, l) = 0
<1>1. Count(l) \in 1..16
  BY CountFacts
<1>2. CASE \E k \in 1..16 : Genuine(t, l, k)
  <2>1. Number(t, l) \in 1..16 /\ Genuine(t, l, Number(t, l))
    BY <1>2 DEF Number
  <2>2. PICK q \in 1..16 : q = Number(t, l) /\ Genuine(t, l, q)
    BY <2>1
  <2>3. PICK i \in 1..MaxPackets : i = t.packet
    OBVIOUS
  <2>4. /\ q \in 1..Count(l) /\ t.segment = Cut(i, l, q)
    BY <2>2, <2>3 DEF Genuine
  <2>5. /\ t.segment # << >> /\ t.segment # <<Header(1, 2)>>
        /\ CurrentIndex(t.segment[1]) = q - 1
    BY <2>4, CutFacts
  <2>6. ASSUME NEW k \in 1..Count(l), t.segment = Cut(t.packet, l, k) PROVE q = k
    <3>0. t.segment = Cut(i, l, k)
      BY <2>3, <2>6
    <3>1. CurrentIndex(Cut(i, l, k)[1]) = k - 1
      BY ONLY l \in 0..MaxPacketSize, k \in 1..Count(l), i \in 1..MaxPackets, CutFacts
    <3>2. k \in 1..16
      BY <1>1
    <3>3. q - 1 = k - 1
      BY <2>5, <3>0, <3>1
    <3> QED BY ONLY q \in 1..16, <3>2, <3>3
  <2> QED BY <2>1, <2>2, <2>5, <2>6 DEF Garbage
<1>3. CASE ~ \E k \in 1..16 : Genuine(t, l, k)
  <2>1. Number(t, l) = 0
    BY <1>3 DEF Number
  <2>2. ASSUME NEW k \in 1..Count(l), t.segment = Cut(t.packet, l, k) PROVE FALSE
    <3>1. k \in 1..16 /\ Genuine(t, l, k)
      BY <1>1, <2>2 DEF Genuine
    <3> QED BY <1>3, <3>1
  <2> QED BY <2>1, <2>2
<1> QED BY <1>2, <1>3

LEMMA Views ==
    ASSUME LinkTypes, Cutting
    PROVE  /\ Len(sent) \in Nat /\ Len(air) \in Nat /\ Len(segments) \in Nat
           /\ Len(Counts) = Len(sent) /\ Len(Owners) = Len(air) /\ Len(Numbers) = Len(air)
           /\ Len(Origins) = Len(segments) /\ Len(segments) = expected
           /\ \A i \in 1..Len(sent) :
                /\ i \in 1..MaxPackets /\ Len(sent[i]) \in 0..MaxPacketSize
                /\ Counts[i] = Count(Len(sent[i])) /\ Counts[i] \in 1..16
           /\ \A n \in 1..Len(air) :
                /\ air[n].packet \in 1..Len(sent) /\ air[n].packet \in 1..MaxPackets
                /\ Owners[n] = air[n].packet
                /\ Numbers[n] = Number(air[n], Len(sent[air[n].packet])) /\ Numbers[n] \in 0..16
           /\ \A k \in 1..Len(segments) :
                segments[k] \in Seq(Bytes) /\ Origins[k] = Origin(segments[k]) /\ Origins[k] \in Nat
<1>1. /\ sent \in Seq(Packets) /\ Len(sent) <= MaxPackets /\ Len(sent) \in Nat
      /\ air \in Seq(Item) /\ Len(air) \in Nat
      /\ segments \in Seq(Seq(Bytes)) /\ Len(segments) \in Nat /\ Len(segments) = expected
      /\ \A n \in 1..Len(air) : air[n].packet \in 1..Len(sent)
      /\ MaxPackets \in Nat
  BY LinkAssumption DEF LinkTypes, LinkTypeOK, Cutting
<1>2. \A i \in 1..Len(sent) : i \in 1..MaxPackets
  BY <1>1
<1>3. /\ Len(Counts) = Len(sent) /\ Len(Owners) = Len(air) /\ Len(Numbers) = Len(air)
      /\ Len(Origins) = Len(segments)
  BY <1>1 DEF Counts, Owners, Numbers, Origins
<1>4. ASSUME NEW i \in 1..Len(sent)
      PROVE  /\ Len(sent[i]) \in 0..MaxPacketSize
             /\ Counts[i] = Count(Len(sent[i])) /\ Counts[i] \in 1..16
  <2>1. Len(sent[i]) \in 0..MaxPacketSize
    BY DEF Cutting
  <2> QED BY <2>1, CountFacts DEF Counts
<1>5. ASSUME NEW n \in 1..Len(air)
      PROVE  /\ Owners[n] = air[n].packet
             /\ Numbers[n] = Number(air[n], Len(sent[air[n].packet])) /\ Numbers[n] \in 0..16
  <2>1. air[n].packet \in 1..Len(sent) /\ air[n].packet \in 1..MaxPackets
    BY <1>1, <1>2
  <2>2. Numbers[n] = Number(air[n], Len(sent[air[n].packet]))
    BY DEF Numbers
  <2> QED BY <1>4, <2>1, <2>2, NumberFacts DEF Owners
<1>6. ASSUME NEW k \in 1..Len(segments)
      PROVE  segments[k] \in Seq(Bytes) /\ Origins[k] = Origin(segments[k]) /\ Origins[k] \in Nat
  <2>1. segments[k] \in Seq(Bytes)
    BY <1>1
  <2>2. segments[k] # << >> => segments[k][1] \in Bytes
    BY <2>1
  <2> QED BY <2>1, <2>2 DEF Origins, Origin, Bytes
<1> QED BY <1>1, <1>2, <1>3, <1>4, <1>5, <1>6

LEMMA ViewsTyped == LinkTypes /\ Cutting => ViewTypes
<1> SUFFICES ASSUME LinkTypes, Cutting PROVE ViewTypes
  OBVIOUS
<1>1. Counts \in Seq(1..16)
  <2>1. Counts = [i \in 1..Len(sent) |-> Count(Len(sent[i]))]
    BY DEF Counts
  <2>2. \A i \in 1..Len(sent) : Count(Len(sent[i])) \in 1..16
    BY Views
  <2> QED BY <2>1, <2>2, Views
<1>2. Owners \in Seq(1..Len(Counts))
  <2>1. Owners = [n \in 1..Len(air) |-> air[n].packet]
    BY DEF Owners
  <2>2. \A n \in 1..Len(air) : air[n].packet \in 1..Len(Counts)
    BY Views
  <2> QED BY <2>1, <2>2, Views
<1>3. Numbers \in Seq(0..16)
  <2>1. Numbers = [n \in 1..Len(air) |-> Number(air[n], Len(sent[air[n].packet]))]
    BY DEF Numbers
  <2>2. \A n \in 1..Len(air) : Number(air[n], Len(sent[air[n].packet])) \in 0..16
    BY Views
  <2> QED BY <2>1, <2>2, Views
<1>4. Origins \in Seq(Nat)
  <2>1. Origins = [k \in 1..Len(segments) |-> Origin(segments[k])]
    BY DEF Origins
  <2>2. \A k \in 1..Len(segments) : Origin(segments[k]) \in Nat
    BY Views
  <2> QED BY <2>1, <2>2, Views
<1>5. damaged \subseteq 1..Len(Counts) /\ expected \in 0..16
  BY Views DEF LinkTypes, LinkTypeOK
<1> QED BY <1>1, <1>2, <1>3, <1>4, <1>5, Views DEF ViewTypes

LEMMA ViewsTypedNext == LinkTypes' /\ Cutting' => ViewTypes'
BY ViewsTyped, PTL

\* The packets of which there is something in the slots, on the air or not sent yet.
Pending ==
    {Owners[m] : m \in 1..Len(Owners)}
        \cup ({Origins[k] : k \in 1..expected} \ {0})
        \cup {i \in Nat : i > Len(Counts)}

\* What is delivered: every byte at its offset, and each delivery younger than the one
\* before and older than what is pending.
Before(n, i) == \A j \in 1..Len(delivered[n]) : delivered[n][j][1] < i
Deliveries ==
    /\ delivered \in Seq(Seq(Bytes))
    /\ \A n \in 1..Len(delivered) :
        /\ \A j \in 1..Len(delivered[n]) : delivered[n][j][2] = j
        /\ \A m \in 1..(n - 1) : \A j \in 1..Len(delivered[n]) : Before(m, delivered[n][j][1])
        /\ \A i \in Pending : Before(n, i)

-----------------------------------------------------------------------------
(* The steps of the link are steps of the numbers.                         *)

LEMMA SendView ==
    ASSUME LinkTypes, Cutting, InSlots, Deliveries,
           NEW length \in Lengths, Send(length) \/ SendFails(length)
    PROVE  (\E c, n : Sending(c, n)) /\ Cutting' /\ UNCHANGED <<segments, expected, delivered>>
           /\ \A i \in 1..Len(sent) : sent'[i] = sent[i]
<1>1. PICK l \in 1..MaxPackets : l = Len(sent) + 1
  BY LinkAssumption DEF LinkTypes, LinkTypeOK, Send, SendFails
<1>2. PICK c \in 1..16 : c = Count(length) /\ length \in 0..MaxPacketSize
  BY LinkAssumption, CountFacts
<1> DEFINE data == PacketOf(l, length)
           parts == Segment(data)
           Items(n) == [k \in 1..n |-> [packet |-> l, segment |-> parts[k]]]
<1>3. /\ data \in Packets /\ Len(data) = length /\ Len(parts) = c /\ parts \in Seq(Parts)
      /\ \A k \in 1..c : parts[k] = Cut(l, length, k)
  <2>1. /\ data \in Seq(Bytes) /\ data \in Packets /\ Len(data) <= MaxPacketSize
    BY PacketType
  <2>2. Len(data) = length /\ Len(parts) = c /\ \A k \in 1..c : parts[k] = Cut(l, length, k)
    BY <1>2, PacketFacts, SegmentCut
  <2>3. parts \in Seq(Parts)
    BY <2>1, SegmentType
  <2> QED BY <2>1, <2>2, <2>3
<1> HIDE DEF parts
<1>4. PICK n \in 0..c :
         /\ air' = air \o Items(n)
         /\ \/ n = c /\ damaged' = damaged
            \/ n < c /\ damaged' = damaged \cup {l}
  <2>1. CASE Send(length)
    <3>1. air' = air \o Items(c) /\ damaged' = damaged
      BY <1>1, <1>3, <2>1 DEF Send, parts
    <3>2. c \in 0..c
      OBVIOUS
    <3> HIDE DEF Items
    <3> QED BY <3>1, <3>2
  <2>2. CASE SendFails(length)
    <3>1. PICK n \in 0..(c - 1) : air' = air \o Items(n) /\ damaged' = damaged \cup {l}
      BY <1>1, <1>3, <2>2 DEF SendFails, parts
    <3>2. n \in 0..c /\ n < c
      OBVIOUS
    <3> QED BY <3>1, <3>2
  <2> QED BY <2>1, <2>2
<1>5. /\ Items(n) \in Seq(Item) /\ Len(Items(n)) = n
      /\ \A k \in 1..n :
           Items(n)[k].packet = l /\ Items(n)[k].segment = Cut(l, length, k)
  <2>1. n \in 0..Len(parts)
    BY <1>3
  <2>2. Items(n) \in Seq(Item) /\ Len(Items(n)) = n
    BY <1>3, <2>1, ItemsType
  <2>3. \A k \in 1..n : k \in 1..c
    OBVIOUS
  <2> QED BY <1>3, <2>2, <2>3
<1>6. UNCHANGED <<segments, expected, delivered>> /\ sent' = Append(sent, data)
  BY <1>1 DEF Send, SendFails
<1> HIDE DEF Items, data
<1>7. /\ Len(sent') = l /\ sent'[l] = data /\ Len(sent) \in Nat
      /\ \A i \in 1..Len(sent) : sent'[i] = sent[i] /\ i # l /\ i \in 1..l
      /\ \A i \in 1..l : i \in 1..Len(sent) \/ i = l
  <2>1. sent \in Seq(Packets)
    BY DEF LinkTypes, LinkTypeOK
  <2> QED BY <1>1, <1>3, <1>6, <2>1
<1>8. /\ Len(air') = Len(air) + n /\ Len(air) \in Nat
      /\ \A m \in 1..Len(air) : air'[m] = air[m] /\ m \in 1..Len(air')
      /\ \A m \in Len(air) + 1..Len(air) + n :
           /\ air'[m].packet = l /\ air'[m].segment = Cut(l, length, m - Len(air))
           /\ m \in 1..Len(air') /\ m - Len(air) \in 1..c
      /\ \A m \in 1..Len(air') : m \in 1..Len(air) \/ m \in Len(air) + 1..Len(air) + n
  <2>1. air \in Seq(Item)
    BY DEF LinkTypes
  <2>0. PICK t \in Seq(Item) : t = Items(n) /\ Len(t) = n /\ air' = air \o t
    BY <1>4, <1>5
  <2>9. /\ Len(air \o t) = Len(air) + Len(t)
        /\ \A m \in 1..Len(air) : (air \o t)[m] = air[m]
        /\ \A k \in 1..Len(t) : (air \o t)[Len(air) + k] = t[k]
    BY ONLY <2>1, t \in Seq(Item), Joined
  <2>2. /\ Len(air') = Len(air) + n /\ Len(air) \in Nat
        /\ \A m \in 1..Len(air) : air'[m] = air[m]
        /\ \A k \in 1..n : air'[Len(air) + k] = Items(n)[k]
    BY <2>0, <2>1, <2>9
  <2>3. ASSUME NEW m \in Len(air) + 1..Len(air) + n
        PROVE  /\ air'[m].packet = l /\ air'[m].segment = Cut(l, length, m - Len(air))
               /\ m \in 1..Len(air') /\ m - Len(air) \in 1..c
    <3>0. PICK a \in Nat : a = Len(air) /\ m \in a + 1..a + n
      BY <2>2
    <3>1. PICK k \in 1..n : k = m - Len(air) /\ m = Len(air) + k
      <4>1. m - a \in 1..n /\ m = a + (m - a)
        BY ONLY a \in Nat, n \in 0..c, c \in 1..16, <3>0
      <4> QED BY <3>0, <4>1
    <3>2. k \in 1..c /\ m \in 1..Len(air')
      BY <2>2, <3>1
    <3> QED BY <1>5, <2>2, <3>1, <3>2
  <2>4. \A m \in 1..Len(air') : m \in 1..Len(air) \/ m \in Len(air) + 1..Len(air) + n
    BY <2>2
  <2>5. \A m \in 1..Len(air) : m \in 1..Len(air')
    BY <2>2
  <2> QED BY <2>2, <2>3, <2>4, <2>5
<1>9. /\ Len(Counts) = Len(sent) /\ Len(Owners) = Len(air)
      /\ Len(Counts') = l /\ Len(Owners') = Len(air')
      /\ \A i \in 1..Len(sent) : Counts'[i] = Counts[i]
      /\ Counts'[l] = c
  <2>1. Len(Counts') = Len(sent') /\ Len(Owners') = Len(air')
    BY <1>7, <1>8 DEF Counts, Owners
  <2>2. \A i \in 1..Len(sent') : Counts'[i] = Count(Len(sent'[i]))
    BY DEF Counts
  <2> QED BY <1>2, <1>3, <1>7, <2>1, <2>2, Views
<1>10. ASSUME NEW m \in 1..Len(air')
       PROVE  /\ Owners'[m] = air'[m].packet
              /\ Numbers'[m] = Number(air'[m], Len(sent'[air'[m].packet]))
  BY DEF Owners, Numbers
<1>11. ASSUME NEW m \in 1..Len(air)
       PROVE  Owners'[m] = Owners[m] /\ Numbers'[m] = Numbers[m]
  <2>1. air'[m] = air[m] /\ m \in 1..Len(air') /\ air[m].packet \in 1..Len(sent)
    BY <1>8, Views
  <2>2. sent'[air[m].packet] = sent[air[m].packet]
    BY <1>7, <2>1
  <2> QED BY <1>10, <2>1, <2>2, Views
<1>12. ASSUME NEW m \in Len(air) + 1..Len(air) + n
       PROVE  Owners'[m] = l /\ Numbers'[m] = m - Len(air)
  <2>1. /\ air'[m].packet = l /\ air'[m].segment = Cut(air'[m].packet, length, m - Len(air))
        /\ m \in 1..Len(air') /\ m - Len(air) \in 1..Count(length)
    BY <1>2, <1>8
  <2>2. Numbers'[m] = Number(air'[m], length)
    BY <1>3, <1>7, <1>10, <2>1
  <2>3. PICK t : t = air'[m]
    OBVIOUS
  <2>4. Number(t, length) = m - Len(air)
    BY <1>2, <2>1, <2>3, NumberFacts
  <2> QED BY <1>10, <2>1, <2>2, <2>3, <2>4
<1>13. Origins' = Origins
  BY <1>6 DEF Origins, Origin
<1>14. /\ Whole \subseteq Whole' /\ Whole' \subseteq Whole \cup {l}
       /\ \A i \in Whole' \ Whole : Counts'[i] = 1
  <2>1. ASSUME NEW i \in 1..Len(sent) PROVE DeliveredWhole(i)' <=> DeliveredWhole(i)
    BY <1>6, <1>7 DEF DeliveredWhole
  <2>2. ASSUME DeliveredWhole(l)' PROVE c = 1
    <3>1. PICK m \in 1..Len(delivered) : delivered[m] = data
      BY <1>6, <1>7, <2>2 DEF DeliveredWhole
    <3>2. l \in Pending /\ l \in Nat
      BY <1>1, <1>7, <1>9 DEF Pending
    <3>3. Before(m, l)
      BY <3>1, <3>2 DEF Deliveries
    <3>4. length = 0
      <4>1. ASSUME length # 0 PROVE FALSE
        <5>1. 1 \in 1..length
          BY <1>2, <4>1, SizeType
        <5>2. data[1] = <<l, 1>>
          BY <1>2, <5>1, PacketFacts DEF data
        <5>3. data[1][1] < l
          BY <1>3, <3>1, <3>3, <5>1 DEF Before
        <5>4. l < l
          BY <5>2, <5>3
        <5> QED BY <3>2, <5>4
      <4> QED BY <4>1
    <3> QED BY <1>2, <3>4 DEF Count
  <2>3. /\ Whole = {i \in 1..Len(sent) : DeliveredWhole(i)}
        /\ Whole' = {i \in 1..l : DeliveredWhole(i)'}
    BY <1>9 DEF Whole
  <2>4. ASSUME NEW i \in Whole' \ Whole PROVE i = l
    BY <1>7, <2>1, <2>3
  <2>5. Whole \subseteq Whole'
    BY <1>7, <2>1, <2>3
  <2>6. ASSUME NEW i \in Whole' \ Whole PROVE Counts'[i] = 1
    <3>1. i = l /\ DeliveredWhole(i)'
      BY <2>3, <2>4
    <3> QED BY <1>9, <2>2, <3>1
  <2> QED BY <2>4, <2>5, <2>6
<1>15. Sending(c, n)
  <2>1. l = Len(Counts) + 1
    BY <1>1, <1>9
  <2> QED BY <1>4, <1>6, <1>8, <1>9, <1>11, <1>12, <1>13, <1>14, <2>1 DEF Sending
<1>16. Cutting'
  <2>1. ASSUME NEW i \in 1..l
        PROVE  Len(sent'[i]) \in 0..MaxPacketSize /\ sent'[i] = PacketOf(i, Len(sent'[i]))
    <3>1. CASE i = l
      BY <1>2, <1>3, <1>7, <3>1 DEF data
    <3>2. CASE i # l
      BY <1>7, <3>2 DEF Cutting
    <3> QED BY <3>1, <3>2
  <2>2. ASSUME NEW m \in 1..Len(air'), Numbers'[m] = 0 PROVE air'[m].segment \in Garbage
    <3>1. CASE m \in 1..Len(air)
      BY <1>8, <1>11, <2>2, <3>1 DEF Cutting
    <3>2. CASE m \in Len(air) + 1..Len(air) + n
      BY <1>8, <1>12, <2>2, <3>2
    <3> QED BY <1>8, <3>1, <3>2
  <2>3. ASSUME NEW k \in 1..expected', Origins'[k] # 0
        PROVE  segments'[k] = Chunk(Origins'[k], Len(sent'[Origins'[k]]), k)
    <3>1. k \in 1..expected /\ Origins[k] # 0
      BY <1>6, <1>13, <2>3
    <3>2. Origins[k] \in 1..Len(sent)
      BY <1>9, <3>1 DEF InSlots
    <3> QED BY <1>6, <1>7, <1>13, <3>1, <3>2 DEF Cutting
  <2>4. Len(segments') = expected'
    BY <1>6 DEF Cutting
  <2> QED BY <1>7, <2>1, <2>2, <2>3, <2>4 DEF Cutting
<1> QED BY <1>6, <1>7, <1>15, <1>16

LEMMA DamageView ==
    ASSUME LinkTypes, Cutting, Lose \/ Garble
    PROVE  (Losing \/ Garbling) /\ Cutting' /\ UNCHANGED <<sent, segments, expected, delivered>>
<1>1. /\ air # << >> /\ damaged' = damaged \cup {Head(air).packet}
      /\ UNCHANGED <<sent, segments, expected, delivered>>
  BY DEF Lose, Garble, Damage
<1>2. /\ Counts' = Counts /\ Origins' = Origins /\ expected' = expected /\ Whole' = Whole
  BY <1>1 DEF Counts, Origins, Origin, Whole, DeliveredWhole
<1>3. /\ Len(air) \in Nat \ {0} /\ 1 \in 1..Len(air) /\ Head(air) = air[1]
      /\ air[1] \in Item /\ air[1].packet \in 1..Len(sent)
      /\ Len(Owners) = Len(air) /\ Owners[1] = air[1].packet
      /\ air \in Seq(Item)
  BY <1>1, FirstItem, Views DEF LinkTypes
<1>4. ASSUME NEW n \in 1..Len(air')
      PROVE  /\ Owners'[n] = air'[n].packet
             /\ Numbers'[n] = Number(air'[n], Len(sent[air'[n].packet]))
  BY <1>1 DEF Owners, Numbers
<1>5. ASSUME NEW n \in 1..Len(air)
      PROVE  /\ Owners[n] = air[n].packet
             /\ Numbers[n] = Number(air[n], Len(sent[air[n].packet]))
  BY Views
<1>6. CASE Lose
  <2>1. /\ Len(air') = Len(air) - 1
        /\ \A n \in 1..Len(air') : air'[n] = air[n + 1] /\ n + 1 \in 1..Len(air)
    BY <1>1, <1>6, FirstItem DEF Lose
  <2>2. Len(Owners') = Len(air')
    BY <1>3, <2>1 DEF Owners
  <2>3. \A n \in 1..Len(air') : Owners'[n] = Owners[n + 1] /\ Numbers'[n] = Numbers[n + 1]
    BY <1>4, <1>5, <2>1
  <2>4. Losing
    BY <1>1, <1>2, <1>3, <2>1, <2>2, <2>3 DEF Losing, Passing
  <2>5. \A n \in 1..Len(air') : Numbers'[n] = 0 => air'[n].segment \in Garbage
    BY <2>1, <2>3 DEF Cutting
  <2> QED BY <1>1, <1>2, <2>4, <2>5 DEF Cutting
<1>7. CASE Garble
  <2>1. PICK garbled \in Garbage : air' = [air EXCEPT ![1].segment = garbled]
    BY <1>7 DEF Garble, Garbage
  <2>2. PICK item : item = [packet |-> air[1].packet, segment |-> garbled]
    OBVIOUS
  <2>3. [air[1] EXCEPT !.segment = garbled] = item
    BY <1>3, <2>2 DEF Item
  <2>4. /\ item.packet = air[1].packet /\ item.segment = garbled
        /\ DOMAIN air = 1..Len(air) /\ DOMAIN air' = 1..Len(air) /\ Len(air') = Len(air)
        /\ \A n \in 1..Len(air) : air'[n] = IF n = 1 THEN item ELSE air[n]
    BY <1>3, <2>1, <2>2, <2>3
  <2>5. Len(Owners') = Len(air)
    BY <1>3, <2>4 DEF Owners
  <2>6. Numbers'[1] = 0 /\ Owners'[1] = Owners[1]
    <3>1. Len(sent[item.packet]) \in 0..MaxPacketSize /\ item.packet \in 1..MaxPackets
      BY <1>3, <2>4, Views
    <3>2. Number(item, Len(sent[item.packet])) = 0
      BY <2>4, <3>1, NumberFacts
    <3> QED BY <1>3, <1>4, <2>4, <3>2
  <2>7. \A n \in 1..Len(air) : n # 1 => Owners'[n] = Owners[n] /\ Numbers'[n] = Numbers[n]
    BY <1>4, <1>5, <2>4
  <2>8. Garbling
    BY <1>1, <1>2, <1>3, <2>5, <2>6, <2>7 DEF Garbling
  <2>9. \A n \in 1..Len(air') : Numbers'[n] = 0 => air'[n].segment \in Garbage
    BY <2>4, <2>7 DEF Cutting
  <2> QED BY <1>1, <1>2, <2>8, <2>9 DEF Cutting
<1> QED BY <1>1, <1>6, <1>7

\* The segment that is fed.
LEMMA HeadView ==
    ASSUME LinkTypes, Cutting, air # << >>
    PROVE  /\ Len(Owners) > 0 /\ Owners[1] = air[1].packet /\ Fed = air[1].segment
           /\ Owners[1] \in 1..Len(sent) /\ Owners[1] \in 1..MaxPackets
           /\ Owners[1] \in 1..Len(Counts)
           /\ Len(sent[Owners[1]]) \in 0..MaxPacketSize
           /\ Counts[Owners[1]] = Count(Len(sent[Owners[1]])) /\ Counts[Owners[1]] \in 1..16
           /\ Numbers[1] \in 0..16
           /\ Numbers[1] = 0 => Fed \in Garbage
           /\ Numbers[1] # 0 => /\ Numbers[1] \in 1..Count(Len(sent[Owners[1]]))
                                /\ Fed = Cut(Owners[1], Len(sent[Owners[1]]), Numbers[1])
<1>1. /\ 1 \in 1..Len(air) /\ Len(air) \in Nat \ {0} /\ Head(air) = air[1]
      /\ air[1].packet \in 1..Len(sent)
  BY FirstItem
<1>2. /\ Len(Owners) = Len(air) /\ Len(Counts) = Len(sent) /\ Owners[1] = air[1].packet
      /\ Numbers[1] = Number(air[1], Len(sent[air[1].packet])) /\ Numbers[1] \in 0..16
      /\ air[1].packet \in 1..MaxPackets
      /\ Len(sent[air[1].packet]) \in 0..MaxPacketSize
      /\ Counts[air[1].packet] = Count(Len(sent[air[1].packet]))
      /\ Counts[air[1].packet] \in 1..16
  BY <1>1, Views
<1>3. Numbers[1] = 0 => Fed \in Garbage
  BY <1>1 DEF Cutting, Fed
<1>4. Numbers[1] # 0 => Genuine(air[1], Len(sent[air[1].packet]), Numbers[1])
  BY <1>2, NumberFacts
<1> QED BY <1>1, <1>2, <1>3, <1>4 DEF Fed, Genuine

LEMMA HeadNumbers ==
    ASSUME LinkTypes, Cutting, air # << >>, Numbers[1] # 0, NEW a \in 1..Len(sent), a = Owners[1]
    PROVE  \E l \in 0..MaxPacketSize, q \in 1..16, c \in 1..16 :
             /\ l = Len(sent[a]) /\ q = Numbers[1] /\ c = Counts[a] /\ c = Count(l)
             /\ q \in 1..c /\ a \in 1..MaxPackets /\ Fed = Cut(a, l, q)
<1>1. PICK l \in 0..MaxPacketSize, q \in 0..16, c \in 1..16 :
         l = Len(sent[a]) /\ q = Numbers[1] /\ c = Counts[a]
  BY HeadView
<1>2. c = Count(l) /\ q \in 1..c /\ Fed = Cut(a, l, q) /\ a \in 1..MaxPackets
  BY <1>1, HeadView
<1>3. q \in 1..16
  BY <1>2
<1> QED BY <1>1, <1>2, <1>3

LEMMA FedGenuine ==
    ASSUME LinkTypes, Cutting, air # << >>, Numbers[1] # 0,
           NEW a \in 1..Len(sent), a = Owners[1]
    PROVE  /\ Fed # << >> /\ FedCount = Counts[a] /\ (FedHeader = 0 <=> Counts[a] = 1)
           /\ CurrentIndex(FedHeader) = Numbers[1] - 1
           /\ MaxIndex(FedHeader) = Counts[a] - 1
           /\ CurrentIndex(FedHeader) <= MaxIndex(FedHeader)
           /\ FedData = Chunk(a, Len(sent[a]), Numbers[1])
           /\ IsLastSegment(Fed) <=> Numbers[1] = Counts[a]
<1>1. PICK l \in 0..MaxPacketSize, q \in 1..16, c \in 1..16 :
         /\ l = Len(sent[a]) /\ q = Numbers[1] /\ c = Counts[a] /\ c = Count(l)
         /\ q \in 1..c /\ a \in 1..MaxPackets /\ Fed = Cut(a, l, q)
  BY HeadNumbers
<1>2. /\ Fed # << >> /\ Tail(Fed) = Chunk(a, l, q) /\ (Fed[1] = 0 <=> c = 1)
      /\ MaxIndex(Fed[1]) = c - 1 /\ CurrentIndex(Fed[1]) = q - 1
      /\ IsLastSegment(Fed) <=> q = c
  BY <1>1, CutFacts
<1>3. (c - 1) + 1 = c /\ q - 1 <= c - 1
  BY <1>1
<1> QED BY <1>1, <1>2, <1>3 DEF FedCount, FedHeader, FedData

LEMMA PassView ==
    ASSUME LinkTypes, Cutting, Feeding
    PROVE  /\ Passing /\ damaged' = damaged /\ sent' = sent /\ Counts' = Counts /\ air # << >>
           /\ \A n \in 1..Len(air') : Numbers'[n] = 0 => air'[n].segment \in Garbage
<1>1. air # << >> /\ air' = Tail(air) /\ UNCHANGED <<sent, damaged>>
  BY DEF Feeding
<1>2. Counts' = Counts
  BY <1>1 DEF Counts
<1>3. /\ Len(air) \in Nat \ {0} /\ Len(air') = Len(air) - 1 /\ Len(Owners) = Len(air)
      /\ \A n \in 1..Len(air') : air'[n] = air[n + 1] /\ n + 1 \in 1..Len(air)
  BY <1>1, FirstItem, Views
<1>4. Len(Owners') = Len(air')
  BY <1>3 DEF Owners
<1>5. ASSUME NEW n \in 1..Len(air')
      PROVE  Owners'[n] = Owners[n + 1] /\ Numbers'[n] = Numbers[n + 1]
  <2>1. /\ Owners'[n] = air'[n].packet
        /\ Numbers'[n] = Number(air'[n], Len(sent[air'[n].packet]))
    BY <1>1 DEF Owners, Numbers
  <2> QED BY <1>3, <2>1, Views
<1>6. Passing
  BY <1>2, <1>3, <1>4, <1>5 DEF Passing
<1> QED BY <1>1, <1>2, <1>3, <1>5, <1>6 DEF Cutting

-----------------------------------------------------------------------------
(* What is stored and what is put together.                                *)

LEMMA StoredView ==
    ASSUME LinkTypes, Cutting, InSlots, air # << >>, Many, Fits,
           NEW a \in 1..Len(sent), a = Owners[1]
    PROVE  /\ Multi /\ Consistent
           /\ Stored \in Seq(Seq(Bytes)) /\ Len(Stored) = Counts[a]
           /\ \A k \in 1..Counts[a] :
                /\ Origin(Stored[k]) = NewOrigin(k)
                /\ NewOrigin(k) # 0 =>
                     /\ NewOrigin(k) \in 1..Len(sent) /\ Counts[NewOrigin(k)] = Counts[a]
                     /\ Stored[k] = Chunk(NewOrigin(k), Len(sent[NewOrigin(k)]), k)
           /\ Complete(Stored) <=> Completing
<1>0. Numbers[1] # 0
  BY HeadView DEF Many
<1>1. PICK l \in 0..MaxPacketSize, q \in 1..16, c \in 1..16 :
         /\ l = Len(sent[a]) /\ q = Numbers[1] /\ c = Counts[a] /\ c = Count(l)
         /\ q \in 1..c /\ a \in 1..MaxPackets /\ c >= 2
  BY <1>0, HeadNumbers DEF Many
<1>2. /\ Fed # << >> /\ FedCount = c /\ FedHeader # 0
      /\ CurrentIndex(FedHeader) = q - 1 /\ CurrentIndex(FedHeader) <= MaxIndex(FedHeader)
      /\ FedData = Chunk(a, l, q)
      /\ IsLastSegment(Fed) <=> q = c
  <2>1. /\ Fed # << >> /\ FedCount = c /\ (FedHeader = 0 <=> c = 1)
        /\ CurrentIndex(FedHeader) = q - 1 /\ CurrentIndex(FedHeader) <= MaxIndex(FedHeader)
        /\ FedData = Chunk(a, l, q)
        /\ IsLastSegment(Fed) <=> q = c
    BY <1>0, <1>1, FedGenuine
  <2> QED BY <1>1, <2>1
<1>3. Multi /\ Consistent
  BY <1>1, <1>2 DEF Multi, Consistent, Fits
<1>4. Stored \in Seq(Seq(Bytes)) /\ Len(Stored) = c
  BY <1>2, <1>3, StoredType
<1> DEFINE slots == IF segments = << >> THEN [n \in 1..c |-> << >>] ELSE segments
<1>5. Stored = [slots EXCEPT ![q] = FedData]
  <2>1. (q - 1) + 1 = q
    BY <1>1
  <2> QED BY <1>2, <2>1 DEF Stored
<1>6. /\ segments \in Seq(Seq(Bytes)) /\ Len(segments) = expected /\ expected \in {0, c}
      /\ Len(Counts) = Len(sent)
      /\ \A k \in 1..expected : Origins[k] = Origin(segments[k])
  BY <1>1, Views DEF LinkTypes, Fits
<1>7. DOMAIN slots = 1..c /\ \A k \in 1..c : slots[k] = IF expected = 0 THEN << >> ELSE segments[k]
  <2>1. segments = << >> <=> expected = 0
    BY <1>6
  <2>2. CASE segments = << >>
    BY <2>1, <2>2
  <2>3. CASE segments # << >>
    BY <1>6, <2>1, <2>3
  <2> QED BY <2>2, <2>3
<1> HIDE DEF slots
<1>8. \A k \in 1..c : Stored[k] = IF k = q THEN Chunk(a, l, q)
                                  ELSE IF expected = 0 THEN << >> ELSE segments[k]
  BY <1>2, <1>5, <1>7
<1>9. Chunk(a, l, q) # << >> /\ Chunk(a, l, q)[1][1] = a
  <2>1. l > 0
    BY <1>1, CountFacts
  <2>2. /\ Chunk(a, l, q) \in Seq(Bytes) /\ Len(Chunk(a, l, q)) = ChunkLength(l, q)
        /\ ChunkLength(l, q) > 0 /\ ChunkLength(l, q) \in Nat
        /\ \A r \in 1..ChunkLength(l, q) : Chunk(a, l, q)[r] = <<a, Start(q) + r>>
    <3>1. q \in 1..Count(l) /\ a \in 1..MaxPackets
      BY <1>1
    <3> QED BY ONLY l \in 0..MaxPacketSize, <2>1, <3>1, ChunkFacts, SegmentationAssumption
  <2>3. 1 \in 1..ChunkLength(l, q)
    BY <2>2
  <2> QED BY <2>2, <2>3
<1>10. ASSUME NEW k \in 1..c
       PROVE  /\ Origin(Stored[k]) = NewOrigin(k)
              /\ NewOrigin(k) # 0 =>
                   /\ NewOrigin(k) \in 1..Len(sent) /\ Counts[NewOrigin(k)] = Counts[a]
                   /\ Stored[k] = Chunk(NewOrigin(k), Len(sent[NewOrigin(k)]), k)
  <2>1. CASE k = q
    <3>1. NewOrigin(k) = a
      BY <1>1, <2>1 DEF NewOrigin
    <3> QED BY <1>1, <1>8, <1>9, <2>1, <3>1 DEF Origin
  <2>2. CASE k # q /\ expected = 0
    <3>1. NewOrigin(k) = 0
      BY <1>1, <2>2 DEF NewOrigin
    <3> QED BY <1>8, <2>2, <3>1 DEF Origin
  <2>3. CASE k # q /\ expected # 0
    <3>1. NewOrigin(k) = Origins[k] /\ k \in 1..expected /\ expected = c
      BY <1>1, <1>6, <2>3 DEF NewOrigin
    <3>2. Stored[k] = segments[k]
      BY <1>8, <2>3
    <3> QED BY <1>1, <1>6, <3>1, <3>2 DEF Cutting, InSlots
  <2> QED BY <2>1, <2>2, <2>3
<1>11. ASSUME NEW k \in 1..c PROVE Stored[k] # << >> <=> NewOrigin(k) # 0
  <2>1. Stored[k] = << >> => NewOrigin(k) = 0
    BY <1>10 DEF Origin
  <2>2. ASSUME Stored[k] # << >> PROVE NewOrigin(k) # 0
    <3>1. Stored[k] \in Seq(Bytes)
      BY <1>4
    <3>2. Stored[k][1] \in Bytes
      BY <2>2, <3>1
    <3>3. Stored[k][1][1] \in 1..MaxPackets
      BY <3>2 DEF Bytes
    <3> QED BY <1>10, <2>2, <3>3 DEF Origin
  <2> QED BY <2>1, <2>2
<1>12. Complete(Stored) <=> Completing
  BY <1>1, <1>2, <1>4, <1>11 DEF Complete, Completing
<1> QED BY <1>1, <1>3, <1>4, <1>10, <1>12

\* The slots put together: as long as the packet in front, each byte at its offset and of
\* the packet its slot is of.
LEMMA FlatView ==
    ASSUME LinkTypes, Cutting, InSlots, air # << >>, Many, Fits, Completing,
           NEW a \in 1..Len(sent), a = Owners[1], NEW d, d = FlattenSeq(Stored)
    PROVE  /\ d \in Seq(Bytes)
           /\ \A j \in 1..Len(d) : d[j][2] = j /\ \E k \in 1..Counts[a] : d[j][1] = NewOrigin(k)
           /\ (\A k \in 1..Counts[a] : NewOrigin(k) = a) => d = sent[a]
           /\ \A i \in 1..Len(sent) : d = sent[i] => i = a
<1>0. Numbers[1] # 0
  BY HeadView DEF Many
<1>1. PICK l \in 0..MaxPacketSize, c \in 1..16 :
         /\ l = Len(sent[a]) /\ c = Counts[a] /\ c = Count(l) /\ a \in 1..MaxPackets
         /\ c = Numbers[1] /\ l > 0 /\ c \in 1..Count(l) /\ c >= 2
  <2>0. PICK l \in 0..MaxPacketSize, q \in 1..16, c \in 1..16 :
           /\ l = Len(sent[a]) /\ q = Numbers[1] /\ c = Counts[a] /\ c = Count(l)
           /\ q \in 1..c /\ a \in 1..MaxPackets
    BY <1>0, HeadNumbers
  <2>1. c = Numbers[1] /\ c >= 2 /\ c \in 1..c
    BY <2>0 DEF Many, Completing
  <2>2. Count(l) > 1
    BY <2>0, <2>1
  <2>3. l > 0
    BY <2>2, CountFacts
  <2> QED BY <2>0, <2>1, <2>3
<1>2. Stored \in Seq(Seq(Bytes)) /\ Len(Stored) = c
  BY <1>1, StoredView
<1>3. ASSUME NEW k \in 1..c
      PROVE  /\ NewOrigin(k) \in 1..Len(sent) /\ NewOrigin(k) \in 1..MaxPackets
             /\ Count(Len(sent[NewOrigin(k)])) = c
             /\ Len(sent[NewOrigin(k)]) \in 0..MaxPacketSize
             /\ Stored[k] = Chunk(NewOrigin(k), Len(sent[NewOrigin(k)]), k)
  <2>1. NewOrigin(k) # 0
    BY <1>1 DEF Completing
  <2> QED BY <1>1, <2>1, StoredView, Views
<1>4. ASSUME NEW k \in 1..c
      PROVE  /\ k < c => Len(Stored[k]) = SegmentDataSize
             /\ \A r \in 1..Len(Stored[k]) : Stored[k][r] = <<NewOrigin(k), Start(k) + r>>
  <2>1. PICK b \in 1..MaxPackets, m \in 0..MaxPacketSize :
            b = NewOrigin(k) /\ m = Len(sent[b]) /\ Count(m) = c /\ Stored[k] = Chunk(b, m, k)
    BY <1>3
  <2>3. Count(m) = c /\ k \in 1..Count(m)
    BY <2>1
  <2>2. /\ k < c => ChunkLength(m, k) = SegmentDataSize
        /\ Len(Chunk(b, m, k)) = ChunkLength(m, k)
        /\ \A r \in 1..ChunkLength(m, k) : Chunk(b, m, k)[r] = <<b, Start(k) + r>>
    BY ONLY m \in 0..MaxPacketSize, b \in 1..MaxPackets, <2>3, ChunkFacts
  <2> QED BY <2>1, <2>2
<1>5. /\ NewOrigin(c) = a
      /\ Len(Stored[c]) \in 1..SegmentDataSize /\ Start(c) + Len(Stored[c]) = l
  <2>1. NewOrigin(c) = a /\ c \in 1..c
    BY <1>1 DEF NewOrigin
  <2>2. Stored[c] = Chunk(a, l, c)
    BY <1>1, <1>3, <2>1
  <2>3. /\ ChunkLength(l, c) \in 0..SegmentDataSize /\ Start(c) + ChunkLength(l, c) = l
        /\ ChunkLength(l, c) > 0 /\ Len(Chunk(a, l, c)) = ChunkLength(l, c)
    <3>1. c \in 1..Count(l) /\ a \in 1..MaxPackets /\ c = Count(l) /\ l > 0
      BY <1>1
    <3> QED BY ONLY l \in 0..MaxPacketSize, <3>1, ChunkFacts
  <2> QED BY <2>1, <2>2, <2>3, SegmentationAssumption
<1>6. /\ d \in Seq(Bytes) /\ Len(d) = l
      /\ \A k \in 1..c : \A r \in 1..Len(Stored[k]) : d[Start(k) + r] = Stored[k][r]
  <2>1. PICK x \in Seq(Seq(Bytes)) : x = Stored /\ Len(x) = c
    BY <1>2
  <2>2. c \in Nat \ {0} /\ \A k \in 1..c : k < c => Len(x[k]) = SegmentDataSize
    <3>1. \A k \in 1..c : k < c => Len(x[k]) = SegmentDataSize
      BY ONLY <1>4, <2>1
    <3> QED BY <3>1
  <2>3. /\ FlattenSeq(x) \in Seq(Bytes) /\ Len(FlattenSeq(x)) = Start(c) + Len(x[c])
        /\ \A k \in 1..c : \A r \in 1..Len(x[k]) : FlattenSeq(x)[Start(k) + r] = x[k][r]
    BY ONLY x \in Seq(Seq(Bytes)), <2>1, <2>2, Flattened
  <2> QED BY <1>5, <2>1, <2>3
<1>7. ASSUME NEW j \in 1..l
      PROVE  \E k \in 1..c : d[j] = <<NewOrigin(k), j>>
  <2>1. PICK last \in Nat : last = Len(Stored[c]) /\ last <= SegmentDataSize /\ l = Start(c) + last
    BY <1>5, SegmentationAssumption
  <2>2. c \in Nat \ {0} /\ j \in 1..Start(c) + last
    BY <1>1, <2>1
  <2>3. PICK k \in 1..c : \E r \in 1..(IF k < c THEN SegmentDataSize ELSE last) : j = Start(k) + r
    BY <2>1, <2>2, Placed
  <2>4. PICK r \in 1..(IF k < c THEN SegmentDataSize ELSE last) : j = Start(k) + r
    BY <2>3
  <2>5. k < c \/ k = c
    OBVIOUS
  <2>6. r \in 1..Len(Stored[k])
    BY <1>4, <2>1, <2>4, <2>5
  <2>7. d[Start(k) + r] = <<NewOrigin(k), Start(k) + r>>
    BY <1>4, <1>6, <2>6
  <2> QED BY <2>4, <2>7
<1>8. sent[a] = PacketOf(a, l)
  BY <1>1 DEF Cutting
<1>9. ASSUME \A k \in 1..c : NewOrigin(k) = a PROVE d = sent[a]
  <2>1. /\ PacketOf(a, l) \in Seq(Bytes) /\ Len(PacketOf(a, l)) = l
        /\ \A j \in 1..l : PacketOf(a, l)[j] = <<a, j>>
    BY <1>1, PacketFacts
  <2>2. \A j \in 1..l : d[j] = PacketOf(a, l)[j]
    BY <1>7, <1>9, <2>1
  <2> QED BY <1>6, <1>8, <2>1, <2>2, SeqEqual
<1>10. ASSUME NEW i \in 1..Len(sent), d = sent[i] PROVE i = a
  <2>1. i \in 1..MaxPackets /\ sent[i] = PacketOf(i, l)
    BY <1>6, <1>10, Views DEF Cutting
  <2>2. l \in 1..l
    BY <1>1, SizeType
  <2>3. d[l] = <<i, l>>
    BY <1>1, <1>10, <2>1, <2>2, PacketFacts
  <2>4. d[l] = <<a, l>>
    <3>1. PICK r \in 1..Len(Stored[c]) : r = Len(Stored[c]) /\ Start(c) + r = l
      BY <1>5
    <3>2. c \in 1..c
      BY <1>1
    <3>3. d[Start(c) + r] = <<NewOrigin(c), Start(c) + r>>
      BY <1>4, <1>6, <3>2
    <3> QED BY <1>5, <3>1, <3>3
  <2> QED BY <2>3, <2>4
<1>11. \A j \in 1..l : d[j][2] = j /\ \E k \in 1..c : d[j][1] = NewOrigin(k)
  <2> SUFFICES ASSUME NEW j \in 1..l
               PROVE  d[j][2] = j /\ \E k \in 1..c : d[j][1] = NewOrigin(k)
    OBVIOUS
  <2>1. PICK k \in 1..c : d[j] = <<NewOrigin(k), j>>
    BY <1>7
  <2> QED BY <2>1
<1>12. c = Counts[a] /\ Len(d) = l
  BY <1>1, <1>6
<1> QED BY <1>6, <1>9, <1>10, <1>11, <1>12

LEMMA WholeAppended ==
    ASSUME NEW S, delivered \in Seq(S), sent' = sent, Counts' = Counts,
           NEW d, delivered' = Append(delivered, d)
    PROVE  \A i : i \in Whole' <=> i \in Whole \/ (i \in 1..Len(Counts) /\ d = sent[i])
<1>1. /\ Len(delivered') = Len(delivered) + 1 /\ Len(delivered) \in Nat
      /\ delivered'[Len(delivered) + 1] = d
      /\ \A n \in 1..Len(delivered) : delivered'[n] = delivered[n]
  BY AppendTo
<1>2. \A n \in 1..Len(delivered') : n \in 1..Len(delivered) \/ n = Len(delivered) + 1
  BY <1>1
<1>3. Len(delivered) + 1 \in 1..Len(delivered') /\ \A n \in 1..Len(delivered) : n \in 1..Len(delivered')
  BY <1>1
<1> SUFFICES ASSUME NEW i \in 1..Len(Counts)
             PROVE  DeliveredWhole(i)' <=> DeliveredWhole(i) \/ d = sent[i]
  BY DEF Whole
<1> QED BY <1>1, <1>2, <1>3 DEF DeliveredWhole

\* Of a delivery: every byte at its offset, and of a packet that was pending.
Delivery(d) ==
    /\ d \in Seq(Bytes)
    /\ \A j \in 1..Len(d) :
        d[j][2] = j /\ (d[j][1] = Owners[1] \/ \E k \in 1..expected : d[j][1] = Origins[k])

Delivering(d) ==
    /\ delivered' = Append(delivered, d) /\ Delivery(d)
    /\ Emptied /\ Numbers[1] = Counts[Owners[1]]
    /\ \/ d = sent[Owners[1]]
       \/ Many /\ Fits /\ Completing /\ ~ \A k \in 1..Counts[Owners[1]] : NewOrigin(k) = Owners[1]

LEMMA ResetView == ASSUME Reset PROVE Emptied /\ Len(segments') = 0
BY DEF Reset, Emptied, Origins

LEMMA SingleView ==
    ASSUME LinkTypes, Cutting, delivered \in Seq(Seq(Bytes)), FeedSingle
    PROVE  Receiving /\ Cutting' /\ Delivering(sent[Owners[1]])
<1>1. /\ Passing /\ damaged' = damaged /\ sent' = sent /\ Counts' = Counts /\ air # << >>
      /\ \A n \in 1..Len(air') : Numbers'[n] = 0 => air'[n].segment \in Garbage
  BY PassView DEF FeedSingle
<1>2. /\ Fed # << >> /\ FedHeader = 0 /\ delivered' = Append(delivered, FedData)
      /\ Emptied /\ Len(segments') = 0 /\ expected' = 0
  BY ResetView DEF FeedSingle, Reset
<1>3. PICK a \in 1..Len(sent) : a = Owners[1] /\ a \in 1..Len(Counts) /\ a \in 1..MaxPackets
  BY <1>1, HeadView
<1>4. Numbers[1] # 0
  <2>1. <<Header(1, 2)>>[1] # 0
    BY DEF Header
  <2>2. Fed \notin Garbage
    BY <1>2, <2>1 DEF Garbage, FedHeader
  <2> QED BY <1>1, <2>2, HeadView
<1>5. PICK l \in 0..MaxPacketSize, q \in 1..16, c \in 1..16 :
         /\ l = Len(sent[a]) /\ q = Numbers[1] /\ c = Counts[a] /\ c = Count(l)
         /\ q \in 1..c /\ Fed = Cut(a, l, q)
  BY <1>1, <1>3, <1>4, HeadNumbers
<1>6. c = 1 /\ q = 1 /\ FedData = Chunk(a, l, 1)
  <2>1. (FedHeader = 0 <=> Counts[a] = 1) /\ FedData = Chunk(a, Len(sent[a]), Numbers[1])
    BY <1>1, <1>3, <1>4, FedGenuine
  <2>2. c = 1
    BY <1>2, <1>5, <2>1
  <2>3. q = 1
    BY <1>5, <2>2
  <2> QED BY <1>5, <2>1, <2>2, <2>3
<1>7. /\ sent[a] = PacketOf(a, l) /\ PacketOf(a, l) \in Seq(Bytes) /\ Len(PacketOf(a, l)) = l
      /\ \A j \in 1..l : PacketOf(a, l)[j] = <<a, j>>
  BY <1>3, <1>5, PacketFacts DEF Cutting
<1>8. FedData = sent[a]
  <2>1. /\ Start(1) = 0 /\ Start(1) + ChunkLength(l, 1) = l /\ ChunkLength(l, 1) \in Nat
        /\ Chunk(a, l, 1) \in Seq(Bytes) /\ Len(Chunk(a, l, 1)) = ChunkLength(l, 1)
        /\ \A r \in 1..ChunkLength(l, 1) : Chunk(a, l, 1)[r] = <<a, Start(1) + r>>
    <3>1. 1 \in 1..Count(l) /\ 1 = Count(l) /\ a \in 1..MaxPackets
      BY <1>3, <1>5, <1>6
    <3>2. PICK k \in 1..Count(l) : k = 1 /\ k = Count(l)
      BY <3>1
    <3>3. /\ Start(k) + ChunkLength(l, k) = l /\ ChunkLength(l, k) \in 0..SegmentDataSize
          /\ Chunk(a, l, k) \in Seq(Bytes) /\ Len(Chunk(a, l, k)) = ChunkLength(l, k)
          /\ \A r \in 1..ChunkLength(l, k) : Chunk(a, l, k)[r] = <<a, Start(k) + r>>
      BY ONLY l \in 0..MaxPacketSize, <3>1, <3>2, ChunkFacts
    <3>4. ChunkLength(l, k) \in Nat
      BY <3>3, SegmentationAssumption
    <3> QED BY <3>2, <3>3, <3>4, StartFacts
  <2>2. ChunkLength(l, 1) = l /\ \A r \in 1..l : 0 + r = r
    BY <2>1
  <2>3. \A r \in 1..l : Chunk(a, l, 1)[r] = PacketOf(a, l)[r]
    BY <1>7, <2>1, <2>2
  <2> QED BY <1>6, <1>7, <2>1, <2>2, <2>3, SeqEqual
<1>9. Delivering(sent[Owners[1]])
  <2>1. Delivery(sent[a])
    BY <1>3, <1>7 DEF Delivery
  <2> QED BY <1>2, <1>3, <1>5, <1>6, <1>8, <2>1 DEF Delivering
<1>10. Single
  <2>1. \A i : i \in Whole' <=> i \in Whole \/ (i \in 1..Len(Counts) /\ sent[a] = sent[i])
    BY <1>1, <1>2, <1>8, WholeAppended
  <2>2. ASSUME NEW i \in 1..Len(Counts), sent[a] = sent[i] PROVE Counts[i] = 1
    <3>1. i \in 1..Len(sent)
      BY Views
    <3>2. Counts[i] = Count(Len(sent[i]))
      BY <3>1, Views
    <3> QED BY <1>5, <1>6, <2>2, <3>2
  <2>3. WholeGrows /\ Owners[1] \in Whole'
    BY <1>3, <2>1, <2>2 DEF WholeGrows
  <2> QED BY <1>2, <1>3, <1>5, <1>6, <2>3 DEF Single
<1>11. Cutting'
  <2>1. \A k \in 1..expected' : FALSE
    BY <1>2
  <2> QED BY <1>1, <1>2, <2>1 DEF Cutting
<1> QED BY <1>1, <1>9, <1>10, <1>11 DEF Receiving

\* Everything but a single segment: the whole of feed for a segment of several.
LEMMA StoreView ==
    ASSUME LinkTypes, Cutting, InSlots, delivered \in Seq(Seq(Bytes)), FeedStore
    PROVE  /\ Receiving /\ Cutting'
           /\ \/ Storing /\ delivered' = delivered
              \/ \E d : Delivering(d)
<1>1. /\ Passing /\ damaged' = damaged /\ sent' = sent /\ Counts' = Counts /\ air # << >>
      /\ \A n \in 1..Len(air') : Numbers'[n] = 0 => air'[n].segment \in Garbage
  BY PassView DEF FeedStore
<1>2. PICK a \in 1..Len(sent) : a = Owners[1] /\ a \in 1..Len(Counts)
  BY <1>1, HeadView
<1>3. Multi /\ Consistent /\ CurrentIndex(FedHeader) <= MaxIndex(FedHeader)
  BY DEF FeedStore
<1>4. Numbers[1] # 0
  <2>1. /\ <<Header(1, 2)>>[1] = Header(1, 2) /\ CurrentIndex(Header(1, 2)) = 2
        /\ MaxIndex(Header(1, 2)) = 1
    BY GarbledHeader
  <2>2. Fed # << >>
    BY <1>3 DEF Multi
  <2>3. ASSUME Fed = <<Header(1, 2)>> PROVE FALSE
    <3>1. FedHeader = Header(1, 2)
      BY <2>1, <2>3 DEF FedHeader
    <3>2. 2 <= 1
      BY <1>3, <2>1, <3>1
    <3> QED BY ONLY <3>2
  <2>4. Fed \notin Garbage
    BY <2>2, <2>3 DEF Garbage
  <2> QED BY <1>1, <2>4, HeadView
<1>5. FedCount = Counts[a] /\ (FedHeader = 0 <=> Counts[a] = 1) /\ Counts[a] \in 1..16
      /\ Numbers[1] \in 0..16
  BY <1>1, <1>2, <1>4, FedGenuine, HeadView
<1>6. Many /\ Fits /\ FedCount = Counts[a]
  <2>1. PICK q \in 0..16, c \in 1..16 : q = Numbers[1] /\ c = Counts[a]
    BY <1>5
  <2>2. q # 0 /\ c # 1
    BY <1>3, <1>4, <1>5, <2>1 DEF Multi
  <2>3. q > 0
    BY <2>2
  <2>4. c >= 2
    BY <2>2
  <2> QED BY <1>2, <1>3, <1>5, <2>1, <2>3, <2>4 DEF Many, Fits, Consistent
<1>7. /\ Stored \in Seq(Seq(Bytes)) /\ Len(Stored) = Counts[a]
      /\ \A k \in 1..Counts[a] :
           /\ Origin(Stored[k]) = NewOrigin(k)
           /\ NewOrigin(k) # 0 =>
                Stored[k] = Chunk(NewOrigin(k), Len(sent[NewOrigin(k)]), k)
      /\ Complete(Stored) <=> Completing
  BY <1>1, <1>2, <1>6, StoredView
<1>8. CASE Complete(Stored)
  <2>1. PICK d : d = FlattenSeq(Stored)
    OBVIOUS
  <2>2. /\ delivered' = Append(delivered, d)
        /\ Emptied /\ Len(segments') = 0 /\ expected' = 0
    BY <1>8, <2>1, ResetView DEF FeedStore, Reset
  <2>3. /\ d \in Seq(Bytes)
        /\ \A j \in 1..Len(d) : d[j][2] = j /\ \E k \in 1..Counts[a] : d[j][1] = NewOrigin(k)
        /\ (\A k \in 1..Counts[a] : NewOrigin(k) = a) => d = sent[a]
        /\ \A i \in 1..Len(sent) : d = sent[i] => i = a
    BY <1>1, <1>2, <1>6, <1>7, <1>8, <2>1, FlatView
  <2>4. \A i : i \in Whole' <=> i \in Whole \/ (i \in 1..Len(Counts) /\ d = sent[i])
    BY <1>1, <2>2, WholeAppended
  <2>5. Len(Counts) = Len(sent)
    BY Views
  <2>6. Joining
    BY <1>2, <1>6, <1>7, <1>8, <2>2, <2>3, <2>4, <2>5 DEF Joining, WholeGrows
  <2>7. Delivery(d)
    <3> SUFFICES ASSUME NEW j \in 1..Len(d)
                 PROVE  d[j][1] = Owners[1] \/ \E k \in 1..expected : d[j][1] = Origins[k]
      BY <2>3 DEF Delivery
    <3>1. PICK k \in 1..Counts[a] : d[j][1] = NewOrigin(k)
      BY <2>3
    <3>2. NewOrigin(k) # 0
      BY <1>2, <1>7, <1>8 DEF Completing
    <3>3. NewOrigin(k) = Owners[1] \/ (expected # 0 /\ NewOrigin(k) = Origins[k])
      BY <3>2 DEF NewOrigin
    <3>4. expected # 0 => k \in 1..expected
      BY <1>2, <1>6 DEF Fits
    <3> QED BY <3>1, <3>3, <3>4
  <2>8. Delivering(d)
    BY <1>2, <1>6, <1>7, <1>8, <2>2, <2>3, <2>7 DEF Delivering, Completing
  <2>9. Cutting'
    <3>1. \A k \in 1..expected' : FALSE
      BY <2>2
    <3> QED BY <1>1, <2>2, <3>1 DEF Cutting
  <2> QED BY <1>1, <2>6, <2>8, <2>9 DEF Receiving
<1>9. CASE ~ Complete(Stored)
  <2>1. segments' = Stored /\ expected' = Counts[a] /\ delivered' = delivered
    BY <1>6, <1>9 DEF FeedStore
  <2>2. \A k \in 1..Counts[a] : Origins'[k] = NewOrigin(k)
    BY <1>7, <2>1 DEF Origins
  <2>3. Whole' = Whole
    BY <1>1, <2>1 DEF Whole, DeliveredWhole
  <2>4. Storing
    BY <1>2, <1>6, <1>7, <1>9, <2>1, <2>2, <2>3 DEF Storing
  <2>5. Cutting'
    <3>1. ASSUME NEW k \in 1..expected', Origins'[k] # 0
          PROVE  segments'[k] = Chunk(Origins'[k], Len(sent'[Origins'[k]]), k)
      BY <1>1, <1>7, <2>1, <2>2, <3>1
    <3>2. Len(segments') = expected'
      BY <1>7, <2>1
    <3> QED BY <1>1, <3>1, <3>2 DEF Cutting
  <2> QED BY <1>1, <2>1, <2>4, <2>5 DEF Receiving
<1> QED BY <1>8, <1>9

LEMMA FeedView ==
    ASSUME LinkTypes, Cutting, InSlots, delivered \in Seq(Seq(Bytes)), Feed
    PROVE  /\ Receiving /\ Cutting' /\ sent' = sent
           /\ \/ (Skipping \/ Dropping \/ Storing) /\ delivered' = delivered
              \/ \E d : Delivering(d)
<1>1. /\ Passing /\ damaged' = damaged /\ sent' = sent /\ Counts' = Counts /\ air # << >>
      /\ \A n \in 1..Len(air') : Numbers'[n] = 0 => air'[n].segment \in Garbage
  BY FeedEffect, PassView
<1>2. CASE FeedSingle
  BY <1>1, <1>2, SingleView
<1>3. CASE FeedStore
  BY <1>1, <1>3, StoreView
<1>4. CASE FeedEmpty
  <2>1. Fed = << >> /\ UNCHANGED <<segments, expected, delivered>>
    BY <1>4 DEF FeedEmpty
  <2>2. Numbers[1] = 0
    <3>1. PICK a \in 1..Len(sent) : a = Owners[1]
      BY <1>1, HeadView
    <3> QED BY <1>1, <2>1, <3>1, FedGenuine
  <2>3. Origins' = Origins /\ Whole' = Whole
    BY <1>1, <2>1 DEF Origins, Origin, Whole, DeliveredWhole
  <2>4. Skipping
    BY <2>1, <2>2, <2>3 DEF Skipping
  <2>5. Cutting'
    BY <1>1, <2>1, <2>3 DEF Cutting
  <2> QED BY <1>1, <2>1, <2>4, <2>5 DEF Receiving
<1>5. CASE FeedInconsistent \/ FeedOutOfRange
  <2>1. /\ Multi /\ delivered' = delivered /\ Emptied /\ Len(segments') = 0 /\ expected' = 0
        /\ ~Consistent \/ ~(CurrentIndex(FedHeader) <= MaxIndex(FedHeader))
    <3>1. ASSUME CurrentIndex(FedHeader) > MaxIndex(FedHeader)
          PROVE  ~(CurrentIndex(FedHeader) <= MaxIndex(FedHeader))
      <4>1. Fed # << >>
        BY <1>5 DEF FeedInconsistent, FeedOutOfRange, Multi
      <4>2. CurrentIndex(FedHeader) \in 0..15 /\ MaxIndex(FedHeader) \in 0..15
        BY <1>1, <4>1, FedType
      <4>3. PICK y \in 0..15, x \in 0..15 : y = CurrentIndex(FedHeader) /\ x = MaxIndex(FedHeader)
        BY <4>2
      <4>4. y > x
        BY <3>1, <4>3
      <4>5. ~(y <= x)
        BY ONLY y \in 0..15, x \in 0..15, <4>4
      <4> QED BY <4>3, <4>5
    <3> QED BY <1>5, <3>1, ResetView DEF FeedInconsistent, FeedOutOfRange, Reset
  <2>2. Whole' = Whole
    BY <1>1, <2>1 DEF Whole, DeliveredWhole
  <2>3. Skipping \/ Dropping
    <3>1. CASE Numbers[1] = 0
      BY <2>1, <2>2, <3>1 DEF Skipping
    <3>2. CASE Numbers[1] # 0
      <4>1. PICK a \in 1..Len(sent) : a = Owners[1]
        BY <1>1, HeadView
      <4>2. PICK q \in 0..16, c \in 1..16 : q = Numbers[1] /\ c = Counts[a] /\ q # 0
        BY <1>1, <3>2, <4>1, HeadView
      <4>3. FedCount = c /\ (FedHeader = 0 <=> c = 1)
            /\ CurrentIndex(FedHeader) <= MaxIndex(FedHeader)
        BY <1>1, <3>2, <4>1, <4>2, FedGenuine
      <4>4. c # 1 /\ ~Consistent
        BY <2>1, <4>3 DEF Multi
      <4>5. q # 0 /\ c # 1
        BY <4>2, <4>4
      <4>6. q > 0 /\ c >= 2
        BY ONLY q \in 0..16, c \in 1..16, <4>5
      <4>7. Many
        BY <4>1, <4>2, <4>6 DEF Many
      <4>8. ~Fits
        BY <4>1, <4>2, <4>3, <4>4 DEF Fits, Consistent
      <4> QED BY <2>1, <2>2, <4>7, <4>8 DEF Dropping
    <3> QED BY <3>1, <3>2
  <2>4. Cutting'
    <3>1. \A k \in 1..expected' : FALSE
      BY <2>1
    <3> QED BY <1>1, <2>1, <3>1 DEF Cutting
  <2> QED BY <1>1, <2>1, <2>3, <2>4 DEF Receiving
<1> QED BY <1>2, <1>3, <1>4, <1>5 DEF Feed

-----------------------------------------------------------------------------
(* What is delivered.                                                      *)

\* While at most one packet was damaged, what is delivered was sent, in the order it was
\* sent, and is older than what is pending.
Sources ==
    (\A x, y \in damaged : x = y) =>
        \E source \in [1..Len(delivered) -> 1..Len(sent)] :
            \A n \in 1..Len(delivered) :
                /\ delivered[n] = sent[source[n]]
                /\ \A m \in 1..(n - 1) : source[m] < source[n]
                /\ \A i \in Pending : source[n] < i

LEMMA PendingSent ==
    ASSUME ViewTypes, NEW c, NEW n, Sending(c, n)
    PROVE  Pending' \subseteq Pending
<1>0. PICK l : l = Len(Counts) + 1
  OBVIOUS
<1>1. /\ Len(Owners) \in Nat /\ n \in Nat /\ Len(Owners') = Len(Owners) + n
      /\ Len(Counts) \in Nat /\ Len(Counts') = l
      /\ \A m \in 1..Len(Owners) : Owners'[m] = Owners[m]
      /\ \A m \in Len(Owners) + 1..Len(Owners) + n : Owners'[m] = l
      /\ Origins' = Origins /\ expected' = expected
  BY <1>0, ViewFacts DEF Sending
<1>2. \A m \in 1..Len(Owners') : m \in 1..Len(Owners) \/ m \in Len(Owners) + 1..Len(Owners) + n
  BY <1>1
<1>3. l \in Nat /\ l > Len(Counts) /\ \A i \in Nat : i > l => i > Len(Counts)
  BY <1>0, <1>1
<1>4. \A m \in 1..Len(Owners') : Owners'[m] \in Pending
  BY <1>1, <1>2, <1>3 DEF Pending
<1>5. \A k \in 1..expected' : Origins'[k] # 0 => Origins'[k] \in Pending
  BY <1>1 DEF Pending
<1>6. \A i \in Nat : i > Len(Counts') => i \in Pending
  BY <1>1, <1>3 DEF Pending
<1> QED BY <1>4, <1>5, <1>6 DEF Pending

LEMMA PendingDamaged ==
    ASSUME ViewTypes, Losing \/ Garbling
    PROVE  Pending' \subseteq Pending
<1>1. /\ Counts' = Counts /\ Origins' = Origins /\ expected' = expected
      /\ \A n \in 1..Len(Owners') : \E m \in 1..Len(Owners) : Owners'[n] = Owners[m]
  <2>1. CASE Losing
    <3>1. \A n \in 1..Len(Owners') : n + 1 \in 1..Len(Owners) /\ Owners'[n] = Owners[n + 1]
      BY <2>1, Shifted DEF Losing
    <3> QED BY <2>1, <3>1 DEF Losing, Passing
  <2>2. CASE Garbling
    BY <2>2 DEF Garbling
  <2> QED BY <2>1, <2>2
<1> QED BY <1>1 DEF Pending

LEMMA PendingReceived ==
    ASSUME ViewTypes, Passing, Skipping \/ Dropping \/ Storing
    PROVE  Pending' \subseteq Pending
<1>1. /\ Counts' = Counts /\ 1 \in 1..Len(Owners)
      /\ \A n \in 1..Len(Owners') : n + 1 \in 1..Len(Owners) /\ Owners'[n] = Owners[n + 1]
  BY Shifted
<1>2. \A n \in 1..Len(Owners') : Owners'[n] \in Pending
  BY <1>1 DEF Pending
<1>3. \A i \in Nat : i > Len(Counts') => i \in Pending
  BY <1>1 DEF Pending
<1>4. ASSUME NEW k \in 1..expected', Origins'[k] # 0 PROVE Origins'[k] \in Pending
  <2>1. CASE Emptied
    <3>1. \A j \in 1..expected' : FALSE
      BY <2>1 DEF Emptied
    <3> QED BY <3>1
  <2>2. CASE Origins' = Origins /\ expected' = expected
    BY <1>4, <2>2 DEF Pending
  <2>3. CASE Storing
    <3>1. /\ expected' = Counts[Owners[1]] /\ (expected = 0 \/ expected = expected')
          /\ Origins'[k] =
               IF k = Numbers[1] THEN Owners[1] ELSE IF expected = 0 THEN 0 ELSE Origins[k]
      BY <2>3 DEF Storing, Fits, NewOrigin
    <3>2. Origins'[k] = Owners[1] \/ (k \in 1..expected /\ Origins'[k] = Origins[k])
      BY <1>4, <3>1
    <3> QED BY <1>1, <1>4, <3>2 DEF Pending
  <2> QED BY <2>1, <2>2, <2>3 DEF Skipping, Dropping
<1> QED BY <1>2, <1>3, <1>4 DEF Pending

\* After a delivery only younger packets are pending.
LEMMA PendingDelivered ==
    ASSUME ViewTypes, InOrder, Passing, NEW d, Delivering(d)
    PROVE  /\ Owners[1] \in Pending /\ Pending' \subseteq Pending
           /\ \A i \in Pending' : Owners[1] < i
<1>1. /\ Counts' = Counts /\ 1 \in 1..Len(Owners)
      /\ \A n \in 1..Len(Owners') : n + 1 \in 1..Len(Owners) /\ Owners'[n] = Owners[n + 1]
  BY Shifted
<1>2. \A n \in 1..Len(Owners') : Owners'[n] \in Pending /\ Owners[1] < Owners'[n]
  <2>1. \A n \in 1..Len(Owners') : Owners[1] < Owners'[n]
    BY LastPassed DEF Delivering
  <2> QED BY <1>1, <2>1 DEF Pending
<1>3. \A i \in Nat : i > Len(Counts') => i \in Pending /\ Owners[1] < i
  <2>1. Owners[1] \in 1..Len(Counts) /\ Len(Counts) \in Nat
    BY <1>1, ViewFacts
  <2> QED BY <1>1, <2>1 DEF Pending
<1>4. \A k \in 1..expected' : FALSE
  BY DEF Delivering, Emptied
<1>5. Owners[1] \in Pending
  BY <1>1 DEF Pending
<1> QED BY <1>2, <1>3, <1>4, <1>5 DEF Pending

LEMMA DeliveriesKept ==
    ASSUME Deliveries, delivered' = delivered, Pending' \subseteq Pending
    PROVE  Deliveries'
BY DEF Deliveries, Before

LEMMA SourcesKept ==
    ASSUME Sources, delivered' = delivered, Pending' \subseteq Pending,
           damaged \subseteq damaged', Len(sent) \in Nat, Len(sent') \in Nat,
           Len(sent) <= Len(sent'), \A i \in 1..Len(sent) : sent'[i] = sent[i]
    PROVE  Sources'
<1> SUFFICES ASSUME \A x, y \in damaged' : x = y
             PROVE  \E source \in [1..Len(delivered') -> 1..Len(sent')] :
                      \A n \in 1..Len(delivered') :
                        /\ delivered'[n] = sent'[source[n]]
                        /\ \A m \in 1..(n - 1) : source[m] < source[n]
                        /\ \A i \in Pending' : source[n] < i
  BY DEF Sources
<1>1. PICK source \in [1..Len(delivered) -> 1..Len(sent)] :
         \A n \in 1..Len(delivered) :
           /\ delivered[n] = sent[source[n]]
           /\ \A m \in 1..(n - 1) : source[m] < source[n]
           /\ \A i \in Pending : source[n] < i
  BY DEF Sources
<1>2. \A i \in 1..Len(sent) : i \in 1..Len(sent')
  OBVIOUS
<1>3. source \in [1..Len(delivered') -> 1..Len(sent')]
  BY <1>2
<1>4. ASSUME NEW n \in 1..Len(delivered') PROVE delivered'[n] = sent'[source[n]]
  BY <1>1
<1> QED BY <1>1, <1>3, <1>4

\* What a delivery is made of is pending until then, and not younger than the packet it
\* completes.
LEMMA DeliveryOld ==
    ASSUME ViewTypes, InSlots, NEW d, Delivery(d), 1 \in 1..Len(Owners),
           NEW j \in 1..Len(d)
    PROVE  /\ d[j] \in Bytes /\ d[j][2] = j
           /\ d[j][1] \in Pending /\ d[j][1] \in Nat /\ d[j][1] <= Owners[1]
<1>1. /\ d \in Seq(Bytes) /\ d[j] \in Bytes /\ d[j][2] = j
      /\ d[j][1] = Owners[1] \/ \E k \in 1..expected : d[j][1] = Origins[k]
  BY DEF Delivery
<1>2. PICK i \in Nat : i = d[j][1] /\ i # 0
  BY <1>1 DEF Bytes
<1>3. Owners[1] \in Nat /\ Owners[1] \in Pending
  BY ViewFacts DEF Pending
<1>4. CASE i = Owners[1]
  BY <1>1, <1>2, <1>3, <1>4
<1>5. CASE i # Owners[1]
  <2>1. PICK k \in 1..expected : i = Origins[k]
    BY <1>1, <1>2, <1>5
  <2>2. i < Owners[1]
    BY <1>2, <1>5, <2>1 DEF InSlots
  <2>3. i \in Pending
    BY <1>2, <2>1 DEF Pending
  <2> QED BY <1>1, <1>2, <1>3, <2>2, <2>3
<1> QED BY <1>4, <1>5

LEMMA DeliveriesAppended ==
    ASSUME ViewTypes, InOrder, InSlots, Deliveries, Passing, NEW d, Delivering(d)
    PROVE  Deliveries'
<1>1. /\ 1 \in 1..Len(Owners) /\ Owners[1] \in Nat
      /\ Pending' \subseteq Pending /\ \A i \in Pending' : Owners[1] < i
  BY PendingDelivered, Shifted, ViewFacts
<1>2. /\ d \in Seq(Bytes) /\ delivered' = Append(delivered, d) /\ Delivery(d)
      /\ delivered \in Seq(Seq(Bytes))
  BY DEF Delivering, Delivery, Deliveries
<1>3. PICK e : e = Len(delivered) + 1
  OBVIOUS
<1>4. /\ Len(delivered) \in Nat /\ Len(delivered') = e /\ delivered'[e] = d
      /\ delivered' \in Seq(Seq(Bytes))
      /\ \A n \in 1..Len(delivered) : delivered'[n] = delivered[n]
      /\ \A n \in 1..e : n = e \/ n \in 1..Len(delivered)
      /\ \A m \in 1..(e - 1) : m \in 1..Len(delivered)
  BY <1>2, <1>3
<1>5. \A j \in 1..Len(d) :
         d[j][2] = j /\ d[j][1] \in Pending /\ d[j][1] \in Nat /\ d[j][1] <= Owners[1]
  BY <1>1, <1>2, DeliveryOld
<1>6. ASSUME NEW n \in 1..Len(delivered), NEW i, Before(n, i) PROVE Before(n, i)'
  BY <1>4, <1>6 DEF Before
<1>7. ASSUME NEW n \in 1..Len(delivered)
      PROVE  /\ \A j \in 1..Len(delivered'[n]) : delivered'[n][j][2] = j
             /\ \A m \in 1..(n - 1) : \A j \in 1..Len(delivered'[n]) :
                  \A b \in 1..Len(delivered'[m]) : delivered'[m][b][1] < delivered'[n][j][1]
             /\ \A i \in Pending' : \A b \in 1..Len(delivered'[n]) : delivered'[n][b][1] < i
  <2>1. \A m \in 1..(n - 1) : m \in 1..Len(delivered)
    BY <1>4
  <2> QED BY <1>1, <1>4, <2>1 DEF Deliveries, Before
<1>8. /\ \A m \in 1..(e - 1) : \A j \in 1..Len(d) :
           \A b \in 1..Len(delivered'[m]) : delivered'[m][b][1] < d[j][1]
      /\ \A i \in Pending' : \A b \in 1..Len(d) : d[b][1] < i
  <2>1. \A i \in Pending' : i \in Nat
    <3>1. \A i \in Pending : i \in Nat
      BY ViewFacts DEF Pending
    <3> QED BY <1>1, <3>1
  <2>2. \A i \in Pending' : \A b \in 1..Len(d) : d[b][1] < i
    BY <1>1, <1>5, <2>1
  <2>3. ASSUME NEW m \in 1..(e - 1), NEW j \in 1..Len(d), NEW b \in 1..Len(delivered'[m])
        PROVE  delivered'[m][b][1] < d[j][1]
    <3>1. m \in 1..Len(delivered) /\ delivered'[m] = delivered[m]
      BY <1>4
    <3>2. PICK i \in Pending : i = d[j][1]
      BY <1>5
    <3>3. b \in 1..Len(delivered[m])
      BY <3>1
    <3>4. delivered[m][b][1] < i
      BY <3>1, <3>3 DEF Deliveries, Before
    <3> QED BY ONLY <3>1, <3>2, <3>4
  <2> QED BY <2>2, <2>3
<1>9. ASSUME NEW n \in 1..e
      PROVE  /\ \A j \in 1..Len(delivered'[n]) : delivered'[n][j][2] = j
             /\ \A m \in 1..(n - 1) : \A j \in 1..Len(delivered'[n]) :
                  \A b \in 1..Len(delivered'[m]) : delivered'[m][b][1] < delivered'[n][j][1]
             /\ \A i \in Pending' : \A b \in 1..Len(delivered'[n]) : delivered'[n][b][1] < i
  BY <1>4, <1>5, <1>7, <1>8
<1> QED BY <1>4, <1>9 DEF Deliveries, Before

LEMMA SourcesAppended ==
    ASSUME Numeric, Sources, Passing, sent' = sent, damaged' = damaged,
           Len(sent) = Len(Counts), delivered \in Seq(Seq(Bytes)), NEW d, Delivering(d)
    PROVE  Sources'
<1> SUFFICES ASSUME \A x, y \in damaged : x = y
             PROVE  \E source \in [1..Len(delivered') -> 1..Len(sent)] :
                      \A n \in 1..Len(delivered') :
                        /\ delivered'[n] = sent[source[n]]
                        /\ \A m \in 1..(n - 1) : source[m] < source[n]
                        /\ \A i \in Pending' : source[n] < i
  BY DEF Sources
<1>1. /\ 1 \in 1..Len(Owners) /\ Owners[1] \in 1..Len(Counts) /\ Owners[1] \in Pending
      /\ Pending' \subseteq Pending /\ \A i \in Pending' : Owners[1] < i
  BY PendingDelivered, Shifted, ViewFacts DEF Numeric
<1>2. PICK a \in 1..Len(sent) : a = Owners[1]
  BY <1>1
<1>3. d = sent[a]
  <2>1. CASE Many /\ Fits /\ Completing
    <3>1. \A k \in 1..Counts[a] : NewOrigin(k) = a
      BY <1>1, <1>2, <2>1, NoMixture, ViewFacts DEF Passing
    <3> QED BY <1>2, <3>1 DEF Delivering
  <2>2. CASE ~(Many /\ Fits /\ Completing)
    BY <1>2, <2>2 DEF Delivering
  <2> QED BY <2>1, <2>2
<1>4. PICK e : e = Len(delivered) + 1
  OBVIOUS
<1>5. /\ Len(delivered) \in Nat /\ Len(delivered') = e /\ delivered'[e] = d
      /\ \A n \in 1..Len(delivered) : delivered'[n] = delivered[n]
      /\ \A n \in 1..e : n = e \/ n \in 1..Len(delivered)
      /\ \A n \in 1..Len(delivered) : n # e /\ \A m \in 1..(n - 1) : m \in 1..e /\ m # e
      /\ \A m \in 1..(e - 1) : m \in 1..Len(delivered) /\ m \in 1..e
  BY <1>4 DEF Delivering
<1>6. PICK source \in [1..Len(delivered) -> 1..Len(sent)] :
         \A n \in 1..Len(delivered) :
           /\ delivered[n] = sent[source[n]]
           /\ \A m \in 1..(n - 1) : source[m] < source[n]
           /\ \A i \in Pending : source[n] < i
  BY DEF Sources
<1>7. PICK longer : longer = [n \in 1..e |-> IF n = e THEN a ELSE source[n]]
  OBVIOUS
<1>8. longer \in [1..Len(delivered') -> 1..Len(sent)]
  BY <1>5, <1>6, <1>7
<1>9. ASSUME NEW n \in 1..e
      PROVE  /\ delivered'[n] = sent[longer[n]]
             /\ \A m \in 1..(n - 1) : longer[m] < longer[n]
             /\ \A i \in Pending' : longer[n] < i
  <2>1. CASE n = e
    <3>1. longer[n] = a /\ \A m \in 1..(n - 1) : longer[m] = source[m]
      BY <1>5, <1>7, <2>1
    <3>2. \A m \in 1..(n - 1) : source[m] < a
      BY <1>1, <1>2, <1>5, <1>6, <2>1
    <3> QED BY <1>1, <1>2, <1>3, <1>5, <2>1, <3>1, <3>2
  <2>2. CASE n \in 1..Len(delivered)
    <3>1. longer[n] = source[n] /\ \A m \in 1..(n - 1) : longer[m] = source[m]
      BY <1>5, <1>7, <2>2
    <3> QED BY <1>1, <1>5, <1>6, <2>2, <3>1
  <2> QED BY <1>5, <2>1, <2>2
<1> QED BY <1>5, <1>8, <1>9

-----------------------------------------------------------------------------
(* The inductive invariant.                                                *)

LEMMA TypesInit == Init => LinkTypes
<1> SUFFICES ASSUME Init PROVE LinkTypes
  OBVIOUS
<1>1. LinkTypeOK
  BY LinkAssumption DEF Init, LinkTypeOK
<1> QED BY <1>1 DEF Init, LinkTypes

LinkInv == LinkTypes /\ Cutting /\ Numeric /\ Deliveries /\ Sources

LEMMA InvInit == Init => LinkInv
<1> SUFFICES ASSUME Init PROVE LinkInv
  OBVIOUS
<1>1. /\ sent = << >> /\ air = << >> /\ delivered = << >>
      /\ damaged = {} /\ segments = << >> /\ expected = 0
  BY DEF Init
<1>2. LinkTypes
  BY TypesInit
<1>3. /\ Len(sent) = 0 /\ Len(air) = 0 /\ Len(segments) = 0 /\ Len(delivered) = 0
      /\ \A n \in 1..0 : FALSE
  BY <1>1
<1>4. /\ Len(Counts) = 0 /\ Len(Owners) = 0
  BY <1>3 DEF Counts, Owners
<1>5. Cutting
  BY <1>1, <1>3 DEF Cutting
<1>6. ViewTypes
  BY <1>2, <1>5, ViewsTyped
<1>7. InOrder
  <2>1. Len(Owners) - 1 = -1 /\ \A n \in 1..(-1) : FALSE
    BY <1>4
  <2> QED BY <1>3, <1>4, <2>1
          DEF InOrder, Rising, Stepwise, Numbered, Unbroken, Present
<1>8. InSlots /\ Lacking /\ InStep /\ Ready /\ Recovered /\ WholeOld
  <2>1. Whole = {}
    BY <1>3, <1>4 DEF Whole
  <2> QED BY <1>1, <1>3, <1>4, <2>1
          DEF InSlots, Lacking, InStep, Ready, Recovered, WholeOld
<1>9. Deliveries
  BY <1>1, <1>3 DEF Deliveries
<1>10. Sources
  <2>1. PICK source : source = [n \in 1..0 |-> n]
    OBVIOUS
  <2>2. source \in [1..Len(delivered) -> 1..Len(sent)]
    BY <1>3, <2>1
  <2> QED BY <1>3, <2>2 DEF Sources
<1> QED BY <1>2, <1>5, <1>6, <1>7, <1>8, <1>9, <1>10 DEF LinkInv, Numeric

LEMMA InvSent ==
    ASSUME LinkInv, NEW length \in Lengths, Send(length) \/ SendFails(length)
    PROVE  LinkInv'
<1>1. /\ LinkTypes /\ Cutting /\ Numeric /\ Deliveries /\ Sources /\ ViewTypes /\ InSlots
  BY DEF LinkInv, Numeric
<1>2. LinkTypes' /\ Cutting' /\ ViewTypes'
  BY <1>1, TypesSent, SendView, ViewsTypedNext
<1>3. PICK c, n : Sending(c, n)
  BY <1>1, SendView
<1>4. Numeric'
  BY <1>1, <1>2, <1>3, NumericStep
<1>5. Pending' \subseteq Pending /\ delivered' = delivered
  BY <1>1, <1>3, PendingSent, SendView
<1>6. Deliveries'
  BY <1>1, <1>5, DeliveriesKept
<1>7. /\ damaged \subseteq damaged' /\ Len(sent) \in Nat /\ Len(sent') \in Nat
      /\ Len(sent) <= Len(sent') /\ \A i \in 1..Len(sent) : sent'[i] = sent[i]
  <2>1. damaged \subseteq damaged'
    BY <1>3 DEF Sending
  <2>2. sent \in Seq(Packets) /\ \E data : sent' = Append(sent, data)
    BY <1>1 DEF LinkTypes, LinkTypeOK, Send, SendFails
  <2>3. Len(sent) \in Nat /\ Len(sent') = Len(sent) + 1
    BY <2>2
  <2> QED BY <1>1, <2>1, <2>3, SendView
<1>8. Sources'
  BY <1>1, <1>5, <1>7, SourcesKept
<1> QED BY <1>2, <1>4, <1>6, <1>8 DEF LinkInv

LEMMA InvDamaged ==
    ASSUME LinkInv, Lose \/ Garble
    PROVE  LinkInv'
<1>1. /\ LinkTypes /\ Cutting /\ Numeric /\ Deliveries /\ Sources /\ ViewTypes
  BY DEF LinkInv, Numeric
<1>2. /\ LinkTypes' /\ Cutting' /\ ViewTypes'
      /\ Losing \/ Garbling
      /\ UNCHANGED <<sent, segments, expected, delivered>>
  BY <1>1, TypesDamaged, DamageView, ViewsTypedNext
<1>3. Numeric'
  BY <1>1, <1>2, NumericStep
<1>4. Pending' \subseteq Pending
  BY <1>1, <1>2, PendingDamaged
<1>5. Deliveries'
  BY <1>1, <1>2, <1>4, DeliveriesKept
<1>6. damaged \subseteq damaged' /\ Len(sent) \in Nat /\ Len(sent) <= Len(sent)
  BY <1>1, <1>2, Views DEF Losing, Garbling
<1>7. Sources'
  BY <1>1, <1>2, <1>4, <1>6, SourcesKept
<1> QED BY <1>2, <1>3, <1>5, <1>7 DEF LinkInv

LEMMA InvReceived ==
    ASSUME LinkInv, Feed
    PROVE  LinkInv'
<1>1. /\ LinkTypes /\ Cutting /\ Numeric /\ Deliveries /\ Sources
      /\ ViewTypes /\ InOrder /\ InSlots /\ delivered \in Seq(Seq(Bytes))
  BY DEF LinkInv, Numeric, Deliveries
<1>2. /\ LinkTypes' /\ Cutting' /\ ViewTypes'
      /\ Receiving /\ sent' = sent
      /\ \/ (Skipping \/ Dropping \/ Storing) /\ delivered' = delivered
         \/ \E d : Delivering(d)
  BY <1>1, TypesFed, FeedView, ViewsTypedNext
<1>3. Numeric'
  BY <1>1, <1>2, NumericStep
<1>4. Passing /\ damaged' = damaged
  BY <1>2 DEF Receiving
<1>5. Len(sent) \in Nat /\ Len(sent) = Len(Counts) /\ Len(sent) <= Len(sent)
  BY <1>1, Views
<1>6. CASE (Skipping \/ Dropping \/ Storing) /\ delivered' = delivered
  <2>1. Pending' \subseteq Pending
    BY <1>1, <1>4, <1>6, PendingReceived
  <2>2. Deliveries'
    BY <1>1, <1>6, <2>1, DeliveriesKept
  <2>3. Sources'
    BY <1>1, <1>2, <1>4, <1>5, <1>6, <2>1, SourcesKept
  <2> QED BY <1>2, <1>3, <2>2, <2>3 DEF LinkInv
<1>7. ASSUME NEW d, Delivering(d) PROVE LinkInv'
  <2>1. Deliveries'
    BY <1>1, <1>4, <1>7, DeliveriesAppended
  <2>2. Sources'
    BY <1>1, <1>2, <1>4, <1>5, <1>7, SourcesAppended
  <2> QED BY <1>2, <1>3, <2>1, <2>2 DEF LinkInv
<1> QED BY <1>2, <1>6, <1>7

LEMMA InvStutter ==
    ASSUME LinkInv, UNCHANGED vars
    PROVE  LinkInv'
<1>1. /\ UNCHANGED <<sent, air, damaged, losses, segments, expected, delivered>>
      /\ LinkTypes /\ Cutting /\ Numeric /\ Deliveries /\ Sources
  BY DEF LinkInv, vars
<1>2. /\ Counts' = Counts /\ Owners' = Owners /\ Numbers' = Numbers /\ Origins' = Origins
      /\ Whole' = Whole
  BY <1>1 DEF Counts, Owners, Numbers, Number, Genuine, Origins, Origin, Whole, DeliveredWhole
<1>3. LinkTypes'
  BY <1>1 DEF LinkTypes, LinkTypeOK
<1>4. Cutting'
  BY <1>1, <1>2 DEF Cutting
<1>5. ViewTypes' /\ InOrder' /\ InSlots'
  BY <1>1, <1>2
     DEF Numeric, ViewTypes, InOrder, Rising, Stepwise, Numbered, Unbroken, Present, InSlots
<1>6. Lacking' /\ InStep'
  BY <1>1, <1>2 DEF Numeric, Lacking, InStep, Holds, Follows, Gone
<1>7. Ready' /\ Recovered' /\ WholeOld'
  BY <1>1, <1>2 DEF Numeric, Ready, Next1, Recovered, WholeOld, Follows, Clean, Gone
<1>8. Pending' = Pending
  BY <1>1, <1>2 DEF Pending
<1>9. Deliveries'
  BY <1>1, <1>8, DeliveriesKept
<1>10. Sources'
  BY <1>1, <1>8 DEF Sources
<1> QED BY <1>3, <1>4, <1>5, <1>6, <1>7, <1>9, <1>10 DEF LinkInv, Numeric

LEMMA InvStep == LinkInv /\ [Next]_vars => LinkInv'
BY InvSent, InvDamaged, InvReceived, InvStutter DEF Next

-----------------------------------------------------------------------------
LEMMA Arrival ==
    ASSUME LinkInv
    PROVE  /\ Recovered
           /\ Len(Counts) = Len(sent) /\ Len(sent) \in Nat
           /\ \A i : Arrived(i) => i \notin damaged /\ Gone(i)
           /\ \A i \in 1..Len(sent) :
                SegmentsOf(i) = Counts[i] /\ (DeliveredWhole(i) <=> i \in Whole)
<1>1. LinkTypes /\ Cutting /\ Recovered
  BY DEF LinkInv, Numeric
<1>2. /\ Len(Counts) = Len(sent) /\ Len(Owners) = Len(air) /\ Len(sent) \in Nat
      /\ \A n \in 1..Len(air) : Owners[n] = air[n].packet
  BY <1>1, Views
<1>3. \A i : Arrived(i) => i \notin damaged /\ Gone(i)
  BY <1>2 DEF Arrived, Gone
<1>4. ASSUME NEW i \in 1..Len(sent) PROVE SegmentsOf(i) = Counts[i]
  <2>1. /\ Len(sent[i]) \in 0..MaxPacketSize /\ sent[i] = PacketOf(i, Len(sent[i]))
        /\ i \in 1..MaxPackets /\ Counts[i] = Count(Len(sent[i]))
    BY <1>1, Views DEF Cutting
  <2>2. PICK l \in 0..MaxPacketSize : l = Len(sent[i])
    BY <2>1
  <2>3. Len(Segment(PacketOf(i, l))) = Count(l)
    BY <2>1, SegmentCut
  <2> QED BY <2>1, <2>2, <2>3 DEF SegmentsOf
<1> QED BY <1>1, <1>2, <1>3, <1>4 DEF Whole

(***************************************************************************)
(* The inductive invariant behind the theorems below: on the air and in    *)
(* the Reassembler's slots are segments cut from packets that were sent,   *)
(* in the order of the packets and of their segments; the slots of a       *)
(* packet that is half fed hold what was fed of it; of a damaged packet a  *)
(* segment is missing for good; what was delivered is older than what is   *)
(* still to come.                                                          *)
(***************************************************************************)
THEOREM Invariance == Spec => []LinkInv
<1> QED BY InvInit, InvStep, PTL DEF Spec

(***************************************************************************)
(* Whatever segments arrive, Reassembler holds as many slots as it expects *)
(* or none, never more than 16, and never writes outside them; every       *)
(* segment that segment() makes has a header that is a byte.               *)
(***************************************************************************)
THEOREM TypeCorrect == Spec => []LinkTypeOK
<1>1. LinkInv => LinkTypeOK
  BY DEF LinkInv, LinkTypes
<1> QED BY <1>1, Invariance, PTL

(***************************************************************************)
(* A packet that fits into one segment is delivered if it arrives, for     *)
(* every segment size and whatever was lost, garbled or left incomplete    *)
(* around it.                                                              *)
(***************************************************************************)
THEOREM Singles == Spec => []SinglesDelivered
<1>1. LinkInv => SinglesDelivered
  BY Arrival DEF SinglesDelivered, Recovered
<1> QED BY <1>1, Invariance, PTL

(***************************************************************************)
(* Whatever is lost or garbled, feed never delivers a byte at an offset it *)
(* was not sent at, and never delivers a byte twice: a packet put together *)
(* from two others has each byte where one of them had it.                 *)
(***************************************************************************)
THEOREM Offsets == Spec => []OffsetsKept
<1>1. LinkInv => OffsetsKept
  <2> SUFFICES ASSUME LinkInv, NEW n \in 1..Len(delivered), NEW j \in 1..Len(delivered[n])
               PROVE  /\ delivered[n][j][2] = j
                      /\ \A m \in 1..Len(delivered) :
                          m # n /\ j <= Len(delivered[m]) => delivered[m][j] # delivered[n][j]
    BY DEF OffsetsKept
  <2>1. /\ delivered \in Seq(Seq(Bytes)) /\ delivered[n][j][2] = j
        /\ \A p \in 1..Len(delivered) : \A m \in 1..(p - 1) : \A b \in 1..Len(delivered[p]) :
             \A a \in 1..Len(delivered[m]) : delivered[m][a][1] < delivered[p][b][1]
    BY DEF LinkInv, Deliveries, Before
  <2>2. ASSUME NEW m \in 1..Len(delivered), m # n, j <= Len(delivered[m])
        PROVE  delivered[m][j] # delivered[n][j]
    <3>1. PICK x, y : x = delivered[m][j] /\ y = delivered[n][j]
      OBVIOUS
    <3>2. delivered[m] \in Seq(Bytes) /\ delivered[n] \in Seq(Bytes)
      BY <2>1
    <3>3. j \in 1..Len(delivered[m])
      BY <2>2, <3>2
    <3>4. x \in Bytes /\ y \in Bytes
      BY <3>1, <3>2, <3>3
    <3>5. x[1] \in Nat /\ y[1] \in Nat
      BY <3>4 DEF Bytes
    <3>6. CASE m < n
      <4>1. m \in 1..(n - 1)
        BY <2>1, <3>6
      <4>2. x[1] < y[1]
        BY <2>1, <3>1, <3>3, <4>1
      <4> QED BY <3>1, <3>5, <4>2
    <3>7. CASE n < m
      <4>1. n \in 1..(m - 1)
        BY <2>1, <3>7
      <4>2. y[1] < x[1]
        BY <2>1, <3>1, <3>3, <4>1
      <4> QED BY <3>1, <3>5, <4>2
    <3> QED BY <2>1, <2>2, <3>6, <3>7
  <2> QED BY <2>1, <2>2
<1> QED BY <1>1, Invariance, PTL

(***************************************************************************)
(* A lost segment costs at most the packet that comes after: a packet that *)
(* arrived is delivered when the one before it arrived too and was         *)
(* delivered or has as many segments, for every segment size, every run of *)
(* packet lengths and every pattern of losses.                             *)
(***************************************************************************)
THEOREM Recovery == Spec => []Recovers
<1>1. LinkInv => Recovers
  <2> SUFFICES ASSUME LinkInv, NEW i \in 1..Len(sent), Arrived(i),
                      \/ i = 1
                      \/ Arrived(i - 1)
                         /\ (DeliveredWhole(i - 1) \/ SegmentsOf(i - 1) = SegmentsOf(i))
               PROVE  DeliveredWhole(i)
    BY DEF Recovers
  <2>1. /\ Recovered /\ Len(Counts) = Len(sent) /\ Len(sent) \in Nat
        /\ \A p : Arrived(p) => p \notin damaged /\ Gone(p)
        /\ \A p \in 1..Len(sent) :
             SegmentsOf(p) = Counts[p] /\ (DeliveredWhole(p) <=> p \in Whole)
    BY Arrival
  <2>2. Follows(i)
    <3>1. CASE i = 1
      BY <3>1 DEF Follows
    <3>2. CASE i # 1
      <4>1. PICK p \in 1..Len(sent) : p = i - 1
        BY <2>1, <3>2
      <4>2. p \notin damaged /\ Gone(p) /\ (p \in Whole \/ Counts[p] = Counts[i])
        BY <2>1, <3>2, <4>1
      <4> QED BY <4>1, <4>2 DEF Follows
    <3> QED BY <3>1, <3>2
  <2> QED BY <2>1, <2>2 DEF Recovered
<1> QED BY <1>1, Invariance, PTL

(***************************************************************************)
(* Reassembler has no checksum to tell a packet put together from two      *)
(* others, but it takes two damaged packets to make one: while segments of *)
(* one packet only were lost, however many, feed returns packets that were *)
(* sent, each at most once and in the order they were sent.                *)
(***************************************************************************)
THEOREM NoMix == Spec => []OneLossNeverMixes
<1>1. LinkInv => OneLossNeverMixes
  <2> SUFFICES ASSUME LinkInv, NEW i \in 1..MaxPackets, damaged \subseteq {i}
               PROVE  \E source \in [1..Len(delivered) -> 1..Len(sent)] :
                        \A n \in 1..Len(delivered) :
                          /\ delivered[n] = sent[source[n]]
                          /\ \A m \in 1..(n - 1) : source[m] < source[n]
    BY DEF OneLossNeverMixes
  <2>1. \A x, y \in damaged : x = y
    OBVIOUS
  <2> QED BY <2>1 DEF LinkInv, Sources
<1> QED BY <1>1, Invariance, PTL
=============================================================================
