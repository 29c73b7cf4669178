------------------------- MODULE PacketCodecProofs -------------------------
(***************************************************************************)
(* What packet.rs' own tests show for a handful of packets, for every      *)
(* packet whose payload the length byte can count.                         *)
(***************************************************************************)
EXTENDS PacketCodec, SequenceTheorems, TLAPS

\* The two ids and the operator share a byte and are told apart again.
LEMMA PackedFields ==
    ASSUME NEW p \in BmapPacket
    PROVE  /\ PackedByte(p) \in Byte
           /\ PackedByte(p) \div 64 = p.device_id
           /\ (PackedByte(p) \div 16) % 4 = p.port
           /\ PackedByte(p) % 16 = p.operator
  <1>1. p.device_id \in 0..3 /\ p.port \in 0..3 /\ p.operator \in 0..7
    BY DEF BmapPacket, Operator
  <1>2. ASSUME NEW d \in 0..3, NEW q \in 0..3, NEW o \in 0..7
        PROVE  LET b == d * 64 + q * 16 + o
               IN  b \in 0..255 /\ b \div 64 = d /\ (b \div 16) % 4 = q /\ b % 16 = o
    OBVIOUS
  <1>3. QED
    BY <1>1, <1>2 DEF PackedByte, Byte

LEMMA BytesAreInts == ASSUME NEW s \in Seq(Byte) PROVE s \in Seq(Int)
  <1>1. Byte \subseteq Int
    BY DEF Byte
  <1>2. ASSUME NEW B, NEW t \in Seq(B), B \subseteq Int PROVE t \in Seq(Int)
    <2>1. Len(t) \in Nat /\ t \in [1..Len(t) -> B]
      BY <1>2
    <2>2. t \in [1..Len(t) -> Int]
      BY <1>2, <2>1
    <2>3. QED
      BY <2>1, <2>2
  <1>3. QED
    BY <1>1, <1>2

LEMMA ConcatOf ==
    ASSUME NEW s \in Seq(Int), NEW t \in Seq(Int), Len(s) = 4
    PROVE  /\ s \o t \in Seq(Int) /\ Len(s \o t) = 4 + Len(t)
           /\ \A n \in 1..4 : (s \o t)[n] = s[n]
           /\ SubSeq(s \o t, 5, 4 + Len(t)) = t
  <1>1. /\ Len(s \o t) = 4 + Len(t) /\ Len(t) \in Nat /\ s \o t \in Seq(Int)
        /\ \A n \in 1..4 : (s \o t)[n] = s[n]
        /\ \A n \in 1..Len(t) : (s \o t)[4 + n] = t[n]
    <2>1. Len(t) \in Nat
      OBVIOUS
    <2>2. s \o t \in Seq(Int) /\ Len(s \o t) = 4 + Len(t)
      <3>1. s \o t \in Seq(Int) /\ Len(s \o t) = Len(s) + Len(t)
        BY ConcatProperties, Zenon
      <3>2. QED
        BY <3>1
    <2>. DEFINE both(i) == IF i <= Len(s) THEN s[i] ELSE t[i - Len(s)]
    <2>c. \A i \in 1..Len(s) + Len(t) : (s \o t)[i] = both(i)
      BY ConcatProperties, Zenon
    <2>. HIDE DEF both
    <2>3. ASSUME NEW n \in 1..4 PROVE (s \o t)[n] = s[n]
      <3>1. n \in 1..(Len(s) + Len(t)) /\ n <= Len(s)
        BY <2>1
      <3>2. QED
        BY <2>c, <3>1 DEF both
    <2>4. ASSUME NEW n \in 1..Len(t) PROVE (s \o t)[4 + n] = t[n]
      <3>1. 4 + n \in 1..(Len(s) + Len(t)) /\ ~(4 + n <= Len(s)) /\ (4 + n) - Len(s) = n
        BY <2>1
      <3>2. QED
        BY <2>c, <3>1 DEF both
    <2>5. QED
      BY <2>1, <2>2, <2>3, <2>4
  <1>2. SubSeq(s \o t, 5, 4 + Len(t)) = [n \in 1..Len(t) |-> (s \o t)[4 + n]]
    BY <1>1
  <1>3. t = [n \in 1..Len(t) |-> t[n]]
    OBVIOUS
  <1>4. QED
    BY <1>1, <1>2, <1>3

\* from_bytes reads back what to_bytes wrote: no field and no payload byte is lost,
\* as long as the payload's length fits its byte (packet.rs).
THEOREM RoundTrip ==
    ASSUME NEW p \in BmapPacket, Len(p.payload) <= 255
    PROVE  FromBytes(ToBytes(p)) = Ok(p)
  <1>. DEFINE data == ToBytes(p)
              size == Len(p.payload)
              header == <<p.function_block, p.function, PackedByte(p), size % 256>>
  <1>1. /\ p.payload \in Seq(Byte) /\ p.function_block \in FunctionBlock /\ p.function \in Byte
        /\ p.operator \in Operator
        /\ p = [function_block |-> p.function_block, function |-> p.function,
                device_id |-> p.device_id, port |-> p.port, operator |-> p.operator,
                payload |-> p.payload]
    BY DEF BmapPacket
  <1>2. size \in Nat /\ size % 256 = size
    BY <1>1
  <1>3. header \in Seq(Int) /\ Len(header) = 4 /\ p.payload \in Seq(Int)
    <2>1. /\ p.function_block \in Int /\ p.function \in Int /\ PackedByte(p) \in Int
      <3>1. Byte \subseteq Int /\ FunctionBlock \subseteq Int
        BY DEF Byte, FunctionBlock
      <3>2. QED
        BY <1>1, <3>1, PackedFields
    <2>2. p.payload \in Seq(Int)
      BY <1>1, BytesAreInts
    <2>3. size % 256 \in Int
      BY <1>2
    <2>4. ASSUME NEW a \in Int, NEW b \in Int, NEW c \in Int, NEW d \in Int
          PROVE  <<a, b, c, d>> \in Seq(Int) /\ Len(<<a, b, c, d>>) = 4
      OBVIOUS
    <2>5. QED
      BY <2>1, <2>2, <2>3, <2>4
  <1>4. /\ data = header \o p.payload /\ data \in Seq(Int) /\ Len(data) = 4 + size
        /\ data[1] = p.function_block /\ data[2] = p.function
        /\ data[3] = PackedByte(p) /\ data[4] = size
    <2>1. data = header \o p.payload
      BY DEF ToBytes
    <2>2. /\ data \in Seq(Int) /\ Len(data) = 4 + size
          /\ \A n \in 1..4 : data[n] = header[n]
      BY <1>3, <2>1, ConcatOf
    <2>3. /\ header[1] = p.function_block /\ header[2] = p.function
          /\ header[3] = PackedByte(p) /\ header[4] = size
      BY <1>2
    <2>4. 1 \in 1..4 /\ 2 \in 1..4 /\ 3 \in 1..4 /\ 4 \in 1..4
      OBVIOUS
    <2>5. QED
      BY <2>1, <2>2, <2>3, <2>4
  <1>5. HeaderError(data) = "none"
    BY <1>1, <1>2, <1>4, PackedFields DEF HeaderError, HeaderSize
  <1>6. SubSeq(data, HeaderSize + 1, HeaderSize + data[4]) = p.payload
    <2>1. SubSeq(header \o p.payload, 5, 4 + Len(p.payload)) = p.payload
      BY <1>3, ConcatOf
    <2>2. data = header \o p.payload /\ data[4] = size
      BY <1>4
    <2>3. HeaderSize = 4 /\ HeaderSize + 1 = 5
      BY DEF HeaderSize
    <2>4. QED
      BY <2>1, <2>2, <2>3
  <1>7. QED
    BY <1>1, <1>4, <1>5, <1>6, PackedFields DEF FromBytes, Ok

\* A packet that parses is one that could have been sent: whatever bytes arrive, every
\* field from_bytes returns is in its range, and the payload is as long as it says.
THEOREM ParsedIsPacket ==
    ASSUME NEW data \in Seq(Byte), FromBytes(data).ok
    PROVE  /\ FromBytes(data).packet \in BmapPacket
           /\ Len(FromBytes(data).packet.payload) = data[4]
  <1>1. HeaderError(data) = "none"
    BY DEF FromBytes, Err
  <1>2. Len(data) \in Nat /\ Len(data) >= 4
    BY <1>1 DEF HeaderError, HeaderSize
  <1>3. data[1] \in Byte /\ data[2] \in Byte /\ data[3] \in Byte /\ data[4] \in Byte
    <2>1. 1 \in 1..Len(data) /\ 2 \in 1..Len(data) /\ 3 \in 1..Len(data) /\ 4 \in 1..Len(data)
      BY <1>2
    <2>2. \A n \in 1..Len(data) : data[n] \in Byte
      OBVIOUS
    <2>3. QED
      BY <2>1, <2>2
  <1>4. data[1] \in FunctionBlock /\ data[3] % 16 \in Operator /\ ~(Len(data) - 4 < data[4])
    BY <1>1, <1>2 DEF HeaderError, HeaderSize
  <1>5. data[3] \div 64 \in 0..3 /\ (data[3] \div 16) % 4 \in 0..3
    <2>1. ASSUME NEW b \in 0..255 PROVE b \div 64 \in 0..3 /\ (b \div 16) % 4 \in 0..3
      OBVIOUS
    <2>2. QED
      BY <1>3, <2>1 DEF Byte
  <1>6. /\ SubSeq(data, HeaderSize + 1, HeaderSize + data[4]) \in Seq(Byte)
        /\ Len(SubSeq(data, HeaderSize + 1, HeaderSize + data[4])) = data[4]
    <2>1. data[4] \in Nat /\ 4 + data[4] <= Len(data) /\ HeaderSize = 4
      <3>1. data[4] \in Nat
        <4>1. Byte \subseteq Nat
          BY DEF Byte
        <4>2. QED
          BY <1>3, <4>1
      <3>2. ASSUME NEW n \in Nat, NEW m \in Nat, ~(m - 4 < n) PROVE 4 + n <= m
        BY <3>2
      <3>3. 4 + data[4] <= Len(data)
        BY <1>2, <1>4, <3>1, <3>2
      <3>4. QED
        BY <3>1, <3>3 DEF HeaderSize
    <2>2. ASSUME NEW size \in Nat, 4 + size <= Len(data)
          PROVE  /\ SubSeq(data, 5, 4 + size) \in Seq(Byte)
                 /\ Len(SubSeq(data, 5, 4 + size)) = size
      BY <1>2, <2>2, SubSeqProperties
    <2>3. HeaderSize + 1 = 5
      BY <2>1
    <2>4. QED
      BY <2>1, <2>2, <2>3
  <1>7. FromBytes(data).packet =
            [function_block |-> data[1], function |-> data[2],
             device_id |-> data[3] \div 64, port |-> (data[3] \div 16) % 4,
             operator |-> data[3] % 16,
             payload |-> SubSeq(data, HeaderSize + 1, HeaderSize + data[4])]
    BY <1>1 DEF FromBytes, Ok
  <1>8. QED
    BY <1>3, <1>4, <1>5, <1>6, <1>7 DEF BmapPacket
=============================================================================
