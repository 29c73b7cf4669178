----------------------------- MODULE PacketCodec -----------------------------
(***************************************************************************)
(* bmap/packet.rs and bmap/enums.rs: BMAP packets and their bytes.  A byte *)
(* string is a sequence of integers in 0..255.                             *)
(***************************************************************************)
EXTENDS Integers, Sequences

Byte == 0..255

FunctionBlock == (0..22) \cup {31}  \* AudioModes is 0x1F, the rest is 0x00..0x16
Operator == 0..7

BmapPacket ==
    [function_block: FunctionBlock, function: Byte, device_id: 0..3, port: 0..3,
     operator: Operator, payload: Seq(Byte)]

NewPacket(block, function, operator, payload) ==
    [function_block |-> block, function |-> function, device_id |-> 0, port |-> 0,
     operator |-> operator, payload |-> payload]

HeaderSize == 4

\* device_id << 6 | port << 4 | operator
PackedByte(p) == p.device_id * 64 + p.port * 16 + p.operator

\* Mutant: the length counts the header.
ToBytesCountingHeader(p) ==
    <<p.function_block, p.function, PackedByte(p), (Len(p.payload) + HeaderSize) % 256>> \o p.payload

\* The length is cast to a byte; nothing keeps a payload below 256.
ToBytes(p) ==
    <<p.function_block, p.function, PackedByte(p), Len(p.payload) % 256>> \o p.payload

Ok(p) == [ok |-> TRUE, packet |-> p]
Err(e) == [ok |-> FALSE, error |-> e]

\* The errors in the order in which from_bytes looks for them.
HeaderError(data) ==
    IF Len(data) < HeaderSize THEN "TooShort"
    ELSE IF data[1] \notin FunctionBlock THEN "InvalidFunctionBlock"
    ELSE IF data[3] % 16 \notin Operator THEN "InvalidOperator"
    ELSE IF Len(data) - HeaderSize < data[4] THEN "PayloadLengthMismatch"
    ELSE "none"

FromBytes(data) ==
    IF HeaderError(data) # "none" THEN Err(HeaderError(data))
    ELSE Ok([function_block |-> data[1],
             function |-> data[2],
             device_id |-> data[3] \div 64,
             port |-> (data[3] \div 16) % 4,
             operator |-> data[3] % 16,
             payload |-> SubSeq(data, HeaderSize + 1, HeaderSize + data[4])])

\* Mutant: a packet that does not parse ends the buffer.
ParseManyUntilError(data) ==
    LET from[offset \in 0..Len(data)] ==
            IF offset + HeaderSize > Len(data) THEN << >>
            ELSE LET end == offset + HeaderSize + data[offset + 4]
                 IN  IF end > Len(data) \/ ~FromBytes(SubSeq(data, offset + 1, end)).ok THEN << >>
                     ELSE <<FromBytes(SubSeq(data, offset + 1, end))>> \o from[end]
    IN  from[0]

\* parse_many: the lengths chain the packets, whether each parses or not; a
\* rest that is too short for its header or its length ends the buffer.
ParseMany(data) ==
    LET from[offset \in 0..Len(data)] ==
            IF offset = Len(data) THEN << >>
            ELSE IF offset + HeaderSize > Len(data) THEN <<Err("TooShort")>>
            ELSE LET end == offset + HeaderSize + data[offset + 4]
                 IN  IF end > Len(data) THEN <<Err("PayloadLengthMismatch")>>
                     ELSE <<FromBytes(SubSeq(data, offset + 1, end))>> \o from[end]
    IN  from[0]
=============================================================================
