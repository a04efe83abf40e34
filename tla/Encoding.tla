------------------------------ MODULE Encoding ------------------------------
(***************************************************************************)
(* How a message becomes DNS names and a message again:                    *)
(* internal/encoding/encoding.go.  Bytes are 0 .. 255, a label is the      *)
(* sequence of its base32hex digits, 0 .. 31.  The zone, the same at both  *)
(* ends, is only its length here.                                          *)
(***************************************************************************)
EXTENDS Integers, Sequences, Functions

CONSTANTS
    Width,     \* bits of a chunk index and of the number of chunks; 16 in the code
    ZoneLen    \* octets of the zone in a DNS name

ASSUME EncodingAssumption == 2^Width \in 1 .. 2^16

Byte == 0 .. 2^8 - 1

\* A base32hex digit.
Digit == 0 .. 2^5 - 1

Wrap(n) == n % 2^Width

\* The sequences of a sequence, one after the other.
Join(seqs) ==
    LET upTo[n \in 0 .. Len(seqs)] == IF n = 0 THEN <<>> ELSE upTo[n - 1] \o seqs[n]
    IN  upTo[Len(seqs)]

\* A bit of a byte, and the exclusive or of two bits.
BitOf(b, i) == (b \div <<128, 64, 32, 16, 8, 4, 2, 1>>[i + 1]) % 2

Xor(x, y) == IF x = y THEN 0 ELSE 1

\* The register of crc16, its highest bit first.
Register == [1 .. 16 -> {0, 1}]

\* A byte is added to its upper half ...
crcAdd(r, b) ==
    <<Xor(r[1], BitOf(b, 0)), Xor(r[2], BitOf(b, 1)), Xor(r[3], BitOf(b, 2)), Xor(r[4], BitOf(b, 3)),
      Xor(r[5], BitOf(b, 4)), Xor(r[6], BitOf(b, 5)), Xor(r[7], BitOf(b, 6)), Xor(r[8], BitOf(b, 7)),
      r[9], r[10], r[11], r[12], r[13], r[14], r[15], r[16]>>

\* ... and eight times the register is shifted; the bit that leaves it comes back
\* at the ones of 0x1021.
crcBit[r \in Register] ==
    <<r[2], r[3], r[4], Xor(r[5], r[1]), r[6], r[7], r[8], r[9],
      r[10], r[11], Xor(r[12], r[1]), r[13], r[14], r[15], r[16], r[1]>>

crcByte(r, b) == crcBit[crcBit[crcBit[crcBit[crcBit[crcBit[crcBit[crcBit[crcAdd(r, b)]]]]]]]]

\* Eight bits after the k-th as a number, and the number of the inverted register.
Octet(r, k) ==
    128 * r[k + 1] + 64 * r[k + 2] + 32 * r[k + 3] + 16 * r[k + 4]
    + 8 * r[k + 5] + 4 * r[k + 6] + 2 * r[k + 7] + r[k + 8]

Inverted(r) == 2^16 - 1 - 256 * Octet(r, 0) - Octet(r, 8)

\* crc[<<i, j, r>>] is the register r after the bytes i to j: the loop of crc16
\* over them, as the loop over their first half and then over the second.
crc16(data) ==
    LET crc[s \in (1 .. Len(data) + 1) \X (0 .. Len(data)) \X Register] ==
            LET i == s[1]  j == s[2]  r == s[3]  m == (i + j) \div 2
            IN  IF i > j THEN r
                ELSE IF i = j THEN crcByte(r, data[i])
                ELSE crc[<<m + 1, j, crc[<<i, m, r>>]>>]
    IN  Inverted(crc[<<1, Len(data), [i \in 1 .. 16 |-> 1]>>])

\* NewChunk, with the conversions of its callers to uint16.
NewChunk(msgID, idx, total, payload, hash) ==
    [MsgID |-> msgID, ChunkIdx |-> Wrap(idx), TotalChunks |-> Wrap(total),
     Checksum |-> crc16(payload), Payload |-> payload, RecipientHash |-> hash]

\* A sequence in pieces of a size, the last one shorter.
Count(n, size) == (n + size - 1) \div size

Pieces(s, size) ==
    [i \in 1 .. Count(Len(s), size) |->
        SubSeq(s, (i - 1) * size + 1, IF i * size > Len(s) THEN Len(s) ELSE i * size)]

ChunkMessage(msgID, plaintext, maxChunkSize, hash) ==
    LET pieces == Pieces(plaintext, IF maxChunkSize <= 0 THEN 220 ELSE maxChunkSize)
    IN  [i \in DOMAIN pieces |-> NewChunk(msgID, i - 1, Len(pieces), pieces[i], hash)]

\* Mutant: the checksums are not compared.
Reassembles_NoChecksum(chunks) ==
    LET total == chunks[1].TotalChunks
    IN  /\ Len(chunks) = total
        /\ {chunks[i].ChunkIdx : i \in 1 .. total} = 0 .. total - 1

\* ReassembleMessage accepts the chunks ...
Reassembles(chunks) ==
    LET total == chunks[1].TotalChunks
    IN  /\ Len(chunks) = total
        /\ {chunks[i].ChunkIdx : i \in 1 .. total} = 0 .. total - 1
        /\ \A i \in 1 .. total : chunks[i].Checksum = crc16(chunks[i].Payload)

\* ... and puts them in order.
ReassembleMessage(chunks) ==
    Join([k \in 1 .. Len(chunks) |->
        (CHOOSE c \in Range(chunks) : c.ChunkIdx = k - 1).Payload])

-----------------------------------------------------------------------------
Bit(s, k) == IF k < 8 * Len(s) THEN BitOf(s[k \div 8 + 1], k % 8) ELSE 0

\* base32hex without padding, and its inverse on the lengths it can produce.
Encode32(s) ==
    [j \in 1 .. (8 * Len(s) + 4) \div 5 |->
        16 * Bit(s, 5*j - 5) + 8 * Bit(s, 5*j - 4) + 4 * Bit(s, 5*j - 3)
        + 2 * Bit(s, 5*j - 2) + Bit(s, 5*j - 1)]

Bits32(e) ==
    [k \in 1 .. 5 * Len(e) |-> (e[(k + 4) \div 5] \div <<16, 8, 4, 2, 1>>[((k - 1) % 5) + 1]) % 2]

Valid32(e) == Len(e) % 8 \in {0, 2, 4, 5, 7}

Decode32(e) ==
    LET bits == Bits32(e) IN [j \in 1 .. (5 * Len(e)) \div 8 |-> Octet(bits, 8 * (j - 1))]

MaxLabel == 63

EncodePayload(payload) == Pieces(Encode32(payload), MaxLabel)

Bytes16(n) == <<n \div 256, n % 256>>

EncodeToLabels(c) ==
    (IF c.RecipientHash # <<>> THEN <<Encode32(c.RecipientHash)>> ELSE <<>>)
    \o <<Encode32(c.MsgID), Encode32(Bytes16(c.ChunkIdx)),
         Encode32(Bytes16(c.TotalChunks)), Encode32(Bytes16(c.Checksum))>>
    \o EncodePayload(c.Payload)

\* Where the labels after the recipient hash begin: 52 digits are 32 bytes.
idxStart(body) == IF Len(body[1]) = 52 THEN 1 ELSE 0

PayloadDigits(body) == Join(SubSeq(body, idxStart(body) + 5, Len(body)))

\* DecodeChunkFromLabels accepts the labels ...
Decodes(body) ==
    /\ Len(body) >= 4
    /\ Len(body) - idxStart(body) >= 4
    /\ \A i \in 1 .. 4 : Valid32(body[idxStart(body) + i])
    /\ Len(Decode32(body[idxStart(body) + 1])) = 8
    /\ \A i \in 2 .. 4 : Len(Decode32(body[idxStart(body) + i])) = 2
    /\ Valid32(PayloadDigits(body))

\* ... and makes them a chunk.
DecodeChunkFromLabels(body) ==
    LET s == idxStart(body)
        number(i) == LET d == Decode32(body[s + i]) IN 256 * d[1] + d[2]
    IN  [MsgID |-> Decode32(body[s + 1]), ChunkIdx |-> number(2), TotalChunks |-> number(3),
         Checksum |-> number(4), Payload |-> Decode32(PayloadDigits(body)),
         RecipientHash |-> IF s = 1 THEN Decode32(body[1]) ELSE <<>>]

\* Octets of the name on the wire: a length before every label, and the root.
NameLength(labels) == SumFunction([i \in DOMAIN labels |-> Len(labels[i]) + 1]) + ZoneLen + 1
=============================================================================
