-------------------------------- MODULE Packet --------------------------------
(***************************************************************************)
(* packet.py and checksum.py: the bytes of a packet, the ones' complement  *)
(* checksum over them, and what a receiver accepts.                        *)
(*                                                                         *)
(* A byte is a number below 256 and a 16-bit word one below 65536.  The    *)
(* 32-bit fields seq and ack are pairs of words, the high one first.       *)
(***************************************************************************)
EXTENDS Integers, Sequences

HEADER_SIZE == 16
PROTOCOL_VERSION == 1
MAGIC == 42330                                    \* 0xA55A
FLAG_DATA == 1
KNOWN_FLAGS == 7
MAX_PAYLOAD == 65507 - HEADER_SIZE

MaxByte == 255
MaxWord == 65535
Byte == 0 .. MaxByte
Word == 0 .. MaxWord
Header == [checksum : Word, seq : Word \X Word, ack : Word \X Word, flags : Byte,
           version : Byte, payload_len : Word]

-----------------------------------------------------------------------------
(* The header in network byte order.                                       *)

High(w) == w \div 256
Low(w) == w % 256

WordAt(buf, i) == 256 * buf[i] + buf[i + 1]
PairAt(buf, i) == <<WordAt(buf, i), WordAt(buf, i + 2)>>

\* What Header.validate() accepts of the values that fit their fields.
Validates(h) ==
    h.flags <= KNOWN_FLAGS /\ h.version = PROTOCOL_VERSION /\ h.payload_len <= MAX_PAYLOAD

\* encode() raises PacketError for anything else.
Encodable(h, payload) == Validates(h) /\ h.payload_len = Len(payload)

Pack(h) ==
    <<High(h.checksum), Low(h.checksum),
      High(h.seq[1]), Low(h.seq[1]), High(h.seq[2]), Low(h.seq[2]),
      High(h.ack[1]), Low(h.ack[1]), High(h.ack[2]), Low(h.ack[2]),
      h.flags, h.version,
      High(h.payload_len), Low(h.payload_len), High(MAGIC), Low(MAGIC)>>

encode(h, payload) == Pack(h) \o payload

\* Fault: the length field is not compared with what follows the header.
DecodableAnyLength(buf) ==
    /\ Len(buf) >= HEADER_SIZE
    /\ WordAt(buf, 15) = MAGIC /\ buf[12] = PROTOCOL_VERSION
    /\ buf[11] <= KNOWN_FLAGS

\* decode() raises PacketError for anything else.
Decodable(buf) ==
    /\ Len(buf) >= HEADER_SIZE
    /\ WordAt(buf, 15) = MAGIC
    /\ buf[12] = PROTOCOL_VERSION
    /\ buf[11] <= KNOWN_FLAGS
    /\ WordAt(buf, 13) = Len(buf) - HEADER_SIZE
    /\ WordAt(buf, 13) <= MAX_PAYLOAD

decode(buf) ==
    [header |-> [checksum |-> WordAt(buf, 1), seq |-> PairAt(buf, 3), ack |-> PairAt(buf, 7),
                 flags |-> buf[11], version |-> buf[12], payload_len |-> WordAt(buf, 13)],
     payload |-> SubSeq(buf, HEADER_SIZE + 1, Len(buf))]

-----------------------------------------------------------------------------
(* The checksum.                                                           *)

\* Fault: an odd last byte is left out.
DropsOddByte(buf) == IF Len(buf) % 2 = 1 THEN SubSeq(buf, 1, Len(buf) - 1) ELSE buf
Padded(buf) == IF Len(buf) % 2 = 1 THEN Append(buf, 0) ELSE buf

Words(buf) == [i \in 1 .. Len(buf) \div 2 |-> WordAt(buf, 2 * i - 1)]

\* Fault: the carry is lost.
LosesCarry(total) == total % 65536
\* The carry out of the low 16 bits is added to them.
FoldCarry(total) == (total % 65536) + total \div 65536

\* The values of total, from word to word.
Totals(words) ==
    LET total[i \in 0 .. Len(words)] ==
            IF i = 0 THEN 0 ELSE FoldCarry(total[i - 1] + words[i])
    IN  total

\* The fold after the loop is the code's while: one round is all it can take.
checksum(buf) ==
    LET words == Words(Padded(buf))
    IN  65535 - FoldCarry(Totals(words)[Len(words)])

verify(buf) ==
    Len(buf) >= 2 /\ checksum([buf EXCEPT ![1] = 0, ![2] = 0]) = WordAt(buf, 1)

\* The packet with its checksum, as every transport makes it.
Sealed(h, payload) ==
    encode([h EXCEPT !.checksum = checksum(encode(h, payload))], payload)

\* What a receiver takes for a packet; it drops everything else in silence.
Accepts(buf) == verify(buf) /\ Decodable(buf)

-----------------------------------------------------------------------------
(* Reference definitions.                                                  *)

\* RFC 1071: the sum is one modulo 65535 in which 0 is written 65535, unless
\* every word is 0.
Sums(words) ==
    LET sum[i \in 0 .. Len(words)] == IF i = 0 THEN 0 ELSE sum[i - 1] + words[i]
    IN  sum

RFC1071(buf) ==
    LET words == Words(Padded(buf))
        sum == Sums(words)[Len(words)]
    IN  IF sum = 0 THEN 65535 ELSE 65534 - ((sum - 1) % 65535)

\* A byte of a buffer with one bit of it flipped, which is worth bit.
Bits == {1, 2, 4, 8, 16, 32, 64, 128}
Flip(buf, i, bit) ==
    [buf EXCEPT ![i] = IF (@ \div bit) % 2 = 1 THEN @ - bit ELSE @ + bit]
=============================================================================
