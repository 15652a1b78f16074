---------------------------- MODULE NullTransport ----------------------------
(***************************************************************************)
(* null.py as demo.py's run_null() uses it: a file is sent in chunks, one  *)
(* packet each, over a Channel that loses, repeats, reorders and corrupts  *)
(* packets; a thread collects what arrives, and the result is compared     *)
(* with the file.  Packets are their bytes, so that this module also       *)
(* checks the packet format, the checksum and the file layer.              *)
(***************************************************************************)
EXTENDS Packet, FileLayer, SequencesExt

CONSTANTS
    Files,       \* contents of the file
    Mss,         \* chunk sizes
    Stray,       \* datagrams from elsewhere that are no packets
    MaxFlips,    \* bound: packets that the channel corrupts
    MaxInFlight  \* bound: datagrams on the way

ASSUME FilesAssumption ==
    /\ \A f \in Files : f \in Seq(Byte)
    /\ Mss \subseteq 1 .. MAX_PAYLOAD
    /\ \A b \in Stray : b \in Seq(Byte) /\ ~Accepts(b)
    /\ MaxFlips \in Nat /\ MaxInFlight \in Nat

VARIABLES
    data, mss,   \* the file and the size of its chunks; never change
    posted,      \* chunks handed to the sender
    line,        \* datagrams on the way, in the order in which they leave
    flips,       \* packets corrupted
    received,    \* what the thread has collected
    collector,   \* the thread: "collecting" or "ended"
    verdict,     \* of run_null(): "none", "PASS" or "FAIL"
    clean        \* history: nothing was lost, repeated, overtaken, corrupted or late

vars == <<data, mss, posted, line, flips, received, collector, verdict, clean>>

chunks == chunk(data, mss)

Init ==
    /\ data \in Files /\ mss \in Mss
    /\ posted = 0 /\ line = <<>> /\ flips = 0
    /\ received = <<>> /\ collector = "collecting"
    /\ verdict = "none" /\ clean = TRUE

-----------------------------------------------------------------------------
(* The sender.                                                             *)

\* NullTransport.sendto() leaves seq and ack at 0.
Frame(payload) ==
    Sealed([checksum |-> 0, seq |-> <<0, 0>>, ack |-> <<0, 0>>, flags |-> FLAG_DATA,
            version |-> PROTOCOL_VERSION, payload_len |-> Len(payload)], payload)

\* The channel corrupts a packet in one bit of it, at any position.
Corrupted(buf) == {Flip(buf, i, bit) : i \in 1 .. Len(buf), bit \in Bits}

SendTo ==
    /\ posted < Len(chunks)
    /\ posted' = posted + 1
    /\ UNCHANGED <<data, mss, received, collector, verdict>>

SendLost ==
    /\ SendTo
    /\ clean' = FALSE
    /\ UNCHANGED <<line, flips>>

\* Both copies of a duplicated packet have its bytes.
SendCopies ==
    /\ SendTo
    /\ \E k \in 1 .. 2 :
          /\ Len(line) + k <= MaxInFlight
          /\ \/ /\ line' = line \o [i \in 1 .. k |-> Frame(chunks[posted + 1])]
                /\ flips' = flips
                /\ clean' = (clean /\ k = 1)
             \/ /\ flips < MaxFlips
                /\ \E buf \in Corrupted(Frame(chunks[posted + 1])) :
                      line' = line \o [i \in 1 .. k |-> buf]
                /\ flips' = flips + 1
                /\ clean' = FALSE

-----------------------------------------------------------------------------
(* The receiving thread.                                                   *)

\* One round of recvfrom(): anything but a packet is dropped.  The thread
\* ends with the last of the chunks it expects.
Collects(buf) ==
    /\ collector = "collecting" /\ Len(received) < Len(chunks)
    /\ received' = IF Accepts(buf) THEN Append(received, decode(buf).payload) ELSE received
    /\ collector' = IF Len(received') = Len(chunks) THEN "ended" ELSE "collecting"
    /\ UNCHANGED <<data, mss, posted, flips, verdict>>

\* Packets may overtake each other.
Receive ==
    \E i \in DOMAIN line :
        /\ Collects(line[i])
        /\ line' = RemoveAt(line, i)
        /\ clean' = (clean /\ i = 1)

ReceiveStray ==
    /\ \E buf \in Stray : Collects(buf)
    /\ UNCHANGED <<line, clean>>

\* recvfrom() raises TimeoutError, or there is nothing to wait for.
CollectorEnds ==
    /\ collector = "collecting"
    /\ collector' = "ended"
    /\ clean' = (clean /\ chunks = <<>>)
    /\ UNCHANGED <<data, mss, posted, line, flips, received, verdict>>

-----------------------------------------------------------------------------
\* run_null() compares; it waits for the thread, but not for ever.
Verdict ==
    /\ posted = Len(chunks) /\ verdict = "none"
    /\ verdict' = IF Len(received) = Len(chunks) /\ sha256(reassemble(received)) = sha256(data)
                    THEN "PASS" ELSE "FAIL"
    /\ clean' = (clean /\ collector = "ended")
    /\ UNCHANGED <<data, mss, posted, line, flips, received, collector>>

Next == SendLost \/ SendCopies \/ Receive \/ ReceiveStray \/ CollectorEnds \/ Verdict

Spec == Init /\ [][Next]_vars

-----------------------------------------------------------------------------
Sent == {chunks[i] : i \in 1 .. posted}

TypeOK ==
    /\ data \in Files /\ mss \in Mss
    /\ posted \in 0 .. Len(chunks)
    /\ line \in Seq(Seq(Byte)) /\ Len(line) <= MaxInFlight
    /\ \A i \in DOMAIN line : Len(line[i]) \in HEADER_SIZE .. HEADER_SIZE + mss
    /\ flips \in 0 .. MaxFlips
    /\ received \in Seq(Seq(Byte))
    /\ collector \in {"collecting", "ended"}
    /\ verdict \in {"none", "PASS", "FAIL"}
    /\ clean \in BOOLEAN

\* Whatever bit the channel flips and whatever stray bytes arrive, a payload
\* that recvfrom() returns is one that was sent: the checksum and the checks
\* of decode() refuse all else ("every single-bit flip ... is caught").
ReceivedWasSent == \A i \in DOMAIN received : received[i] \in Sent

\* What decode() accepts is what encode() makes of the result, also for
\* bytes that the checksum would have refused: there is one packet per buffer.
DecodeIsInverse ==
    \A i \in DOMAIN line :
        Decodable(line[i]) =>
            LET d == decode(line[i])
            IN  d.header \in Header /\ Encodable(d.header, d.payload)
                    /\ encode(d.header, d.payload) = line[i]

\* The sum that folds its carry at each word is the one of RFC 1071.
ChecksumIsRFC1071 ==
    \A i \in DOMAIN line : checksum(line[i]) = RFC1071(line[i])

\* The chunks are the file: none is empty or too long, joined they give the
\* file, and the incremental reader and the digest of the file agree.
ChunksAreFile ==
    /\ \A i \in DOMAIN chunks : Len(chunks[i]) \in 1 .. mss
    /\ reassemble(chunks) = data
    /\ read_file_chunks(data, mss) = chunks
    /\ sha256_file(data, mss) = sha256(data)

\* When the channel did nothing to the packets the file arrives: chunks,
\* packets, checksum and reassembly fit together.
CleanRunPasses == verdict # "none" /\ clean => verdict = "PASS"

-----------------------------------------------------------------------------
(* The parts of the inductive invariant.                                   *)

\* All that is on the way was sent, as it is or with a bit flipped.
Carried ==
    \A i \in DOMAIN line :
        \E c \in Sent : line[i] = Frame(c) \/ line[i] \in Corrupted(Frame(c))

\* As long as nothing went wrong: first the chunks that have arrived, then
\* those on the way, and the thread ends with the last one.
InOrder ==
    clean =>
        /\ posted = Len(received) + Len(line)
        /\ \A i \in DOMAIN received : received[i] = chunks[i]
        /\ \A i \in DOMAIN line : line[i] = Frame(chunks[Len(received) + i])
        /\ collector = "ended" => Len(received) = Len(chunks)

NullInv == TypeOK /\ Carried /\ ReceivedWasSent /\ InOrder /\ CleanRunPasses
=============================================================================
