------------------------------ MODULE FileLayer ------------------------------
(***************************************************************************)
(* file_layer.py: a file is cut into chunks of mss bytes, and the chunks   *)
(* that arrive are joined.  A file is the sequence of its bytes, and a     *)
(* SHA-256 digest stands for the bytes it was computed from.               *)
(***************************************************************************)
EXTENDS Integers, Sequences

\* A slice of the file, cut off at its end.
Slice(data, start, mss) ==
    SubSeq(data, start + 1, IF start + mss < Len(data) THEN start + mss ELSE Len(data))

\* Fault: only whole chunks.
WholeChunks(data, mss) == [i \in 1 .. Len(data) \div mss |-> Slice(data, (i - 1) * mss, mss)]

chunk(data, mss) ==
    [i \in 1 .. (Len(data) + mss - 1) \div mss |-> Slice(data, (i - 1) * mss, mss)]

\* read_file_chunks() reads on from each position until it gets nothing.
read_file_chunks(data, mss) ==
    LET from[start \in Nat] ==
            IF start >= Len(data) THEN <<>>
            ELSE <<Slice(data, start, mss)>> \o from[start + mss]
    IN  from[0]

\* The chunks joined, from chunk to chunk; also what reassemble_file() writes.
Joined(chunks) ==
    LET joined[i \in 0 .. Len(chunks)] ==
            IF i = 0 THEN <<>> ELSE joined[i - 1] \o chunks[i]
    IN  joined

reassemble(chunks) == Joined(chunks)[Len(chunks)]

sha256(data) == <<"SHA-256", data>>
sha256_file(data, chunk_size) == sha256(reassemble(read_file_chunks(data, chunk_size)))
=============================================================================
