--------------------------- MODULE MCNullTransport ---------------------------
(***************************************************************************)
(* The instance of NullTransport for TLC.                                  *)
(***************************************************************************)
EXTENDS NullTransport

\* No byte, one, several with a short last chunk, all ones, a repeated chunk.
SmallFiles == {<<>>, <<0>>, <<255, 255>>, <<0, 255, 128>>, <<165, 90, 165, 90>>}

OneOrTwo == {1, 2}

\* Too short for a checksum; with a valid checksum but too short for a header;
\* with a valid checksum over zeros; a packet of version 2 with a valid one.
StrayBytes ==
    LET zeros == [i \in 1 .. 18 |-> 0]
        version2 == [Frame(<<7>>) EXCEPT ![12] = 2, ![2] = @ - 1]
    IN  {<<9>>, <<255, 255>>, [zeros EXCEPT ![1] = 255, ![2] = 255], version2}

ASSUME StrayVerifies == \A buf \in StrayBytes : Len(buf) > 1 => verify(buf)
=============================================================================
