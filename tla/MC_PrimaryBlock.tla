--------------------------- MODULE MC_PrimaryBlock ---------------------------
(***************************************************************************)
(* Walks through every primary block over small field values and checks    *)
(* that decoding its encoding gives it back.                               *)
(***************************************************************************)
EXTENDS PrimaryBlock

VARIABLE pb


Init == pb \in PrimaryBlocks

\* Take the next primary block to encode.
NextBlock == \E q \in PrimaryBlocks : pb' = q

Spec == Init /\ [][NextBlock]_pb

\* CodecDecodeSelf inverts CodecEncodeSelf on every primary block.
EncodeDecodeRoundTrip == RoundTrip(pb)
=============================================================================
