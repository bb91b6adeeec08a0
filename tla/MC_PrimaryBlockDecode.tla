------------------------ MODULE MC_PrimaryBlockDecode ------------------------
(***************************************************************************)
(* Walks through the CBOR arrays of 8 to 11 elements a peer may send as a  *)
(* primary block and decodes each.                                         *)
(***************************************************************************)
EXTENDS PrimaryBlock

VARIABLE arr

\* The eight fixed fields followed by 0 to 3 further values.
Arrays ==
    UNION {{<<DTNVersion, f, t, e, e, e, <<v, v>>, v>> \o tail :
             tail \in UNION {[1..k -> Values] : k \in 0..3}} :
           f \in ControlFlags, t \in CRCTypes, e \in Endpoints, v \in Values}

TypeOK == arr \in Arrays

Init == arr \in Arrays

\* Take the next array to decode.
NextArray == \E a \in Arrays : arr' = a

Spec == Init /\ [][NextArray]_arr

\* CodecDecodeSelf fills fragment and CRC fields only when the decoded
\* block's flags and CRC type make them relevant.
DecodedFieldsRelevant == DecodeRespectsFlags(arr)
=============================================================================
