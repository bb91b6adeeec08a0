---------------------------- MODULE PrimaryBlock ----------------------------
(***************************************************************************)
(* The CBOR array layout of a bundle's primary block (src/unnamed/part_001):*)
(* CodecEncodeSelf writes eight fields, then the fragment offset and total *)
(* data length when the bundle is a fragment, then the CRC when the CRC    *)
(* type is not CRCNo; CodecDecodeSelf reads the array back and picks the   *)
(* layout from its length alone.  Field values are kept abstract: the      *)
(* codec copies them, only their positions matter.                         *)
(***************************************************************************)
EXTENDS Naturals, Sequences

CONSTANTS
    Endpoints,  \* EndpointID values
    Values      \* small unsigned values for the numeric fields

\* CRCType values.
CRCNo == 0
CRC16 == 1
CRC32 == 2
CRCTypes == {CRCNo, CRC16, CRC32}

\* BundleControlFlags: only the fragment flag changes the layout.
BndlCFBundleIsAFragment == "BundleIsAFragment"
ControlFlags == SUBSET {BndlCFBundleIsAFragment, "Other"}

DTNVersion == 7

PrimaryBlocks ==
    [Version : {DTNVersion}, BundleControlFlags : ControlFlags, CRCType : CRCTypes,
     Destination : Endpoints, SourceNode : Endpoints, ReportTo : Endpoints,
     CreationTimestamp : Values \X Values, Lifetime : Values,
     FragmentOffset : Values, TotalDataLength : Values, CRC : Values]

\* PrimaryBlock.HasFragmentation
HasFragmentation(pb) == BndlCFBundleIsAFragment \in pb.BundleControlFlags

\* PrimaryBlock.HasCRC
HasCRC(pb) == pb.CRCType # CRCNo

\* PrimaryBlock.CodecEncodeSelf: the array handed to the CBOR encoder.
Encode(pb) ==
    <<pb.Version, pb.BundleControlFlags, pb.CRCType, pb.Destination,
      pb.SourceNode, pb.ReportTo, pb.CreationTimestamp, pb.Lifetime>>
    \o (IF HasFragmentation(pb) THEN <<pb.FragmentOffset, pb.TotalDataLength>> ELSE <<>>)
    \o (IF HasCRC(pb) THEN <<pb.CRC>> ELSE <<>>)

\* CodecDecodeSelf panics on an array of the wrong length; Decode then
\* yields Panic.
Panic == [panic |-> "blockArr has wrong length"]
DecodePanics(arr) == Len(arr) < 8 \/ Len(arr) > 11

\* Faulty variant: the two ten- and nine-element cases swapped.
DecodeSwapped(arr) ==
    IF DecodePanics(arr) THEN Panic
    ELSE LET base == [Version |-> arr[1], BundleControlFlags |-> arr[2], CRCType |-> arr[3],
                      Destination |-> arr[4], SourceNode |-> arr[5], ReportTo |-> arr[6],
                      CreationTimestamp |-> arr[7], Lifetime |-> arr[8],
                      FragmentOffset |-> 0, TotalDataLength |-> 0, CRC |-> 0]
         IN CASE Len(arr) = 10 -> [base EXCEPT !.CRC = arr[10]]
              [] Len(arr) = 9 -> [base EXCEPT !.FragmentOffset = arr[9]]
              [] Len(arr) = 11 -> [base EXCEPT !.FragmentOffset = arr[9],
                                               !.TotalDataLength = arr[10], !.CRC = arr[11]]
              [] OTHER -> base

\* PrimaryBlock.CodecDecodeSelf with decodeEndpoints and
\* decodeCreationTimestamp, decoding into a zero PrimaryBlock: the length
\* check, the eight fixed fields, then the optional fields by length.
Decode(arr) ==
    IF DecodePanics(arr) THEN Panic
    ELSE LET base == [Version |-> arr[1], BundleControlFlags |-> arr[2], CRCType |-> arr[3],
                      Destination |-> arr[4], SourceNode |-> arr[5], ReportTo |-> arr[6],
                      CreationTimestamp |-> arr[7], Lifetime |-> arr[8],
                      FragmentOffset |-> 0, TotalDataLength |-> 0, CRC |-> 0]
         IN CASE Len(arr) = 9 -> [base EXCEPT !.CRC = arr[9]]
              [] Len(arr) = 10 -> [base EXCEPT !.FragmentOffset = arr[9],
                                               !.TotalDataLength = arr[10]]
              [] Len(arr) = 11 -> [base EXCEPT !.FragmentOffset = arr[9],
                                               !.TotalDataLength = arr[10], !.CRC = arr[11]]
              [] OTHER -> base

\* The fields a primary block keeps on the wire: the fragment fields only
\* for a fragment, the CRC only with a CRC type (the comments on
\* HasFragmentation and HasCRC: only then "should [they] become relevant").
Relevant(pb) ==
    [pb EXCEPT !.FragmentOffset = IF HasFragmentation(pb) THEN @ ELSE 0,
               !.TotalDataLength = IF HasFragmentation(pb) THEN @ ELSE 0,
               !.CRC = IF HasCRC(pb) THEN @ ELSE 0]

\* Decoding what the encoder wrote gives back the primary block, up to the
\* fields the layout leaves out, for every combination of fragment flag and
\* CRC type: the length-based case split of CodecDecodeSelf matches the
\* flag-based appends of CodecEncodeSelf.
RoundTrip(pb) == Decode(Encode(pb)) = Relevant(pb)

\* A decoded primary block only carries fragment fields when its flags mark
\* it a fragment and a CRC only when its CRC type asks for one: whatever
\* array of 8 to 11 elements arrives, the decoder never fills a field that
\* the block's own flags declare irrelevant.
DecodeRespectsFlags(arr) ==
    ~DecodePanics(arr) => Decode(arr) = Relevant(Decode(arr))
=============================================================================
