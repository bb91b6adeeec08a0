---------------------------- MODULE BundleBuilder ----------------------------
(***************************************************************************)
(* The fluent BundleBuilder (bundle_builder.go, carried in                 *)
(* src/bundle/endpoint_dtn_test.go from line 70).  The builder is one      *)
(* record: its sticky error, the primary block fields it sets, the         *)
(* canonical blocks with their numbers, the block counter and the CRC      *)
(* type.  Every method is an operator from builder to builder; a caller    *)
(* chains any of them, and Build may be called more than once.             *)
(*                                                                         *)
(* Arguments are abstracted to what the code branches on: an endpoint is   *)
(* an EndpointID value, a string that NewEndpointID parses or not, or a    *)
(* value of another type; a duration is a uint, an int, a string that      *)
(* time.ParseDuration turns into a number of nanoseconds or rejects, or a  *)
(* value of another type; a payload is data binary.Write accepts or not.   *)
(***************************************************************************)
EXTENDS Integers, Sequences

CONSTANTS
    Eps,           \* endpoint ids a caller may name
    CallBound      \* calls per builder

NoEndpoint == "EndpointID{}"   \* the zero EndpointID: "not set"
Unparsable == "unparsable"     \* a string NewEndpointID rejects
NoError    == "nil"

\* Canonical block types; only the payload block is told apart by Canonical.
BlockTypes == {"PayloadBlock", "BundleAgeBlock", "HopCountBlock", "PreviousNodeBlock"}
\* BlockControlFlags values, and the bundle processing control flags.
BlockFlagValues == {"NoFlags", "ReplicateBlock"}
BundleFlagValues == {0, 1}
CRCTypeValues == {"CRCNo", "CRC16", "CRC32"}

\* Endpoint arguments (EndpointID or string) and arguments of another type.
EndpointArgs ==
    {[kind |-> "EndpointID", ep |-> e] : e \in Eps \cup {NoEndpoint}}
    \cup {[kind |-> "string", ep |-> e] : e \in Eps \cup {Unparsable}}
    \cup {[kind |-> "other", ep |-> NoEndpoint]}

\* Duration arguments; for a string, val is what time.ParseDuration yields
\* in nanoseconds.
DurationArgs ==
    {[kind |-> "uint", val |-> v] : v \in {0, 5}}
    \cup {[kind |-> "int", val |-> v] : v \in {-1, 0, 5}}
    \cup {[kind |-> "string", val |-> v] : v \in {0, 500, 5000}}
    \cup {[kind |-> k, val |-> 0] : k \in {"badstring", "other"}}

\* Payload data: binary.Write encodes []byte and fixed-size values, and
\* rejects strings and Go's int, which have no fixed size.
PayloadArgs == {"bytes", "fixed", "string", "int"}

\* The optional trailing arguments of the block methods: nothing, a
\* BlockControlFlags value, a value of another type, or two values.
RestArgs == {<<>>, <<"NoFlags">>, <<"ReplicateBlock">>, <<"other">>, <<"NoFlags", "NoFlags">>}

Primaries ==
    [src : Eps \cup {NoEndpoint}, dst : Eps \cup {NoEndpoint},
     rep : Eps \cup {NoEndpoint}, lifetime : Nat, bcf : BundleFlagValues,
     ts : {"zero", "epoch", "now"}]

ZeroPrimary ==
    [src |-> NoEndpoint, dst |-> NoEndpoint, rep |-> NoEndpoint,
     lifetime |-> 0, bcf |-> 0, ts |-> "zero"]

Blocks == [type : BlockTypes, num : Nat, flags : BlockFlagValues]

\* Faulty variant: the block counter starts at 0.
BuilderCounterZero ==
    [err |-> NoError, primary |-> ZeroPrimary, canonicals |-> <<>>,
     canonicalCounter |-> 0, crcType |-> "CRCNo"]

\* Builder(): no error, counter 1, CRCNo.
Builder ==
    [err |-> NoError, primary |-> ZeroPrimary, canonicals |-> <<>>,
     canonicalCounter |-> 1, crcType |-> "CRCNo"]

Fail(b, op) == [b EXCEPT !.err = op]
-----------------------------------------------------------------------------
\* bldrParseEndpoint
ParseEndpoint(a) ==
    IF a.kind = "EndpointID" \/ (a.kind = "string" /\ a.ep # Unparsable)
    THEN [e |-> a.ep, err |-> FALSE]
    ELSE [e |-> NoEndpoint, err |-> TRUE]

\* bldrParseLifetime: a negative int is refused, and so is a string whose
\* duration is <= 0; a duration string is truncated to whole microseconds.
ParseLifetime(d) ==
    CASE d.kind = "uint"   -> [us |-> d.val, err |-> FALSE]
      [] d.kind = "int"    -> IF d.val < 0 THEN [us |-> 0, err |-> TRUE]
                                           ELSE [us |-> d.val, err |-> FALSE]
      [] d.kind = "string" -> IF d.val <= 0 THEN [us |-> 0, err |-> TRUE]
                                            ELSE [us |-> d.val \div 1000, err |-> FALSE]
      [] OTHER             -> [us |-> 0, err |-> TRUE]

\* Faulty variant: CRC without the error check.
CRCIgnoresErr(b, c) == [b EXCEPT !.crcType = c]

\* The setters of the CRC type, the control flags and the creation
\* timestamp do nothing once the builder has failed.
CRC(b, c) == IF b.err = NoError THEN [b EXCEPT !.crcType = c] ELSE b

BundleCtrlFlags(b, f) == IF b.err = NoError THEN [b EXCEPT !.primary.bcf = f] ELSE b

CreationTimestamp(b, t) == IF b.err = NoError THEN [b EXCEPT !.primary.ts = t] ELSE b

\* Destination, Source and ReportTo: parse, then set the field or fail.
SetEndpoint(b, field, a, op) ==
    IF b.err # NoError THEN b
    ELSE LET p == ParseEndpoint(a) IN
         IF p.err THEN Fail(b, op) ELSE [b EXCEPT !.primary[field] = p.e]

Lifetime(b, d) ==
    IF b.err # NoError THEN b
    ELSE LET p == ParseLifetime(d) IN
         IF p.err THEN Fail(b, "Lifetime") ELSE [b EXCEPT !.primary.lifetime = p.us]

\* Faulty variant: the counter advances for the payload block as well.
CanonicalCountsPayload(b, t, rest) ==
    IF b.err # NoError THEN b
    ELSE IF Len(rest) > 1 THEN Fail(b, "Canonical")
    ELSE IF rest # <<>> /\ rest[1] \notin BlockFlagValues THEN Fail(b, "Canonical")
    ELSE LET f == IF rest = <<>> THEN "NoFlags" ELSE rest[1]
             num == IF t = "PayloadBlock" THEN 0 ELSE b.canonicalCounter
         IN [b EXCEPT !.canonicals = Append(@, [type |-> t, num |-> num, flags |-> f]),
                      !.canonicalCounter = @ + 1]

\* Canonical(blockType, data, rest...): two or three arguments, the third a
\* BlockControlFlags; the payload block gets number 0, every other block
\* the counter, which then advances.
Canonical(b, t, rest) ==
    IF b.err # NoError THEN b
    ELSE IF Len(rest) > 1 THEN Fail(b, "Canonical")
    ELSE IF rest # <<>> /\ rest[1] \notin BlockFlagValues THEN Fail(b, "Canonical")
    ELSE LET f == IF rest = <<>> THEN "NoFlags" ELSE rest[1]
             num == IF t = "PayloadBlock" THEN 0 ELSE b.canonicalCounter
         IN [b EXCEPT !.canonicals = Append(@, [type |-> t, num |-> num, flags |-> f]),
                      !.canonicalCounter = IF t = "PayloadBlock" THEN @ ELSE @ + 1]

\* BundleAgeBlock: parse the age; on failure set the error and still call
\* Canonical, which then returns at once.
BundleAgeBlock(b, age, rest) ==
    IF b.err # NoError THEN b
    ELSE LET p == ParseLifetime(age) IN
         Canonical(IF p.err THEN Fail(b, "BundleAgeBlock") ELSE b, "BundleAgeBlock", rest)

\* HopCountBlock: the limit must be an int.
HopCountBlock(b, limitIsInt, rest) ==
    IF b.err # NoError THEN b
    ELSE Canonical(IF limitIsInt THEN b ELSE Fail(b, "HopCountBlock"), "HopCountBlock", rest)

\* PayloadBlock: binary.Write of the data comes first, without looking at
\* the builder's error; a write error replaces whatever error was there.
PayloadBlock(b, data, rest) ==
    IF data \in {"string", "int"} THEN Fail(b, "PayloadBlock")
    ELSE Canonical(b, "PayloadBlock", rest)

PreviousNodeBlock(b, a, rest) ==
    IF b.err # NoError THEN b
    ELSE LET p == ParseEndpoint(a) IN
         Canonical(IF p.err THEN Fail(b, "PreviousNodeBlock") ELSE b, "PreviousNodeBlock", rest)

\* What Build returns: a status, an error, and a bundle (Go's zero Bundle on
\* failure).
ZeroBundle == [primary |-> ZeroPrimary, canonicals |-> <<>>, crcType |-> "CRCNo"]
NoResult == [status |-> "none", err |-> NoError, bundle |-> ZeroBundle]

\* Build's step 1: ReportTo defaults to Source; this is written into the
\* builder itself, before Source and Destination are checked.
WithReportToDefault(b) ==
    IF b.primary.rep = NoEndpoint THEN [b EXCEPT !.primary.rep = b.primary.src] ELSE b

\* Build: the builder after the call and the result.  newBundleOk is the
\* outcome of NewBundle's own validation, which is not part of this file.
Build(b, newBundleOk) ==
    IF b.err # NoError
    THEN [bldr |-> b, res |-> [NoResult EXCEPT !.status = "error", !.err = b.err]]
    ELSE LET b1 == WithReportToDefault(b) IN
         IF b1.primary.src = NoEndpoint \/ b1.primary.dst = NoEndpoint
         THEN [bldr |-> b1, res |-> [NoResult EXCEPT !.status = "error", !.err = "Build"]]
         ELSE IF ~newBundleOk
         THEN [bldr |-> b1, res |-> [NoResult EXCEPT !.status = "error", !.err = "NewBundle"]]
         ELSE [bldr |-> b1,
               res |-> [status |-> "ok", err |-> NoError,
                        bundle |-> [primary |-> b1.primary, canonicals |-> b1.canonicals,
                                    crcType |-> b1.crcType]]]
-----------------------------------------------------------------------------
(* A caller chaining methods on one builder.  explicitRep is a history     *)
(* variable: the report-to endpoint the caller set with ReportTo, if any.  *)
VARIABLES bldr, result, calls, explicitRep

vars == <<bldr, result, calls, explicitRep>>

Init ==
    /\ bldr = Builder
    /\ result = NoResult
    /\ calls = 0
    /\ explicitRep = NoEndpoint

\* One chained call that returns the builder: b is its new state.
Chain(b) ==
    /\ calls < CallBound
    /\ bldr' = b
    /\ calls' = calls + 1
    /\ UNCHANGED result

CallSetter ==
    /\ \/ \E c \in CRCTypeValues : Chain(CRC(bldr, c))
       \/ \E f \in BundleFlagValues : Chain(BundleCtrlFlags(bldr, f))
       \/ \E t \in {"epoch", "now"} : Chain(CreationTimestamp(bldr, t))
       \/ \E a \in EndpointArgs : Chain(SetEndpoint(bldr, "dst", a, "Destination"))
       \/ \E a \in EndpointArgs : Chain(SetEndpoint(bldr, "src", a, "Source"))
       \/ \E d \in DurationArgs : Chain(Lifetime(bldr, d))
    /\ UNCHANGED explicitRep

CallReportTo ==
    \E a \in EndpointArgs :
        /\ Chain(SetEndpoint(bldr, "rep", a, "ReportTo"))
        /\ explicitRep' = IF bldr.err = NoError /\ ~ParseEndpoint(a).err
                          THEN a.ep ELSE explicitRep

CallBlock ==
    /\ \E rest \in RestArgs :
        \/ \E t \in BlockTypes : Chain(Canonical(bldr, t, rest))
        \/ \E d \in DurationArgs : Chain(BundleAgeBlock(bldr, d, rest))
        \/ \E isInt \in BOOLEAN : Chain(HopCountBlock(bldr, isInt, rest))
        \/ \E data \in PayloadArgs : Chain(PayloadBlock(bldr, data, rest))
        \/ \E a \in EndpointArgs : Chain(PreviousNodeBlock(bldr, a, rest))
    /\ UNCHANGED explicitRep

CallBuild ==
    /\ calls < CallBound
    /\ \E ok \in BOOLEAN :
        LET r == Build(bldr, ok) IN
        /\ bldr' = r.bldr
        /\ result' = r.res
        /\ calls' = calls + 1
    /\ UNCHANGED explicitRep

\* The caller starts over with a new builder.
Renew ==
    /\ calls = CallBound
    /\ bldr' = Builder
    /\ result' = NoResult
    /\ calls' = 0
    /\ explicitRep' = NoEndpoint

Next == CallSetter \/ CallReportTo \/ CallBlock \/ CallBuild \/ Renew

Spec == Init /\ [][Next]_vars
-----------------------------------------------------------------------------
TypeOK ==
    /\ bldr.primary \in Primaries
    /\ \A i \in 1..Len(bldr.canonicals) : bldr.canonicals[i] \in Blocks
    /\ bldr.canonicalCounter \in Nat \ {0}
    /\ bldr.crcType \in CRCTypeValues
    /\ result.status \in {"none", "ok", "error"}
    /\ calls \in 0..CallBound

\* Every method but PayloadBlock starts with "if bldr.err != nil { return }":
\* once a call has failed, no later call changes the bundle being built
\* (primary block, blocks, counter, CRC type) and the builder stays failed.
FailedBuilderFrozen ==
    [][bldr.err # NoError /\ calls' = calls + 1 =>
         /\ bldr'.err # NoError
         /\ bldr'.primary = bldr.primary
         /\ bldr'.canonicals = bldr.canonicals
         /\ bldr'.canonicalCounter = bldr.canonicalCounter
         /\ bldr'.crcType = bldr.crcType]_vars

\* Block numbering over any chain of block calls, failing ones included:
\* every payload block is number 0, the other blocks are numbered 1, 2, ...
\* in the order they were added, and the counter is the next free number.
BlockNumbering ==
    LET cs == bldr.canonicals
        others == SelectSeq(cs, LAMBDA cb : cb.type # "PayloadBlock")
    IN /\ \A i \in 1..Len(cs) : cs[i].type = "PayloadBlock" => cs[i].num = 0
       /\ \A i \in 1..Len(others) : others[i].num = i
       /\ bldr.canonicalCounter = Len(others) + 1

\* Build's comment: "Set ReportTo to Source, if it was not set before".  A
\* bundle a Build call returns reports to the endpoint the caller set with
\* ReportTo, or else to the source the builder holds at that call.
ReportToDefaultsToSource ==
    [][CallBuild /\ result'.status = "ok" =>
         result'.bundle.primary.rep =
             IF explicitRep # NoEndpoint THEN explicitRep ELSE bldr.primary.src]_vars
=============================================================================
