--------------------------- MODULE TcpclSessTerm ---------------------------
(***************************************************************************)
(* The TCPCL SESS_TERM message codec (src/cla/tcpcl/message_sess_term.go): *)
(* MarshalBinary writes the message header 0x05, the flags octet and the   *)
(* reason code octet big-endian; UnmarshalBinary reads them back from a    *)
(* byte slice and fails on a wrong header or a slice that ends early.      *)
(***************************************************************************)
EXTENDS Naturals, Sequences

CONSTANTS
    FlagValues,   \* SessionTerminationFlags octets
    ReasonValues  \* SessionTerminationCode octets (valid or not)

\* SessionTerminationFlags: the single flag bit.
TerminationReply == 1

\* SessionTerminationCode: the reason codes the package defines.
TerminationUnknown            == 0
TerminationIdleTimeout        == 1
TerminationVersionMismatch    == 2
TerminationBusy               == 3
TerminationContactFailure     == 4
TerminationResourceExhaustion == 5

SessionTerminationCodes ==
    {TerminationUnknown, TerminationIdleTimeout, TerminationVersionMismatch,
     TerminationBusy, TerminationContactFailure, TerminationResourceExhaustion}

\* The octets enumerated cover the reply flag and every defined reason code.
ASSUME TerminationReply \in FlagValues /\ SessionTerminationCodes \subseteq ReasonValues

SESS_TERM == 5

NewSessionTerminationMessage(flags, reason) == [Flags |-> flags, ReasonCode |-> reason]

\* Every message a caller can construct: the fields are plain octets, so
\* undefined flag bits and reason codes can be built and sent as well.
Messages == {NewSessionTerminationMessage(f, r) : f \in FlagValues, r \in ReasonValues}

\* SessionTerminationMessage.MarshalBinary: the three fields in order.
MarshalBinary(stm) == <<SESS_TERM, stm.Flags, stm.ReasonCode>>

DecodeError == [error |-> TRUE]

\* Faulty variant: the two fields read in the wrong order.
UnmarshalBinarySwapped(data) ==
    IF Len(data) < 3 \/ data[1] # SESS_TERM THEN DecodeError
    ELSE [Flags |-> data[3], ReasonCode |-> data[2]]

\* SessionTerminationMessage.UnmarshalBinary: binary.Read of the header,
\* which must be SESS_TERM, then of Flags and ReasonCode; each read fails
\* when the slice has no octet left for it.  Octets after the third are
\* not looked at.
UnmarshalBinary(data) ==
    IF Len(data) < 1 \/ data[1] # SESS_TERM THEN DecodeError
    ELSE IF Len(data) < 3 THEN DecodeError
    ELSE [Flags |-> data[2], ReasonCode |-> data[3]]

\* Every SESS_TERM message decodes to itself, and every truncation of its
\* encoding (a connection cut mid-message) is refused instead of yielding
\* a message with made-up fields.
SessTermCodecCorrect(stm, cut) ==
    LET wire == SubSeq(MarshalBinary(stm), 1, cut) IN
    IF cut = 3 THEN UnmarshalBinary(wire) = stm
    ELSE UnmarshalBinary(wire) = DecodeError
=============================================================================
