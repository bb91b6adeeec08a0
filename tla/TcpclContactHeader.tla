------------------------- MODULE TcpclContactHeader -------------------------
(***************************************************************************)
(* The TCPCL contact header exchange (src/cla/tcpcl/contact_header.go):    *)
(* the peer's Marshal writes the six octets "dtn!", version 4 and the      *)
(* flags onto the TCP connection; TCP delivers them in segments of any     *)
(* size; Unmarshal makes one r.Read into a six-octet buffer and validates  *)
(* length, magic and version.  A peer may also send a corrupt header.      *)
(* The peer's write may also fail part-way, after which the connection is *)
(* closed.  After each exchange the connection is replaced by a fresh one. *)
(***************************************************************************)
EXTENDS Naturals, Sequences

CONSTANT FlagValues   \* ContactFlags octets the peer may send

\* ContactFlags: the single flag bit the package defines.
ContactCanTls == 1
ASSUME ContactCanTls \in FlagValues

\* NewContactHeader: a header carries nothing but its flags.
NewContactHeader(flags) == [flags |-> flags]

\* "dtn!" and the TCPCL version 4.
Magic == <<100, 116, 110, 33>>  \* 0x64 0x74 0x6E 0x21
Version == 4

\* The six octets of a contact header with the given magic, version, flags.
Octets(magic, version, flags) == magic \o <<version, flags>>

\* The headers a peer may write: a valid one, or one with a wrong magic or
\* a wrong version.
PeerHeaders ==
    {[kind |-> k, flags |-> NewContactHeader(f).flags] :
        f \in FlagValues, k \in {"valid", "badMagic", "badVersion"}}

HeaderOctets(h) ==
    CASE h.kind = "valid"      -> Octets(Magic, Version, h.flags)
      [] h.kind = "badMagic"   -> Octets(<<0, 0, 0, 0>>, Version, h.flags)
      [] h.kind = "badVersion" -> Octets(Magic, 3, h.flags)

NoHeader == [kind |-> "none", flags |-> 0]
Pending == [status |-> "pending"]
Failed == [status |-> "error"]

VARIABLES
    hdr,    \* the header the peer wrote on this connection, or NoHeader
    failed, \* the peer's Marshal returned an error; it closed the connection
    wire,   \* octets written by the peer, not yet arrived
    rbuf,   \* octets arrived at this node, not yet read
    result  \* the outcome of Unmarshal: Pending, Failed or the flags read

vars == <<hdr, failed, wire, rbuf, result>>

TypeOK ==
    /\ hdr \in PeerHeaders \cup {NoHeader}
    /\ failed \in BOOLEAN
    /\ wire \in Seq(0..255)
    /\ rbuf \in Seq(0..255)
    /\ result \in {Pending, Failed} \cup [status : {"ok"}, flags : FlagValues]

Init ==
    /\ hdr = NoHeader
    /\ failed = FALSE
    /\ wire = <<>>
    /\ rbuf = <<>>
    /\ result = Pending

\* ContactHeader.Marshal on the peer's side: one w.Write of all six octets.
\* The write either takes all of them, or fails after n < 6 octets went out
\* (an error, or n != len(data)); Marshal then returns an error and the peer
\* drops the connection.
Marshal ==
    /\ hdr = NoHeader
    /\ \E h \in PeerHeaders, n \in 0..6 :
        /\ hdr' = h
        /\ wire' = SubSeq(HeaderOctets(h), 1, n)
        /\ failed' = (n < 6)
    /\ UNCHANGED <<rbuf, result>>

\* TCP hands the receiver the next k octets as one segment.
Segment ==
    /\ wire # <<>>
    /\ \E k \in 1..Len(wire) :
        /\ rbuf' = rbuf \o SubSeq(wire, 1, k)
        /\ wire' = SubSeq(wire, k + 1, Len(wire))
    /\ UNCHANGED <<hdr, failed, result>>

\* Faulty variant: the n != len(data) check dropped; the unread tail of the
\* zeroed buffer is validated as if it had been received.
UnmarshalResultNoLength(data) ==
    LET d == data \o [i \in 1..(6 - Len(data)) |-> 0] IN
    IF SubSeq(d, 1, 4) # Magic THEN Failed
    ELSE IF d[5] # Version THEN Failed
    ELSE [status |-> "ok", flags |-> d[6]]

\* Faulty variant: Unmarshal without the version check.
UnmarshalResultNoVersion(data) ==
    IF Len(data) # 6 THEN Failed
    ELSE IF SubSeq(data, 1, 4) # Magic THEN Failed
    ELSE [status |-> "ok", flags |-> data[6]]

\* Faulty variant: the flags taken from the version octet data[4].
UnmarshalResultWrongOctet(data) ==
    IF Len(data) # 6 THEN Failed
    ELSE IF SubSeq(data, 1, 4) # Magic THEN Failed
    ELSE IF data[5] # Version THEN Failed
    ELSE [status |-> "ok", flags |-> data[5]]

\* The outcome of ContactHeader.Unmarshal on the octets one r.Read returned.
UnmarshalResult(data) ==
    IF Len(data) # 6 THEN Failed
    ELSE IF SubSeq(data, 1, 4) # Magic THEN Failed
    ELSE IF data[5] # Version THEN Failed
    ELSE [status |-> "ok", flags |-> data[6]]

\* ContactHeader.Unmarshal: r.Read(data) with len(data) = 6 blocks until at
\* least one octet is there and returns what has arrived, at most six; on a
\* connection the peer closed with nothing left to read it returns io.EOF.
Unmarshal ==
    /\ result = Pending
    /\ \/ /\ rbuf # <<>>
          /\ LET n == IF Len(rbuf) < 6 THEN Len(rbuf) ELSE 6 IN
              /\ result' = UnmarshalResult(SubSeq(rbuf, 1, n))
              /\ rbuf' = SubSeq(rbuf, n + 1, Len(rbuf))
       \/ /\ rbuf = <<>> /\ wire = <<>> /\ failed
          /\ result' = Failed
          /\ UNCHANGED rbuf
    /\ UNCHANGED <<hdr, failed, wire>>

\* The session ends after the exchange; the next one starts on a fresh
\* connection.
Reconnect ==
    /\ result # Pending
    /\ hdr' = NoHeader
    /\ failed' = FALSE
    /\ wire' = <<>>
    /\ rbuf' = <<>>
    /\ result' = Pending

Next == Marshal \/ Segment \/ Unmarshal \/ Reconnect

Spec == Init /\ [][Next]_vars

\* A header Unmarshal accepts was marshalled completely and as a valid
\* header by the peer, and the flags read are the flags the peer
\* marshalled: however TCP splits the octets and wherever the peer's write
\* broke off, no corrupt, partial or wrong-flagged header gets through.
AcceptedHeaderIsPeers ==
    result.status = "ok" =>
        /\ hdr.kind = "valid" /\ ~failed
        /\ result.flags = hdr.flags

\* The comment on ContactHeader: "Both entities are sending a ContactHeader
\* and are validating the peer's one."  A valid header the peer marshalled
\* is accepted by Unmarshal, whatever the segmentation.
ValidHeaderAccepted ==
    (result # Pending /\ hdr.kind = "valid" /\ ~failed) => result.status = "ok"
=============================================================================
