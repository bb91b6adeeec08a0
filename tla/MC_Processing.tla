--------------------------- MODULE MC_Processing ---------------------------
(***************************************************************************)
(* Instances of the pipeline for TLC: one node with endpoint "self", two   *)
(* peers reachable over senders n1 and n2, and a handful of bundles, each  *)
(* chosen to drive one path of the pipeline.  The scripts say which        *)
(* goroutines call transmit/receive with which bundles.                    *)
(***************************************************************************)
EXTENDS Processing

\* Endpoints: this node, the two peers, a node without a direct link.
MCEndpoints == {"self", "peer1", "peer2", "far"}
MCNodeEndpoints == {"self"}
MCPeer == [n \in Senders |-> IF n = "n1" THEN "peer1" ELSE "peer2"]

\* A plain bundle to dest: valid source, no flags, no blocks, no hop count,
\* no expiry, not administrative.
Plain(dest) ==
    [dest |-> dest, srcOk |-> TRUE, flags |-> {}, blocks |-> <<>>, hop |-> <<>>,
     mayExpire |-> FALSE, admin |-> FALSE, parses |-> TRUE, subject |-> CHOOSE x \in Bundles : TRUE, sips |-> {}]

UnknownBlock(report, delete, remove) ==
    [known |-> FALSE, report |-> report, delete |-> delete, remove |-> remove]
KnownBlock == [known |-> TRUE, report |-> FALSE, delete |-> FALSE, remove |-> FALSE]

\* b1: for peer1 (direct sender n1), asks for reception and forwarding
\*     reports, carries an unknown block to report and remove.
\* b2: for this node, asks for a delivery report.
\* b3: an unknown block demanding deletion; deletion report requested.
\* s1: status report from peer1 saying b1 was delivered.
\* s2: administrative bundle whose record cannot be parsed.
\* a1: locally sent with a foreign source.
\* a2: locally sent to "far" (routing decides), may expire, hop count 1/0.
\* a3: locally sent administrative bundle to "far" reporting a2 delivered
\*     (the inspectAllBundles path).
\* h1: hop count already at its limit.
\* a4: locally sent to peer1 (direct sender n1).
\* s3: status report from peer1 saying a4 was delivered.
MCAttr == [b \in Bundles |->
    CASE b = "b1" -> [Plain("peer1") EXCEPT
                        !.flags = {"StatusRequestReception", "StatusRequestForward"},
                        !.blocks = <<UnknownBlock(TRUE, FALSE, TRUE), KnownBlock>>]
      [] b = "b2" -> [Plain("self") EXCEPT !.flags = {"StatusRequestDelivery"}]
      [] b = "b3" -> [Plain("peer2") EXCEPT
                        !.flags = {"StatusRequestDeletion"},
                        !.blocks = <<UnknownBlock(FALSE, TRUE, FALSE), UnknownBlock(TRUE, FALSE, FALSE)>>]
      [] b = "s1" -> [Plain("self") EXCEPT !.admin = TRUE, !.subject = "b1",
                                          !.sips = {"DeliveredBundle"}]
      [] b = "s2" -> [Plain("self") EXCEPT !.admin = TRUE, !.parses = FALSE,
                                          !.flags = {"StatusRequestDeletion"}]
      [] b = "a1" -> [Plain("peer1") EXCEPT !.srcOk = FALSE, !.flags = {"StatusRequestDeletion"}]
      [] b = "a2" -> [Plain("far") EXCEPT !.mayExpire = TRUE, !.hop = <<1, 0>>,
                                         !.flags = {"StatusRequestDeletion"}]
      [] b = "a3" -> [Plain("far") EXCEPT !.admin = TRUE, !.subject = "a2",
                                         !.sips = {"DeliveredBundle"}]
      [] b = "h1" -> [Plain("peer2") EXCEPT !.hop = <<2, 2>>, !.flags = {"StatusRequestDeletion"}]
      [] b = "a4" -> Plain("peer1")
      [] b = "s3" -> [Plain("self") EXCEPT !.admin = TRUE, !.subject = "a4",
                                          !.sips = {"DeliveredBundle"}]]

Rcv(b) == [op |-> "receive", id |-> b]
Snd(b) == [op |-> "transmit", id |-> b]

\* The convergence receivers' loop receives one bundle after the other,
\* duplicates included; an application agent sends concurrently.
ScriptPipeline ==
    [p \in Procs |->
        IF p = "cla" THEN <<Rcv("b1"), Rcv("b1"), Rcv("s1"), Rcv("b2"), Rcv("b3"), Rcv("s2"), Rcv("h1")>>
        ELSE <<Snd("a1"), Snd("a2"), Snd("a3")>>]

\* Two convergence receivers hand the same bundle to receive at the same
\* time (the bundle reached this node over two links).
ScriptDupReceive == [p \in Procs |-> <<Rcv("h1")>>]

\* An agent sends a4 while the receivers' loop gets a4's delivery report.
ScriptReportDuringSend ==
    [p \in Procs |-> IF p = "cla" THEN <<Rcv("s3")>> ELSE <<Snd("a4")>>]

\* Environment of that run: peer1 can only report a4 delivered once a4 went
\* over the link, so the report is received only after the send to n1 has
\* returned (here possibly with an error although the peer got the bundle).
ReportAfterSendReturned ==
    \A p \in Procs :
        (pc[p] # "idle" /\ Cur(p) = "s3") =>
            \E q \in Procs : pc[q] = "wait" /\ go[q]["n1"] # "send"
=============================================================================
