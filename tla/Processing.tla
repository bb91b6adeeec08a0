----------------------------- MODULE Processing -----------------------------
(***************************************************************************)
(* The bundle processing pipeline of dtn7's Core (src/unnamed/part_000):   *)
(* transmit and receive as entry points, dispatching, forward with its     *)
(* parallel send fan-out and link restart, local delivery, administrative  *)
(* record inspection, contraindication and deletion.                       *)
(*                                                                         *)
(* Every goroutine that calls into the pipeline is a process of Procs and  *)
(* works through its Script of calls one at a time; a process keeps its    *)
(* own copy of the BundlePack (Go passes it by value) and writes it to the *)
(* shared store with store.Push.  A step ends at each access to shared     *)
(* state: the store, the sender registry, a send on a link.  The sends of  *)
(* one forward are goroutines of their own (lines 167-187).                *)
(***************************************************************************)
EXTENDS Naturals, Sequences, FiniteSets, TLC, BlockWalk

CONSTANTS
    Procs,          \* goroutines calling transmit / receive
    Script,         \* Script[p]: the calls process p makes, in order
    Bundles,        \* bundle identities (source, creation timestamp)
    Attr,           \* Attr[b]: the fields of bundle b the pipeline reads
    Endpoints,      \* endpoint IDs
    NodeEndpoints,  \* the endpoints of this node (Core.HasEndpoint)
    Senders,        \* ConvergenceSenders
    Peer,           \* Peer[n]: the peer endpoint of sender n
    InspectAllBundles \* Core.inspectAllBundles

\* BundlePack constraints.
DispatchPending == "DispatchPending"
ForwardPending  == "ForwardPending"
Contraindicated == "Contraindicated"
Constraints == {DispatchPending, ForwardPending, Contraindicated}

\* Status information positions and reason codes the pipeline emits.
StatusKinds == {"ReceivedBundle", "ForwardedBundle", "DeliveredBundle", "DeletedBundle"}
Reasons == {"NoInformation", "LifetimeExpired", "BlockUnintelligible", "HopLimitExceeded"}

\* Bundle processing control flags requesting status reports.
Flags == {"StatusRequestReception", "StatusRequestForward",
          "StatusRequestDelivery", "StatusRequestDeletion"}

\* The bundle as the pipeline sees it.  hop is <<limit, count>> of a hop
\* count block or <<>> when the bundle has none; mayExpire whether the
\* bundle's lifetime may run out while this node holds it (the clock and
\* the bundle age block are not modelled, only the outcome of their checks).  Administrative bundles carry a status report about subject
\* with status informations sips; parses is FALSE when the payload is
\* missing or its CBOR cannot be parsed.
BundleAttr ==
    [dest : Endpoints, srcOk : BOOLEAN, flags : SUBSET Flags, blocks : Seq(Block),
     hop : {<<>>} \cup (Nat \X Nat), mayExpire : BOOLEAN,
     admin : BOOLEAN, parses : BOOLEAN, subject : Bundles, sips : SUBSET StatusKinds]

Calls == [op : {"transmit", "receive"}, id : Bundles]

ASSUME /\ Attr \in [Bundles -> BundleAttr]
       /\ Script \in [Procs -> Seq(Calls)]
       /\ NodeEndpoints \subseteq Endpoints
       /\ Peer \in [Senders -> Endpoints]
       /\ InspectAllBundles \in BOOLEAN

VARIABLES
    store,      \* store[b]: constraints of b's last pushed BundlePack; DOMAIN: known ids
    pc,         \* pc[p]: where process p is in the pipeline
    next,       \* next[p]: index of p's current call in Script[p]
    cons,       \* cons[p]: constraints of p's own BundlePack copy
    reason,     \* reason[p]: the reason handed to bundleDeletion
    sent,       \* sent[p]: bundleSent of the current forward
    delAfter,   \* delAfter[p]: deleteAfterwards of the current forward
    wg,         \* wg[p]: the sync.WaitGroup counter of the fan-out
    go,         \* go[p][n]: phase of the fan-out goroutine for sender n
    registered, \* the registered ConvergenceSenders
    closed,     \* senders on which Close was called and not yet restarted
    reports,    \* status reports emitted, in order: [subject, kind, reason]
    delivered,  \* delivered[b]: number of agent.Deliver calls for b
    transmitted,\* transmitted[b]: number of successful Send calls for b
    released,   \* bundles whose constraints a DeliveredBundle report purged
    terminal    \* history: bundles that were delivered, deleted, or sent with
                \* deleteAfterwards (the spec's terminal states)

vars == <<store, pc, next, cons, reason, sent, delAfter, wg, go, registered,
          closed, reports, delivered, transmitted, released, terminal>>

Labels == {"idle", "recvPush", "forward", "route", "wait", "local", "delete"}
GoPhases == {"none", "send", "remove", "register"}

\* The bundle process p currently works on.
Cur(p) == Script[p][next[p]].id

Report(b, kind, why) == [subject |-> b, kind |-> kind, reason |-> why]

\* Core.SendStatusReport: a report is only sent when the bundle's primary
\* block requests it.  The report bundle itself is sent through transmit;
\* its own journey is not modelled, only that it was emitted.
StatusReportIf(b, flag, kind, why) ==
    IF flag \in Attr[b].flags THEN <<Report(b, kind, why)>> ELSE <<>>

\* The last step of every handler: the call returns and p takes the next one.
Return(p) == next' = [next EXCEPT ![p] = @ + 1] /\ pc' = [pc EXCEPT ![p] = "idle"]

\* store.Push of p's copy with constraints c.
Push(p, c) ==
    /\ cons' = [cons EXCEPT ![p] = c]
    /\ store' = (Cur(p) :> c) @@ store

\* KnowsBundle: the store holds a BundlePack with this identity.
Knows(b) == b \in DOMAIN store

\* Core.dispatching: local delivery for a destination of this node,
\* forwarding otherwise.
Dispatching(b) == IF Attr[b].dest \in NodeEndpoints THEN "local" ELSE "forward"

\* Core.checkAdministrativeRecord with Core.inspectStatusReport: the store
\* after inspecting bundle b's status report.  A report whose subject is
\* unknown or that carries no status information changes nothing; a
\* DeliveredBundle item purges the subject's constraints and pushes them.
InspectedStore(b) ==
    LET s == Attr[b].subject IN
    IF /\ Attr[b].sips # {}
       /\ Knows(s)
       /\ "DeliveredBundle" \in Attr[b].sips
    THEN [store EXCEPT ![s] = {}]
    ELSE store

\* The bundles a DeliveredBundle status report in b has released.
ReleasedBy(b) ==
    IF /\ "DeliveredBundle" \in Attr[b].sips
       /\ Knows(Attr[b].subject)
    THEN {Attr[b].subject} ELSE {}

\* checkAdministrativeRecord's result for b: FALSE when b is not an
\* administrative record or its record cannot be parsed.
AdminRecordOk(b) == Attr[b].admin /\ Attr[b].parses

-----------------------------------------------------------------------------
Init ==
    /\ store = << >>
    /\ pc = [p \in Procs |-> "idle"]
    /\ next = [p \in Procs |-> 1]
    /\ cons = [p \in Procs |-> {}]
    /\ reason = [p \in Procs |-> "NoInformation"]
    /\ sent = [p \in Procs |-> FALSE]
    /\ delAfter = [p \in Procs |-> TRUE]
    /\ wg = [p \in Procs |-> 0]
    /\ go = [p \in Procs |-> [n \in Senders |-> "none"]]
    /\ registered = Senders
    /\ closed = {}
    /\ reports = <<>>
    /\ delivered = [b \in Bundles |-> 0]
    /\ transmitted = [b \in Bundles |-> 0]
    /\ released = {}
    /\ terminal = {}

\* The call p is about to make, if any.
Calling(p, op) ==
    /\ pc[p] = "idle"
    /\ next[p] <= Len(Script[p])
    /\ Script[p][next[p]].op = op

\* Core.transmit: idKeeper.update, add DispatchPending and push; a source
\* that is neither dtn:none nor an endpoint of this node leads to deletion
\* with NoInformation, any other to dispatching.
Transmit(p) ==
    LET b == Script[p][next[p]].id IN
    /\ Calling(p, "transmit")
    /\ cons' = [cons EXCEPT ![p] = {DispatchPending}]
    /\ store' = (b :> {DispatchPending}) @@ store
    /\ \/ /\ Attr[b].srcOk
          /\ pc' = [pc EXCEPT ![p] = Dispatching(b)]
          /\ UNCHANGED reason
       \/ /\ ~Attr[b].srcOk
          /\ pc' = [pc EXCEPT ![p] = "delete"]
          /\ reason' = [reason EXCEPT ![p] = "NoInformation"]
    /\ UNCHANGED <<next, sent, delAfter, wg, go, registered, closed, reports,
                   delivered, transmitted, released, terminal>>

\* Faulty variant: receive without the KnowsBundle check.
ReceiveNoDedup(p) ==
    /\ Calling(p, "receive")
    /\ pc' = [pc EXCEPT ![p] = "recvPush"]
    /\ UNCHANGED <<next, store, cons, reason, sent, delAfter, wg, go, registered,
                   closed, reports, delivered, transmitted, released, terminal>>

\* Core.receive, first part: KnowsBundle.  A known identity is dropped
\* without bundleDeletion, so that the stored BundlePack survives.
Receive(p) ==
    LET b == Script[p][next[p]].id IN
    /\ Calling(p, "receive")
    /\ \/ Knows(b) /\ Return(p)
       \/ /\ ~Knows(b)
          /\ pc' = [pc EXCEPT ![p] = "recvPush"]
          /\ UNCHANGED next
    /\ UNCHANGED <<store, cons, reason, sent, delAfter, wg, go, registered,
                   closed, reports, delivered, transmitted, released, terminal>>

\* Core.receive, second part: add DispatchPending and push, report the
\* reception if requested, walk the canonical blocks from the last one down
\* (BlockWalk), then delete with BlockUnintelligible or dispatch.
ReceivePush(p) ==
    LET b == Cur(p)
        w == ReceiveWalk(Attr[b].blocks)
    IN
    /\ pc[p] = "recvPush"
    /\ Push(p, {DispatchPending})
    /\ reports' = reports
                  \o StatusReportIf(b, "StatusRequestReception", "ReceivedBundle", "NoInformation")
                  \o [i \in 1..w.reports |-> Report(b, "ReceivedBundle", "BlockUnintelligible")]
    /\ \/ /\ w.deleted
          /\ pc' = [pc EXCEPT ![p] = "delete"]
          /\ reason' = [reason EXCEPT ![p] = "BlockUnintelligible"]
       \/ /\ ~w.deleted
          /\ pc' = [pc EXCEPT ![p] = Dispatching(b)]
          /\ UNCHANGED reason
    /\ UNCHANGED <<next, sent, delAfter, wg, go, registered, closed,
                   delivered, transmitted, released, terminal>>

\* Hop count after this node's increment exceeds the limit (HopCount.IsExceeded).
HopExceeded(b) == Attr[b].hop # <<>> /\ Attr[b].hop[2] + 1 > Attr[b].hop[1]

\* Faulty variant: forward adds ForwardPending but keeps DispatchPending.
ForwardKeepsDispatch(p) ==
    LET b == Cur(p) IN
    /\ pc[p] = "forward"
    /\ Push(p, cons[p] \cup {ForwardPending})
    /\ \/ /\ HopExceeded(b)
          /\ pc' = [pc EXCEPT ![p] = "delete"]
          /\ reason' = [reason EXCEPT ![p] = "HopLimitExceeded"]
       \/ /\ ~HopExceeded(b)
          /\ Attr[b].mayExpire
          /\ pc' = [pc EXCEPT ![p] = "delete"]
          /\ reason' = [reason EXCEPT ![p] = "LifetimeExpired"]
       \/ /\ ~HopExceeded(b)
          /\ pc' = [pc EXCEPT ![p] = "route"]
          /\ UNCHANGED reason
    /\ UNCHANGED <<next, sent, delAfter, wg, go, registered, closed, reports,
                   delivered, transmitted, released, terminal>>

\* Core.forward up to the choice of senders: swap DispatchPending for
\* ForwardPending and push; then the hop count check, the primary block's
\* lifetime check and the bundle age check, each a deletion.  Whether the
\* lifetime has run out depends on the clock: a bundle that mayExpire may
\* be found expired by either check; both delete with LifetimeExpired.
Forward(p) ==
    LET b == Cur(p) IN
    /\ pc[p] = "forward"
    /\ Push(p, (cons[p] \cup {ForwardPending}) \ {DispatchPending})
    /\ \/ /\ HopExceeded(b)
          /\ pc' = [pc EXCEPT ![p] = "delete"]
          /\ reason' = [reason EXCEPT ![p] = "HopLimitExceeded"]
       \/ /\ ~HopExceeded(b)
          /\ Attr[b].mayExpire
          /\ pc' = [pc EXCEPT ![p] = "delete"]
          /\ reason' = [reason EXCEPT ![p] = "LifetimeExpired"]
       \/ /\ ~HopExceeded(b)
          /\ pc' = [pc EXCEPT ![p] = "route"]
          /\ UNCHANGED reason
    /\ UNCHANGED <<next, sent, delAfter, wg, go, registered, closed, reports,
                   delivered, transmitted, released, terminal>>

\* Core.senderForDestination: registered senders whose peer is b's destination.
SenderForDestination(b) == {n \in registered : Peer[n] = Attr[b].dest}

\* Core.bundleContraindicated: add Contraindicated and push.
BundleContraindicated(p) == Push(p, cons[p] \cup {Contraindicated})

\* Core.forward, start of the fan-out: wg.Add(len(nodes)) and one goroutine
\* per sender, bundleSent false.
StartFanOut(p, nodes, del) ==
    /\ pc' = [pc EXCEPT ![p] = "wait"]
    /\ sent' = [sent EXCEPT ![p] = FALSE]
    /\ delAfter' = [delAfter EXCEPT ![p] = del]
    /\ wg' = [wg EXCEPT ![p] = Cardinality(nodes)]
    /\ go' = [go EXCEPT ![p] = [n \in Senders |-> IF n \in nodes THEN "send" ELSE "none"]]

\* Core.forward, choice of senders: a direct delivery if a sender's peer is
\* the destination (deleteAfterwards stays true), otherwise whatever the
\* routing algorithm's SenderForBundle returns among the registered senders.
\* No sender at all: the bundle is contraindicated and forward returns.
Route(p) ==
    LET direct == SenderForDestination(Cur(p)) IN
    /\ pc[p] = "route"
    /\ \E nodes \in SUBSET registered, del \in BOOLEAN :
        /\ direct # {} => nodes = direct /\ del
        /\ \/ /\ nodes = {}
              /\ BundleContraindicated(p)
              /\ Return(p)
              /\ UNCHANGED <<sent, delAfter, wg, go>>
           \/ /\ nodes # {}
              /\ StartFanOut(p, nodes, del)
              /\ UNCHANGED <<store, cons, next>>
    /\ UNCHANGED <<reason, registered, closed, reports, delivered, transmitted, released, terminal>>

\* Faulty variant: the success path calls wg.Done twice.
SendSucceededDoneTwice(p, n) ==
    /\ go[p][n] = "send"
    /\ n \notin closed
    /\ sent' = [sent EXCEPT ![p] = TRUE]
    /\ transmitted' = [transmitted EXCEPT ![Cur(p)] = @ + 1]
    /\ go' = [go EXCEPT ![p][n] = "none"]
    /\ wg' = [wg EXCEPT ![p] = @ - 2]
    /\ UNCHANGED <<store, pc, next, cons, reason, delAfter, registered, closed,
                   reports, delivered, released, terminal>>

\* A fan-out goroutine's node.Send succeeds: once.Do sets bundleSent, then
\* wg.Done.  A closed sender cannot send.
SendSucceeded(p, n) ==
    /\ go[p][n] = "send"
    /\ n \notin closed
    /\ sent' = [sent EXCEPT ![p] = TRUE]
    /\ transmitted' = [transmitted EXCEPT ![Cur(p)] = @ + 1]
    /\ go' = [go EXCEPT ![p][n] = "none"]
    /\ wg' = [wg EXCEPT ![p] = @ - 1]
    /\ UNCHANGED <<store, pc, next, cons, reason, delAfter, registered, closed,
                   reports, delivered, released, terminal>>

\* Faulty variant: a failed sender is closed but never restarted.
SendFailedNoRestart(p, n) ==
    /\ go[p][n] = "send"
    /\ closed' = closed \cup {n}
    /\ go' = [go EXCEPT ![p][n] = "none"]
    /\ wg' = [wg EXCEPT ![p] = @ - 1]
    /\ UNCHANGED <<store, pc, next, cons, reason, sent, delAfter, registered,
                   reports, delivered, transmitted, released, terminal>>

\* node.Send fails (the link is down, or another goroutine closed it): the
\* goroutine restarts the sender, first node.Close().
SendFailed(p, n) ==
    /\ go[p][n] = "send"
    /\ closed' = closed \cup {n}
    /\ go' = [go EXCEPT ![p][n] = "remove"]
    /\ UNCHANGED <<store, pc, next, cons, reason, sent, delAfter, wg, registered,
                   reports, delivered, transmitted, released, terminal>>

\* Restart, second step: c.RemoveConvergenceSender(node).
RemoveSender(p, n) ==
    /\ go[p][n] = "remove"
    /\ registered' = registered \ {n}
    /\ go' = [go EXCEPT ![p][n] = "register"]
    /\ UNCHANGED <<store, pc, next, cons, reason, sent, delAfter, wg, closed,
                   reports, delivered, transmitted, released, terminal>>

\* Faulty variant: the failure path re-registers but never calls wg.Done.
RegisterSenderNoDone(p, n) ==
    /\ go[p][n] = "register"
    /\ registered' = registered \cup {n}
    /\ closed' = closed \ {n}
    /\ go' = [go EXCEPT ![p][n] = "none"]
    /\ UNCHANGED <<store, pc, next, cons, reason, sent, delAfter, wg,
                   reports, delivered, transmitted, released, terminal>>

\* Restart, last step: c.RegisterConvergenceSender(node) starts the sender
\* again and registers it; then wg.Done.
RegisterSender(p, n) ==
    /\ go[p][n] = "register"
    /\ registered' = registered \cup {n}
    /\ closed' = closed \ {n}
    /\ go' = [go EXCEPT ![p][n] = "none"]
    /\ wg' = [wg EXCEPT ![p] = @ - 1]
    /\ UNCHANGED <<store, pc, next, cons, reason, sent, delAfter,
                   reports, delivered, transmitted, released, terminal>>

\* Core.forward after wg.Wait.  Sent: report forwarding if requested; with
\* deleteAfterwards purge and push; else, when inspecting all bundles, an
\* administrative bundle is contraindicated and its record inspected; else
\* nothing is pushed.  Not sent: contraindicate.
AfterSend(p) ==
    LET b == Cur(p) IN
    /\ pc[p] = "wait"
    /\ wg[p] = 0
    /\ Return(p)
    /\ \/ /\ sent[p] /\ delAfter[p]
          /\ Push(p, {})
          /\ reports' = reports \o StatusReportIf(b, "StatusRequestForward", "ForwardedBundle", "NoInformation")
          /\ terminal' = terminal \cup {b}
          /\ UNCHANGED released
       \/ /\ sent[p] /\ ~delAfter[p] /\ InspectAllBundles /\ Attr[b].admin
          /\ cons' = [cons EXCEPT ![p] = @ \cup {Contraindicated}]
          \* bundleContraindicated, then checkAdministrativeRecord
          /\ store' = (b :> cons[p] \cup {Contraindicated})
                       @@ (IF AdminRecordOk(b) THEN InspectedStore(b) ELSE store)
          /\ released' = released \cup (IF AdminRecordOk(b) THEN ReleasedBy(b) ELSE {})
          /\ reports' = reports \o StatusReportIf(b, "StatusRequestForward", "ForwardedBundle", "NoInformation")
          /\ UNCHANGED terminal
       \/ /\ sent[p] /\ ~delAfter[p] /\ ~(InspectAllBundles /\ Attr[b].admin)
          /\ reports' = reports \o StatusReportIf(b, "StatusRequestForward", "ForwardedBundle", "NoInformation")
          /\ UNCHANGED <<store, cons, released, terminal>>
       \/ /\ ~sent[p]
          /\ BundleContraindicated(p)
          /\ UNCHANGED <<reports, released, terminal>>
    /\ UNCHANGED <<reason, sent, delAfter, wg, go, registered, closed, delivered, transmitted>>

\* Core.localDelivery: an administrative bundle whose record fails
\* checkAdministrativeRecord is deleted with NoInformation.  Otherwise its
\* status report is inspected, the bundle is handed to the agents, routing
\* is notified, delivery reported if requested, and the constraints purged
\* and pushed.
LocalDelivery(p) ==
    LET b == Cur(p)
        inspect == Attr[b].admin
    IN
    /\ pc[p] = "local"
    /\ \/ /\ inspect /\ ~AdminRecordOk(b)
          /\ pc' = [pc EXCEPT ![p] = "delete"]
          /\ reason' = [reason EXCEPT ![p] = "NoInformation"]
          /\ UNCHANGED <<store, next, cons, reports, delivered, released, terminal>>
       \/ /\ inspect => AdminRecordOk(b)
          /\ Return(p)
          /\ cons' = [cons EXCEPT ![p] = {}]
          /\ store' = (b :> {}) @@ (IF inspect THEN InspectedStore(b) ELSE store)
          /\ released' = released \cup (IF inspect THEN ReleasedBy(b) ELSE {})
          /\ delivered' = [delivered EXCEPT ![b] = @ + 1]
          /\ terminal' = terminal \cup {b}
          /\ reports' = reports \o StatusReportIf(b, "StatusRequestDelivery", "DeliveredBundle", "NoInformation")
          /\ UNCHANGED reason
    /\ UNCHANGED <<sent, delAfter, wg, go, registered, closed, transmitted>>

\* Faulty variant: bundleDeletion reports but never purges and pushes.
BundleDeletionNoPush(p) ==
    /\ pc[p] = "delete"
    /\ reports' = reports \o StatusReportIf(Cur(p), "StatusRequestDeletion", "DeletedBundle", reason[p])
    /\ Return(p)
    /\ terminal' = terminal \cup {Cur(p)}
    /\ UNCHANGED <<store, cons, reason, sent, delAfter, wg, go, registered, closed,
                   delivered, transmitted, released>>

\* Core.bundleDeletion: report the deletion with the given reason if
\* requested, purge the constraints and push.
BundleDeletion(p) ==
    LET b == Cur(p) IN
    /\ pc[p] = "delete"
    /\ reports' = reports \o StatusReportIf(b, "StatusRequestDeletion", "DeletedBundle", reason[p])
    /\ Push(p, {})
    /\ Return(p)
    /\ terminal' = terminal \cup {Cur(p)}
    /\ UNCHANGED <<reason, sent, delAfter, wg, go, registered, closed,
                   delivered, transmitted, released>>

\* Every process has made all its calls.
Finished == \A p \in Procs : pc[p] = "idle" /\ next[p] > Len(Script[p])

Terminating == Finished /\ UNCHANGED vars

Proc(p) ==
    \/ Transmit(p) \/ Receive(p) \/ ReceivePush(p) \/ Forward(p) \/ Route(p)
    \/ AfterSend(p) \/ LocalDelivery(p) \/ BundleDeletion(p)

FanOut(p, n) ==
    SendSucceeded(p, n) \/ SendFailed(p, n) \/ RemoveSender(p, n) \/ RegisterSender(p, n)

Next ==
    \/ \E p \in Procs : Proc(p)
    \/ \E p \in Procs, n \in Senders : FanOut(p, n)
    \/ Terminating

\* Go's scheduler runs every runnable goroutine eventually, and a send
\* returns (CLAs own their timeouts): each caller and each fan-out goroutine
\* is weakly fair.
Fairness ==
    /\ \A p \in Procs : WF_vars(Proc(p))
    /\ \A p \in Procs, n \in Senders : WF_vars(FanOut(p, n))

Spec == Init /\ [][Next]_vars /\ Fairness
-----------------------------------------------------------------------------
TypeOK ==
    /\ DOMAIN store \subseteq Bundles /\ \A b \in DOMAIN store : store[b] \subseteq Constraints
    /\ pc \in [Procs -> Labels]
    /\ next \in [Procs -> Nat]
    /\ cons \in [Procs -> SUBSET Constraints]
    /\ reason \in [Procs -> Reasons]
    /\ sent \in [Procs -> BOOLEAN]
    /\ delAfter \in [Procs -> BOOLEAN]
    /\ wg \in [Procs -> Nat]  \* a negative WaitGroup counter panics
    /\ go \in [Procs -> [Senders -> GoPhases]]
    /\ registered \subseteq Senders
    /\ closed \subseteq Senders
    /\ reports \in Seq([subject : Bundles, kind : StatusKinds, reason : Reasons])
    /\ delivered \in [Bundles -> Nat]
    /\ transmitted \in [Bundles -> Nat]
    /\ released \subseteq Bundles
    /\ terminal \subseteq Bundles

\* Some process is inside a call on bundle b.
InFlight(b) == \E p \in Procs : pc[p] # "idle" /\ Cur(p) = b

\* Reports of kind k about bundle b emitted so far.
ReportsOf(b, k) == {i \in 1..Len(reports) : reports[i].subject = b /\ reports[i].kind = k}

\* Duplicate suppression (receive's KnowsBundle check and the early return
\* after every deletion): a bundle's fate is reported at most once. For
\* every bundle at most one ForwardedBundle, DeliveredBundle or
\* DeletedBundle status report is ever emitted, together; the spec's
\* at-most-once deletion report is the DeletedBundle part of it.
AtMostOneOutcomeReport ==
    \A b \in Bundles :
        Cardinality(UNION {ReportsOf(b, k) :
                           k \in {"ForwardedBundle", "DeliveredBundle", "DeletedBundle"}}) <= 1

\* inspectStatusReport: a DeliveredBundle status report proves the subject
\* done downstream and purges its constraints.  No later push by any
\* pipeline stage may bring them back: a released bundle stays with an
\* empty constraint set.
DeliveredIsFinal == \A b \in released : store[b] = {}

\* No stage leaves a BundlePack at rest in a state nothing resumes: once no
\* call is working on a stored bundle, DispatchPending is gone, and a
\* contraindicated pack is one that went through forward (ForwardPending).
NoPackStrandedInDispatch ==
    \A b \in Bundles :
        (Knows(b) /\ ~InFlight(b)) =>
            /\ DispatchPending \notin store[b]
            /\ Contraindicated \in store[b] => ForwardPending \in store[b]

\* Spec section 8, constraint purge implies eligibility: once no call is
\* working on a stored bundle, its constraint set is empty exactly when the
\* bundle reached a terminal state here (localDelivery, bundleDeletion, a
\* send with deleteAfterwards) or a DeliveredBundle status report released
\* it (inspectStatusReport).  A purge on any other path loses a bundle
\* that is still to be forwarded; a terminal path that keeps constraints
\* leaves it to be retried.
PurgeIffTerminal ==
    \A b \in Bundles :
        (Knows(b) /\ ~InFlight(b)) => (store[b] = {} <=> b \in terminal \cup released)

\* The link restart of forward (Close, RemoveConvergenceSender,
\* RegisterConvergenceSender), even when several forwards restart the same
\* sender concurrently, leaves every sender registered and open once no
\* fan-out goroutine is between its Close and its Register.
RestartRestoresSender ==
    \A n \in Senders :
        (\A p \in Procs : go[p][n] \in {"none", "send"}) =>
            n \in registered /\ n \notin closed

\* Every call into the pipeline returns: each fan-out goroutine reaches
\* wg.Done on success and on failure, so wg.Wait in forward returns and
\* every process gets through its calls.
AllCallsReturn == <>Finished
-----------------------------------------------------------------------------
(* Refinement: the store, read through the constraints, follows the       *)
(* abstract bundle lifecycle.                                              *)
(***************************************************************************)
\* The lifecycle phase a stored constraint set stands for.
Phase(b) ==
    IF ~Knows(b) THEN "unknown"
    ELSE IF DispatchPending \in store[b] THEN "dispatch"
    ELSE IF Contraindicated \in store[b] THEN "contraindicated"
    ELSE IF ForwardPending \in store[b] THEN "forward"
    ELSE "done"

Lifecycle == INSTANCE BundleLifecycle WITH phase <- [b \in Bundles |-> Phase(b)]

\* Every Push of transmit, receive, forward, localDelivery,
\* inspectStatusReport, bundleContraindicated and bundleDeletion moves a
\* bundle forwards in its lifecycle, never back (no purged bundle regains a
\* constraint, no forwarded one is dispatched again).
LifecycleRefinement == Lifecycle!Spec
=============================================================================
