CONSTANTS
    Procs = {"cla", "app"}
    Bundles = {"a4", "s3"}
    Senders = {"n1", "n2"}
    Endpoints <- MCEndpoints
    NodeEndpoints <- MCNodeEndpoints
    Peer <- MCPeer
    Attr <- MCAttr
    Script <- ScriptReportDuringSend
    InspectAllBundles = FALSE
CONSTRAINT ReportAfterSendReturned
SPECIFICATION Spec
INVARIANT DeliveredIsFinal
