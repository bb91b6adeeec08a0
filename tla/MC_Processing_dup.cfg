CONSTANTS
    Procs = {"cla1", "cla2"}
    Bundles = {"h1"}
    Senders = {"n1", "n2"}
    Endpoints <- MCEndpoints
    NodeEndpoints <- MCNodeEndpoints
    Peer <- MCPeer
    Attr <- MCAttr
    Script <- ScriptDupReceive
    InspectAllBundles = FALSE
SPECIFICATION Spec
INVARIANT AtMostOneOutcomeReport
