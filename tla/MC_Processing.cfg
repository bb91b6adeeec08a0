CONSTANTS
    Procs = {"cla", "app"}
    Bundles = {"b1", "b2", "b3", "s1", "s2", "a1", "a2", "a3", "h1"}
    Senders = {"n1", "n2"}
    Endpoints <- MCEndpoints
    NodeEndpoints <- MCNodeEndpoints
    Peer <- MCPeer
    Attr <- MCAttr
    Script <- ScriptPipeline
    InspectAllBundles = TRUE
SPECIFICATION Spec
INVARIANT TypeOK
INVARIANT AtMostOneOutcomeReport
INVARIANT NoPackStrandedInDispatch
INVARIANT RestartRestoresSender
INVARIANT PurgeIffTerminal
PROPERTY LifecycleRefinement
PROPERTY AllCallsReturn
