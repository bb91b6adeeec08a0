CONSTANT FlagValues = {0, 1}
SPECIFICATION Spec
INVARIANT TypeOK
INVARIANT AcceptedHeaderIsPeers
