CONSTANTS
    FlagValues = {0, 1, 2, 3}
    ReasonValues = {0, 1, 2, 3, 4, 5, 6}
SPECIFICATION Spec
INVARIANT SessTermRoundTrip
