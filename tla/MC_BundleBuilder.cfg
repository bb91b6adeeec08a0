\* Chains of up to four calls on a builder with two endpoint ids.
CONSTANTS
    Eps = {"e1", "e2"}
    CallBound = 4
SPECIFICATION Spec
INVARIANT TypeOK
PROPERTY FailedBuilderFrozen
INVARIANT BlockNumbering
