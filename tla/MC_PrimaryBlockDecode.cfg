CONSTANTS
    Endpoints = {"e1"}
    Values = {0, 1}
SPECIFICATION Spec
INVARIANT DecodedFieldsRelevant
