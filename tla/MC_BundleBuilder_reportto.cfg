\* Five calls: Source, a Build that fails, another Source, Destination, Build.
CONSTANTS
    Eps = {"e1", "e2"}
    CallBound = 5
SPECIFICATION Spec
PROPERTY ReportToDefaultsToSource
