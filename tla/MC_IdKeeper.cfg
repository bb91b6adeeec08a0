\* Concurrent transmits from one source in one second: the IdKeeper's
\* read and write of its map race.
CONSTANTS
    Procs = {"agent", "stage"}
    Sources = {"self"}
    Times = {1}
    Script <- MCScript
SPECIFICATION Spec
INVARIANT IdentitiesUnique
