\* Batches of two, flushes from any thread, up to three kinds of failure; two
\* evaluation threads (a parallel batch) with three proofs of three
\* kinds between them.
SPECIFICATION ThreadsSpec
CONSTANTS
    Modes = {"join", "deadline", "detach"}
    BatchSize = 2
    MaxEntries = 4
    MaxRequests = 2
    MaxFaults = 3
    Callers = {c1, c2}
    Slotted = {"documentation", "file"}
    Free = {"source"}
    MaxCalls = 3
INVARIANTS
    TypesOK FlushIsBarrier RowsAccounted OneParser
PROPERTIES DropEnds CallsReturn
CHECK_DEADLOCK FALSE
