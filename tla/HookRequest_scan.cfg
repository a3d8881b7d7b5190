\* Time runs out in the last window.
SPECIFICATION Spec
CONSTANTS
    Hosts = {"claude"}
    Forms = {"toolarge"}
    Verdicts = {"allow", "deny"}
    MaxBatch = 1
    FaultyThreads = {}
INVARIANTS ExhaustedScanBlocks
CHECK_DEADLOCK FALSE
