\* A warned command under OpenCode.
SPECIFICATION Spec
CONSTANTS
    Hosts = {"opencode"}
    Forms = {"shell"}
    Verdicts = {"allow", "warn"}
    MaxBatch = 1
    FaultyThreads = {}
INVARIANTS PermittedRequestRuns
CHECK_DEADLOCK FALSE
