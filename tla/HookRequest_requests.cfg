\* Batches of up to three with every verdict; and up to two entries in every
\* form of input, from an agent that was detected, was not, or runs in the session
\* of another, with a panic of the main thread or a worker at any point. Expiry and
\* a closed pipe in both.
SPECIFICATION SceneSpec
CONSTANTS
    Hosts <- MCHosts
    Forms = {"shell", "other", "toolarge", "io"}
    Verdicts <- AllVerdicts
    MaxBatch = 3
    FaultyThreads = {"main", "worker"}
INVARIANTS TypeOK AnswerIsStrictest PermittedRequestRuns AuditAgrees GuardHolds OneDocument
PROPERTIES EveryRequestEnds
CHECK_DEADLOCK FALSE
