\* One hook at a time with new permits, rebases and expiry at any point; two
\* healers, one command and the host, with one crash or failed write;
\* lists of up to three entries.
SPECIFICATION FilesSpec
CONSTANTS
    Hooks = {h1}
    TTL = 2
    MaxTime = 3
    MaxIssues = 2
    MaxRuns = 3
    Healers = {p1, p2}
    Dirs = {d1}
    MaxEdits = 2
    MaxCommands = 1
    MaxFaults = 1
    Lists <- SmallLists
INVARIANTS
    TypesOK OnlyInWindow PermitLasts
    OneRepair CrashSafe LostOnlyInWindow
    OneHook OthersKept
PROPERTIES PermitLedger Repaired
CHECK_DEADLOCK FALSE
