\* Two hooks read one permit.
SPECIFICATION Spec
CONSTANTS
    Hooks = {h1, h2}
    TTL = 2
    MaxTime = 1
    MaxIssues = 1
    MaxRuns = 2
INVARIANTS SingleShot
CHECK_DEADLOCK FALSE
