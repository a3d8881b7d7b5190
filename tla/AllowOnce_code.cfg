\* Two redeems of one code: violated.
SPECIFICATION Spec
CONSTANTS
    Hooks = {h1, h2}
    Clis = {c1, c2}
    None = None
    Targets = {"rm"}
    Covers <- MCCovers
    CodeOf <- MCOneCode
    Codes = {"code"}
    TTL = 1
    MaxLines = 4
    MaxBytes = 8
    MaxTime = 0
    MaxHookRuns = 3
    MaxCliRuns = 2
    MaxCrashes = 0
INVARIANTS OneCommandPerCode
