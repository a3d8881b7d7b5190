\* The pending file at its byte cap and its line limit, one write cut short at
\* any point, expiry, and a holder of the pending store's lock that never lets go.
SPECIFICATION StoresSpec
CONSTANTS
    Hooks = {h1}
    Clis = {c1}
    None = None
    Targets = {"rm"}
    Covers <- MCCovers
    CodeOf <- MCOneCode
    Codes = {"code"}
    TTL = 0
    MaxLines = 2
    MaxBytes = 2
    MaxTime = 1
    MaxHookRuns = 4
    MaxCliRuns = 2
    MaxCrashes = 1
INVARIANTS TypeOK StoreBounded ApprovalJustified ShownCodeRedeemable
PROPERTIES LedgerSpec VerdictReached
