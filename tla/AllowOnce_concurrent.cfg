\* Hooks and CLI processes racing on both stores over one target, and CLI
\* processes in turn over two targets of one repository; config blocks; no
\* interrupted write.
SPECIFICATION SceneSpec
CONSTANTS
    Hooks = {h1, h2}
    Clis = {c1, c2}
    None = None
    Targets = {"rm", "rm-sub"}
    Covers <- MCRepo
    CodeOf <- MCTargetCode
    Codes = {"rm", "rm-sub"}
    TTL = 1
    MaxLines = 4
    MaxBytes = 8
    MaxTime = 0
    MaxHookRuns = 3
    MaxCliRuns = 2
    MaxCrashes = 0
SYMMETRY MCSymmetry
INVARIANTS SingleUseOnce RetiredStayGone
PROPERTIES DenialKeepsGrants
