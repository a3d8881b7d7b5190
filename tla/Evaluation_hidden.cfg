\* A granted line with a harmful command in it that the predicate misses.
SPECIFICATION PartSpec
CONSTANTS
    Rules = {r1}
    Sticky = {}
    Modes = {"warn"}
    MaxRounds = 1
    MaxDepth = 1
    MaxLine = 0
    MaxRedeems = 0
    Lines <- AliasLine
    MaxNesting = 1
    MaxGrants = 1
INVARIANTS AuthorizedRuns
CHECK_DEADLOCK FALSE
