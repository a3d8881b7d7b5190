SPECIFICATION PartSpec
CONSTANTS
    Rules = {r1, r2, r3}
    Sticky = {r3}
    Modes = {"deny", "ask", "warn"}
    MaxRounds = 2
    MaxDepth = 2
    MaxLine = 3
    MaxRedeems = 2
    Lines <- SmallLines
    MaxNesting = 1
    MaxGrants = 2
INVARIANTS
    TypesOK
    NothingMasked StrictestFirst UnfinishedForCause OneCodeSpent
    DecidesOnMerits UsedMeansRuns GrantHonoured
CHECK_DEADLOCK FALSE
