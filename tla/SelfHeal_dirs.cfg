\* Two hooks of one settings file with different configuration directories.
SPECIFICATION HealSpec
CONSTANTS
    Healers = {p1, p2}
    Dirs = {d1, d2}
    MaxEdits = 1
    MaxCommands = 0
    MaxFaults = 0
INVARIANTS OneRepair
CHECK_DEADLOCK FALSE
