\* Six days of six hours; the database fails twice, downtime of half a day.
CONSTANTS
    Day = 6
    Offsets <- MCOffsets
    Keep = 2
    MaxDays = 6
    MaxFailures = 2
    MaxDowntime = 8
SPECIFICATION Spec
INVARIANTS AlterFits InsertFits OldAreDropped
PROPERTY KeepsRows
CHECK_DEADLOCK FALSE
