SPECIFICATION ReportsSpec
CONSTANTS
    Report = {r1, r2}
    Worker = {w1}
    Cleaner = {c1, c2}
    Attempts = 2
    MaxFailures = 1
    Nil = Nil
INVARIANTS
    FilesAreTracked
    DisappearedOnlyIfOvertaken
PROPERTY ExpiredAreCleaned
CHECK_DEADLOCK FALSE
