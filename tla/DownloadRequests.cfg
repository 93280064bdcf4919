\* two downloads and two paths, so that streams overlap or do not; replies of
\* two blocks, so that a stream is caught half-way
SPECIFICATION Spec
CONSTANTS
    Downloads = {d1, d2}
    Paths = {p1, p2}
    Size = 2
    Old = Old
    Hole = Hole
INVARIANTS
    ContentsFromLastWriters
    OnlyMalformedKills
\* an exception in any thread ends the process
CHECK_DEADLOCK FALSE
