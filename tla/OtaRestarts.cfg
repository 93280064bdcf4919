\* three starts: a crash at any point, twice, with decisions of earlier runs
\* on their way while a later one decides and writes
SPECIFICATION Spec
CONSTANTS
    Tokens = {t1}
    NoToken = NoToken
    MaxRuns = 3
INVARIANTS
    OpenFileOnlyAcrossRuns
    NoFromRunsThatWroteNothing
\* the last run may have died with nothing on its way
CHECK_DEADLOCK FALSE
