\* two tokens: with one, a token of an earlier login could not be told from
\* the newest; the state space is finite without a bound
SPECIFICATION FairSpec
CONSTANTS
    Tokens = {t1, t2}
    NoToken = NoToken
INVARIANTS
    LateTokenNeverUpdates
    NewestTokenAfterAcquisition
PROPERTIES
    OtaPromise
    TokenAssignedOnce
    DecisionUnlessProcedureFails
    OtaSectionEnds
\* an exception in any thread ends the process
CHECK_DEADLOCK FALSE
