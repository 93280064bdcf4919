\* two tokens tell a stale grant from a fresh one, before and after a restart; the
\* state is finite without a bound, since files are kept relative to the round
SPECIFICATION Spec
CONSTANTS
    Tokens = {t1, t2}
    NoToken = NoToken
    NoFile = NoFile
INVARIANTS
    HeldTokenIsNewest
    SolutionFreshUnlessFaulted
    StorageNeverCarriesAToken
PROPERTY TokenOnlyFromLogin
