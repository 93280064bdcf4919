SPECIFICATION Spec
CONSTANTS
    Threads = {t1, t2, t3}
    MaxCleans = 2
SYMMETRY Symmetry
INVARIANTS
    LibraryUpForRequests
    ReadyAfterInit
    OneAuthenticator
    TornOnlyInRace
\* every request is destroyed and every cleanup done
CHECK_DEADLOCK FALSE
