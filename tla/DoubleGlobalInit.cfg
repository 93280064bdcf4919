\* two threads that construct their first request together, and no cleanup
SPECIFICATION Spec
CONSTANTS
    Threads = {t1, t2}
    MaxCleans = 0
INVARIANT InitializedOnce
CHECK_DEADLOCK FALSE
