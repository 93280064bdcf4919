\* three requests: one may die of its payload or reply while a second is in
\* flight and a third is not yet answered; the state needs no bound
SPECIFICATION FairSpec
CONSTANT Requests = {r1, r2, r3}
INVARIANT
    KillerIsUnanswered
PROPERTIES
    ServicePromise
    AnsweredUnlessExcused
\* an exception in any thread ends the process
CHECK_DEADLOCK FALSE
