SPECIFICATION LoopSpec
CONSTANT Limits = {0, 1, 2, 3, 6}
CHECK_DEADLOCK FALSE
INVARIANT ApproveOnlyOnConsent
INVARIANT RetriesAddFlags
