SPECIFICATION FairSpec
CONSTANTS
    Keys = {1, 2}
    Values = {1, 2}
    MaxLen = 3
    Subs = {1, 2}
    Setups <- AllSetups
INVARIANTS MirrorIsSnapshot DoneIsFinal ErrorHasCause GapsAreReported
PROPERTIES MirrorSettles
CHECK_DEADLOCK FALSE
