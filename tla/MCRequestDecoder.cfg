CONSTANTS
    Keys <- MCKeys
    Strangers <- MCStrangers
    MaxMembers = 5
SPECIFICATION Spec
INVARIANT DecodesDocuments
CHECK_DEADLOCK FALSE
