\* Two trials of two attempts; one remapping, one stranger, late and repeated answers.
SPECIFICATION FairSpec
CONSTANTS
    MaxAttempts = 2
    Trials = 2
    MaxRemaps = 1
    MaxStrays = 1
    MaxNet = 2
    MaxInbox = 2
INVARIANTS
    MajorityDecides
PROPERTIES
    FreshAddress
    ProbeEnds
\* The call returns.
CHECK_DEADLOCK FALSE
