SPECIFICATION FairSpec
CONSTANTS
    Plans <- MCPlans
    Trials <- MCTrials
    Files = 2
    MaxAttempts = 4
    MaxStarts = 2
INVARIANTS
    ResearchTypeOK
    HiddenPassEarned
    QueueEarned
    OutcomesStored
PROPERTIES
    ImplementsLedger
    JobEnds
CHECK_DEADLOCK FALSE
