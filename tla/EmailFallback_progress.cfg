CONSTANTS
    r1 = r1
    r2 = r2
    r3 = r3
    NoRun = NoRun
    N = 2
    Member <- SomeMembers
    Playground = TRUE
    Run <- TwoRuns
    SlowRuns = TRUE
    MaxFault = 1
SPECIFICATION FairSpec
INVARIANT MailedOnlyIfDue
PROPERTIES HalfDoneIsFinished
CHECK_DEADLOCK FALSE
