CONSTANTS
    r1 = r1
    r2 = r2
    r3 = r3
    NoRun = NoRun
    N = 2
    Member <- NoMembers
    Playground = FALSE
    Run <- ThreeRuns
    SlowRuns = FALSE
    MaxFault = 2
SPECIFICATION Spec
PROPERTIES PromiseKept
SYMMETRY RunSymmetry
INVARIANTS NeverMailedTwice SettledWhenClosed BilledOnceForAcceptedMail
    AcceptedIsBilled OwnerIsTold
CHECK_DEADLOCK FALSE
