SPECIFICATION FairSpec
CONSTANTS
    q1 = q1
    q2 = q2
    t1 = t1
    t2 = t2
    r1 = r1
    r2 = r2
    None = None
    MaxAttempts = 2
    MaxChange = 2
    MaxFault = 1
    Request = {q1}
    Report <- MCSale
    Tick = {t1, t2}
INVARIANT NotForgotten
PROPERTIES RulingIsLearned RegistrationSettles
CHECK_DEADLOCK FALSE
