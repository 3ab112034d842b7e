SPECIFICATION Spec
CONSTANTS
    q1 = q1
    q2 = q2
    t1 = t1
    t2 = t2
    r1 = r1
    r2 = r2
    None = None
    MaxAttempts = 1
    MaxChange = 2
    MaxFault = 1
    Request = {q1, q2}
    Report <- MCPayments
    Tick = {t1}
SYMMETRY MCSymmetry
INVARIANTS TypeOK NotForgotten AnsweredIsFollowed
CHECK_DEADLOCK FALSE
