SPECIFICATION Spec
CONSTANTS
    r1 = r1
    r2 = r2
    w1 = w1
    d1 = d1
    f1 = f1
    u1 = u1
    None = None
    Country = {"NO"}
    Strict = TRUE
    MaxSession = 1
    MaxBusy = 2
    MaxEdit = 2
    MaxFault = 0
    Reporter = {}
    Worker = {}
    Direct = {d1}
    Form = {}
    Updater = {u1}
INVARIANT NumbersVerified
CHECK_DEADLOCK FALSE
