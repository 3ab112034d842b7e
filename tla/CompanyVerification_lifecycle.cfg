SPECIFICATION Spec
CONSTANTS
    r1 = r1
    r2 = r2
    w1 = w1
    d1 = d1
    f1 = f1
    u1 = u1
    None = None
    Country = {"FR", "NO"}
    Strict = TRUE
    MaxSession = 2
    MaxBusy = 2
    MaxEdit = 1
    MaxFault = 1
    Reporter = {r1, r2}
    Worker = {w1}
    Direct = {d1}
    Form = {f1}
    Updater = {u1}
SYMMETRY Reporters
INVARIANTS TypeOK OneOutcomeTold FrenchIsFiled 
PROPERTIES DecisionKept
CHECK_DEADLOCK FALSE
