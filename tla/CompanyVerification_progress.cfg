SPECIFICATION FairSpec
CONSTANTS
    r1 = r1
    r2 = r2
    w1 = w1
    d1 = d1
    f1 = f1
    u1 = u1
    None = None
    Country = {"FR"}
    Strict = FALSE
    MaxSession = 1
    MaxBusy = 2
    MaxEdit = 1
    MaxFault = 1
    Reporter = {r1, r2}
    Worker = {w1}
    Direct = {}
    Form = {f1}
    Updater = {u1}
PROPERTIES ReportsAnswered OnboardingSettles VerifiedIsTold
CHECK_DEADLOCK FALSE
