SPECIFICATION Spec
CONSTANTS
    w1 = w1
    w2 = w2
    w3 = w3
    a1 = a1
    a2 = a2
    h1 = h1
    h2 = h2
    t1 = t1
    o1 = o1
    None = None
    Request = {w1, w2}
    Address = {a1}
    Reporter = {h1, h2}
    Transaction = {t1}
    Call = {o1}
    Charged = {t1}
    MaxChange = 1
    MaxFault = 1
SYMMETRY MCSymmetry
INVARIANTS ReceivedOnce AnsweredIsReceived  
CHECK_DEADLOCK FALSE
