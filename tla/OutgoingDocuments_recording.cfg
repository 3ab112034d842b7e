SPECIFICATION FairSpec
CONSTANTS
  t1 = t1
  t2 = t2
  a1 = a1
  w1 = w1
  w2 = w2
  w3 = w3
  None = None
  Send = {t1}
  Automatic = {a1}
  Webhook = {w1, w2}
  MaxFault = 1

INVARIANTS TransactionBilledOnce ClaimKeepsReportsOut AnsweredIsBooked
PROPERTY AutoIsRecorded
CHECK_DEADLOCK FALSE
