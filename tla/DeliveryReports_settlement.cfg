SPECIFICATION FairSpec
CONSTANTS
    q1 = q1
    Request <- OneRequest
    Recorder = Recorder
    Cron = Cron
    MaxFault = 1
INVARIANTS TypeOK ToldExactlyOnce AcknowledgedIsKept
PROPERTIES OutcomeKept SettledIsLearned 
