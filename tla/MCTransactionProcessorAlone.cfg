\* One tick at a time, with enough faults to exhaust every attempt.
CONSTANTS
    t1 = t1
    t2 = t2
    w1 = w1
    w2 = w2
    None = None
    Txs = {t1}
    Ticks = {w1}
    WithPayer = {t1}
    WithVpa = {}
    WithWallet = {t1}
    BatchSize = 1
    MAX_ATTEMPTS = 3
    MaxFaults = 7
    Managed = {t1}
SPECIFICATION LiveSpec
INVARIANTS
    RewardRecordIsTrue
PROPERTIES
    LeftIsFinished
    StartedIsFinished
CHECK_DEADLOCK FALSE
