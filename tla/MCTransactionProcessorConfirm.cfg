\* One row whose merchant is paid by UPI, one tick, no faults.
CONSTANTS
    t1 = t1
    t2 = t2
    w1 = w1
    w2 = w2
    None = None
    Txs = {t1}
    Ticks = {w1}
    WithPayer = {t1}
    WithVpa = {t1}
    WithWallet = {t1}
    BatchSize = 1
    MAX_ATTEMPTS = 1
    MaxFaults = 0
    Managed = {}
SPECIFICATION Spec
INVARIANTS
    ConfirmedByTheBank
