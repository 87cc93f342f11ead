\* Two overlapping ticks, no faults.
CONSTANTS
    t1 = t1
    t2 = t2
    w1 = w1
    w2 = w2
    None = None
    Txs = {t1, t2}
    Ticks = {w1, w2}
    WithPayer = {t1, t2}
    WithVpa = {t1}
    WithWallet = {t1}
    BatchSize = 2
    MAX_ATTEMPTS = 1
    MaxFaults = 0
    Managed = {}
SPECIFICATION Spec
INVARIANTS
    ClaimedByOneTick
