\* Two overlapping ticks and two rows.
CONSTANTS
    t1 = t1
    t2 = t2
    w1 = w1
    w2 = w2
    None = None
    Txs = {t1, t2}
    Ticks = {w1, w2}
    WithPayer = {t1}
    WithVpa = {t1}
    WithWallet = {t1}
    BatchSize = 1
    MAX_ATTEMPTS = 2
    MaxFaults = 1
    Managed = {}
SPECIFICATION Spec
INVARIANTS
    TypeOK
    PaidAtMostOnce
    CompletedMeansPaid
PROPERTIES
    FinishedIsAtRest
    ImplementsRow
SYMMETRY TickSymmetry
CHECK_DEADLOCK FALSE
