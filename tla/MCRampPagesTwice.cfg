CONSTANTS
    Users = {u1}
    Applicants = {a1}
    None = None
    Rows = {r1}
    Ticks = {t1}
    Owner <- MCOwner
    RawStatus = {"incomplete", "pending_user_transfer_start", "pending_anchor", "on_hold",
                 "completed", "refunded"}
    AnchorSteps <- MCAnchorSteps
    MaxAttempts = 3
    MaxFaults = 0
    MaxPayments = 2
SPECIFICATION VerifiedSpec
INVARIANT PaidOnce
CHECK_DEADLOCK FALSE
