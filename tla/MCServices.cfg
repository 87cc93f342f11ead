CONSTANTS
    Users = {u1}
    Applicants = {a1, a2}
    None = None
    Rows = {r1}
    Ticks = {t1, t2}
    Owner <- MCOwner
    RawStatus = {"incomplete", "pending_user_transfer_start", "pending_anchor",
                 "completed", "refunded"}
    AnchorSteps <- MCAnchorSteps
    MaxAttempts = 2
    MaxFaults = 1
    MaxPayments = 1
    Members = {m1, m2, m3}
    Codes = {c1, c2}
    Payments = {p1, p2}
    Inviter <- MCInviter
    Payer <- MCPayer
    Nobody = Nobody
    MaxCalls = 2
    Merchants = {shop}
    Admins = {x, y}
    Addresses = {w1, w2}
    Logins = {l1, l2}
    Absentee = Absentee
    Requests = {k1, k2, k3, q1, q2}
    PageRequests = {q1, q2}
    Keys = {key}
    KeyOf <- MCKeyOf
    NoRequest = NoRequest
SPECIFICATION ServicesSpec
INVARIANTS
    ServicesTypeOK
    RampTellsTheTruth
    RampsAreForTheVerified
    DoneMeansCompleted
    RewardIsEarned
    RewardedIsRecorded
    OnLedgerIsApproved
    AccountsHoldTheirWallet
    DoneMeansPaid
PROPERTIES
    RampsAreReconciled
    ImplementsRegistry
    AnsweredIsNotRepeated
    WaitingEnds
CHECK_DEADLOCK FALSE
