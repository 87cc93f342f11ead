\* Two payments and one payer; two addresses pass the admin role to and fro
\* and are made operators.  The amount 0 and the quote of 0 USDC are there to
\* be refused; the reward engine may be reconfigured between two addresses.
SPECIFICATION Spec
CONSTANTS
    Accounts = {adm, ops, payer, reg, eng}
    None = None
    Deployers = {adm}
    Payments = {p1, p2}
    Merchants = {m1}
    RewardIds = {r1}
    Payers = {payer}
    Paise = {0, 7}
    Quotes <- MCQuotes
    Rewards = {10}
    Candidates = {adm, ops}
    OperatorHolders = {adm, ops}
    Registries = {reg}
    RewardEngines = {eng, reg}
INVARIANT RecordMatchesStatus
PROPERTIES
    AgreementsAreKept
    MovedByTheRightKey
    OperatorsComeFromTheAdmin
    ImplementsLifecycle
