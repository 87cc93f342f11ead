\* Rewards: two payments compete for one reward id; a third party (the admin, or
\* another reward engine) may use up the id or the supply cap first; callees are
\* paused, suspended, re-configured to another deployment or stripped of their
\* rights, at most two at a time.  No admin role changes hands.
SPECIFICATION Spec
CONSTANTS
    Users = {adm, usr}
    None = None
    RegistryAddress = RegistryAddress
    RewardEngineAddress = RewardEngineAddress
    StarTokenAddress = StarTokenAddress
    PaymentEngineAddress = PaymentEngineAddress
    OtherAddress = OtherAddress
    Merchants = {m1}
    Hashes = {h1}
    Owners = {usr}
    RewardIds = {r1}
    Payments = {p1, p2}
    Campaigns = {c1}
    Payers = {usr}
    Paise = {20000}
    Quotes <- MCQuotes
    Amounts = {10}
    BasisPoints = {}
    MaxSupply = 20
    MaxLedger = 1
    Deployers = {adm}
    RegistryCandidates = {}
    RewardCandidates = {}
    TokenCandidates = {}
    PaymentCandidates = {}
    IssuerHolders = {PaymentEngineAddress}
    OperatorHolders = {}
    TokenRoleHolders = {RewardEngineAddress, OtherAddress}
    Holders = {usr}
    Spenders = {}
    CampaignAmounts = {10}
    Registries = {RegistryAddress}
    RewardEngines = {RewardEngineAddress, OtherAddress}
    StarTokens = {StarTokenAddress, OtherAddress}
    MaxDisturbances = 2
VIEW View
CONSTRAINTS
    FewDisturbances
    NoneFrozen
SYMMETRY Symmetry
INVARIANTS
    TypeOK
    StarIsBacked
    SettledIsNeverTrapped
PROPERTIES
    RecordsMatchMints
