\* Administration: the registry's and the reward engine's admin roles change
\* hands while a merchant is reviewed, one campaign reward may be issued and one
\* payment is opened on the word of this registry or another.
SPECIFICATION Spec
CONSTANTS
    Users = {adm, ops, usr}
    None = None
    RegistryAddress = RegistryAddress
    RewardEngineAddress = RewardEngineAddress
    StarTokenAddress = StarTokenAddress
    PaymentEngineAddress = PaymentEngineAddress
    OtherAddress = OtherAddress
    Merchants = {m1}
    Hashes = {h1, h2}
    Owners = {adm, usr}
    RewardIds = {r1}
    Payments = {p1}
    Campaigns = {c1}
    Payers = {usr}
    Paise = {10000}
    Quotes = {}
    Amounts = {}
    BasisPoints = {}
    MaxSupply = 10
    MaxLedger = 0
    Deployers = {adm}
    RegistryCandidates = {adm, ops}
    RewardCandidates = {adm, ops}
    TokenCandidates = {}
    PaymentCandidates = {}
    IssuerHolders = {adm, ops}
    OperatorHolders = {}
    TokenRoleHolders = {RewardEngineAddress}
    Holders = {usr}
    Spenders = {}
    CampaignAmounts = {10}
    Registries = {RegistryAddress, OtherAddress}
    RewardEngines = {RewardEngineAddress}
    StarTokens = {StarTokenAddress}
    MaxDisturbances = 2
VIEW View
CONSTRAINTS
    FewDisturbances
    NoneFrozen
INVARIANT PayeesStayRegistered
PROPERTIES
    StandingIsDecidedByAdmin
    OwnerKeepsTheRecord
    IssuersComeFromTheAdmin
