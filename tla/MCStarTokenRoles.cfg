\* Roles: every address may be proposed, made a minter or frozen; two units of
\* STAR circulate, one address may be granted allowances, and a fee burn of one
\* half may be configured.
SPECIFICATION Spec
CONSTANTS
    Accounts = {a1, a2, a3}
    None = None
    Deployers = {a1, a2, a3}
    Candidates = {a1, a2, a3}
    RoleHolders = {a1, a2, a3}
    Holders = {a1, a2, a3}
    Spenders = {a3}
    Amounts = {1, 2}
    BasisPoints = {0, 5000, 10001}
    MaxSupply = 2
    MaxLedger = 0
PROPERTIES
    FrozenBalanceIsStill
    RolesComeFromTheAdmin
    PausedIsStill
