\* The admin role is handed from the deployer to another address; the deployer
\* may hold an allowance from before.  Only the handoff revokes flags here.
SPECIFICATION Spec
CONSTANTS
    Accounts = {a1, a2, a3}
    None = None
    Deployers = {a1}
    Candidates = {a3}
    RoleHolders = {}
    Holders = {a1, a2, a3}
    Spenders = {a1}
    Amounts = {1}
    BasisPoints = {}
    MaxSupply = 1
    MaxLedger = 0
PROPERTIES
    RevokedKeyMovesNoFunds
