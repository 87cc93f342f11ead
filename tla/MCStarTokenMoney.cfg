\* Money: three addresses, so owner, spender and recipient differ.  The admin
\* never changes; the spender a3 may be frozen or made a minter.
SPECIFICATION Spec
CONSTANTS
    Accounts = {a1, a2, a3}
    None = None
    Deployers = {a1, a3}
    Candidates = {}
    RoleHolders = {a3}
    Holders = {a1, a2, a3}
    Spenders = {a3}
    Amounts = {1, 2}
    BasisPoints = {}
    MaxSupply = 2
    MaxLedger = 1
INVARIANTS
    SupplyIsSumOfBalances
    SupplyWithinCap
PROPERTIES
    SpendingIsGranted
