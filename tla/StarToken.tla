------------------------------ MODULE StarToken ------------------------------
(***************************************************************************)
(* The STAR reward token, contracts/star-token/src/lib.rs.                 *)
(*                                                                         *)
(* One action per entry point that changes state.  A Soroban call that     *)
(* returns an error or panics leaves no trace in storage, so the errors    *)
(* of the source are the negations of the guards below.  The parameter     *)
(* `caller' is the address whose require_auth the entry point demands, and *)
(* `signer' remembers it: it is the one part of the invocation that the    *)
(* access properties need to see.                                          *)
(*                                                                         *)
(* Authorized(addr) defaults to true in storage (a freeze list), so it is  *)
(* kept as the set `frozen' of addresses whose flag is false.  An absent   *)
(* Allowance entry and an entry of amount 0 are refused alike, so both are *)
(* the record of amount 0.  i128 arithmetic is checked in the source and   *)
(* every amount that is accepted stays below max_supply; Int is faithful.  *)
(* An address is a key or a hash of 32 bytes: there are finitely many.     *)
(***************************************************************************)
EXTENDS Integers, FiniteSets, Functions

CONSTANTS
    Accounts,       \* addresses: users, admins and contracts
    None,           \* the absent PendingAdmin entry
    Deployers,      \* addresses the contract may be deployed by
    Candidates,     \* addresses an admin may propose as its successor
    RoleHolders,    \* addresses whose minter or freeze flag an admin may set
    Holders,        \* addresses STAR is sent to
    Spenders,       \* addresses an owner may approve
    Amounts,        \* amounts a caller may pass
    BasisPoints,    \* fee rates an admin may pass; 0 stands for disabled
    MaxSupply,      \* TokenMetadata.max_supply
    MaxLedger       \* bound: the last ledger sequence explored

ASSUME StarTokenAssumption ==
    /\ IsFiniteSet(Accounts)
    /\ None \notin Accounts
    /\ Deployers \subseteq Accounts
    /\ Candidates \subseteq Accounts
    /\ RoleHolders \subseteq Accounts
    /\ Holders \subseteq Accounts
    /\ Spenders \subseteq Accounts
    /\ Amounts \subseteq Int
    /\ BasisPoints \subseteq Nat
    /\ MaxSupply \in Nat \ {0}
    /\ MaxLedger \in Nat

VARIABLES
    admin, pendingAdmin, paused, minter, frozen,
    supply, balance, allowance, feeBps,
    ledger,         \* env.ledger().sequence()
    signer          \* who authorized the last call

roleVars  == <<admin, pendingAdmin, minter, frozen>>
moneyVars == <<supply, balance, allowance>>
vars == <<admin, pendingAdmin, paused, minter, frozen, supply, balance,
          allowance, feeBps, ledger, signer>>

AllowanceValue == [amount : Int, expiration_ledger : Nat]

TypeOK ==
    /\ admin \in Accounts
    /\ pendingAdmin \in Accounts \cup {None}
    /\ paused \in BOOLEAN
    /\ minter \subseteq Accounts
    /\ frozen \subseteq Accounts
    /\ supply \in Int
    /\ balance \in [Accounts -> Int]
    /\ allowance \in [Accounts \X Accounts -> AllowanceValue]
    /\ feeBps \in 0..10000
    /\ ledger \in Nat
    /\ signer \in Accounts

\* __constructor: the deployer is admin and minter, nothing is minted yet.
Init ==
    /\ admin \in Deployers
    /\ pendingAdmin = None
    /\ paused = FALSE
    /\ minter = {admin}
    /\ frozen = {}
    /\ supply = 0
    /\ balance = [a \in Accounts |-> 0]
    /\ allowance = [pair \in Accounts \X Accounts |->
                        [amount |-> 0, expiration_ledger |-> 0]]
    /\ feeBps = 0
    /\ ledger = 0
    /\ signer = admin

-----------------------------------------------------------------------------
(* Helpers shared by the entry points.                                     *)

\* Mutant of Authenticated: the pause check is forgotten.
AuthenticatedWhilePaused(caller) == signer' = caller

\* require_not_paused, and `caller' passed require_auth.
Authenticated(caller) == ~paused /\ signer' = caller

AdminCall(caller) == caller = admin /\ Authenticated(caller)

\* Mutant of Mintable: the cap is compared with the supply before the mint.
MintableUpToCap(to, amount) ==
    amount > 0 /\ to \notin frozen /\ supply <= MaxSupply

\* What mint and mint_from_minter share: the checks, then the credit.
Mintable(to, amount) ==
    /\ amount > 0
    /\ to \notin frozen
    /\ supply + amount <= MaxSupply

MintInternal(to, amount) ==
    /\ Mintable(to, amount)
    /\ supply' = supply + amount
    /\ balance' = [balance EXCEPT ![to] = @ + amount]

\* Mutant of burn_internal: the total supply is not brought down.
BurnKeepingSupply(from, amount) ==
    /\ amount > 0
    /\ from \notin frozen
    /\ balance[from] >= amount
    /\ balance' = [balance EXCEPT ![from] = @ - amount]
    /\ UNCHANGED supply

burn_internal(from, amount) ==
    /\ amount > 0
    /\ from \notin frozen
    /\ balance[from] >= amount
    /\ balance' = [balance EXCEPT ![from] = @ - amount]
    /\ supply' = supply - amount

\* Mutant of transfer_internal: the recipient's freeze flag is not read.
TransferToAnyone(from, to, amount) ==
    /\ amount > 0
    /\ from \notin frozen
    /\ balance[from] >= amount
    /\ balance' = [[balance EXCEPT ![from] = @ - amount]
                       EXCEPT ![to] = @ + amount]

\* sub_balance is written before add_balance reads, so from = to is a no-op.
transfer_internal(from, to, amount) ==
    /\ amount > 0
    /\ from \notin frozen
    /\ to \notin frozen
    /\ balance[from] >= amount
    /\ balance' = [[balance EXCEPT ![from] = @ - amount]
                       EXCEPT ![to] = @ + amount]

\* Mutant of spend_allowance: expiry is not checked.
SpendExpired(from, spender, amount) ==
    /\ amount > 0
    /\ allowance[<<from, spender>>].amount >= amount
    /\ allowance' = [allowance EXCEPT ![<<from, spender>>].amount = @ - amount]

spend_allowance(from, spender, amount) ==
    /\ amount > 0
    /\ allowance[<<from, spender>>].expiration_ledger >= ledger
    /\ allowance[<<from, spender>>].amount >= amount
    /\ allowance' = [allowance EXCEPT ![<<from, spender>>].amount = @ - amount]

-----------------------------------------------------------------------------
(* Administration.                                                         *)

set_admin(caller, new_admin) ==
    /\ AdminCall(caller)
    /\ pendingAdmin' = new_admin
    /\ UNCHANGED <<admin, paused, minter, frozen, moneyVars, feeBps, ledger>>

\* Mutant of accept_admin: the outgoing admin keeps its minter flag.
HandoffKeepingMinter(caller) ==
    /\ caller = pendingAdmin
    /\ Authenticated(caller)
    /\ admin' = pendingAdmin
    /\ pendingAdmin' = None
    /\ minter' = minter \cup {pendingAdmin}
    /\ frozen' = (frozen \cup {admin}) \ {pendingAdmin}
    /\ UNCHANGED <<paused, moneyVars, feeBps, ledger>>

\* The outgoing admin loses the minter flag and is frozen, unless it hands the
\* role to itself; the incoming one is made minter and unfrozen.
accept_admin(caller) ==
    /\ caller = pendingAdmin
    /\ Authenticated(caller)
    /\ admin' = pendingAdmin
    /\ pendingAdmin' = None
    /\ minter' = (minter \ {admin}) \cup {pendingAdmin}
    /\ frozen' = (frozen \cup {admin}) \ {pendingAdmin}
    /\ UNCHANGED <<paused, moneyVars, feeBps, ledger>>

\* pause and unpause are open to the admin whether or not the token is paused.
SetPaused(caller, flag) ==
    /\ caller = admin
    /\ signer' = caller
    /\ paused' = flag
    /\ UNCHANGED <<roleVars, moneyVars, feeBps, ledger>>

\* Enabling a minter also unfreezes it; disabling leaves the freeze flag alone.
set_minter(caller, account, enabled) ==
    /\ AdminCall(caller)
    /\ minter' = IF enabled THEN minter \cup {account} ELSE minter \ {account}
    /\ frozen' = IF enabled THEN frozen \ {account} ELSE frozen
    /\ UNCHANGED <<admin, pendingAdmin, paused, moneyVars, feeBps, ledger>>

set_authorized(caller, account, authorize) ==
    /\ AdminCall(caller)
    /\ frozen' = IF authorize THEN frozen \ {account} ELSE frozen \cup {account}
    /\ UNCHANGED <<admin, pendingAdmin, paused, minter, moneyVars, feeBps, ledger>>

set_fee_burn_config(caller, bps) ==
    /\ AdminCall(caller)
    /\ bps <= 10000
    /\ feeBps' = bps
    /\ UNCHANGED <<roleVars, paused, moneyVars, ledger>>

-----------------------------------------------------------------------------
(* Supply.                                                                 *)

mint(caller, to, amount) ==
    /\ AdminCall(caller)
    /\ MintInternal(to, amount)
    /\ UNCHANGED <<roleVars, paused, allowance, feeBps, ledger>>

\* Whether a call of mint_from_minter would succeed: read by module Contracts.
WillMint(caller, to, amount) ==
    ~paused /\ caller \in minter /\ Mintable(to, amount)

mint_from_minter(caller, to, amount) ==
    /\ Authenticated(caller)
    /\ caller \in minter
    /\ MintInternal(to, amount)
    /\ UNCHANGED <<roleVars, paused, allowance, feeBps, ledger>>

burn(caller, amount) ==
    /\ Authenticated(caller)
    /\ burn_internal(caller, amount)
    /\ UNCHANGED <<roleVars, paused, allowance, feeBps, ledger>>

burn_from(caller, from, amount) ==
    /\ Authenticated(caller)
    /\ spend_allowance(from, caller, amount)
    /\ burn_internal(from, amount)
    /\ UNCHANGED <<roleVars, paused, feeBps, ledger>>

\* The fee is rounded down; a fee of zero (or a disabled fee) returns Ok(0)
\* and burns nothing, which is no step here.
burn_fee(caller, amount) ==
    /\ amount > 0
    /\ Authenticated(caller)
    /\ burn_internal(caller, (amount * feeBps) \div 10000)
    /\ UNCHANGED <<roleVars, paused, allowance, feeBps, ledger>>

-----------------------------------------------------------------------------
(* Transfers and allowances.                                               *)

transfer(caller, to, amount) ==
    /\ Authenticated(caller)
    /\ transfer_internal(caller, to, amount)
    /\ UNCHANGED <<roleVars, paused, supply, allowance, feeBps, ledger>>

transfer_from(caller, from, to, amount) ==
    /\ Authenticated(caller)
    /\ spend_allowance(from, caller, amount)
    /\ transfer_internal(from, to, amount)
    /\ UNCHANGED <<roleVars, paused, supply, feeBps, ledger>>

approve(caller, spender, amount, expiration_ledger) ==
    /\ amount >= 0
    /\ Authenticated(caller)
    /\ caller \notin frozen
    /\ spender \notin frozen
    /\ amount > 0 => expiration_ledger >= ledger
    /\ allowance' = [allowance EXCEPT ![<<caller, spender>>] =
                        [amount |-> amount,
                         expiration_ledger |-> expiration_ledger]]
    /\ UNCHANGED <<roleVars, paused, supply, balance, feeBps, ledger>>

\* The network closes a ledger: allowances may expire.
CloseLedger ==
    /\ ledger < MaxLedger
    /\ ledger' = ledger + 1
    /\ UNCHANGED <<roleVars, paused, moneyVars, feeBps, signer>>

-----------------------------------------------------------------------------
AdminStep(caller) ==
    \/ \E a \in Candidates : set_admin(caller, a)
    \/ accept_admin(caller)
    \/ \E flag \in BOOLEAN : SetPaused(caller, flag)
    \/ \E a \in RoleHolders, flag \in BOOLEAN : set_minter(caller, a, flag)
    \/ \E a \in RoleHolders, flag \in BOOLEAN : set_authorized(caller, a, flag)
    \/ \E bps \in BasisPoints : set_fee_burn_config(caller, bps)

HolderStep(caller) ==
    \/ \E amount \in Amounts : burn(caller, amount) \/ burn_fee(caller, amount)
    \/ \E to \in Holders, amount \in Amounts : transfer(caller, to, amount)
    \/ \E spender \in Spenders, amount \in Amounts, e \in 0..MaxLedger :
           approve(caller, spender, amount, e)

SpenderStep(caller) ==
    \/ \E from \in Accounts, amount \in Amounts : burn_from(caller, from, amount)
    \/ \E from \in Accounts, to \in Holders, amount \in Amounts :
           transfer_from(caller, from, to, amount)

MinterStep(caller) ==
    \/ \E to \in Holders, amount \in Amounts : mint(caller, to, amount)
    \/ \E to \in Holders, amount \in Amounts : mint_from_minter(caller, to, amount)

Next ==
    \/ \E caller \in Accounts :
           \/ AdminStep(caller)
           \/ HolderStep(caller)
           \/ SpenderStep(caller)
           \/ MinterStep(caller)
    \/ CloseLedger

Spec == Init /\ [][Next]_vars

-----------------------------------------------------------------------------
(* Properties.                                                             *)

\* The total_supply counter is kept by hand in MintInternal and burn_internal,
\* next to the balances; it always is their sum, and no balance is negative.
SupplyIsSumOfBalances ==
    /\ \A a \in Accounts : balance[a] >= 0
    /\ supply = FoldFunction(LAMBDA x, y : x + y, 0, balance)

\* Neither minting path takes the supply over the cap fixed at deployment,
\* whatever was burned and minted again in between.
SupplyWithinCap == supply <= MaxSupply

\* A frozen address neither gains nor loses STAR, through any entry point
\* (transfer, transfer_from, mint, burn, burn_from, burn_fee); this is what
\* the handoff relies on when it freezes the outgoing admin.
FrozenBalanceIsStill ==
    [][\A a \in frozen : balance'[a] = balance[a]]_vars

\* STAR leaves an address only with its own authorization or out of an
\* unexpired allowance it gave the signer, and then the allowance shrinks by
\* exactly what was taken: no sequence of approve, expiry and partial spending
\* lets a spender take more than the owner granted.
TakenFromAllowance(a) ==
    LET pair == <<a, signer'>> IN
    /\ allowance[pair].expiration_ledger >= ledger
    /\ allowance[pair].amount - allowance'[pair].amount = balance[a] - balance'[a]

SpendingIsGranted ==
    [][\A a \in Accounts : balance'[a] < balance[a] =>
          signer' = a \/ TakenFromAllowance(a)]_vars

\* Roles are only ever widened by the sitting admin, or by the address it
\* proposed taking the role over; a handoff leaves the outgoing admin with
\* neither mint nor transfer rights, so a rotated-out key cannot restore them.
Grants == (minter' \ minter) \cup (frozen \ frozen')

RolesComeFromTheAdmin ==
    [][/\ Grants # {} => \/ signer' = admin
                         \/ /\ signer' = pendingAdmin
                            /\ Grants \subseteq {admin'}
       /\ admin' # admin => /\ admin \notin minter'
                            /\ admin \in frozen']_vars

\* While the token is paused nothing but the pause flag and the ledger moves.
PausedIsStill ==
    [][paused => UNCHANGED <<roleVars, moneyVars, feeBps>>]_vars

\* What the comments at accept_admin and at is_authorized say: an address
\* whose flags were revoked "can no longer mint or move funds".
RevokedKeyMovesNoFunds ==
    [][signer' \in frozen \ (minter \cup {admin}) => balance' = balance]_vars
=============================================================================
