------------------------------- MODULE Contracts -------------------------------
(***************************************************************************)
(* The four contracts on one ledger.  Each keeps its own state; they meet  *)
(* in two calls: the payment engine asks the merchant registry whether a   *)
(* merchant is approved, and asks the reward engine, which asks the STAR   *)
(* token, to pay a reward.  A Soroban transaction is atomic, so a call and *)
(* the calls it makes are one step here.                                   *)
(*                                                                         *)
(* The prefixes g, r, t and p stand for registry, rewards, token and       *)
(* payments.  Contract addresses are members of Accounts; they authorize   *)
(* nothing but the calls their own code makes, so the callers of the other *)
(* steps are Users.                                                        *)
(*                                                                         *)
(* The code trusts whatever callee is configured.  OtherAddress stands for *)
(* another working deployment of each kind - a redeployed reward engine,   *)
(* another registry or token - with a state of its own that is not modelled *)
(* and may therefore answer anything such a contract can; any other wrong  *)
(* address lacks the entry point, so calls to it fail.                     *)
(***************************************************************************)
EXTENDS Integers

CONSTANTS
    Users, None,
    RegistryAddress, RewardEngineAddress, StarTokenAddress,
    PaymentEngineAddress, OtherAddress,
    Merchants, Hashes, Owners,
    RewardIds, Payments, Campaigns, Payers, Paise, Quotes,
    Amounts, BasisPoints, MaxSupply, MaxLedger,
    Deployers,              \* who deploys the contracts
    RegistryCandidates, RewardCandidates, TokenCandidates, PaymentCandidates,
    IssuerHolders, OperatorHolders, TokenRoleHolders, Holders, Spenders,
    CampaignAmounts,
    Registries, RewardEngines, StarTokens   \* the callees an admin configures

ContractAddresses ==
    {RegistryAddress, RewardEngineAddress, StarTokenAddress,
     PaymentEngineAddress, OtherAddress}

Accounts == Users \cup ContractAddresses

VARIABLES
    gAdmin, gPending, gPaused, gStatus, gOwner, gMetadata, gSigner,
    rAdmin, rPending, rPaused, rIssuer, rStarToken, rReward, rSigner,
    tAdmin, tPending, tPaused, tMinter, tFrozen, tSupply, tBalance,
    tAllowance, tFeeBps, tLedger, tSigner,
    pAdmin, pPending, pPaused, pOperator, pRegistry, pRewardEngine,
    pStatus, pTerms, pQuote, pStar, pSigner,
    hVouched, hAnswered

gVars == <<gAdmin, gPending, gPaused, gStatus, gOwner, gMetadata, gSigner>>
rVars == <<rAdmin, rPending, rPaused, rIssuer, rStarToken, rReward, rSigner>>
tVars == <<tAdmin, tPending, tPaused, tMinter, tFrozen, tSupply, tBalance,
           tAllowance, tFeeBps, tLedger, tSigner>>
pVars == <<pAdmin, pPending, pPaused, pOperator, pRegistry, pRewardEngine,
           pStatus, pTerms, pQuote, pStar, pSigner>>

(* Two history variables, which no step reads: the payments the deployed   *)
(* registry vouched for when they were opened, and those whose reward was  *)
(* asked of the deployed reward engine.  The contracts do not record whom  *)
(* they had asked; these sets keep it apart for the properties.            *)
hVars == <<hVouched, hAnswered>>

vars == <<gVars, rVars, tVars, pVars, hVars>>

Registry == INSTANCE MerchantRegistry WITH
    Candidates <- RegistryCandidates,
    admin <- gAdmin, pendingAdmin <- gPending, paused <- gPaused,
    status <- gStatus, owner <- gOwner, metadata <- gMetadata,
    signer <- gSigner

RewardContract == INSTANCE RewardEngine WITH
    Candidates <- RewardCandidates, Sources <- Payments \cup Campaigns,
    admin <- rAdmin, pendingAdmin <- rPending, paused <- rPaused,
    issuer <- rIssuer, starToken <- rStarToken, reward <- rReward,
    signer <- rSigner

Token == INSTANCE StarToken WITH
    Candidates <- TokenCandidates, RoleHolders <- TokenRoleHolders,
    admin <- tAdmin, pendingAdmin <- tPending, paused <- tPaused,
    minter <- tMinter, frozen <- tFrozen, supply <- tSupply,
    balance <- tBalance, allowance <- tAllowance, feeBps <- tFeeBps,
    ledger <- tLedger, signer <- tSigner

Engine == INSTANCE PaymentEngine WITH
    Candidates <- PaymentCandidates, Rewards <- {},
    admin <- pAdmin, pendingAdmin <- pPending, paused <- pPaused,
    operator <- pOperator, merchantRegistry <- pRegistry,
    rewardEngine <- pRewardEngine, status <- pStatus, terms <- pTerms,
    quote <- pQuote, star <- pStar, signer <- pSigner

ASSUME ContractsAssumption ==
    /\ Users \cap ContractAddresses = {}
    /\ OtherAddress \notin {RegistryAddress, RewardEngineAddress,
                            StarTokenAddress, PaymentEngineAddress}
    /\ {Registries, RewardEngines, StarTokens} \subseteq SUBSET ContractAddresses
    /\ Payments \cap Campaigns = {}
    /\ CampaignAmounts \subseteq Int
    /\ Registry!ConstantsOK
    /\ RewardContract!ConstantsOK
    /\ Token!StarTokenAssumption
    /\ Engine!PaymentEngineAssumption

TypeOK ==
    /\ Registry!TypeOK /\ RewardContract!TypeOK /\ Token!TypeOK /\ Engine!TypeOK
    /\ hVouched \subseteq Payments
    /\ hAnswered \subseteq Payments

Init ==
    /\ Registry!Init /\ RewardContract!Init /\ Token!Init /\ Engine!Init
    /\ hVouched = {}
    /\ hAnswered = {}

-----------------------------------------------------------------------------
(* The calls between contracts.                                            *)

\* read_merchant errors on an unknown id and a contract of another kind has no
\* such entry point: both fail create_payment, as a "no" does.  Another registry
\* may say yes to anyone.
MerchantApproved(m) ==
    \/ pRegistry = RegistryAddress /\ Registry!is_approved(m)
    \/ pRegistry = OtherAddress

create_payment(caller, payer, p, m, amount, id) ==
    /\ Engine!create_payment(caller, payer, p, m, amount, id, MerchantApproved(m))
    /\ hVouched' = IF pRegistry = RegistryAddress THEN hVouched \cup {p}
                                                  ELSE hVouched
    /\ UNCHANGED <<gVars, rVars, tVars, hAnswered>>

\* Mutant of MintReward: a failed mint is ignored instead of trapping.
MintOrNot(recipient, amount_star) ==
    IF rStarToken = StarTokenAddress
       /\ Token!WillMint(RewardEngineAddress, recipient, amount_star)
    THEN Token!mint_from_minter(RewardEngineAddress, recipient, amount_star)
    ELSE UNCHANGED tVars

\* The reward engine's call of mint_from_minter, which authorizes itself.
\* Another token mints in its own books, or traps: then there is no step.
MintReward(recipient, amount_star) ==
    \/ /\ rStarToken = StarTokenAddress
       /\ Token!mint_from_minter(RewardEngineAddress, recipient, amount_star)
    \/ rStarToken = OtherAddress /\ UNCHANGED tVars

\* Whether a call of issue_spend_reward by the payment engine is sure to
\* succeed: both callees are the deployed ones and in a state to pay.
RewardWillBePaid(p) ==
    LET amount_star ==
            RewardContract!calculate_spend_reward(pTerms[p].amount_in_paise)
    IN  /\ pRewardEngine = RewardEngineAddress
        /\ RewardContract!WillIssue(PaymentEngineAddress, pTerms[p].reward_id,
                                    amount_star)
        /\ rStarToken = StarTokenAddress
        /\ Token!WillMint(RewardEngineAddress, pTerms[p].payer, amount_star)

\* The deployed reward engine pays: its record and its token's mint.
PaidByTheEngine(caller, p, amount_star) ==
    /\ pRewardEngine = RewardEngineAddress
    /\ Engine!issue_reward(caller, p, amount_star)
    /\ RewardContract!issue_spend_reward(
           PaymentEngineAddress, pTerms[p].reward_id, pTerms[p].payer, p,
           pTerms[p].amount_in_paise)
    /\ MintReward(pTerms[p].payer, amount_star)

\* Another reward engine pays: the record is its own, and so is the token, or
\* it is a minter of this one.
PaidByAnother(caller, p, amount_star) ==
    /\ pRewardEngine = OtherAddress
    /\ Engine!issue_reward(caller, p, amount_star)
    /\ amount_star > 0
    /\ \/ Token!mint_from_minter(OtherAddress, pTerms[p].payer, amount_star)
       \/ UNCHANGED tVars
    /\ UNCHANGED rVars

\* The try_ call fails and is undone; star tells what is recorded then.
NotPaid(caller, p, star) ==
    /\ Engine!issue_reward(caller, p, star)
    /\ ~RewardWillBePaid(p)
    /\ UNCHANGED <<rVars, tVars>>

AskedForReward(p) ==
    /\ hAnswered' = IF pRewardEngine = RewardEngineAddress
                    THEN hAnswered \cup {p} ELSE hAnswered
    /\ UNCHANGED <<gVars, hVouched>>

\* Mutant of issue_reward: the call of the reward engine is not a try_ call.
IssueOrTrap(caller, p) ==
    LET amount_star ==
            RewardContract!calculate_spend_reward(pTerms[p].amount_in_paise)
    IN  /\ \/ PaidByTheEngine(caller, p, amount_star)
           \/ PaidByAnother(caller, p, amount_star)
        /\ AskedForReward(p)

\* Mutant of issue_reward: a failed reward is recorded as -1.
IssueOrFlag(caller, p) ==
    \/ IssueOrTrap(caller, p)
    \/ NotPaid(caller, p, -1) /\ AskedForReward(p)

\* issue_reward of the payment engine: the reward is paid in the same step, or
\* the try_ call fails, is undone, and the payment advances with star 0.
issue_reward(caller, p) ==
    LET amount_star ==
            RewardContract!calculate_spend_reward(pTerms[p].amount_in_paise)
    IN  /\ \/ PaidByTheEngine(caller, p, amount_star)
           \/ PaidByAnother(caller, p, amount_star)
           \/ NotPaid(caller, p, 0)
        /\ AskedForReward(p)

\* An issuer calls the reward engine directly; if the mint traps, all reverts.
issue_directly(caller, id, recipient) ==
    /\ \/ \E p \in Payments, amount \in Paise :
             /\ RewardContract!issue_spend_reward(caller, id, recipient, p, amount)
             /\ MintReward(recipient,
                           RewardContract!calculate_spend_reward(amount))
       \/ \E c \in Campaigns :
             /\ RewardContract!issue_referral_reward(caller, id, recipient, c)
             /\ MintReward(recipient, RewardContract!REFERRAL_REWARD_STAR)
       \/ \E c \in Campaigns, amount_star \in CampaignAmounts :
             /\ RewardContract!issue_campaign_reward(caller, id, recipient, c,
                                                     amount_star)
             /\ MintReward(recipient, amount_star)
    /\ UNCHANGED <<gVars, pVars, hVars>>

-----------------------------------------------------------------------------
RegistryStep(caller) ==
    Registry!Step(caller) /\ UNCHANGED <<rVars, tVars, pVars, hVars>>

RewardStep(caller) ==
    \/ /\ RewardContract!AdminStep(caller)
       /\ UNCHANGED <<gVars, tVars, pVars, hVars>>
    \/ \E id \in RewardIds, recipient \in Payers :
           issue_directly(caller, id, recipient)

TokenStep(caller) ==
    /\ \/ Token!AdminStep(caller)
       \/ Token!HolderStep(caller)
       \/ Token!SpenderStep(caller)
       \/ Token!MinterStep(caller)
    /\ UNCHANGED <<gVars, rVars, pVars, hVars>>

EngineStep(caller) ==
    \/ Engine!LocalStep(caller) /\ UNCHANGED <<gVars, rVars, tVars, hVars>>
    \/ \E p \in Payments, payer \in Payers, m \in Merchants, amount \in Paise,
          id \in RewardIds : create_payment(caller, payer, p, m, amount, id)
    \/ \E p \in Payments : issue_reward(caller, p)

\* Another reward engine, if it is a minter of this token, pays for events of
\* its own.
OtherStep ==
    /\ \E recipient \in Payers, amount_star \in CampaignAmounts :
           Token!mint_from_minter(OtherAddress, recipient, amount_star)
    /\ UNCHANGED <<gVars, rVars, pVars, hVars>>

CloseLedger == Token!CloseLedger /\ UNCHANGED <<gVars, rVars, pVars, hVars>>

Next ==
    \/ \E caller \in Users : \/ RegistryStep(caller)
                             \/ RewardStep(caller)
                             \/ TokenStep(caller)
                             \/ EngineStep(caller)
    \/ OtherStep
    \/ CloseLedger

Spec == Init /\ [][Next]_vars

-----------------------------------------------------------------------------
(* Properties.                                                             *)

\* Every STAR figure the deployed reward engine answered is backed: the engine
\* holds a record under the payment's reward id, issued by the payment engine
\* for that very payment and its payer, for exactly that amount.  Two payments
\* rewarded by it never share a reward id, although callees are re-configured,
\* paused and re-enabled in between.  Of a figure another reward engine answered
\* nothing is said: its books are empty when it is deployed, and a reward id
\* used up here is free there.
StarIsBacked ==
    \A p \in hAnswered : pStar[p] > 0 =>
        rReward[pTerms[p].reward_id] =
            [recipient |-> pTerms[p].payer, source_id |-> p,
             issuer |-> PaymentEngineAddress, kind |-> "Spend",
             amount_star |-> pStar[p]]

\* Rewards and tokens move together: a record appears, while the reward engine
\* is configured with this token, only with the STAR it stands for, in its
\* recipient's balance and in the supply; an old record is never rewritten; and
\* the reward engine mints nothing without a record.
RecordsMatchMints ==
    [][/\ \A id \in RewardIds : rReward'[id] # rReward[id] =>
             /\ rReward[id] = None
             /\ rStarToken = StarTokenAddress =>
                   LET r == rReward'[id]
                   IN  /\ tSupply' = tSupply + r.amount_star
                       /\ tBalance'[r.recipient] =
                              tBalance[r.recipient] + r.amount_star
       /\ tSigner' = RewardEngineAddress /\ tSupply' # tSupply =>
             \E id \in RewardIds : rReward'[id] # rReward[id]]_vars

\* The comment T2.2: whatever the state of the reward engine and the token, a
\* settled payment can be advanced by any operator of an unpaused engine.
SettledIsNeverTrapped ==
    \A p \in Payments, op \in Users :
        pStatus[p] = "Settled" /\ ~pPaused /\ op \in pOperator =>
            ENABLED issue_reward(op, p)

\* Whom a payment goes to is still a merchant of the registry's when it is
\* settled, rewarded or completed: a payment opened on the registry's word has a
\* merchant that may have been suspended since, but never one that is rejected,
\* back under review or unregistered - in whatever order review, suspension,
\* transfer, re-configuration and the payment's own steps come.
PayeesStayRegistered ==
    \A p \in hVouched :
        gStatus[pTerms[p].merchant_id] \in {"Approved", "Suspended"}

\* The components' own properties hold among the four contracts as well; see
\* MerchantRegistry and RewardEngine for what they say.
StandingIsDecidedByAdmin == Registry!StandingIsDecidedByAdmin
OwnerKeepsTheRecord == Registry!OwnerKeepsTheRecord
IssuersComeFromTheAdmin == RewardContract!IssuersComeFromTheAdmin
=============================================================================
