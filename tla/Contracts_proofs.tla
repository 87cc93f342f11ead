--------------------------- MODULE Contracts_proofs ---------------------------
(***************************************************************************)
(* What TLAPS proves of the four contracts on one ledger, for every set of *)
(* users, payments, rewards and amounts.                                   *)
(*                                                                         *)
(* The payment engine and the token have theorems of their own, and these  *)
(* are instantiated here: the engine with any natural number as the answer *)
(* of the reward engine, the token with any amount and any recipient,      *)
(* because the reward engine mints what it calculates, to whom it is told. *)
(***************************************************************************)
EXTENDS Contracts, TLAPS

EngineProofs == INSTANCE PaymentEngine_proofs WITH
    Candidates <- PaymentCandidates, Rewards <- Nat,
    admin <- pAdmin, pendingAdmin <- pPending, paused <- pPaused,
    operator <- pOperator, merchantRegistry <- pRegistry,
    rewardEngine <- pRewardEngine, status <- pStatus, terms <- pTerms,
    quote <- pQuote, star <- pStar, signer <- pSigner

TokenProofs == INSTANCE StarToken_proofs WITH
    Candidates <- TokenCandidates, RoleHolders <- TokenRoleHolders,
    Holders <- Accounts, Amounts <- Int,
    admin <- tAdmin, pendingAdmin <- tPending, paused <- tPaused,
    minter <- tMinter, frozen <- tFrozen, supply <- tSupply,
    balance <- tBalance, allowance <- tAllowance, feeBps <- tFeeBps,
    ledger <- tLedger, signer <- tSigner

-----------------------------------------------------------------------------
(* The constants.                                                          *)

\* The two components' assumptions hold of the constants they get here.
LEMMA EngineConstants == EngineProofs!PaymentEngineAssumption
BY ContractsAssumption
   DEF ContractsAssumption, EngineProofs!PaymentEngineAssumption,
       Engine!PaymentEngineAssumption, Engine!Terms, EngineProofs!Terms,
       Engine!Quote, EngineProofs!Quote

LEMMA TokenConstants == TokenProofs!StarTokenAssumption
BY ContractsAssumption
   DEF ContractsAssumption, TokenProofs!StarTokenAssumption,
       Token!StarTokenAssumption, Token!IsFiniteSet, TokenProofs!IsFiniteSet

\* Whose addresses are whose: no user is a contract, and all are accounts.
LEMMA Addresses ==
    /\ Users \subseteq Accounts
    /\ RewardEngineAddress \in Accounts /\ RewardEngineAddress \notin Users
    /\ PaymentEngineAddress \in Accounts
    /\ OtherAddress \in Accounts
    /\ OtherAddress \notin {RegistryAddress, RewardEngineAddress, StarTokenAddress}
    /\ Payers \subseteq Accounts
    /\ None \notin Accounts
BY ContractsAssumption
   DEF ContractsAssumption, Accounts, ContractAddresses, Engine!PaymentEngineAssumption

\* Ten STAR per full hundred rupees is a whole number of STAR.
LEMMA SpendRewardIsInt ==
    ASSUME NEW amount \in Int
    PROVE  RewardContract!calculate_spend_reward(amount) \in Int
BY DEF RewardContract!calculate_spend_reward, RewardContract!PAISE_PER_100_INR,
       RewardContract!SPEND_REWARD_STAR_PER_100_INR

-----------------------------------------------------------------------------
(* What a step of the whole is for its parts.                              *)

\* One reward: the engine's half and the token's half of the same step; the
\* latter is in other books when the engine is configured with another token.
Issued(caller, id, recipient, source_id, kind, amount_star) ==
    /\ RewardContract!issue_reward(caller, id, recipient, source_id, kind,
                                   amount_star)
    /\ MintReward(recipient, amount_star)

\* An issuer's direct call is one issued reward, for a payment or a campaign.
LEMMA DirectIssue ==
    ASSUME NEW caller \in Users, NEW id \in RewardIds, NEW recipient \in Payers,
           issue_directly(caller, id, recipient)
    PROVE  /\ \E source_id \in Payments \cup Campaigns,
                 kind \in RewardContract!RewardKind, amount_star \in Int :
                  Issued(caller, id, recipient, source_id, kind, amount_star)
           /\ UNCHANGED <<gVars, pVars, hVars>>
<1> USE DEF RewardContract!RewardKind, Issued
<1>1. ASSUME NEW p \in Payments, NEW amount \in Paise,
             RewardContract!issue_spend_reward(caller, id, recipient, p, amount),
             MintReward(recipient, RewardContract!calculate_spend_reward(amount))
      PROVE  \E source_id \in Payments \cup Campaigns,
                 kind \in RewardContract!RewardKind, amount_star \in Int :
                  Issued(caller, id, recipient, source_id, kind, amount_star)
  <2>1. RewardContract!calculate_spend_reward(amount) \in Int
    BY SpendRewardIsInt, ContractsAssumption
       DEF ContractsAssumption, Engine!PaymentEngineAssumption
  <2>2. Issued(caller, id, recipient, p, "Spend",
               RewardContract!calculate_spend_reward(amount))
    BY <1>1 DEF RewardContract!issue_spend_reward
  <2> QED
    BY <2>1, <2>2
<1>2. ASSUME NEW c \in Campaigns,
             RewardContract!issue_referral_reward(caller, id, recipient, c),
             MintReward(recipient, RewardContract!REFERRAL_REWARD_STAR)
      PROVE  \E source_id \in Payments \cup Campaigns,
                 kind \in RewardContract!RewardKind, amount_star \in Int :
                  Issued(caller, id, recipient, source_id, kind, amount_star)
  <2>1. Issued(caller, id, recipient, c, "Referral", RewardContract!REFERRAL_REWARD_STAR)
    BY <1>2 DEF RewardContract!issue_referral_reward
  <2>2. RewardContract!REFERRAL_REWARD_STAR \in Int
    BY DEF RewardContract!REFERRAL_REWARD_STAR
  <2> QED
    BY <2>1, <2>2
<1>3. ASSUME NEW c \in Campaigns, NEW amount_star \in CampaignAmounts,
             RewardContract!issue_campaign_reward(caller, id, recipient, c, amount_star),
             MintReward(recipient, amount_star)
      PROVE  \E source_id \in Payments \cup Campaigns,
                 kind \in RewardContract!RewardKind, amount \in Int :
                  Issued(caller, id, recipient, source_id, kind, amount)
  <2>1. Issued(caller, id, recipient, c, "Campaign", amount_star)
    BY <1>3 DEF RewardContract!issue_campaign_reward
  <2>2. amount_star \in Int
    BY ContractsAssumption DEF ContractsAssumption
  <2> QED
    BY <2>1, <2>2
<1> QED
  BY <1>1, <1>2, <1>3 DEF issue_directly

\* A settled payment has terms, and earns a whole number of STAR.
LEMMA SettledTerms ==
    ASSUME TypeOK, Engine!RecordMatchesStatus, NEW p \in Payments,
           pStatus[p] = "Settled"
    PROVE  /\ pTerms[p] \in Engine!Terms
           /\ RewardContract!calculate_spend_reward(pTerms[p].amount_in_paise) \in Int
<1>1. pTerms[p] \in Engine!Terms
  BY DEF TypeOK, Engine!TypeOK, Engine!RecordMatchesStatus
<1>2. pTerms[p].amount_in_paise \in Int
  BY <1>1 DEF Engine!Terms
<1> QED
  BY <1>1, <1>2, SpendRewardIsInt

\* A reward of another reward engine, whose books are not these.
PaidElsewhere(p, amount_star) ==
    /\ pRewardEngine = OtherAddress
    /\ UNCHANGED rVars
    /\ \/ Token!mint_from_minter(OtherAddress, pTerms[p].payer, amount_star)
       \/ UNCHANGED tVars

\* issue_reward of the payment engine records the STAR of one issued reward,
\* under the payment's own reward id, or of one paid elsewhere, or none at all.
LEMMA EngineIssue ==
    ASSUME TypeOK, Engine!RecordMatchesStatus,
           NEW caller \in Users, NEW p \in Payments, issue_reward(caller, p)
    PROVE  /\ AskedForReward(p)
           /\ pStatus[p] = "Settled"
           /\ pTerms[p] \in Engine!Terms
           /\ \E amount_star \in Nat :
                 /\ Engine!issue_reward(caller, p, amount_star)
                 /\ \/ /\ pRewardEngine = RewardEngineAddress
                       /\ Issued(PaymentEngineAddress, pTerms[p].reward_id,
                                 pTerms[p].payer, p, "Spend", amount_star)
                    \/ PaidElsewhere(p, amount_star)
                    \/ amount_star = 0 /\ UNCHANGED <<rVars, tVars>>
<1> DEFINE amount == RewardContract!calculate_spend_reward(pTerms[p].amount_in_paise)
<1>1. /\ AskedForReward(p)
      /\ \/ PaidByTheEngine(caller, p, amount)
         \/ PaidByAnother(caller, p, amount)
         \/ NotPaid(caller, p, 0)
  BY DEF issue_reward
<1>2. pStatus[p] = "Settled"
  BY <1>1 DEF PaidByTheEngine, PaidByAnother, NotPaid, Engine!issue_reward
<1>3. pTerms[p] \in Engine!Terms /\ amount \in Int
  BY <1>2, SettledTerms
<1>4. ASSUME PaidByTheEngine(caller, p, amount)
      PROVE  /\ amount > 0
             /\ Engine!issue_reward(caller, p, amount)
             /\ pRewardEngine = RewardEngineAddress
             /\ Issued(PaymentEngineAddress, pTerms[p].reward_id, pTerms[p].payer,
                       p, "Spend", amount)
  <2>1. Issued(PaymentEngineAddress, pTerms[p].reward_id, pTerms[p].payer, p,
               "Spend", amount)
    BY <1>4 DEF PaidByTheEngine, RewardContract!issue_spend_reward, Issued
  <2>2. amount > 0
    BY <2>1 DEF Issued, RewardContract!issue_reward, RewardContract!Issuable
  <2> QED
    BY <1>4, <2>1, <2>2 DEF PaidByTheEngine
<1> HIDE DEF amount
<1>5. ASSUME PaidByAnother(caller, p, amount)
      PROVE  /\ amount > 0
             /\ Engine!issue_reward(caller, p, amount)
             /\ PaidElsewhere(p, amount)
  BY <1>5 DEF PaidByAnother, PaidElsewhere
<1>6. ASSUME NotPaid(caller, p, 0)
      PROVE  Engine!issue_reward(caller, p, 0) /\ UNCHANGED <<rVars, tVars>>
  BY <1>6 DEF NotPaid
<1> QED
  BY <1>1, <1>2, <1>3, <1>4, <1>5, <1>6

-----------------------------------------------------------------------------
(* The parts among the others: every step of the whole is, for the registry, *)
(* the token and the engine, one of their own steps or none.                 *)

LEMMA RegistryAmongOthers ==
    ASSUME [Next]_vars
    PROVE  [Registry!Next]_(Registry!vars)
<1>1. UNCHANGED gVars => UNCHANGED Registry!vars
  BY DEF gVars, Registry!vars
<1>2. ASSUME NEW caller \in Users, RegistryStep(caller)
      PROVE  Registry!Next
  BY <1>2, Addresses DEF RegistryStep, Registry!Next
<1>3. ASSUME NEW caller \in Users,
             RewardStep(caller) \/ TokenStep(caller) \/ EngineStep(caller)
      PROVE  UNCHANGED gVars
  <2>1. RewardStep(caller) => UNCHANGED gVars
    BY DEF RewardStep, issue_directly
  <2>2. TokenStep(caller) => UNCHANGED gVars
    BY DEF TokenStep
  <2>3. EngineStep(caller) => UNCHANGED gVars
    BY DEF EngineStep, create_payment, issue_reward, AskedForReward
  <2> QED
    BY <1>3, <2>1, <2>2, <2>3
<1>4. OtherStep \/ CloseLedger \/ UNCHANGED vars => UNCHANGED gVars
  BY DEF OtherStep, CloseLedger, vars
<1> QED
  BY <1>1, <1>2, <1>3, <1>4 DEF Next

\* The engine's local entry points are those its theorems are about.
LEMMA SameLocalStep ==
    ASSUME NEW caller
    PROVE  Engine!LocalStep(caller) = EngineProofs!LocalStep(caller)
BY DEF Engine!LocalStep, EngineProofs!LocalStep,
    Engine!AdminStep, EngineProofs!AdminStep,
    Engine!set_admin, EngineProofs!set_admin,
    Engine!accept_admin, EngineProofs!accept_admin,
    Engine!SetPaused, EngineProofs!SetPaused,
    Engine!set_operator, EngineProofs!set_operator,
    Engine!set_contracts, EngineProofs!set_contracts,
    Engine!quote_payment, EngineProofs!quote_payment,
    Engine!mark_converted, EngineProofs!mark_converted,
    Engine!mark_settled, EngineProofs!mark_settled,
    Engine!complete_payment, EngineProofs!complete_payment,
    Engine!transition_operator, EngineProofs!transition_operator,
    Engine!cancel_payment, EngineProofs!cancel_payment,
    Engine!fail_payment, EngineProofs!fail_payment,
    Engine!AdminCall, EngineProofs!AdminCall,
    Engine!OperatorCall, EngineProofs!OperatorCall,
    Engine!Authenticated, EngineProofs!Authenticated,
    Engine!paymentVars, EngineProofs!paymentVars,
    Engine!configVars, EngineProofs!configVars

LEMMA EngineAmongOthers ==
    ASSUME TypeOK, Engine!RecordMatchesStatus, [Next]_vars
    PROVE  [EngineProofs!Next]_(EngineProofs!vars)
<1>1. UNCHANGED pVars => UNCHANGED EngineProofs!vars
  BY DEF pVars, EngineProofs!vars
<1>2. ASSUME NEW caller \in Users, Engine!LocalStep(caller)
      PROVE  EngineProofs!Next
  BY <1>2, SameLocalStep, Addresses DEF EngineProofs!Next
<1>3. ASSUME NEW caller \in Users, NEW p \in Payments, NEW payer \in Payers,
             NEW m \in Merchants, NEW amount \in Paise, NEW id \in RewardIds,
             create_payment(caller, payer, p, m, amount, id)
      PROVE  EngineProofs!Next
  <2>1. EngineProofs!create_payment(caller, payer, p, m, amount, id, TRUE)
    BY <1>3 DEF create_payment, Engine!create_payment, EngineProofs!create_payment,
                Engine!OperatorCall, EngineProofs!OperatorCall,
                Engine!Authenticated, EngineProofs!Authenticated,
                Engine!configVars, EngineProofs!configVars
  <2> QED
    BY <2>1, Addresses DEF EngineProofs!Next
<1>4. ASSUME NEW caller \in Users, NEW p \in Payments, issue_reward(caller, p)
      PROVE  EngineProofs!Next
  <2>1. PICK amount_star \in Nat : Engine!issue_reward(caller, p, amount_star)
    BY <1>4, EngineIssue
  <2>2. EngineProofs!issue_reward(caller, p, amount_star)
    BY <2>1 DEF Engine!issue_reward, EngineProofs!issue_reward,
                Engine!OperatorCall, EngineProofs!OperatorCall,
                Engine!Authenticated, EngineProofs!Authenticated,
                Engine!configVars, EngineProofs!configVars
  <2> QED
    BY <2>2, Addresses DEF EngineProofs!Next
<1>5. ASSUME NEW caller \in Users,
             RegistryStep(caller) \/ RewardStep(caller) \/ TokenStep(caller)
      PROVE  UNCHANGED pVars
  <2>1. RegistryStep(caller) => UNCHANGED pVars
    BY DEF RegistryStep
  <2>2. RewardStep(caller) => UNCHANGED pVars
    BY DEF RewardStep, issue_directly
  <2>3. TokenStep(caller) => UNCHANGED pVars
    BY DEF TokenStep
  <2> QED
    BY <1>5, <2>1, <2>2, <2>3
<1>6. OtherStep \/ CloseLedger \/ UNCHANGED vars => UNCHANGED pVars
  BY DEF OtherStep, CloseLedger, vars
<1> QED
  BY <1>1, <1>2, <1>3, <1>4, <1>5, <1>6 DEF Next, EngineStep

\* The token's entry points are those its theorems are about; the calls that
\* take an amount or a recipient are drawn there from larger sets.
LEMMA SameTokenCalls ==
    ASSUME NEW caller, NEW from, NEW to, NEW amount, NEW e
    PROVE  /\ Token!AdminStep(caller) = TokenProofs!AdminStep(caller)
           /\ Token!burn(caller, amount) = TokenProofs!burn(caller, amount)
           /\ Token!burn_fee(caller, amount) = TokenProofs!burn_fee(caller, amount)
           /\ Token!transfer(caller, to, amount)
                  = TokenProofs!transfer(caller, to, amount)
           /\ Token!approve(caller, to, amount, e)
                  = TokenProofs!approve(caller, to, amount, e)
           /\ Token!burn_from(caller, from, amount)
                  = TokenProofs!burn_from(caller, from, amount)
           /\ Token!transfer_from(caller, from, to, amount)
                  = TokenProofs!transfer_from(caller, from, to, amount)
           /\ Token!mint(caller, to, amount) = TokenProofs!mint(caller, to, amount)
           /\ Token!mint_from_minter(caller, to, amount)
                  = TokenProofs!mint_from_minter(caller, to, amount)
<1> USE DEF Token!Authenticated, TokenProofs!Authenticated,
    Token!AdminCall, TokenProofs!AdminCall,
    Token!roleVars, TokenProofs!roleVars, Token!moneyVars, TokenProofs!moneyVars,
    Token!MintInternal, TokenProofs!MintInternal,
    Token!Mintable, TokenProofs!Mintable,
    Token!burn_internal, TokenProofs!burn_internal,
    Token!transfer_internal, TokenProofs!transfer_internal,
    Token!spend_allowance, TokenProofs!spend_allowance
<1>1. Token!AdminStep(caller) = TokenProofs!AdminStep(caller)
  BY DEF Token!AdminStep, TokenProofs!AdminStep,
    Token!set_admin, TokenProofs!set_admin,
    Token!accept_admin, TokenProofs!accept_admin,
    Token!SetPaused, TokenProofs!SetPaused,
    Token!set_minter, TokenProofs!set_minter,
    Token!set_authorized, TokenProofs!set_authorized,
    Token!set_fee_burn_config, TokenProofs!set_fee_burn_config
<1>2. /\ Token!burn(caller, amount) = TokenProofs!burn(caller, amount)
      /\ Token!burn_fee(caller, amount) = TokenProofs!burn_fee(caller, amount)
  BY DEF Token!burn, TokenProofs!burn, Token!burn_fee, TokenProofs!burn_fee
<1>3. Token!transfer(caller, to, amount) = TokenProofs!transfer(caller, to, amount)
  BY DEF Token!transfer, TokenProofs!transfer
<1>4. Token!approve(caller, to, amount, e) = TokenProofs!approve(caller, to, amount, e)
  BY DEF Token!approve, TokenProofs!approve
<1>5. Token!burn_from(caller, from, amount)
          = TokenProofs!burn_from(caller, from, amount)
  BY DEF Token!burn_from, TokenProofs!burn_from
<1>6. Token!transfer_from(caller, from, to, amount)
          = TokenProofs!transfer_from(caller, from, to, amount)
  BY DEF Token!transfer_from, TokenProofs!transfer_from
<1>7. /\ Token!mint(caller, to, amount) = TokenProofs!mint(caller, to, amount)
      /\ Token!mint_from_minter(caller, to, amount)
             = TokenProofs!mint_from_minter(caller, to, amount)
  BY DEF Token!mint, TokenProofs!mint, Token!mint_from_minter,
         TokenProofs!mint_from_minter
<1> QED
  BY <1>1, <1>2, <1>3, <1>4, <1>5, <1>6, <1>7

\* A user's own call of the token is a step of the token's theorems.
LEMMA TokenCall ==
    ASSUME NEW caller \in Users, TokenStep(caller)
    PROVE  TokenProofs!Next
<1>1. Amounts \subseteq Int /\ Holders \subseteq Accounts
  BY ContractsAssumption DEF ContractsAssumption, Token!StarTokenAssumption
<1>2. CASE Token!AdminStep(caller)
  BY <1>2, SameTokenCalls, Addresses DEF TokenProofs!Next
<1>3. CASE Token!HolderStep(caller)
  <2>1. TokenProofs!HolderStep(caller)
    <3>1. ASSUME NEW amount \in Amounts, Token!burn(caller, amount) \/
                                          Token!burn_fee(caller, amount)
          PROVE  TokenProofs!burn(caller, amount) \/ TokenProofs!burn_fee(caller, amount)
      BY <3>1, SameTokenCalls
    <3>2. ASSUME NEW to \in Holders, NEW amount \in Amounts,
                 Token!transfer(caller, to, amount)
          PROVE  TokenProofs!transfer(caller, to, amount)
      BY <3>2, SameTokenCalls
    <3>3. ASSUME NEW spender \in Spenders, NEW amount \in Amounts,
                 NEW e \in 0..MaxLedger, Token!approve(caller, spender, amount, e)
          PROVE  TokenProofs!approve(caller, spender, amount, e)
      BY <3>3, SameTokenCalls
    <3> QED
      BY <1>1, <1>3, <3>1, <3>2, <3>3 DEF Token!HolderStep, TokenProofs!HolderStep
  <2> QED
    BY <2>1, Addresses DEF TokenProofs!Next
<1>4. CASE Token!SpenderStep(caller)
  <2>1. TokenProofs!SpenderStep(caller)
    BY <1>1, <1>4, SameTokenCalls DEF Token!SpenderStep, TokenProofs!SpenderStep
  <2> QED
    BY <2>1, Addresses DEF TokenProofs!Next
<1>5. CASE Token!MinterStep(caller)
  <2>1. TokenProofs!MinterStep(caller)
    BY <1>1, <1>5, SameTokenCalls DEF Token!MinterStep, TokenProofs!MinterStep
  <2> QED
    BY <2>1, Addresses DEF TokenProofs!Next
<1> QED
  BY <1>2, <1>3, <1>4, <1>5 DEF TokenStep

\* A reward engine's mint, this one's or another's, is a step of the token's.
LEMMA EngineMints ==
    ASSUME NEW minter \in {RewardEngineAddress, OtherAddress},
           NEW recipient \in Accounts, NEW amount_star \in Int,
           Token!mint_from_minter(minter, recipient, amount_star)
    PROVE  TokenProofs!Next
<1>1. TokenProofs!mint_from_minter(minter, recipient, amount_star)
  BY SameTokenCalls
<1> QED
  BY <1>1, Addresses DEF TokenProofs!Next, TokenProofs!MinterStep

\* The token's half of an issued reward is such a mint, or is in other books.
LEMMA IssuedMints ==
    ASSUME NEW caller, NEW id, NEW recipient \in Accounts, NEW source_id, NEW kind,
           NEW amount_star \in Int,
           Issued(caller, id, recipient, source_id, kind, amount_star)
    PROVE  TokenProofs!Next \/ UNCHANGED tVars
BY EngineMints DEF Issued, MintReward

LEMMA TokenAmongOthers ==
    ASSUME TypeOK, Engine!RecordMatchesStatus, [Next]_vars
    PROVE  [TokenProofs!Next]_(TokenProofs!vars)
<1>1. UNCHANGED tVars => UNCHANGED TokenProofs!vars
  BY DEF tVars, TokenProofs!vars
<1>2. ASSUME NEW caller \in Users, NEW id \in RewardIds, NEW recipient \in Payers,
             issue_directly(caller, id, recipient)
      PROVE  TokenProofs!Next \/ UNCHANGED tVars
  BY <1>2, DirectIssue, IssuedMints, Addresses
<1>3. ASSUME NEW caller \in Users, NEW p \in Payments, issue_reward(caller, p)
      PROVE  TokenProofs!Next \/ UNCHANGED tVars
  <2>1. pTerms[p].payer \in Accounts
    BY <1>3, EngineIssue DEF Engine!Terms
  <2>2. PICK amount_star \in Nat :
            \/ Issued(PaymentEngineAddress, pTerms[p].reward_id, pTerms[p].payer,
                      p, "Spend", amount_star)
            \/ PaidElsewhere(p, amount_star)
            \/ UNCHANGED tVars
    BY <1>3, EngineIssue
  <2> QED
    BY <2>1, <2>2, EngineMints, IssuedMints DEF PaidElsewhere
<1>4. ASSUME NEW caller \in Users, EngineStep(caller)
      PROVE  TokenProofs!Next \/ UNCHANGED tVars
  BY <1>3, <1>4 DEF EngineStep, create_payment
<1>5. ASSUME NEW caller \in Users, RewardStep(caller)
      PROVE  TokenProofs!Next \/ UNCHANGED tVars
  BY <1>2, <1>5 DEF RewardStep
<1>6. ASSUME NEW caller \in Users, RegistryStep(caller)
      PROVE  UNCHANGED tVars
  BY <1>6 DEF RegistryStep
<1>7. CloseLedger => TokenProofs!Next
  BY DEF CloseLedger, Token!CloseLedger, TokenProofs!Next, TokenProofs!CloseLedger,
      Token!roleVars, TokenProofs!roleVars, Token!moneyVars, TokenProofs!moneyVars
<1>8. UNCHANGED vars => UNCHANGED tVars
  BY DEF vars
<1>9. \A caller \in Users : TokenStep(caller) => TokenProofs!Next
  BY TokenCall
<1>10. OtherStep => TokenProofs!Next
  BY EngineMints, Addresses, ContractsAssumption DEF OtherStep, ContractsAssumption
<1>11. Next => TokenProofs!Next \/ UNCHANGED tVars
  BY <1>4, <1>5, <1>6, <1>7, <1>9, <1>10 DEF Next
<1> QED
  BY <1>1, <1>8, <1>11

\* Whoever calls the token signs the call.
LEMMA TokenSigner ==
    ASSUME NEW caller \in Users, TokenStep(caller)
    PROVE  tSigner' = caller
<1> USE DEF Token!Authenticated, Token!AdminCall
<1>1. CASE Token!AdminStep(caller)
  BY <1>1 DEF Token!AdminStep, Token!set_admin, Token!accept_admin, Token!SetPaused,
      Token!set_minter, Token!set_authorized, Token!set_fee_burn_config
<1>2. CASE Token!HolderStep(caller)
  <2>1. ASSUME NEW amount \in Amounts, Token!burn(caller, amount) \/
                                        Token!burn_fee(caller, amount)
        PROVE  tSigner' = caller
    BY <2>1 DEF Token!burn, Token!burn_fee
  <2>2. ASSUME NEW to \in Holders, NEW amount \in Amounts,
               Token!transfer(caller, to, amount)
        PROVE  tSigner' = caller
    BY <2>2 DEF Token!transfer
  <2>3. ASSUME NEW spender \in Spenders, NEW amount \in Amounts,
               NEW e \in 0..MaxLedger, Token!approve(caller, spender, amount, e)
        PROVE  tSigner' = caller
    BY <2>3 DEF Token!approve
  <2> QED
    BY <1>2, <2>1, <2>2, <2>3 DEF Token!HolderStep
<1>3. CASE Token!SpenderStep(caller)
  BY <1>3 DEF Token!SpenderStep, Token!burn_from, Token!transfer_from
<1>4. CASE Token!MinterStep(caller)
  BY <1>4 DEF Token!MinterStep, Token!mint, Token!mint_from_minter
<1> QED
  BY <1>1, <1>2, <1>3, <1>4 DEF TokenStep

\* What a step is for the reward engine and its relation to the token: either
\* the engine is left alone, and any STAR that moves is signed for by another;
\* or it is administered; or a reward is issued, record and mint together.
RewardAlone ==
    /\ UNCHANGED rVars
    /\ UNCHANGED tSupply \/ tSigner' # RewardEngineAddress

RewardAdministered ==
    /\ \E caller \in Users : RewardContract!AdminStep(caller)
    /\ UNCHANGED <<tVars, pVars>>

RewardIssued ==
    \E caller \in Accounts, id \in RewardIds, recipient \in Accounts,
       source_id \in Payments \cup Campaigns, kind \in RewardContract!RewardKind,
       amount_star \in Int :
           Issued(caller, id, recipient, source_id, kind, amount_star)

LEMMA RewardCases ==
    ASSUME TypeOK, Engine!RecordMatchesStatus, [Next]_vars
    PROVE  RewardAlone \/ RewardAdministered \/ RewardIssued
<1>1. ASSUME NEW caller \in Users, RegistryStep(caller)
      PROVE  RewardAlone
  BY <1>1 DEF RegistryStep, RewardAlone, tVars
<1>2. ASSUME NEW caller \in Users, RewardStep(caller)
      PROVE  RewardAdministered \/ RewardIssued
  <2>1. ASSUME NEW id \in RewardIds, NEW recipient \in Payers,
               issue_directly(caller, id, recipient)
        PROVE  RewardIssued
    <3>1. PICK source_id \in Payments \cup Campaigns,
               kind \in RewardContract!RewardKind, amount_star \in Int :
                   Issued(caller, id, recipient, source_id, kind, amount_star)
      BY <2>1, DirectIssue
    <3>2. caller \in Accounts /\ recipient \in Accounts
      BY Addresses
    <3> QED
      BY <3>1, <3>2 DEF RewardIssued
  <2> QED
    BY <1>2, <2>1 DEF RewardStep, RewardAdministered
<1>3. ASSUME NEW caller \in Users, TokenStep(caller)
      PROVE  RewardAlone
  BY <1>3, TokenSigner, Addresses DEF TokenStep, RewardAlone
<1>4. ASSUME NEW caller \in Users, EngineStep(caller)
      PROVE  RewardAlone \/ RewardIssued
  <2>1. ASSUME NEW p \in Payments, issue_reward(caller, p)
        PROVE  RewardAlone \/ RewardIssued
    <3>1. CASE UNCHANGED <<rVars, tVars>>
      BY <3>1 DEF RewardAlone, tVars
    <3>3. CASE \E amount_star \in Nat : PaidElsewhere(p, amount_star)
      BY <3>3, Addresses DEF PaidElsewhere, RewardAlone, tVars,
          Token!mint_from_minter, Token!Authenticated
    <3>2. CASE \E amount_star \in Nat :
                   Issued(PaymentEngineAddress, pTerms[p].reward_id,
                          pTerms[p].payer, p, "Spend", amount_star)
      <4>1. pTerms[p].reward_id \in RewardIds /\ pTerms[p].payer \in Accounts
        BY <2>1, EngineIssue DEF Engine!Terms
      <4>2. "Spend" \in RewardContract!RewardKind
        BY DEF RewardContract!RewardKind
      <4> QED
        BY <3>2, <4>1, <4>2, Addresses DEF RewardIssued
    <3> QED
      BY <2>1, <3>1, <3>2, <3>3, EngineIssue
  <2>2. Engine!LocalStep(caller) /\ UNCHANGED <<gVars, rVars, tVars>> => RewardAlone
    BY DEF RewardAlone, tVars
  <2>3. ASSUME NEW p \in Payments, NEW payer \in Payers, NEW m \in Merchants,
               NEW amount \in Paise, NEW id \in RewardIds,
               create_payment(caller, payer, p, m, amount, id)
        PROVE  RewardAlone
    BY <2>3 DEF create_payment, RewardAlone, tVars
  <2> QED
    BY <1>4, <2>1, <2>2, <2>3 DEF EngineStep
<1>5. CloseLedger => RewardAlone
  BY DEF CloseLedger, Token!CloseLedger, Token!moneyVars, RewardAlone
<1>6. UNCHANGED vars => RewardAlone
  BY DEF vars, tVars, RewardAlone
<1>7. OtherStep => RewardAlone
  BY Addresses DEF OtherStep, RewardAlone, Token!mint_from_minter,
      Token!Authenticated
<1> QED
  BY <1>1, <1>2, <1>3, <1>4, <1>5, <1>6, <1>7 DEF Next

\* What an issued reward writes: a record where there was none, and as many
\* STAR as it says if the engine is configured with this token.
LEMMA IssuedWrites ==
    ASSUME TypeOK, NEW caller, NEW id \in RewardIds, NEW recipient \in Accounts,
           NEW source_id, NEW kind, NEW amount_star \in Int,
           Issued(caller, id, recipient, source_id, kind, amount_star)
    PROVE  /\ rReward[id] = None
           /\ rReward'[id] =
                  [recipient |-> recipient, source_id |-> source_id,
                   issuer |-> caller, kind |-> kind, amount_star |-> amount_star]
           /\ \A other \in RewardIds : other # id => rReward'[other] = rReward[other]
           /\ rStarToken = StarTokenAddress =>
                 /\ tSupply' = tSupply + amount_star
                 /\ tBalance'[recipient] = tBalance[recipient] + amount_star
<1>1. /\ rReward \in [RewardIds -> RewardContract!RewardRecord \cup {None}]
      /\ tBalance \in [Accounts -> Int]
  BY DEF TypeOK, RewardContract!TypeOK, Token!TypeOK
<1>2. /\ rReward[id] = None
      /\ rReward' = [rReward EXCEPT ![id] =
                        [recipient |-> recipient, source_id |-> source_id,
                         issuer |-> caller, kind |-> kind,
                         amount_star |-> amount_star]]
  BY DEF Issued, RewardContract!issue_reward, RewardContract!Issuable
<1>3. ASSUME rStarToken = StarTokenAddress
      PROVE  /\ tSupply' = tSupply + amount_star
             /\ tBalance' = [tBalance EXCEPT ![recipient] = @ + amount_star]
  BY <1>3, Addresses DEF Issued, MintReward, Token!mint_from_minter,
      Token!MintInternal
<1> QED
  BY <1>1, <1>2, <1>3

-----------------------------------------------------------------------------
(* The types, and the inductive invariant: the STAR figures are backed and  *)
(* the payees registered; the engine's records match their statuses, which  *)
(* tells that a payment with STAR has terms that are never written again;   *)
(* and the two histories agree with the statuses, so that a payment enters  *)
(* each of them once.                                                       *)

LEMMA RegistryTypes ==
    ASSUME Registry!TypeOK, [Registry!Next]_(Registry!vars)
    PROVE  Registry!TypeOK'
<1> USE DEF Registry!TypeOK, Registry!MerchantStatus, Registry!merchantVars,
            Registry!Authenticated
<1>0. Registry!ConstantsOK
  BY ContractsAssumption DEF ContractsAssumption
<1>1. ASSUME NEW caller \in Accounts, NEW a \in RegistryCandidates,
             Registry!set_admin(caller, a)
      PROVE  Registry!TypeOK'
  BY <1>0, <1>1 DEF Registry!set_admin, Registry!ConstantsOK
<1>2. ASSUME NEW caller \in Accounts, Registry!accept_admin(caller)
      PROVE  Registry!TypeOK'
  BY <1>2 DEF Registry!accept_admin
<1>3. ASSUME NEW caller \in Accounts, NEW flag \in BOOLEAN,
             Registry!SetPaused(caller, flag)
      PROVE  Registry!TypeOK'
  BY <1>3 DEF Registry!SetPaused
<1>4. ASSUME NEW caller \in Accounts, NEW m \in Merchants, NEW a \in Owners,
             NEW h \in Hashes, Registry!register_merchant(caller, m, a, h)
      PROVE  Registry!TypeOK'
  BY <1>0, <1>4 DEF Registry!register_merchant, Registry!ConstantsOK
<1>5. ASSUME NEW caller \in Accounts, NEW m \in Merchants,
             \/ Registry!approve_merchant(caller, m)
             \/ Registry!suspend_merchant(caller, m)
             \/ Registry!reject_merchant(caller, m)
      PROVE  Registry!TypeOK'
  BY <1>5 DEF Registry!approve_merchant, Registry!suspend_merchant,
      Registry!reject_merchant, Registry!Review
<1>6. ASSUME NEW caller \in Accounts, NEW m \in Merchants, NEW h \in Hashes,
             Registry!update_metadata(caller, m, h)
      PROVE  Registry!TypeOK'
  BY <1>6 DEF Registry!update_metadata
<1>7. ASSUME NEW caller \in Accounts, NEW m \in Merchants, NEW a \in Owners,
             Registry!transfer_owner(caller, m, a)
      PROVE  Registry!TypeOK'
  BY <1>0, <1>7 DEF Registry!transfer_owner, Registry!ConstantsOK
<1>8. CASE UNCHANGED Registry!vars
  BY <1>8 DEF Registry!vars
<1> QED
  BY <1>1, <1>2, <1>3, <1>4, <1>5, <1>6, <1>7, <1>8 DEF Registry!Next, Registry!Step

LEMMA RewardTypes ==
    ASSUME TypeOK, RewardAlone \/ RewardAdministered \/ RewardIssued
    PROVE  RewardContract!TypeOK'
<1> USE DEF TypeOK, RewardContract!TypeOK, RewardContract!Authenticated,
            RewardContract!AdminCall
<1>0. RewardContract!ConstantsOK
  BY ContractsAssumption DEF ContractsAssumption
<1>1. CASE RewardAlone
  BY <1>1 DEF RewardAlone, rVars
<1>2. CASE RewardAdministered
  <2>0. PICK caller \in Users : RewardContract!AdminStep(caller)
    BY <1>2 DEF RewardAdministered
  <2> caller \in Accounts
    BY Addresses
  <2>1. ASSUME NEW a \in RewardCandidates, RewardContract!set_admin(caller, a)
        PROVE  RewardContract!TypeOK'
    BY <1>0, <2>1 DEF RewardContract!set_admin, RewardContract!ConstantsOK
  <2>2. CASE RewardContract!accept_admin(caller)
    BY <2>2 DEF RewardContract!accept_admin
  <2>3. ASSUME NEW flag \in BOOLEAN, RewardContract!SetPaused(caller, flag)
        PROVE  RewardContract!TypeOK'
    BY <2>3 DEF RewardContract!SetPaused
  <2>4. ASSUME NEW t \in StarTokens, RewardContract!set_star_token(caller, t)
        PROVE  RewardContract!TypeOK'
    BY <1>0, <2>4 DEF RewardContract!set_star_token, RewardContract!ConstantsOK
  <2>5. ASSUME NEW a \in IssuerHolders, NEW flag \in BOOLEAN,
               RewardContract!set_issuer(caller, a, flag)
        PROVE  RewardContract!TypeOK'
    BY <1>0, <2>5 DEF RewardContract!set_issuer, RewardContract!ConstantsOK
  <2> QED
    BY <2>0, <2>1, <2>2, <2>3, <2>4, <2>5 DEF RewardContract!AdminStep
<1>3. CASE RewardIssued
  <2>1. PICK caller \in Accounts, id \in RewardIds, recipient \in Accounts,
             source_id \in Payments \cup Campaigns,
             kind \in RewardContract!RewardKind, amount_star \in Int :
                 Issued(caller, id, recipient, source_id, kind, amount_star)
    BY <1>3 DEF RewardIssued
  <2> DEFINE new == [recipient |-> recipient, source_id |-> source_id,
                     issuer |-> caller, kind |-> kind, amount_star |-> amount_star]
  <2>2. new \in RewardContract!RewardRecord
    BY DEF RewardContract!RewardRecord
  <2>3. /\ rReward' = [rReward EXCEPT ![id] = new]
        /\ rSigner' = caller
        /\ UNCHANGED <<rAdmin, rPending, rPaused, rIssuer, rStarToken>>
    BY <2>1 DEF Issued, RewardContract!issue_reward
  <2> HIDE DEF new
  <2> QED
    BY <2>2, <2>3
<1> QED
  BY <1>1, <1>2, <1>3

\* The engine's and the token's state mean the same to their theorems.
LEMMA SameStates ==
    /\ Engine!TypeOK = EngineProofs!TypeOK
    /\ Engine!RecordMatchesStatus = EngineProofs!RecordMatchesStatus
    /\ Engine!Init = EngineProofs!Init
    /\ Token!TypeOK = TokenProofs!TypeOK
    /\ Token!Init = TokenProofs!Init
BY DEF Engine!TypeOK, EngineProofs!TypeOK, Engine!PaymentStatus,
    EngineProofs!PaymentStatus, Engine!Terms, EngineProofs!Terms, Engine!Quote,
    EngineProofs!Quote, Engine!RecordMatchesStatus, EngineProofs!RecordMatchesStatus,
    Engine!Init, EngineProofs!Init, Token!TypeOK, TokenProofs!TypeOK,
    Token!AllowanceValue, TokenProofs!AllowanceValue, Token!Init, TokenProofs!Init

HistoriesMatchStatus ==
    /\ \A p \in hVouched : pStatus[p] # "Absent"
    /\ \A p \in hAnswered : pStatus[p] \in {"Rewarded", "Completed", "Failed"}

IInv == /\ TypeOK /\ Engine!RecordMatchesStatus
        /\ HistoriesMatchStatus /\ StarIsBacked /\ PayeesStayRegistered

\* Initially nothing is open, rewarded or minted.
LEMMA IInvInit == ASSUME Init PROVE IInv
<1>1. EngineProofs!TypeOK /\ EngineProofs!RecordMatchesStatus
  BY SameStates, EngineConstants, EngineProofs!TypeInit, EngineProofs!RecordsInit DEF Init
<1>2. TokenProofs!TypeOK
  BY SameStates, TokenConstants, TokenProofs!TypeInit DEF Init
<1>3. Registry!TypeOK
  <2>1. gPaused \in BOOLEAN
    BY DEF Init, Registry!Init
  <2> QED
    BY <2>1, ContractsAssumption DEF Init, Registry!Init, Registry!TypeOK,
        ContractsAssumption, Registry!ConstantsOK, Registry!MerchantStatus
<1>4. RewardContract!TypeOK
  <2>1. rPaused \in BOOLEAN
    BY DEF Init, RewardContract!Init
  <2> QED
    BY <2>1, ContractsAssumption DEF Init, RewardContract!Init, RewardContract!TypeOK,
        ContractsAssumption, RewardContract!ConstantsOK
<1>5. /\ StarIsBacked /\ PayeesStayRegistered /\ HistoriesMatchStatus
      /\ hVouched \subseteq Payments /\ hAnswered \subseteq Payments
  BY DEF Init, StarIsBacked, PayeesStayRegistered, HistoriesMatchStatus
<1> QED
  BY <1>1, <1>2, <1>3, <1>4, <1>5, SameStates DEF IInv, TypeOK

\* A payment enters a history in the step that opens it, or asks for its reward.
LEMMA HistoryStep ==
    ASSUME [Next]_vars
    PROVE  /\ UNCHANGED hVouched
              \/ \E caller \in Users, p \in Payments, payer \in Payers,
                    m \in Merchants, amount \in Paise, id \in RewardIds :
                     /\ create_payment(caller, payer, p, m, amount, id)
                     /\ hVouched' = IF pRegistry = RegistryAddress
                                    THEN hVouched \cup {p} ELSE hVouched
           /\ UNCHANGED hAnswered
              \/ \E caller \in Users, p \in Payments :
                     /\ issue_reward(caller, p)
                     /\ hAnswered' = IF pRewardEngine = RewardEngineAddress
                                     THEN hAnswered \cup {p} ELSE hAnswered
<1>1. ASSUME NEW caller \in Users,
             RegistryStep(caller) \/ RewardStep(caller) \/ TokenStep(caller)
      PROVE  UNCHANGED hVars
  BY <1>1 DEF RegistryStep, RewardStep, issue_directly, TokenStep
<1>2. OtherStep \/ CloseLedger \/ UNCHANGED vars => UNCHANGED hVars
  BY DEF OtherStep, CloseLedger, vars
<1>3. ASSUME NEW caller \in Users, EngineStep(caller)
      PROVE  \/ UNCHANGED hVars
             \/ \E p \in Payments, payer \in Payers, m \in Merchants,
                   amount \in Paise, id \in RewardIds :
                    create_payment(caller, payer, p, m, amount, id)
             \/ \E p \in Payments : issue_reward(caller, p)
  BY <1>3 DEF EngineStep
<1>4. ASSUME NEW caller, NEW p, NEW payer, NEW m, NEW amount, NEW id,
             create_payment(caller, payer, p, m, amount, id)
      PROVE  /\ hVouched' = IF pRegistry = RegistryAddress
                            THEN hVouched \cup {p} ELSE hVouched
             /\ UNCHANGED hAnswered
  BY <1>4 DEF create_payment
<1>5. ASSUME NEW caller, NEW p, issue_reward(caller, p)
      PROVE  /\ hAnswered' = IF pRewardEngine = RewardEngineAddress
                             THEN hAnswered \cup {p} ELSE hAnswered
             /\ UNCHANGED hVouched
  BY <1>5 DEF issue_reward, AskedForReward
<1>6. \/ UNCHANGED hVars
      \/ \E caller \in Users, p \in Payments, payer \in Payers, m \in Merchants,
            amount \in Paise, id \in RewardIds :
             create_payment(caller, payer, p, m, amount, id)
      \/ \E caller \in Users, p \in Payments : issue_reward(caller, p)
  BY <1>1, <1>2, <1>3 DEF Next
<1> QED
  BY <1>4, <1>5, <1>6 DEF hVars

LEMMA TypeStep ==
    ASSUME TypeOK, Engine!RecordMatchesStatus, [Next]_vars
    PROVE  TypeOK' /\ Engine!RecordMatchesStatus'
<1>1. EngineProofs!TypeOK' /\ EngineProofs!RecordMatchesStatus'
  BY SameStates, EngineConstants, EngineAmongOthers, EngineProofs!TypeStep,
     EngineProofs!RecordsStep DEF TypeOK
<1>2. TokenProofs!TypeOK'
  BY SameStates, TokenConstants, TokenAmongOthers, TokenProofs!TypeStep DEF TypeOK
<1>3. Registry!TypeOK'
  BY RegistryAmongOthers, RegistryTypes DEF TypeOK
<1>4. RewardContract!TypeOK'
  BY RewardCases, RewardTypes
<1>5. Engine!TypeOK'
  BY <1>1, Zenon DEF Engine!TypeOK, EngineProofs!TypeOK, Engine!PaymentStatus,
    EngineProofs!PaymentStatus, Engine!Terms, EngineProofs!Terms, Engine!Quote,
    EngineProofs!Quote
<1>6. Engine!RecordMatchesStatus'
  BY <1>1, Zenon DEF Engine!RecordMatchesStatus, EngineProofs!RecordMatchesStatus,
    Engine!PaymentStatus, EngineProofs!PaymentStatus
<1>7. Token!TypeOK'
  <2>1. TokenProofs!AllowanceValue = Token!AllowanceValue
    BY DEF TokenProofs!AllowanceValue, Token!AllowanceValue
  <2> QED
    BY <1>2, <2>1, SMTT(30) DEF Token!TypeOK, TokenProofs!TypeOK
<1>8. hVouched' \subseteq Payments /\ hAnswered' \subseteq Payments
  BY HistoryStep DEF TypeOK
<1> QED
  BY <1>3, <1>4, <1>5, <1>6, <1>7, <1>8 DEF TypeOK

\* What is open stays open, its terms stay, and what was rewarded stays so.
LEMMA PaymentsStay ==
    ASSUME TypeOK, Engine!RecordMatchesStatus, [Next]_vars, NEW p \in Payments
    PROVE  /\ pTerms[p] # None => pTerms'[p] = pTerms[p]
           /\ pStatus[p] # "Absent" => pStatus'[p] # "Absent"
           /\ pStatus[p] \in {"Rewarded", "Completed", "Failed"} =>
                  pStatus'[p] \in {"Rewarded", "Completed", "Failed"}
BY EngineConstants, EngineAmongOthers, SameStates, EngineProofs!TermsStay,
   EngineProofs!StatusStays DEF TypeOK

LEMMA HistoriesStep ==
    ASSUME TypeOK, Engine!RecordMatchesStatus, HistoriesMatchStatus, [Next]_vars
    PROVE  HistoriesMatchStatus'
<1>1. ASSUME NEW p \in hVouched', p \notin hVouched
      PROVE  pStatus'[p] # "Absent"
  <2>1. PICK caller \in Users, payer \in Payers, m \in Merchants, amount \in Paise,
             id \in RewardIds : create_payment(caller, payer, p, m, amount, id)
    BY <1>1, HistoryStep
  <2> QED
    BY <1>1, <2>1, TypeStep
       DEF create_payment, Engine!create_payment, TypeOK, Engine!TypeOK
<1>2. ASSUME NEW p \in hAnswered', p \notin hAnswered
      PROVE  pStatus'[p] \in {"Rewarded", "Completed", "Failed"}
  <2>1. PICK caller \in Users : p \in Payments /\ issue_reward(caller, p)
    BY <1>2, HistoryStep
  <2>2. PICK amount_star \in Nat : Engine!issue_reward(caller, p, amount_star)
    BY <2>1, EngineIssue
  <2> QED
    BY <2>1, <2>2 DEF Engine!issue_reward, TypeOK, Engine!TypeOK
<1> QED
  BY <1>1, <1>2, PaymentsStay DEF HistoriesMatchStatus, TypeOK

\* A record of the reward engine is never written again.
LEMMA RecordsStay ==
    ASSUME TypeOK, Engine!RecordMatchesStatus, [Next]_vars,
           NEW id \in RewardIds, rReward[id] # None
    PROVE  rReward'[id] = rReward[id]
<1>1. RewardAlone \/ RewardAdministered => UNCHANGED rReward
  BY DEF RewardAlone, rVars, RewardAdministered, RewardContract!AdminStep,
      RewardContract!set_admin, RewardContract!accept_admin, RewardContract!SetPaused,
      RewardContract!set_star_token, RewardContract!set_issuer
<1>2. CASE RewardIssued
  BY <1>2, IssuedWrites DEF RewardIssued
<1> QED
  BY <1>1, <1>2, RewardCases

\* Only issue_reward of a payment writes its STAR.
LEMMA StarMoves ==
    ASSUME TypeOK, Engine!RecordMatchesStatus, [Next]_vars,
           NEW p \in Payments, pStar'[p] # pStar[p]
    PROVE  \E caller \in Users : issue_reward(caller, p)
<1>1. ASSUME NEW caller \in Users, Engine!LocalStep(caller)
      PROVE  UNCHANGED pStar
  BY <1>1 DEF Engine!LocalStep, Engine!AdminStep, Engine!set_admin,
      Engine!accept_admin, Engine!SetPaused, Engine!set_operator,
      Engine!set_contracts, Engine!paymentVars, Engine!quote_payment,
      Engine!mark_converted, Engine!mark_settled, Engine!complete_payment,
      Engine!transition_operator, Engine!cancel_payment, Engine!fail_payment
<1>2. ASSUME NEW caller \in Users, EngineStep(caller)
      PROVE  UNCHANGED pStar \/ \E q \in Payments : issue_reward(caller, q)
  BY <1>1, <1>2 DEF EngineStep, create_payment, Engine!create_payment
<1>3. ASSUME NEW caller \in Users,
             RegistryStep(caller) \/ RewardStep(caller) \/ TokenStep(caller)
      PROVE  UNCHANGED pStar
  BY <1>3 DEF RegistryStep, RewardStep, issue_directly, TokenStep, pVars
<1>4. OtherStep \/ CloseLedger \/ UNCHANGED vars => UNCHANGED pStar
  BY DEF OtherStep, CloseLedger, vars, pVars
<1>5. PICK caller \in Users, q \in Payments : issue_reward(caller, q)
  BY <1>2, <1>3, <1>4 DEF Next
<1>6. PICK amount_star \in Nat : Engine!issue_reward(caller, q, amount_star)
  BY <1>5, EngineIssue
<1>7. p = q
  BY <1>6 DEF Engine!issue_reward, TypeOK, Engine!TypeOK
<1> QED
  BY <1>5, <1>7

\* A payment the deployed engine answered keeps its terms and its figure, and
\* the engine keeps the record; one it answers now gets both in this step.
LEMMA BackedStep ==
    ASSUME IInv, [Next]_vars
    PROVE  StarIsBacked'
<1> SUFFICES ASSUME NEW p \in hAnswered', pStar'[p] > 0
             PROVE  rReward'[pTerms'[p].reward_id] =
                        [recipient |-> pTerms'[p].payer, source_id |-> p,
                         issuer |-> PaymentEngineAddress, kind |-> "Spend",
                         amount_star |-> pStar'[p]]
  BY DEF StarIsBacked
<1>0. /\ TypeOK /\ Engine!RecordMatchesStatus
      /\ HistoriesMatchStatus /\ StarIsBacked
  BY DEF IInv
<1>p. p \in Payments
  BY <1>0, TypeStep DEF TypeOK
<1>1. CASE p \in hAnswered
  <2> DEFINE record == [recipient |-> pTerms[p].payer, source_id |-> p,
                        issuer |-> PaymentEngineAddress, kind |-> "Spend",
                        amount_star |-> pStar[p]]
  <2>1. pStatus[p] # "Settled"
    BY <1>0, <1>1 DEF HistoriesMatchStatus
  <2>2. pStar'[p] = pStar[p]
    BY <1>0, <1>p, <2>1, StarMoves, EngineIssue
  <2>3. pTerms[p] # None /\ pTerms'[p] = pTerms[p]
    BY <1>0, <1>p, <2>2, PaymentsStay DEF Engine!RecordMatchesStatus
  <2>4. rReward[pTerms[p].reward_id] = record
    BY <1>0, <1>1, <2>2 DEF StarIsBacked
  <2>5. pTerms[p] \in Engine!Terms /\ pStar[p] \in Int
    BY <1>0, <1>p, <2>3 DEF TypeOK, Engine!TypeOK
  <2>6. pTerms[p].reward_id \in RewardIds /\ pTerms[p].payer \in Accounts
    BY <2>5 DEF Engine!Terms
  <2>7. record \in RewardContract!RewardRecord
    BY <1>p, <2>5, <2>6, Addresses
       DEF RewardContract!RewardRecord, RewardContract!RewardKind
  <2>8. record # None
    BY <2>7, ContractsAssumption DEF ContractsAssumption, RewardContract!ConstantsOK
  <2> QED
    BY <1>0, <2>2, <2>3, <2>4, <2>6, <2>8, RecordsStay
<1>2. CASE p \notin hAnswered
  <2>1. PICK caller \in Users : issue_reward(caller, p)
    BY <1>2, HistoryStep
  <2>2. pRewardEngine = RewardEngineAddress
    BY <1>2, HistoryStep
  <2>3. PICK amount_star \in Nat :
            /\ Engine!issue_reward(caller, p, amount_star)
            /\ \/ Issued(PaymentEngineAddress, pTerms[p].reward_id,
                         pTerms[p].payer, p, "Spend", amount_star)
               \/ amount_star = 0
    BY <1>0, <1>p, <2>1, <2>2, EngineIssue, Addresses DEF PaidElsewhere
  <2>4. pStar'[p] = amount_star /\ UNCHANGED pTerms
    BY <1>0, <1>p, <2>3 DEF Engine!issue_reward, TypeOK, Engine!TypeOK
  <2>5. pTerms[p].reward_id \in RewardIds /\ pTerms[p].payer \in Accounts
    BY <1>0, <1>p, <2>1, EngineIssue DEF Engine!Terms
  <2>6. amount_star \in Int
    OBVIOUS
  <2>7. Issued(PaymentEngineAddress, pTerms[p].reward_id, pTerms[p].payer, p,
               "Spend", amount_star)
    BY <2>3, <2>4
  <2>8. rReward'[pTerms[p].reward_id] =
            [recipient |-> pTerms[p].payer, source_id |-> p,
             issuer |-> PaymentEngineAddress, kind |-> "Spend",
             amount_star |-> amount_star]
    BY <1>0, <2>5, <2>6, <2>7, IssuedWrites
  <2> QED
    BY <2>4, <2>8
<1> QED
  BY <1>1, <1>2

\* Registered for good: no step of the registry takes an approved or suspended
\* merchant out of these two.
LEMMA StandingStays ==
    ASSUME Registry!TypeOK, [Registry!Next]_(Registry!vars), NEW m \in Merchants,
           gStatus[m] \in {"Approved", "Suspended"}
    PROVE  gStatus'[m] \in {"Approved", "Suspended"}
<1> USE DEF Registry!TypeOK
<1>1. ASSUME NEW caller, NEW n \in Merchants, NEW a \in Owners, NEW h \in Hashes,
             Registry!register_merchant(caller, n, a, h)
      PROVE  gStatus'[m] \in {"Approved", "Suspended"}
  BY <1>1 DEF Registry!register_merchant
<1>2. ASSUME NEW caller, NEW n \in Merchants,
             \/ Registry!approve_merchant(caller, n)
             \/ Registry!suspend_merchant(caller, n)
             \/ Registry!reject_merchant(caller, n)
      PROVE  gStatus'[m] \in {"Approved", "Suspended"}
  BY <1>2 DEF Registry!approve_merchant, Registry!suspend_merchant,
      Registry!reject_merchant, Registry!Review
<1> QED
  BY <1>1, <1>2 DEF Registry!Next, Registry!Step, Registry!vars,
      Registry!merchantVars, Registry!set_admin, Registry!accept_admin,
      Registry!SetPaused, Registry!update_metadata, Registry!transfer_owner

\* A vouched payment keeps its terms, so its merchant; a payment vouched for now
\* has a merchant approved in the state it is opened in, which this step leaves.
LEMMA PayeesStep ==
    ASSUME IInv, [Next]_vars
    PROVE  PayeesStayRegistered'
<1> SUFFICES ASSUME NEW p \in hVouched'
             PROVE  gStatus'[pTerms'[p].merchant_id] \in {"Approved", "Suspended"}
  BY DEF PayeesStayRegistered
<1>0. /\ TypeOK /\ Engine!RecordMatchesStatus
      /\ HistoriesMatchStatus /\ PayeesStayRegistered
  BY DEF IInv
<1>p. p \in Payments
  BY <1>0, TypeStep DEF TypeOK
<1>1. CASE p \in hVouched
  <2>1. pTerms[p] # None
    BY <1>0, <1>1, <1>p DEF HistoriesMatchStatus, Engine!RecordMatchesStatus
  <2>2. pTerms'[p] = pTerms[p]
    BY <1>0, <1>p, <2>1, PaymentsStay
  <2>3. pTerms[p].merchant_id \in Merchants
    BY <1>0, <1>p, <2>1 DEF TypeOK, Engine!TypeOK, Engine!Terms
  <2>4. gStatus[pTerms[p].merchant_id] \in {"Approved", "Suspended"}
    BY <1>0, <1>1 DEF PayeesStayRegistered
  <2> QED
    BY <1>0, <2>2, <2>3, <2>4, RegistryAmongOthers, StandingStays DEF TypeOK
<1>2. CASE p \notin hVouched
  <2>1. PICK caller \in Users, payer \in Payers, m \in Merchants, amount \in Paise,
             id \in RewardIds : create_payment(caller, payer, p, m, amount, id)
    BY <1>2, HistoryStep
  <2>2. pRegistry = RegistryAddress
    BY <1>2, HistoryStep
  <2>3. gStatus[m] = "Approved" /\ UNCHANGED gStatus
    BY <2>1, <2>2, Addresses
       DEF create_payment, Engine!create_payment, MerchantApproved,
           Registry!is_approved, gVars
  <2>4. pTerms' = [pTerms EXCEPT ![p] =
                      [payer |-> payer, merchant_id |-> m,
                       amount_in_paise |-> amount, reward_id |-> id]]
    BY <2>1 DEF create_payment, Engine!create_payment
  <2>5. pTerms'[p].merchant_id = m
    BY <1>0, <1>p, <2>4 DEF TypeOK, Engine!TypeOK
  <2> QED
    BY <2>3, <2>5
<1> QED
  BY <1>1, <1>2

LEMMA IInvStep == ASSUME IInv, [Next]_vars PROVE IInv'
BY TypeStep, HistoriesStep, BackedStep, PayeesStep DEF IInv

LEMMA Invariance == Spec => []IInv
BY IInvInit, IInvStep, PTL DEF Spec

\* The state of the four contracts keeps its type.
THEOREM TypeCorrect == Spec => []TypeOK
BY Invariance, PTL DEF IInv

\* Every STAR figure the deployed reward engine answered is backed by the record
\* of that payment's own reward, and by no other's, however often the payment
\* engine is pointed at another reward engine and back.
THEOREM StarBacked == Spec => []StarIsBacked
BY Invariance, PTL DEF IInv

-----------------------------------------------------------------------------
(* Between the contracts.                                                  *)

\* Records and tokens move together, and the reward engine mints nothing that
\* it does not record.
THEOREM RecordsFollowMints == Spec => RecordsMatchMints
<1> DEFINE Together ==
        /\ \A id \in RewardIds : rReward'[id] # rReward[id] =>
              /\ rReward[id] = None
              /\ rStarToken = StarTokenAddress =>
                    LET r == rReward'[id]
                    IN  /\ tSupply' = tSupply + r.amount_star
                        /\ tBalance'[r.recipient] =
                               tBalance[r.recipient] + r.amount_star
        /\ tSigner' = RewardEngineAddress /\ tSupply' # tSupply =>
              \E id \in RewardIds : rReward'[id] # rReward[id]
<1>1. IInv /\ [Next]_vars => [Together]_vars
  <2> SUFFICES ASSUME TypeOK, Engine!RecordMatchesStatus, [Next]_vars
               PROVE  Together
    BY DEF IInv
  <2>1. CASE RewardAlone
    BY <2>1 DEF RewardAlone, rVars
  <2>2. CASE RewardAdministered
    <3>1. UNCHANGED <<rReward, tSupply>>
      BY <2>2 DEF RewardAdministered, tVars, RewardContract!AdminStep,
          RewardContract!set_admin, RewardContract!accept_admin,
          RewardContract!SetPaused, RewardContract!set_star_token,
          RewardContract!set_issuer
    <3> QED
      BY <3>1
  <2>3. CASE RewardIssued
    <3>1. PICK caller \in Accounts, id \in RewardIds, recipient \in Accounts,
               source_id \in Payments \cup Campaigns,
               kind \in RewardContract!RewardKind, amount_star \in Int :
                   Issued(caller, id, recipient, source_id, kind, amount_star)
      BY <2>3 DEF RewardIssued
    <3> DEFINE new == [recipient |-> recipient, source_id |-> source_id,
                       issuer |-> caller, kind |-> kind, amount_star |-> amount_star]
    <3>2. /\ rReward[id] = None /\ rReward'[id] = new
          /\ \A other \in RewardIds : other # id => rReward'[other] = rReward[other]
          /\ rStarToken = StarTokenAddress =>
                /\ tSupply' = tSupply + amount_star
                /\ tBalance'[recipient] = tBalance[recipient] + amount_star
      BY <3>1, IssuedWrites
    <3>3. new # None
      BY ContractsAssumption DEF ContractsAssumption, RewardContract!ConstantsOK,
          RewardContract!RewardRecord
    <3>4. new.amount_star = amount_star /\ new.recipient = recipient
      OBVIOUS
    <3> HIDE DEF new
    <3> QED
      BY <3>2, <3>3, <3>4
  <2> QED
    BY <2>1, <2>2, <2>3, RewardCases
<1> QED
  BY <1>1, Invariance, PTL DEF Spec, RecordsMatchMints

\* A payment opened on the registry's word has a merchant that is approved or
\* suspended ever after.
THEOREM PayeesRegistered == Spec => []PayeesStayRegistered
BY Invariance, PTL DEF IInv

-----------------------------------------------------------------------------
(* Within the registry and the reward engine.                              *)

\* A merchant's standing is moved by the sitting admin alone, along the review's
\* transitions.
THEOREM StandingFromTheAdmin == Spec => StandingIsDecidedByAdmin
<1> DEFINE Decided ==
        \A m \in Merchants : gStatus'[m] # gStatus[m] =>
            /\ gSigner' = gAdmin
            /\ gStatus[m] # "Rejected"
            /\ gStatus'[m] = "Pending" => gStatus[m] = "Absent"
            /\ gStatus'[m] # "Absent"
            /\ gStatus'[m] = "Suspended" => gStatus[m] = "Approved"
            /\ gStatus'[m] = "Rejected" => gStatus[m] = "Pending"
<1>1. Registry!TypeOK /\ [Registry!Next]_(Registry!vars) => [Decided]_(Registry!vars)
  <2> SUFFICES ASSUME Registry!TypeOK, [Registry!Next]_(Registry!vars)
               PROVE  Decided
    OBVIOUS
  <2> USE DEF Registry!TypeOK, Registry!Authenticated
  <2>1. CASE UNCHANGED gStatus
    BY <2>1
  <2>2. ASSUME NEW caller, NEW m \in Merchants, NEW a \in Owners, NEW h \in Hashes,
               Registry!register_merchant(caller, m, a, h)
        PROVE  Decided
    BY <2>2 DEF Registry!register_merchant
  <2>3. ASSUME NEW caller, NEW m \in Merchants,
               \/ Registry!approve_merchant(caller, m)
               \/ Registry!suspend_merchant(caller, m)
               \/ Registry!reject_merchant(caller, m)
        PROVE  Decided
    BY <2>3 DEF Registry!approve_merchant, Registry!suspend_merchant,
        Registry!reject_merchant, Registry!Review
  <2> QED
    BY <2>1, <2>2, <2>3 DEF Registry!Next, Registry!Step, Registry!vars,
        Registry!merchantVars, Registry!set_admin, Registry!accept_admin,
        Registry!SetPaused, Registry!update_metadata, Registry!transfer_owner
<1>2. IInv /\ [Next]_vars => Registry!TypeOK /\ [Registry!Next]_(Registry!vars)
  BY RegistryAmongOthers DEF IInv, TypeOK
<1> QED
  BY <1>1, <1>2, Invariance, PTL
     DEF Spec, StandingIsDecidedByAdmin, Registry!StandingIsDecidedByAdmin

\* Only the owner's signature changes the owner or the metadata of a record.
THEOREM OwnersKeepTheRecord == Spec => OwnerKeepsTheRecord
<1> DEFINE Kept ==
        \A m \in Merchants :
            /\ gStatus[m] # "Absent"
            /\ gOwner'[m] # gOwner[m] \/ gMetadata'[m] # gMetadata[m]
            => gSigner' = gOwner[m]
<1>1. Registry!TypeOK /\ [Registry!Next]_(Registry!vars) => [Kept]_(Registry!vars)
  <2> SUFFICES ASSUME Registry!TypeOK, [Registry!Next]_(Registry!vars)
               PROVE  Kept
    OBVIOUS
  <2> USE DEF Registry!TypeOK, Registry!Authenticated
  <2>1. CASE UNCHANGED <<gOwner, gMetadata>>
    BY <2>1
  <2>2. ASSUME NEW caller, NEW m \in Merchants, NEW a \in Owners, NEW h \in Hashes,
               Registry!register_merchant(caller, m, a, h)
        PROVE  Kept
    BY <2>2 DEF Registry!register_merchant
  <2>3. ASSUME NEW caller, NEW m \in Merchants, NEW h \in Hashes,
               Registry!update_metadata(caller, m, h)
        PROVE  Kept
    BY <2>3 DEF Registry!update_metadata
  <2>4. ASSUME NEW caller, NEW m \in Merchants, NEW a \in Owners,
               Registry!transfer_owner(caller, m, a)
        PROVE  Kept
    BY <2>4 DEF Registry!transfer_owner
  <2> QED
    BY <2>1, <2>2, <2>3, <2>4 DEF Registry!Next, Registry!Step, Registry!vars,
        Registry!merchantVars, Registry!set_admin, Registry!accept_admin,
        Registry!SetPaused, Registry!approve_merchant, Registry!suspend_merchant,
        Registry!reject_merchant, Registry!Review
<1>2. IInv /\ [Next]_vars => Registry!TypeOK /\ [Registry!Next]_(Registry!vars)
  BY RegistryAmongOthers DEF IInv, TypeOK
<1> QED
  BY <1>1, <1>2, Invariance, PTL
     DEF Spec, OwnerKeepsTheRecord, Registry!OwnerKeepsTheRecord

\* Issuers are made by the admin, or by its successor for itself; the admin that
\* was rotated out is none.
THEOREM IssuersFromTheAdmin == Spec => IssuersComeFromTheAdmin
<1> DEFINE Allowed ==
        /\ rIssuer' \ rIssuer # {} =>
             \/ rSigner' = rAdmin
             \/ /\ rSigner' = rPending
                /\ rIssuer' \ rIssuer \subseteq {rAdmin'}
        /\ rAdmin' # rAdmin => rAdmin \notin rIssuer'
<1>1. IInv /\ [Next]_vars => [Allowed]_(RewardContract!vars)
  <2> SUFFICES ASSUME TypeOK, Engine!RecordMatchesStatus, [Next]_vars
               PROVE  Allowed
    BY DEF IInv
  <2> USE DEF RewardContract!Authenticated, RewardContract!AdminCall
  <2>1. CASE UNCHANGED <<rAdmin, rIssuer>>
    BY <2>1
  <2>2. ASSUME NEW caller \in Users, RewardContract!accept_admin(caller)
        PROVE  Allowed
    BY <2>2 DEF RewardContract!accept_admin
  <2>3. ASSUME NEW caller \in Users, NEW a \in IssuerHolders, NEW flag \in BOOLEAN,
               RewardContract!set_issuer(caller, a, flag)
        PROVE  Allowed
    BY <2>3 DEF RewardContract!set_issuer
  <2>4. CASE RewardAdministered
    BY <2>1, <2>2, <2>3, <2>4 DEF RewardAdministered, RewardContract!AdminStep,
        RewardContract!set_admin, RewardContract!SetPaused,
        RewardContract!set_star_token
  <2>5. RewardAlone \/ RewardIssued => UNCHANGED <<rAdmin, rIssuer>>
    BY DEF RewardAlone, RewardIssued, Issued, RewardContract!issue_reward, rVars
  <2> QED
    BY <2>1, <2>4, <2>5, RewardCases
<1> QED
  BY <1>1, Invariance, PTL
     DEF Spec, IssuersComeFromTheAdmin, RewardContract!IssuersComeFromTheAdmin

-----------------------------------------------------------------------------
(* The parts as the whole runs them.                                       *)

\* Among the four contracts the payment engine is the one of its own module,
\* whatever the reward engine answers; so all that was proved of it holds.
THEOREM EngineIsAPart == Spec => EngineProofs!Spec
<1>1. Init => EngineProofs!Init
  BY SameStates DEF Init
<1>2. IInv /\ [Next]_vars => [EngineProofs!Next]_(EngineProofs!vars)
  BY EngineAmongOthers DEF IInv
<1> QED
  BY <1>1, <1>2, Invariance, PTL DEF Spec, EngineProofs!Spec

\* The token is the one of its own module too, minting what it is told to.
THEOREM TokenIsAPart == Spec => TokenProofs!Spec
<1>1. Init => TokenProofs!Init
  BY SameStates DEF Init
<1>2. IInv /\ [Next]_vars => [TokenProofs!Next]_(TokenProofs!vars)
  BY TokenAmongOthers DEF IInv
<1> QED
  BY <1>1, <1>2, Invariance, PTL DEF Spec, TokenProofs!Spec

\* And the registry is the one of its own module: payments and rewards read it only.
THEOREM RegistryIsAPart == Spec => Registry!Spec
<1>1. Init => Registry!Init
  BY DEF Init
<1>2. [Next]_vars => [Registry!Next]_(Registry!vars)
  BY RegistryAmongOthers
<1> QED
  BY <1>1, <1>2, PTL DEF Spec, Registry!Spec

\* What follows for the payments of the whole: agreements are kept, only the
\* right key moves them, and each runs through the abstract life cycle.
THEOREM PaymentsAmongContracts ==
    Spec => /\ EngineProofs!AgreementsAreKept
            /\ EngineProofs!MovedByTheRightKey
            /\ EngineProofs!OperatorsComeFromTheAdmin
            /\ EngineProofs!ImplementsLifecycle
BY EngineIsAPart, EngineConstants, EngineProofs!AgreementsKept,
   EngineProofs!RightKeyMoves, EngineProofs!OperatorsFromTheAdmin,
   EngineProofs!Implements, PTL

\* What follows for the STAR of the whole: the supply counter stays the sum of the
\* balances whichever contract mints, rewards cannot take it over the cap or reach
\* a frozen address, and nothing moves while paused.
THEOREM TokenAmongContracts ==
    Spec => /\ []TokenProofs!SupplyIsSumOfBalances
            /\ []TokenProofs!SupplyWithinCap
            /\ TokenProofs!FrozenBalanceIsStill
            /\ TokenProofs!SpendingIsGranted
            /\ TokenProofs!PausedIsStill
            /\ TokenProofs!RolesComeFromTheAdmin
BY TokenIsAPart, TokenConstants, TokenProofs!SupplyIsBalances,
   TokenProofs!SupplyCapped,
   TokenProofs!FrozenIsStill, TokenProofs!SpendingGranted, TokenProofs!PausedStill,
   TokenProofs!RolesFromTheAdmin, PTL
=============================================================================
