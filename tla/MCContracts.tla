------------------------------ MODULE MCContracts ------------------------------
(* Bounded instance of Contracts.                                          *)
EXTENDS Contracts, FiniteSets, TLC

MCQuotes == {[asset_amount |-> 5, usdc_amount |-> 3, network_fee_paise |-> 0]}

(* No guard reads who signed the last call, and the properties only ask who *)
(* signs the step being taken: states that differ in the signers are one.   *)
View == <<gAdmin, gPending, gPaused, gStatus, gOwner, gMetadata,
          rAdmin, rPending, rPaused, rIssuer, rStarToken, rReward,
          tAdmin, tPending, tPaused, tMinter, tFrozen, tSupply, tBalance,
          tAllowance, tFeeBps, tLedger,
          pAdmin, pPending, pPaused, pOperator, pRegistry, pRewardEngine,
          pStatus, pTerms, pQuote, pStar, hVouched, hAnswered>>

(* What keeps rewards from being paid or payments from being opened, or has *)
(* them paid and opened by contracts other than the deployed ones; the      *)
(* contracts are deployed with two of these (no issuer, no minter).         *)
Disturbances ==
    {c \in {"registry", "rewards", "token", "payments"} :
        CASE c = "registry" -> gPaused
          [] c = "rewards"  -> rPaused
          [] c = "token"    -> tPaused
          [] c = "payments" -> pPaused}
    \cup {c \in {"pRegistry", "pRewardEngine", "rStarToken"} :
        CASE c = "pRegistry"     -> pRegistry # RegistryAddress
          [] c = "pRewardEngine" -> pRewardEngine # RewardEngineAddress
          [] c = "rStarToken"    -> rStarToken # StarTokenAddress}
    \cup {c \in {"issuer", "minter", "other minter"} :
        CASE c = "issuer" -> PaymentEngineAddress \notin rIssuer
          [] c = "minter" -> RewardEngineAddress \notin tMinter
          [] c = "other minter" -> OtherAddress \in tMinter}

CONSTANT MaxDisturbances    \* bound: how many of them at the same time

FewDisturbances == Cardinality(Disturbances) <= MaxDisturbances

(* Addresses without STAR need no freezing here: star_roles freezes.        *)
NoneFrozen == tFrozen = {}

(* Payments differ in nothing but their identity.                           *)
Symmetry == Permutations(Payments)
=============================================================================
