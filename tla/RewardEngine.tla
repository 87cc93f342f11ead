----------------------------- MODULE RewardEngine -----------------------------
(***************************************************************************)
(* The reward engine, contracts/reward-engine/src/lib.rs: it decides who   *)
(* may issue STAR, for what, and never twice under the same reward id.     *)
(*                                                                         *)
(* issue_reward calls the STAR token; an error there traps and undoes the  *)
(* whole call.  This module has the engine's own half of the step; module  *)
(* Contracts conjoins it with StarToken!mint_from_minter, so that neither  *)
(* half happens without the other.                                         *)
(***************************************************************************)
EXTENDS Integers

CONSTANTS
    Accounts,       \* addresses
    None,           \* the absent entry, whatever it would hold
    RewardIds,      \* reward ids
    Sources,        \* source ids: payments, referrals, campaigns
    Deployers,      \* addresses the contract may be deployed by
    Candidates,     \* addresses proposed as admin
    IssuerHolders,  \* addresses whose issuer flag an admin may set
    StarTokens      \* addresses the admin may configure as the STAR token

RewardKind == {"Spend", "Referral", "Campaign"}

RewardRecord == [recipient : Accounts, source_id : Sources, issuer : Accounts,
                 kind : RewardKind, amount_star : Int]

\* What is assumed of the constants; module Contracts makes the ASSUME of it.
ConstantsOK ==
    /\ None \notin Accounts
    /\ None \notin RewardRecord
    /\ Deployers \subseteq Accounts
    /\ Candidates \subseteq Accounts
    /\ IssuerHolders \subseteq Accounts
    /\ StarTokens \subseteq Accounts

VARIABLES
    admin, pendingAdmin, paused,
    issuer,         \* the addresses whose AuthorizedIssuer flag is true
    starToken,      \* the configured token contract
    reward,         \* Reward(id), None when absent
    signer          \* who authorized the last call

vars == <<admin, pendingAdmin, paused, issuer, starToken, reward, signer>>

TypeOK ==
    /\ admin \in Accounts
    /\ pendingAdmin \in Accounts \cup {None}
    /\ paused \in BOOLEAN
    /\ issuer \subseteq Accounts
    /\ starToken \in Accounts
    /\ reward \in [RewardIds -> RewardRecord \cup {None}]
    /\ signer \in Accounts

Init ==
    /\ admin \in Deployers
    /\ pendingAdmin = None
    /\ paused = FALSE
    /\ issuer = {admin}
    /\ starToken \in StarTokens
    /\ reward = [r \in RewardIds |-> None]
    /\ signer = admin

-----------------------------------------------------------------------------
PAISE_PER_100_INR == 10000
SPEND_REWARD_STAR_PER_100_INR == 10
REFERRAL_REWARD_STAR == 100

\* Ten STAR for every full hundred rupees; the fraction earns nothing.  The
\* source refuses amount <= 0 before dividing.
calculate_spend_reward(amount_in_paise) ==
    (amount_in_paise \div PAISE_PER_100_INR) * SPEND_REWARD_STAR_PER_100_INR

Authenticated(caller) == ~paused /\ signer' = caller

AdminCall(caller) == caller = admin /\ Authenticated(caller)

set_admin(caller, new_admin) ==
    /\ AdminCall(caller)
    /\ pendingAdmin' = new_admin
    /\ UNCHANGED <<admin, paused, issuer, starToken, reward>>

\* Mutant of accept_admin: the outgoing admin stays an issuer.
HandoffKeepingIssuer(caller) ==
    /\ caller = pendingAdmin
    /\ Authenticated(caller)
    /\ admin' = pendingAdmin
    /\ pendingAdmin' = None
    /\ issuer' = issuer \cup {pendingAdmin}
    /\ UNCHANGED <<paused, starToken, reward>>

\* The outgoing admin stops being an issuer, the incoming one becomes one.
accept_admin(caller) ==
    /\ caller = pendingAdmin
    /\ Authenticated(caller)
    /\ admin' = pendingAdmin
    /\ pendingAdmin' = None
    /\ issuer' = (issuer \ {admin}) \cup {pendingAdmin}
    /\ UNCHANGED <<paused, starToken, reward>>

SetPaused(caller, flag) ==
    /\ caller = admin
    /\ signer' = caller
    /\ paused' = flag
    /\ UNCHANGED <<admin, pendingAdmin, issuer, starToken, reward>>

set_star_token(caller, star_token) ==
    /\ AdminCall(caller)
    /\ starToken' = star_token
    /\ UNCHANGED <<admin, pendingAdmin, paused, issuer, reward>>

set_issuer(caller, account, enabled) ==
    /\ AdminCall(caller)
    /\ issuer' = IF enabled THEN issuer \cup {account} ELSE issuer \ {account}
    /\ UNCHANGED <<admin, pendingAdmin, paused, starToken, reward>>

AdminStep(caller) ==
    \/ \E a \in Candidates : set_admin(caller, a)
    \/ accept_admin(caller)
    \/ \E flag \in BOOLEAN : SetPaused(caller, flag)
    \/ \E t \in StarTokens : set_star_token(caller, t)
    \/ \E a \in IssuerHolders, flag \in BOOLEAN : set_issuer(caller, a, flag)

-----------------------------------------------------------------------------
\* Mutant of Issuable: a reward id may be used again.
IssuableAgain(caller, id, amount_star) ==
    amount_star > 0 /\ caller \in issuer

Issuable(caller, id, amount_star) ==
    /\ amount_star > 0
    /\ caller \in issuer
    /\ reward[id] = None

\* Whether the engine's own checks let a call pass: read by module Contracts.
WillIssue(caller, id, amount_star) ==
    ~paused /\ Issuable(caller, id, amount_star)

issue_reward(caller, id, recipient, source_id, kind, amount_star) ==
    /\ Issuable(caller, id, amount_star)
    /\ Authenticated(caller)
    /\ reward' = [reward EXCEPT ![id] =
                     [recipient |-> recipient, source_id |-> source_id,
                      issuer |-> caller, kind |-> kind,
                      amount_star |-> amount_star]]
    /\ UNCHANGED <<admin, pendingAdmin, paused, issuer, starToken>>

issue_spend_reward(caller, id, recipient, source_id, amount_in_paise) ==
    /\ amount_in_paise > 0
    /\ issue_reward(caller, id, recipient, source_id, "Spend",
                    calculate_spend_reward(amount_in_paise))

issue_referral_reward(caller, id, recipient, source_id) ==
    issue_reward(caller, id, recipient, source_id, "Referral",
                 REFERRAL_REWARD_STAR)

issue_campaign_reward(caller, id, recipient, source_id, amount_star) ==
    issue_reward(caller, id, recipient, source_id, "Campaign", amount_star)

-----------------------------------------------------------------------------
(* Properties.                                                             *)

\* Issuers are made by the sitting admin, or by the proposed one taking over
\* for itself; whoever was rotated out can issue no more rewards and cannot
\* give itself the flag back.
IssuersComeFromTheAdmin ==
    [][/\ issuer' \ issuer # {} =>
             \/ signer' = admin
             \/ /\ signer' = pendingAdmin
                /\ issuer' \ issuer \subseteq {admin'}
       /\ admin' # admin => admin \notin issuer']_vars
=============================================================================
