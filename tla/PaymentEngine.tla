----------------------------- MODULE PaymentEngine -----------------------------
(***************************************************************************)
(* The payment engine, contracts/payment-engine/src/lib.rs: the on-chain   *)
(* state machine of a payment, driven by operators.                        *)
(*                                                                         *)
(* The engine calls two other contracts.  What they answer is a parameter  *)
(* here (`approved' of create_payment, `amount' of issue_reward) and any   *)
(* answer is explored; module Contracts supplies the callees' own steps.   *)
(* The quote is one value, asset_amount, usdc_amount and network fee.      *)
(* QR hash, asset code and the two ledger stamps, which no rule reads, are *)
(* left out.                                                               *)
(***************************************************************************)
EXTENDS Integers

CONSTANTS
    Accounts,           \* addresses
    None,               \* the absent entry, whatever it would hold
    Payments,           \* payment ids
    Merchants,          \* merchant ids
    RewardIds,          \* reward ids
    Payers,             \* addresses named as payers
    Paise,              \* amounts passed to create_payment
    Quotes,             \* quotes passed to quote_payment
    Rewards,            \* what the reward engine may answer
    Deployers,          \* addresses the contract may be deployed by
    Candidates,         \* addresses proposed as admin
    OperatorHolders,    \* addresses whose operator flag an admin may set
    Registries,         \* addresses configured as merchant registry
    RewardEngines       \* addresses configured as reward engine

Terms == [payer : Accounts, merchant_id : Merchants, amount_in_paise : Int,
          reward_id : RewardIds]

Quote == [asset_amount : Int, usdc_amount : Int, network_fee_paise : Int]

ASSUME PaymentEngineAssumption ==
    /\ None \notin Accounts
    /\ None \notin Terms
    /\ None \notin Quote
    /\ Payers \subseteq Accounts
    /\ Paise \subseteq Int
    /\ Quotes \subseteq Quote
    /\ Rewards \subseteq Nat
    /\ Deployers \subseteq Accounts
    /\ Candidates \subseteq Accounts
    /\ OperatorHolders \subseteq Accounts
    /\ Registries \subseteq Accounts
    /\ RewardEngines \subseteq Accounts

VARIABLES
    admin, pendingAdmin, paused,
    operator,           \* the addresses whose Operator flag is true
    merchantRegistry, rewardEngine,     \* the configured callees
    status,             \* Payment(id).status, "Absent" when there is no record
    terms,              \* payer, merchant, amount and reward id of Payment(id)
    quote,              \* its quote, None before quote_payment
    star,               \* its star_reward
    signer              \* who authorized the last call

configVars  == <<admin, pendingAdmin, paused, operator,
                 merchantRegistry, rewardEngine>>
paymentVars == <<status, terms, quote, star>>
vars == <<admin, pendingAdmin, paused, operator, merchantRegistry,
          rewardEngine, status, terms, quote, star, signer>>

PaymentStatus == {"Created", "Quoted", "Converted", "Settled", "Rewarded",
                  "Completed", "Failed", "Cancelled"}

TypeOK ==
    /\ admin \in Accounts
    /\ pendingAdmin \in Accounts \cup {None}
    /\ paused \in BOOLEAN
    /\ operator \subseteq Accounts
    /\ merchantRegistry \in Accounts
    /\ rewardEngine \in Accounts
    /\ status \in [Payments -> PaymentStatus \cup {"Absent"}]
    /\ terms \in [Payments -> Terms \cup {None}]
    /\ quote \in [Payments -> Quote \cup {None}]
    /\ star \in [Payments -> Nat]
    /\ signer \in Accounts

Init ==
    /\ admin \in Deployers
    /\ pendingAdmin = None
    /\ paused = FALSE
    /\ operator = {admin}
    /\ merchantRegistry \in Registries
    /\ rewardEngine \in RewardEngines
    /\ status = [p \in Payments |-> "Absent"]
    /\ terms = [p \in Payments |-> None]
    /\ quote = [p \in Payments |-> None]
    /\ star = [p \in Payments |-> 0]
    /\ signer = admin

-----------------------------------------------------------------------------
(* Administration.                                                         *)

Authenticated(caller) == ~paused /\ signer' = caller

AdminCall(caller) == caller = admin /\ Authenticated(caller)

set_admin(caller, new_admin) ==
    /\ AdminCall(caller)
    /\ pendingAdmin' = new_admin
    /\ UNCHANGED <<admin, paused, operator, merchantRegistry, rewardEngine,
                   paymentVars>>

\* Mutant of accept_admin: the outgoing admin stays an operator.
HandoffKeepingOperator(caller) ==
    /\ caller = pendingAdmin
    /\ Authenticated(caller)
    /\ admin' = pendingAdmin
    /\ pendingAdmin' = None
    /\ operator' = operator \cup {pendingAdmin}
    /\ UNCHANGED <<paused, merchantRegistry, rewardEngine, paymentVars>>

\* The outgoing admin loses its operator flag, unless it hands over to itself;
\* the incoming one is made an operator.
accept_admin(caller) ==
    /\ caller = pendingAdmin
    /\ Authenticated(caller)
    /\ admin' = pendingAdmin
    /\ pendingAdmin' = None
    /\ operator' = (operator \ {admin}) \cup {pendingAdmin}
    /\ UNCHANGED <<paused, merchantRegistry, rewardEngine, paymentVars>>

\* pause and unpause are open to the admin whether or not it is paused.
SetPaused(caller, flag) ==
    /\ caller = admin
    /\ signer' = caller
    /\ paused' = flag
    /\ UNCHANGED <<admin, pendingAdmin, operator, merchantRegistry,
                   rewardEngine, paymentVars>>

set_operator(caller, account, enabled) ==
    /\ AdminCall(caller)
    /\ operator' = IF enabled THEN operator \cup {account}
                              ELSE operator \ {account}
    /\ UNCHANGED <<admin, pendingAdmin, paused, merchantRegistry,
                   rewardEngine, paymentVars>>

set_contracts(caller, merchant_registry, reward_engine) ==
    /\ AdminCall(caller)
    /\ merchantRegistry' = merchant_registry
    /\ rewardEngine' = reward_engine
    /\ UNCHANGED <<admin, pendingAdmin, paused, operator, paymentVars>>

AdminStep(caller) ==
    \/ \E a \in Candidates : set_admin(caller, a)
    \/ accept_admin(caller)
    \/ \E flag \in BOOLEAN : SetPaused(caller, flag)
    \/ \E a \in OperatorHolders, flag \in BOOLEAN : set_operator(caller, a, flag)
    \/ \E r \in Registries, e \in RewardEngines : set_contracts(caller, r, e)

-----------------------------------------------------------------------------
(* The life of a payment.                                                  *)

\* require_operator: a disabled operator is refused, as is everyone on pause.
OperatorCall(caller) == Authenticated(caller) /\ caller \in operator

\* `approved' is the registry's is_approved answer, FALSE if that call failed.
create_payment(caller, payer, p, merchant_id, amount, reward_id, approved) ==
    /\ OperatorCall(caller)
    /\ amount > 0
    /\ status[p] = "Absent"
    /\ approved
    /\ status' = [status EXCEPT ![p] = "Created"]
    /\ terms' = [terms EXCEPT ![p] =
                    [payer |-> payer, merchant_id |-> merchant_id,
                     amount_in_paise |-> amount, reward_id |-> reward_id]]
    /\ UNCHANGED <<configVars, quote, star>>

\* Mutant of quote_payment: zero amounts pass.
QuoteNothing(caller, p, q) ==
    /\ OperatorCall(caller)
    /\ q.asset_amount >= 0 /\ q.usdc_amount >= 0 /\ q.network_fee_paise >= 0
    /\ status[p] = "Created"
    /\ quote' = [quote EXCEPT ![p] = q]
    /\ status' = [status EXCEPT ![p] = "Quoted"]
    /\ UNCHANGED <<configVars, terms, star>>

\* Mutant of quote_payment: a quoted payment may be quoted again.
QuoteAgain(caller, p, q) ==
    /\ OperatorCall(caller)
    /\ q.asset_amount > 0 /\ q.usdc_amount > 0 /\ q.network_fee_paise >= 0
    /\ status[p] \in {"Created", "Quoted"}
    /\ quote' = [quote EXCEPT ![p] = q]
    /\ status' = [status EXCEPT ![p] = "Quoted"]
    /\ UNCHANGED <<configVars, terms, star>>

quote_payment(caller, p, q) ==
    /\ OperatorCall(caller)
    /\ q.asset_amount > 0 /\ q.usdc_amount > 0 /\ q.network_fee_paise >= 0
    /\ status[p] = "Created"
    /\ quote' = [quote EXCEPT ![p] = q]
    /\ status' = [status EXCEPT ![p] = "Quoted"]
    /\ UNCHANGED <<configVars, terms, star>>

transition_operator(caller, p, from, to) ==
    /\ OperatorCall(caller)
    /\ status[p] = from
    /\ status' = [status EXCEPT ![p] = to]
    /\ UNCHANGED <<configVars, terms, quote, star>>

mark_converted(caller, p) == transition_operator(caller, p, "Quoted", "Converted")
mark_settled(caller, p) == transition_operator(caller, p, "Converted", "Settled")
complete_payment(caller, p) == transition_operator(caller, p, "Rewarded", "Completed")

\* `amount' is what try_issue_spend_reward returned, 0 if that call failed:
\* the payment goes on either way.
issue_reward(caller, p, amount) ==
    /\ OperatorCall(caller)
    /\ status[p] = "Settled"
    /\ star' = [star EXCEPT ![p] = amount]
    /\ status' = [status EXCEPT ![p] = "Rewarded"]
    /\ UNCHANGED <<configVars, terms, quote>>

\* Mutant of cancel_payment: any operator may cancel, as it may fail.
CancelByOperator(caller, p) ==
    /\ OperatorCall(caller)
    /\ status[p] \in {"Created", "Quoted"}
    /\ status' = [status EXCEPT ![p] = "Cancelled"]
    /\ UNCHANGED <<configVars, terms, quote, star>>

\* Mutant of cancel_payment: a converted payment can still be withdrawn.
CancelConverted(caller, p) ==
    /\ Authenticated(caller)
    /\ status[p] \in {"Created", "Quoted", "Converted"}
    /\ caller = terms[p].payer
    /\ status' = [status EXCEPT ![p] = "Cancelled"]
    /\ UNCHANGED <<configVars, terms, quote, star>>

\* The payer itself withdraws, as long as nothing was converted.
cancel_payment(caller, p) ==
    /\ Authenticated(caller)
    /\ status[p] \in {"Created", "Quoted"}
    /\ caller = terms[p].payer
    /\ status' = [status EXCEPT ![p] = "Cancelled"]
    /\ UNCHANGED <<configVars, terms, quote, star>>

\* Any record that is not completed or cancelled, a failed one included.
fail_payment(caller, p) ==
    /\ OperatorCall(caller)
    /\ status[p] \notin {"Absent", "Completed", "Cancelled"}
    /\ status' = [status EXCEPT ![p] = "Failed"]
    /\ UNCHANGED <<configVars, terms, quote, star>>

\* The entry points that call no other contract.
LocalStep(caller) ==
    \/ AdminStep(caller)
    \/ \E p \in Payments, q \in Quotes : quote_payment(caller, p, q)
    \/ \E p \in Payments : \/ mark_converted(caller, p)
                           \/ mark_settled(caller, p)
                           \/ complete_payment(caller, p)
                           \/ cancel_payment(caller, p)
                           \/ fail_payment(caller, p)

Next ==
    \E caller \in Accounts :
        \/ LocalStep(caller)
        \/ \E p \in Payments, payer \in Payers, m \in Merchants, a \in Paise,
              r \in RewardIds, approved \in BOOLEAN :
               create_payment(caller, payer, p, m, a, r, approved)
        \/ \E p \in Payments, amount \in Rewards \cup {0} :
               issue_reward(caller, p, amount)

Spec == Init /\ [][Next]_vars

-----------------------------------------------------------------------------
(* Properties.                                                             *)

\* Every record is what its status says: terms are there from creation on, a
\* positive quote before anything is converted or settled, and a STAR figure
\* only once the payment was rewarded.  fail_payment may strike at any point.
RecordMatchesStatus ==
    \A p \in Payments :
        /\ (status[p] = "Absent") = (terms[p] = None)
        /\ status[p] # "Absent" => terms[p].amount_in_paise > 0
        /\ status[p] \in {"Absent", "Created"} => quote[p] = None
        /\ status[p] \in {"Quoted", "Converted", "Settled", "Rewarded", "Completed"}
               => quote[p] # None
        /\ quote[p] # None => /\ quote[p].asset_amount > 0
                              /\ quote[p].usdc_amount > 0
                              /\ quote[p].network_fee_paise >= 0
        /\ star[p] > 0 => status[p] \in {"Rewarded", "Completed", "Failed"}

\* What was agreed stays agreed: the terms of a payment, its quote and the
\* STAR it earned never change once they are set, however it ends and whoever
\* is admin or operator by then.
AgreementsAreKept ==
    [][\A p \in Payments :
          /\ terms[p] # None => terms'[p] = terms[p]
          /\ quote[p] # None => quote'[p] = quote[p]
          /\ status[p] \in {"Rewarded", "Completed", "Failed", "Cancelled"}
                 => star'[p] = star[p]]_vars

\* A payment only moves under an unpaused engine, by an operator enabled at
\* that very moment; the one move its payer has is to cancel.
MovedByTheRightKey ==
    [][status' # status =>
          /\ ~paused
          /\ \A p \in Payments : status'[p] # status[p] =>
                IF status'[p] = "Cancelled" THEN signer' = terms[p].payer
                                            ELSE signer' \in operator]_vars

\* Operators are made by the sitting admin, or by the proposed one taking over
\* for itself; whoever was rotated out is no operator from that step on.
OperatorsComeFromTheAdmin ==
    [][/\ operator' \ operator # {} =>
             \/ signer' = admin
             \/ /\ signer' = pendingAdmin
                /\ operator' \ operator \subseteq {admin'}
       /\ admin' # admin => admin \notin operator']_vars

\* The stage of the abstract life cycle a status stands for.
StageOf(s) ==
    CASE s = "Absent"                 -> "absent"
      [] s \in {"Created", "Quoted"}  -> "open"
      [] s = "Converted"              -> "committed"
      [] s = "Settled"                -> "settled"
      [] s = "Rewarded"               -> "closing"
      [] s = "Completed"              -> "completed"
      [] s = "Failed"                 -> "failed"
      [] s = "Cancelled"              -> "cancelled"

stages   == [p \in Payments |-> StageOf(status[p])]
rewarded == {p \in Payments : star[p] > 0}

Lifecycle == INSTANCE PaymentLifecycle WITH stage <- stages, rewarded <- rewarded

\* The engine implements the abstract life cycle: no operation, in any order
\* and by anyone, skips a stage, re-opens an ended payment or pays a reward
\* twice, and a failed reward call does not hold a settled payment back.
ImplementsLifecycle == Lifecycle!Spec
=============================================================================
