----------------------------- MODULE RampPages -----------------------------
(***************************************************************************)
(* The deposit and withdrawal pages of both web apps (onramp/page.tsx,     *)
(* offramp/page.tsx) over the ramps service: one page per row, which asks  *)
(* for the ramp, shows the anchor's form, reads the persisted row every    *)
(* five seconds and, for a withdrawal, has the user sign a USDC payment to *)
(* the anchor.  The pages of the two apps differ in names of steps only,   *)
(* but for the trustline step (apps/web) and the deposit page that stops   *)
(* reading after fifteen minutes (apps/web-landing).  A closed page is one *)
(* that takes no more steps, and one that starts again is another row's.   *)
(***************************************************************************)
EXTENDS Ramps

CONSTANT MaxPayments    \* bound: payments the user signs for one ramp

ASSUME RampPagesAssumption == MaxPayments \in Nat

VARIABLES
    step,           \* the page's `step'
    paid            \* USDC payments to the anchor that are on the ledger

pageVars == <<step, paid>>
allVars  == <<vars, pageVars>>

Step == {"amount", "trustline", "loading", "anchor", "polling", "sign", "signing",
         "done", "error", "stalled"}

PagesTypeOK ==
    /\ TypeOK
    /\ step \in [Rows -> Step]
    /\ paid \in [Rows -> 0..MaxPayments]

PagesInit ==
    /\ Init
    /\ step = [r \in Rows |-> "amount"]
    /\ paid = [r \in Rows |-> 0]

Goto(r, s) == step' = [step EXCEPT ![r] = s]

\* The form is sent.
initiate(r) ==
    /\ step[r] = "amount"
    /\ Receive(r)
    /\ Goto(r, "loading")
    /\ UNCHANGED <<kycVars, paid>>

\* A deposit in apps/web asks for a trustline of the wallet first, if it has none.
handleContinue(r) ==
    /\ step[r] = "amount"
    /\ type[r] = "ONRAMP"
    /\ Goto(r, "trustline") \/ Goto(r, "error")
    /\ UNCHANGED <<vars, paid>>

handleAddTrustline(r) ==
    /\ step[r] = "trustline"
    /\ \/ Receive(r) /\ Goto(r, "loading")
       \/ UNCHANGED rampVars /\ Goto(r, "error")
    /\ UNCHANGED <<kycVars, paid>>

\* The answer arrives, or an error, or ten seconds pass without either.
Initiated(r) ==
    /\ step[r] = "loading"
    /\ \/ request[r] = "answered" /\ Goto(r, "anchor")
       \/ Goto(r, "error")
    /\ UNCHANGED <<vars, paid>>

handleIframeDone(r) ==
    /\ step[r] = "anchor"
    /\ Goto(r, "polling")
    /\ UNCHANGED <<vars, paid>>

\* What every page makes of a row that is over; a reading that fails or finds it
\* under way is repeated.
Conclude(r) ==
    \/ ramp[r] = "COMPLETED" /\ Goto(r, "done")
    \/ ramp[r] \in {"ERROR", "EXPIRED", "REFUNDED"} /\ Goto(r, "error")

\* The deposit page of apps/web-landing stops reading after fifteen minutes.
pollDeposit(r) ==
    /\ step[r] = "polling"
    /\ type[r] = "ONRAMP"
    /\ Conclude(r) \/ (~isTerminal(ramp[r]) /\ Goto(r, "stalled"))
    /\ UNCHANGED <<vars, paid>>

\* Mutant of pollWithdrawal: a ramp that is over is done.
PollUntilTerminal(r) ==
    /\ step[r] = "polling"
    /\ type[r] = "OFFRAMP"
    /\ \/ ramp[r] = "PENDING_USER_TRANSFER" /\ r \in account /\ Goto(r, "sign")
       \/ isTerminal(ramp[r]) /\ Goto(r, "done")
    /\ UNCHANGED <<vars, paid>>

\* A withdrawal has the user pay once the row has the anchor's account.
pollWithdrawal(r) ==
    /\ step[r] = "polling"
    /\ type[r] = "OFFRAMP"
    /\ \/ ramp[r] = "PENDING_USER_TRANSFER" /\ r \in account /\ Goto(r, "sign")
       \/ Conclude(r)
    /\ UNCHANGED <<vars, paid>>

\* The user signs, or refuses, or the wallet fails.
handleSignPayment(r) ==
    /\ step[r] = "sign"
    /\ \/ Goto(r, "signing")
       \/ Goto(r, "error")
    /\ UNCHANGED <<vars, paid>>

\* The ledger takes the payment and the page goes back to polling; or the
\* submission is refused, or its answer is lost.
SubmitPayment(r) ==
    /\ step[r] = "signing"
    /\ \/ /\ paid[r] < MaxPayments
          /\ paid' = [paid EXCEPT ![r] = @ + 1]
          /\ Goto(r, "polling") \/ Goto(r, "error")
       \/ Goto(r, "error") /\ UNCHANGED paid
    /\ UNCHANGED vars

\* The anchor goes past pending_user_transfer_start when it has been paid: in
\* cash for a deposit, on the ledger for a withdrawal.
BeforePayment == {"incomplete", "pending_user_transfer_start",
                  "pending_customer_info_update", "expired", "too_late", "error"}

AnchorMoves(r, raw) ==
    /\ Advance(r, raw)
    /\ type[r] = "OFFRAMP" /\ raw \notin BeforePayment => paid[r] > 0
    /\ UNCHANGED <<kycVars, pageVars>>

DepositPage(r) ==
    handleContinue(r) \/ handleAddTrustline(r) \/ pollDeposit(r)

WithdrawalPage(r) ==
    pollWithdrawal(r) \/ handleSignPayment(r) \/ SubmitPayment(r)

PageStep(r) ==
    initiate(r) \/ Initiated(r) \/ handleIframeDone(r) \/ DepositPage(r) \/ WithdrawalPage(r)

ServerStep ==
    \/ \E r \in Rows : Request(r) \/ Age(r)
    \/ \E t \in Ticks : Tick(t) \/ Catch(t)
    \/ Crash

PagesNext ==
    \/ \E r \in Rows : PageStep(r) \/ (\E raw \in RawStatus : AnchorMoves(r, raw))
    \/ ServerStep /\ UNCHANGED <<kycVars, pageVars>>
    \/ KycNext /\ UNCHANGED <<rampVars, pageVars>>

PagesSpec == PagesInit /\ [][PagesNext]_allVars

-----------------------------------------------------------------------------
\* A page that says the money has arrived is right: the anchor has completed
\* the transaction (the pages only know the persisted row).
DoneMeansCompleted == \A r \in Rows : step[r] = "done" => provider[r] = "completed"

\* The user is asked for the USDC of a withdrawal once ("Once MoneyGram supplies
\* the destination account + memo, prompt the user to sign the USDC payment").
PaidOnce == \A r \in Rows : paid[r] <= 1
=============================================================================
