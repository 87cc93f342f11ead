------------------------- MODULE TransactionProcessor -------------------------
(***************************************************************************)
(* The off-chain life of a payment: the rows of the transactions table,    *)
(* the API handlers that create, cancel and fail them                      *)
(* (transactions.service.ts) or administer the SPEND reward of a row       *)
(* (rewards.service.ts), the five-second cron job that drives them through *)
(* Soroban, Stellar, the UPI payout and the STAR mint, and the             *)
(* thirty-second cron job that polls the payouts                           *)
(* (transaction-processor.service.ts).                                     *)
(*                                                                         *)
(* Every await is a step of its own, so that whatever shares the tables    *)
(* runs in between; a cron tick does not wait for the one before it, so    *)
(* several ticks are at work at once.  Of the payment engine only what     *)
(* keeps the ticks apart is here: create_payment refuses an id it knows.   *)
(* Its later calls are part of the step that records them: the call throws *)
(* and so does the step, or it answers.  Which of the two is left open,    *)
(* because the deployed engine is chosen by configuration.                 *)
(***************************************************************************)
EXTENDS Integers, FiniteSets

CONSTANTS
    Txs,            \* rows of the transactions table
    Ticks,          \* invocations of handlePendingTransactions that may overlap
    WithPayer,      \* rows that name the wallet that pays
    WithVpa,        \* rows whose merchant has a default UPI address
    WithWallet,     \* rows whose payer has an active primary wallet
    BatchSize,      \* `take' of the query for claimed rows: 10
    MAX_ATTEMPTS,   \* attempts of processTransactionWithRetry: 3
    MaxFaults,      \* bound: awaits that throw, lost answers and crashes
    Managed,        \* bound: rows whose reward an administrator may write
    None            \* no row

ASSUME TransactionProcessorAssumption ==
    /\ None \notin Txs
    /\ WithPayer \subseteq Txs
    /\ WithVpa \subseteq Txs
    /\ WithWallet \subseteq Txs
    /\ Managed \subseteq Txs
    /\ BatchSize \in Nat \ {0}
    /\ MAX_ATTEMPTS \in Nat \ {0}
    /\ MaxFaults \in Nat

VARIABLES
    status,         \* transactions.status, "Absent" before the insert
    expired,        \* the rows whose expiresAt has passed
    recent,         \* the rows whose authorizedAt is at most six seconds old
    reward,         \* status of the row's SPEND reward; see RewardStatus
    instruction,    \* status of the row's settlement instruction
    request,        \* the API handler between its two awaits, per row
    stage,          \* what each tick awaits next
    batch,          \* the rows it fetched and has not started on
    current,        \* the row it works on
    attempt,        \* `attempt' of that row
    opened,         \* the rows whose payment id the engine knows
    landed,         \* Stellar payments made for the row
    payouts,        \* UPI payouts the bank accepted for it
    minted,         \* the rows whose STAR was minted on chain
    bank,           \* what the bank says of the payout
    polled,         \* the instructions the settlement poller still has to check
    faults

apiVars   == <<expired, request>>
tickVars  == <<stage, batch, current, attempt>>
worldVars == <<opened, landed, payouts, minted, bank>>
vars == <<status, expired, recent, reward, instruction, request, stage, batch,
          current, attempt, opened, landed, payouts, minted, bank, polled, faults>>

TransactionStatus == {"CREATED", "QUOTED", "AUTHORIZED", "CONVERTING",
    "ROUTING_STELLAR", "SETTLING", "REWARDING", "COMPLETED", "FAILED", "CANCELLED"}

Final == {"COMPLETED", "FAILED", "CANCELLED"}

\* MARKED is the status MINTED with no stellarMintHash, MINTED the one with a hash.
RewardStatus == {"PENDING", "MINTED", "MARKED", "FAILED", "REVERSED"}

\* The status each stage of processTransaction records, and what follows it.
Records ==
    [authorize |-> "AUTHORIZED", quote |-> "QUOTED", convert |-> "CONVERTING",
     route |-> "ROUTING_STELLAR", routed |-> "SETTLING", settle |-> "SETTLING",
     rewarded |-> "REWARDING", complete |-> "COMPLETED"]

After ==
    [authorize |-> "lookup", lookup |-> "open", open |-> "quote",
     quote |-> "convert", convert |-> "route", route |-> "submit", submit |-> "routed",
     routed |-> "settle", settle |-> "payout", payout |-> "sent", sent |-> "reward",
     recordMinted |-> "rewarded", recordFailed |-> "rewarded",
     rewarded |-> "complete", complete |-> "confirm", confirm |-> "next",
     catch |-> "next", giveUp |-> "next"]

Stages == DOMAIN After \cup {"idle", "fetch", "next", "reward", "mint"}

TypeOK ==
    /\ status \in [Txs -> TransactionStatus \cup {"Absent"}]
    /\ expired \subseteq Txs
    /\ recent \subseteq Txs
    /\ reward \in [Txs -> RewardStatus \cup {"Absent"}]
    /\ instruction \in [Txs -> {"Absent", "PENDING", "SENT", "CONFIRMED", "FAILED"}]
    /\ request \in [Txs -> {"none", "create", "cancel", "fail"}]
    /\ stage \in [Ticks -> Stages]
    /\ batch \in [Ticks -> SUBSET Txs]
    /\ current \in [Ticks -> Txs \cup {None}]
    /\ attempt \in [Ticks -> 1..MAX_ATTEMPTS]
    /\ opened \subseteq Txs
    /\ landed \in [Txs -> Nat]
    /\ payouts \in [Txs -> Nat]
    /\ minted \subseteq Txs
    /\ bank \in [Txs -> {"none", "processing", "success", "rejected"}]
    /\ polled \subseteq Txs
    /\ faults \in 0..MaxFaults

Init ==
    /\ status = [t \in Txs |-> "Absent"]
    /\ expired = {}
    /\ recent = {}
    /\ reward = [t \in Txs |-> "Absent"]
    /\ instruction = [t \in Txs |-> "Absent"]
    /\ request = [t \in Txs |-> "none"]
    /\ stage = [w \in Ticks |-> "idle"]
    /\ batch = [w \in Ticks |-> {}]
    /\ current = [w \in Ticks |-> None]
    /\ attempt = [w \in Ticks |-> 1]
    /\ opened = {}
    /\ landed = [t \in Txs |-> 0]
    /\ payouts = [t \in Txs |-> 0]
    /\ minted = {}
    /\ bank = [t \in Txs |-> "none"]
    /\ polled = {}
    /\ faults = 0

-----------------------------------------------------------------------------
(* The API handlers.                                                       *)

\* create inserts the row with its instruction, and only later its reward.
create(t) ==
    /\ status[t] = "Absent"
    /\ status' = [status EXCEPT ![t] = "CREATED"]
    /\ instruction' = [instruction EXCEPT ![t] = "PENDING"]
    /\ request' = [request EXCEPT ![t] = "create"]
    /\ UNCHANGED <<expired, recent, reward, tickVars, worldVars, polled, faults>>

\* The table holds one SPEND reward per row: a second insert throws, and changes
\* nothing.
createReward(t) ==
    /\ request[t] = "create"
    /\ reward' = [reward EXCEPT ![t] = IF @ = "Absent" THEN "PENDING" ELSE @]
    /\ request' = [request EXCEPT ![t] = "none"]
    /\ UNCHANGED <<status, expired, recent, instruction, tickVars, worldVars,
                   polled, faults>>

\* cancel and fail read the row, insert an event, then write the status
\* whatever became of the row meanwhile.
Check(t, kind, allowed) ==
    /\ request[t] = "none"
    /\ status[t] \in allowed
    /\ request' = [request EXCEPT ![t] = kind]
    /\ UNCHANGED <<status, expired, recent, reward, instruction, tickVars,
                   worldVars, polled, faults>>

Write(t, kind, to) ==
    /\ request[t] = kind
    /\ status' = [status EXCEPT ![t] = to]
    /\ request' = [request EXCEPT ![t] = "none"]
    /\ UNCHANGED <<expired, recent, reward, instruction, tickVars, worldVars,
                   polled, faults>>

cancel(t) == Check(t, "cancel", {"CREATED"}) \/ Write(t, "cancel", "CANCELLED")

fail(t) ==
    \/ Check(t, "fail", TransactionStatus \ {"COMPLETED"})
    \/ Write(t, "fail", "FAILED")

-----------------------------------------------------------------------------
(* The administrators' handlers of RewardsService, for the row's SPEND     *)
(* reward: each is one write of the status, whatever it was and whichever  *)
(* tick is at work on the row, and none of them mints.                     *)

WriteReward(t, from, to) ==
    /\ reward[t] \in from
    /\ reward' = [reward EXCEPT ![t] = to]
    /\ UNCHANGED <<status, apiVars, recent, instruction, tickVars, worldVars,
                   polled, faults>>

\* RewardsService.create, with a status of the administrator's choice.
createManually(t) ==
    /\ status[t] # "Absent"
    /\ \E to \in RewardStatus \ {"MINTED"} : WriteReward(t, {"Absent"}, to)

\* RewardsService.mint, which takes the hash away as well.
markMinted(t) == WriteReward(t, RewardStatus, "MARKED")

reverse(t) == WriteReward(t, RewardStatus, "REVERSED")

-----------------------------------------------------------------------------
(* handlePendingTransactions.                                              *)

Fault(n) == faults + n <= MaxFaults /\ faults' = faults + n

EndTick(w) ==
    /\ stage' = [stage EXCEPT ![w] = "idle"]
    /\ batch' = [batch EXCEPT ![w] = {}]
    /\ current' = [current EXCEPT ![w] = None]
    /\ attempt' = [attempt EXCEPT ![w] = 1]

\* updateMany takes every fresh row at once; with none, the tick is over.
Claim(w) ==
    LET claimed == {t \in Txs : status[t] = "CREATED" /\ t \notin expired}
    IN  /\ stage[w] = "idle"
        /\ claimed # {}
        /\ status' = [t \in Txs |-> IF t \in claimed THEN "AUTHORIZED" ELSE status[t]]
        /\ recent' = recent \cup claimed
        /\ stage' = [stage EXCEPT ![w] = "fetch"]
        /\ UNCHANGED <<apiVars, reward, instruction, batch, current, attempt,
                       worldVars, polled, faults>>

\* Mutant of Fetchable: the query leaves out the status.
FetchableAnyway == recent

\* findMany asks for recent AUTHORIZED rows, whoever claimed them.
Fetchable == {t \in recent : status[t] = "AUTHORIZED"}

Fetch(w) ==
    /\ stage[w] = "fetch"
    /\ \/ /\ \E rows \in SUBSET Fetchable :
                 /\ \/ Cardinality(rows) = BatchSize
                    \/ Cardinality(rows) < BatchSize /\ rows = Fetchable
                 /\ batch' = [batch EXCEPT ![w] = rows]
          /\ stage' = [stage EXCEPT ![w] = "next"]
          /\ UNCHANGED <<current, attempt, faults>>
       \/ EndTick(w) /\ Fault(1)
    /\ UNCHANGED <<status, apiVars, recent, reward, instruction, worldVars, polled>>

\* The rows are worked off one by one, from the values fetched.
Start(w) ==
    /\ stage[w] = "next"
    /\ \E t \in batch[w] :
           /\ batch' = [batch EXCEPT ![w] = @ \ {t}]
           /\ current' = [current EXCEPT ![w] = t]
    /\ attempt' = [attempt EXCEPT ![w] = 1]
    /\ stage' = [stage EXCEPT ![w] = "authorize"]
    /\ UNCHANGED <<status, apiVars, recent, reward, instruction, worldVars, polled,
                   faults>>

Finish(w) ==
    /\ stage[w] = "next"
    /\ batch[w] = {}
    /\ EndTick(w)
    /\ UNCHANGED <<status, apiVars, recent, reward, instruction, worldVars, polled,
                   faults>>

-----------------------------------------------------------------------------
(* processTransaction, one stage at a time.                                *)

Goto(w, s) == stage' = [stage EXCEPT ![w] = s] /\ UNCHANGED <<batch, current, attempt>>

Proceed(w) == Goto(w, After[stage[w]]) /\ UNCHANGED faults

\* An await throws; its effect, if any, may or may not have taken place.
Throw(w) == Goto(w, "catch") /\ Fault(1)

updateStatus(w) ==
    /\ stage[w] \in DOMAIN Records
    /\ \/ /\ status' = [status EXCEPT ![current[w]] = Records[stage[w]]]
          /\ Proceed(w) \/ Throw(w)
       \/ UNCHANGED status /\ Throw(w)
    /\ UNCHANGED <<apiVars, recent, reward, instruction, worldVars, polled>>

\* "No spend reward found": the tick overtook createReward, or it never ran.
Lookup(w) ==
    /\ stage[w] = "lookup"
    /\ IF reward[current[w]] = "Absent" THEN Goto(w, "catch") ELSE Goto(w, "open")
    /\ UNCHANGED <<status, apiVars, recent, reward, instruction, worldVars, polled,
                   faults>>

\* Mutant of Open: the engine answers for an id it already knows.
OpenAgain(w) ==
    LET t == current[w] IN
    /\ stage[w] = "open"
    /\ \/ /\ t \in WithPayer
          /\ opened' = opened \cup {t}
          /\ Proceed(w) \/ Throw(w)
       \/ Throw(w) /\ UNCHANGED opened
    /\ UNCHANGED <<status, apiVars, recent, reward, instruction, landed, payouts,
                   minted, bank, polled>>

\* createPayment: an empty payer address does not parse, and the engine creates
\* no payment twice.
Open(w) ==
    LET t == current[w] IN
    /\ stage[w] = "open"
    /\ \/ /\ t \in WithPayer \ opened
          /\ opened' = opened \cup {t}
          /\ Proceed(w) \/ Throw(w)
       \/ /\ t \in WithPayer => t \in opened
          /\ Goto(w, "catch")
          /\ UNCHANGED <<opened, faults>>
       \/ Throw(w) /\ UNCHANGED opened
    /\ UNCHANGED <<status, apiVars, recent, reward, instruction, landed, payouts,
                   minted, bank, polled>>

\* submitPayment builds a new Stellar transaction on every retry of its policy,
\* so an attempt that lands and loses its answer is made again.
Submissions == 4    \* the first call and the three retries of the policy

Submit(w) ==
    /\ stage[w] = "submit"
    /\ \E n \in 0..Submissions :
           /\ landed' = [landed EXCEPT ![current[w]] = @ + n]
           /\ \/ n > 0 /\ Goto(w, "routed") /\ Fault(n - 1)
              \/ Goto(w, "catch") /\ Fault(IF n = 0 THEN 1 ELSE n)
    /\ UNCHANGED <<status, apiVars, recent, reward, instruction, opened, payouts,
                   minted, bank, polled>>

\* Mutant of Payout: a payout that throws is logged and passed over.
PayoutOrLog(w) ==
    LET t == current[w] IN
    /\ stage[w] = "payout"
    /\ \/ /\ t \notin WithVpa
          /\ Goto(w, "reward")
          /\ UNCHANGED <<payouts, bank, faults>>
       \/ /\ t \in WithVpa
          /\ payouts' = [payouts EXCEPT ![t] = @ + 1]
          /\ bank' = [bank EXCEPT ![t] = "processing"]
          /\ Proceed(w)
       \/ /\ t \in WithVpa
          /\ Goto(w, "reward")
          /\ Fault(1)
          /\ UNCHANGED <<payouts, bank>>
    /\ UNCHANGED <<status, apiVars, recent, reward, instruction, opened, landed,
                   minted, polled>>

Payout(w) ==
    LET t == current[w] IN
    /\ stage[w] = "payout"
    /\ \/ /\ t \notin WithVpa
          /\ Goto(w, "reward")
          /\ UNCHANGED <<payouts, bank, faults>>
       \/ /\ t \in WithVpa
          /\ payouts' = [payouts EXCEPT ![t] = @ + 1]
          /\ bank' = [bank EXCEPT ![t] = "processing"]
          /\ Proceed(w) \/ Throw(w)
       \/ /\ t \in WithVpa
          /\ Throw(w)
          /\ UNCHANGED <<payouts, bank>>
    /\ UNCHANGED <<status, apiVars, recent, reward, instruction, opened, landed,
                   minted, polled>>

\* "sent" follows the payout, "confirm" the completion, whatever the bank says.
updateInstruction(w) ==
    LET to == IF stage[w] = "sent" THEN "SENT" ELSE "CONFIRMED" IN
    /\ stage[w] \in {"sent", "confirm"}
    /\ \/ /\ instruction' = [instruction EXCEPT ![current[w]] = to]
          /\ Proceed(w) \/ Throw(w)
       \/ UNCHANGED instruction /\ Throw(w)
    /\ UNCHANGED <<status, apiVars, recent, reward, worldVars, polled>>

PendingRewards(w) ==
    /\ stage[w] = "reward"
    /\ Goto(w, IF reward[current[w]] = "PENDING" THEN "mint" ELSE "rewarded")
    /\ UNCHANGED <<status, apiVars, recent, reward, instruction, worldVars, polled,
                   faults>>

\* Mutant of Mint: a mint that times out is taken for made.
MintOptimistically(w) ==
    /\ stage[w] = "mint"
    /\ \E made \in {{}, {current[w]}} : minted' = minted \cup (made \cap WithWallet)
    /\ Goto(w, "recordMinted")
    /\ UNCHANGED <<status, apiVars, recent, reward, instruction, opened, landed,
                   payouts, bank, polled, faults>>

\* The reward engine refuses a reward id it has seen.  Without a wallet the
\* reward is only recorded.
Mint(w) ==
    LET t == current[w] IN
    /\ stage[w] = "mint"
    /\ \/ t \notin WithWallet /\ Goto(w, "recordMinted") /\ UNCHANGED <<minted, faults>>
       \/ /\ t \in WithWallet \ minted
          /\ minted' = minted \cup {t}
          /\ \/ Goto(w, "recordMinted") /\ UNCHANGED faults
             \/ Goto(w, "recordFailed") /\ Fault(1)
       \/ t \in WithWallet /\ Goto(w, "recordFailed") /\ Fault(1) /\ UNCHANGED minted
       \/ t \in minted /\ Goto(w, "recordFailed") /\ UNCHANGED <<minted, faults>>
    /\ UNCHANGED <<status, apiVars, recent, reward, instruction, opened, landed,
                   payouts, bank, polled>>

\* The record of a mint is inside the inner try, that of a failure is not.
RecordReward(w) ==
    LET t  == current[w]
        to == IF stage[w] = "recordMinted" THEN "MINTED" ELSE "FAILED"
    IN  /\ stage[w] \in {"recordMinted", "recordFailed"}
        /\ \/ reward' = [reward EXCEPT ![t] = to] /\ Proceed(w)
           \/ /\ UNCHANGED reward
              /\ Fault(1)
              /\ Goto(w, IF stage[w] = "recordMinted" /\ t \in WithWallet
                         THEN "recordFailed" ELSE "catch")
        /\ UNCHANGED <<status, apiVars, recent, instruction, worldVars, polled>>

\* Mutant of Catch: the error is logged and the row left as it is.
CatchAndLog(w) ==
    /\ stage[w] = "catch"
    /\ Proceed(w)
    /\ UNCHANGED <<status, apiVars, recent, reward, instruction, worldVars, polled>>

\* Mutant of Catch: every error is retried, whatever MAX_ATTEMPTS says, and no
\* row is ever marked FAILED here.
CatchForever(w) ==
    /\ stage[w] = "catch"
    /\ stage' = [stage EXCEPT ![w] = "authorize"]
    /\ attempt' = [attempt EXCEPT ![w] = @ + 1]
    /\ UNCHANGED faults
    /\ UNCHANGED <<status, apiVars, recent, reward, instruction, batch, current,
                   worldVars, polled>>

\* Mutant of Catch: every error is retried and no attempt is counted.
CatchUncounted(w) ==
    /\ stage[w] = "catch"
    /\ Goto(w, "authorize")
    /\ UNCHANGED <<status, apiVars, recent, reward, instruction, worldVars, polled, faults>>

\* Mutant of Catch: a retry goes on behind create_payment when the payment is open.
CatchResume(w) ==
    /\ stage[w] = "catch"
    /\ status' = [status EXCEPT ![current[w]] = "FAILED"]
    /\ \/ Proceed(w)
       \/ /\ attempt[w] < MAX_ATTEMPTS
          /\ stage' = [stage EXCEPT ![w] = IF current[w] \in opened THEN "quote" ELSE "authorize"]
          /\ attempt' = [attempt EXCEPT ![w] = @ + 1]
          /\ UNCHANGED <<batch, current>> /\ Fault(1)
    /\ UNCHANGED <<apiVars, recent, reward, instruction, worldVars, polled>>

\* The outer catch marks the row FAILED; only if that throws as well does the
\* retry wrapper see an error, and after the last attempt it tries once more.
Catch(w) ==
    LET last == attempt[w] = MAX_ATTEMPTS
        Again ==
            /\ stage' = [stage EXCEPT ![w] = IF last THEN "giveUp" ELSE "authorize"]
            /\ attempt' = [attempt EXCEPT ![w] = IF last THEN @ ELSE @ + 1]
            /\ UNCHANGED <<batch, current>>
            /\ Fault(1)
    IN  /\ stage[w] = "catch"
        /\ \/ /\ status' = [status EXCEPT ![current[w]] = "FAILED"]
              /\ Proceed(w) \/ Again
           \/ UNCHANGED status /\ Again
        /\ UNCHANGED <<apiVars, recent, reward, instruction, worldVars, polled>>

\* An error here leaves handlePendingTransactions: the rest of the batch is
\* dropped.
GiveUp(w) ==
    /\ stage[w] = "giveUp"
    /\ \/ status' = [status EXCEPT ![current[w]] = "FAILED"] /\ Proceed(w)
       \/ EndTick(w) /\ Fault(1) /\ UNCHANGED status
    /\ UNCHANGED <<apiVars, recent, reward, instruction, worldVars, polled>>

-----------------------------------------------------------------------------
(* handlePendingSettlements, the bank, the clock and the process.          *)

PollSettlements ==
    LET sent == {t \in Txs : instruction[t] = "SENT"} IN
    /\ ~ sent \subseteq polled
    /\ polled' = polled \cup sent
    /\ UNCHANGED <<status, apiVars, recent, reward, instruction, tickVars,
                   worldVars, faults>>

\* A poll that throws is logged and leaves the instruction to the next one.
PollOne(t) ==
    /\ t \in polled
    /\ polled' = polled \ {t}
    /\ \/ /\ instruction' = [instruction EXCEPT ![t] =
                 CASE bank[t] = "success"  -> "CONFIRMED"
                   [] bank[t] = "rejected" -> "FAILED"
                   [] OTHER                -> @]
          /\ UNCHANGED faults
       \/ Fault(1) /\ UNCHANGED instruction
    /\ UNCHANGED <<status, apiVars, recent, reward, tickVars, worldVars>>

BankDecides(t) ==
    /\ bank[t] = "processing"
    /\ \E answer \in {"success", "rejected"} : bank' = [bank EXCEPT ![t] = answer]
    /\ UNCHANGED <<status, apiVars, recent, reward, instruction, tickVars, opened,
                   landed, payouts, minted, polled, faults>>

\* The quote runs out after thirty seconds, the claim window after six.  Only
\* the claim ever looks at a quote's expiry.
Expire(t) ==
    /\ status[t] = "CREATED"
    /\ t \notin expired
    /\ expired' = expired \cup {t}
    /\ UNCHANGED <<status, recent, reward, instruction, request, tickVars, worldVars,
                   polled, faults>>

Age(t) ==
    /\ t \in recent
    /\ recent' = recent \ {t}
    /\ UNCHANGED <<status, apiVars, reward, instruction, tickVars, worldVars, polled,
                   faults>>

\* The process dies: ticks, poller and handlers are gone, the tables stay.
Crash ==
    /\ Fault(1)
    /\ stage' = [w \in Ticks |-> "idle"]
    /\ batch' = [w \in Ticks |-> {}]
    /\ current' = [w \in Ticks |-> None]
    /\ attempt' = [w \in Ticks |-> 1]
    /\ polled' = {}
    /\ request' = [t \in Txs |-> "none"]
    /\ UNCHANGED <<status, expired, recent, reward, instruction, worldVars>>

-----------------------------------------------------------------------------
TickStep(w) ==
    \/ Claim(w) \/ Fetch(w) \/ Start(w) \/ Finish(w)
    \/ updateStatus(w) \/ Lookup(w) \/ Open(w) \/ Submit(w) \/ Payout(w) \/ updateInstruction(w)
    \/ PendingRewards(w) \/ Mint(w) \/ RecordReward(w) \/ Catch(w) \/ GiveUp(w)

RowStep(t) ==
    \/ create(t) \/ createReward(t) \/ cancel(t) \/ fail(t)
    \/ PollOne(t) \/ BankDecides(t) \/ Expire(t) \/ Age(t)

AdminStep(t) == createManually(t) \/ markMinted(t) \/ reverse(t)

Next ==
    \/ \E w \in Ticks : TickStep(w)
    \/ \E t \in Txs : RowStep(t)
    \/ \E t \in Managed : AdminStep(t)
    \/ PollSettlements
    \/ Crash

Spec == Init /\ [][Next]_vars

\* The event loop runs a tick on: every await answers or throws.
LiveSpec == Spec /\ \A w \in Ticks : WF_vars(TickStep(w))

-----------------------------------------------------------------------------
\* A row as its readers see it, and the specification of rows and their money.
RowOf(s) == IF s \in Final \cup {"Absent", "CREATED"} THEN s ELSE "AUTHORIZED"
rows == [t \in Txs |-> RowOf(status[t])]

Row == INSTANCE PaymentRow WITH
    Rows <- Txs, ByUpi <- WithVpa, Calls <- Submissions,
    row <- rows, sent <- landed, paid <- payouts

\* The ticks that overlap, retry and die, and the API calls that write over one
\* another, amount to this: a row moves as RowMoves says, its money goes out in the
\* order of processTransaction, each payment by one call, the payout and the mint
\* once, and COMPLETED is written of none whose payments are not made.
ImplementsRow == Row!Spec

\* The rows a tick holds: fetched and not started on, or at work.
WorksOn(w, t) == current[w] = t /\ stage[w] \notin {"idle", "next"}

Held(t) == \E w \in Ticks : t \in batch[w] \/ WorksOn(w, t)

\* However ticks overlap, retry and die, a merchant is paid once for a row, and
\* the payer's Stellar payment is only repeated when an answer was lost: the
\* claim does not keep a second tick away (see ClaimedByOneTick), the
\* createPayment call that comes before both payments does.
PaidAtMostOnce ==
    \A t \in Txs :
        /\ payouts[t] <= 1
        /\ landed[t] <= 1 + faults
        /\ landed[t] > 0 => t \in opened

\* The status of a row is not ahead of the money, whichever tick wrote it: a row
\* is REWARDING or COMPLETED only with its Stellar payment on the ledger and,
\* where processTransaction finds a UPI address, its payout accepted.
CompletedMeansPaid ==
    \A t \in Txs : status[t] \in {"REWARDING", "COMPLETED"} =>
        /\ landed[t] > 0
        /\ t \in WithVpa => payouts[t] > 0

\* A SPEND reward recorded as MINTED with the hash of its mint was minted, where the
\* payer has a wallet: a mint that threw, timed out or was refused is never
\* recorded with a hash, though an administrator creates, marks and reverses the
\* same record between the processor's read and its write.  An administrator's
\* "mint" writes MINTED too, with no mint and no hash: the status alone says
\* nothing, only the hash does.
RewardRecordIsTrue ==
    \A t \in WithWallet : reward[t] = "MINTED" => t \in minted

\* A finished row that no tick holds and no API handler is about to write keeps
\* its status and is never taken up again, by whichever claim, fetch or retry.
FinishedIsAtRest ==
    [][\A t \in Txs :
         status[t] \in Final /\ ~ Held(t) /\ request[t] = "none"
            => status'[t] = status[t] /\ ~ Held(t)']_vars

\* With a tick of its own, a row that processTransactionWithRetry leaves is
\* left COMPLETED, FAILED or CANCELLED, unless the process died or the wrapper's
\* own last update threw, which alone stop the tick outright.
LeftIsFinished ==
    [][\A w \in Ticks, t \in Txs :
         WorksOn(w, t) /\ ~ WorksOn(w, t)'
            => status'[t] \in Final \/ stage'[w] = "idle"]_vars

\* Every row it starts on is left: its attempts run out.
StartedIsFinished ==
    \A w \in Ticks, t \in Txs : WorksOn(w, t) ~> ~ WorksOn(w, t)

\* "Only process if we successfully moved it from CREATED to AUTHORIZED": a row
\* is moved once, so no two invocations of handlePendingTransactions ever hold it.
ClaimedByOneTick ==
    \A v, w \in Ticks, t \in Txs : WorksOn(v, t) /\ WorksOn(w, t) => v = w

\* "Settlement will be confirmed by background poller": an instruction is
\* CONFIRMED only after the bank said that the payout succeeded.
ConfirmedByTheBank ==
    \A t \in WithVpa : instruction[t] = "CONFIRMED" => bank[t] = "success"
=============================================================================
