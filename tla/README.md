# PayEra: a TLA+ verification project

PayEra lets a consumer pay an Indian merchant from a crypto wallet: the backend
drives each payment through four Soroban contracts, a Stellar payment and a UPI
payout, and mints STAR reward tokens on the way. This directory models the parts
in which money and authority move, checks them with TLC on small instances, and
proves the main results with TLAPS for every instance. `PROJECT.json` lists the
components, the runs, the source lines each definition stands for, the hazards
and the theorems.

Paths below are relative to the repository root; `api/` is `apps/api/src/`.

## 1. Inventory

| Part | State | Operations | What makes it hard | What makes it correct |
|---|---|---|---|---|
| `contracts/star-token` | admin and pending admin, pause, minter and freeze flags, balances, allowances, supply, fee rate | mint (admin, minter), burn, transfer, approve and spend, burn_fee, role changes, handoff | many paths to the same balances; roles outliving a handoff; expiring allowances | supply = sum of balances <= cap; nothing leaves an address ungranted; roles come from the admin |
| `contracts/merchant-registry` | merchant records, admin, pause | register, approve, suspend, reject, update, transfer owner | review decisions in any order, across handoffs | only the admin decides standing, only the owner the record |
| `contracts/reward-engine` | reward records by id, issuers, token address | issue spend, referral and campaign rewards | reward ids shared by callers; the mint may trap | one record per id, backed by one mint of the token it is configured with |
| `contracts/payment-engine` | payments with status, terms, quote, STAR; operators; callee addresses | create, quote, mark_converted, mark_settled, issue_reward, complete, cancel, fail | payer against operator; failing callees | forward-only life cycle, agreed terms kept |
| `api/transaction-processor` | rows of `transactions`, `rewards`, `settlement_instructions` | two cron jobs: drive payments, poll payouts | overlapping ticks, retries, lost answers, crashes | one payout per payment, statuses that are true, no row left half done |
| `api/transactions` | the same rows, idempotency keys, a rate cache | quote, create, cancel, fail | check-then-write against the processor | see the processor |
| `api/stellar`, `api/settlement`, `api/common/circuit-breaker` | clients, breaker state | Soroban calls, Stellar payment, UPI payout and poll | retries of calls that took effect | at most once per payment |
| `api/ramps` | `ramp_transactions`, their events, the anchor's transactions | initiate, a poller every thirty seconds, the provider client | overlapping ticks, stale answers, retries that leave a transaction behind, event numbers that clash | final statuses say what the anchor says; every settled ramp is settled in the table |
| `api/kyc` | `users.kycStatus`, `kycReference` | open an applicant, webhook, the gate on ramps | webhooks repeated, reordered, overtaken by a new verification | ramps only for users whose check was completed |
| `api/auth`, `api/wallets`, `api/users` | users, wallets, challenges, refresh-token hashes | challenge, login, refresh; add, update, disconnect; suspend, activate, delete | first logins with one address race | every account a login made can be reached again |
| `api/referrals`, `api/rewards` | referrals, rewards | invite, accept, qualify, reward; the administrator's create, mint, reverse | all check in one await and write in a later one | a reward is earned by a friend's completed payment, and recorded |
| `api/admin`, `api/merchants` | merchant rows, the registry's view of them | review in the table, then in the log, then on the ledger | two administrators, pages out of date, calls cut short | the registry never runs ahead of the table |
| `api/campaigns`, `analytics`, `health`, `aml` | rows, queries | plain reads and writes | nothing ordered; AML is called by no payment handler | - |
| `apps/web`, `apps/web-landing`, `apps/admin` | the step a page is at, timers | deposit, withdrawal and payment pages, wallet connection, onboarding and reviews | they act on rows that lag behind, and give up what is still at work | "done" means done; a wait ends; one payment per ramp |
| `packages/*` | the SDK's request timeout | - | - | - |

How they interact: the payment engine calls the registry (`is_approved`) and the
reward engine (`issue_spend_reward`), which calls the token
(`mint_from_minter`); each Soroban invocation is atomic. The API writes rows that
the processor's cron jobs pick up; the processor awaits the Soroban and Horizon
clients and the UPI rail, and between any two awaits other ticks, API handlers and
the poller run on the same rows. Nothing locks a row. The pages reach all of this
through the SDK, whose requests end after ten seconds whatever the handler does;
they poll rows that the processor and the ramp poller write, and so act on a state
that is up to half a minute old. KYCAID and the anchor report when they like.

## 2. Modules

| Module | Models | Notes |
|---|---|---|
| `StarToken` | `contracts/star-token/src/lib.rs` | one action per state-changing entry point |
| `MerchantRegistry` | `contracts/merchant-registry/src/lib.rs` | assumed in `Contracts` |
| `RewardEngine` | `contracts/reward-engine/src/lib.rs` | the mint it awaits is supplied by `Contracts` |
| `PaymentLifecycle` | what the payment engine promises | abstract: stages and rewarded payments only |
| `PaymentEngine` | `contracts/payment-engine/src/lib.rs` | the callees answer anything |
| `Contracts` | the four contracts together | `INSTANCE`s of the four with real cross-calls |
| `RowMoves` | how a row's status moves, for its readers | extended by the next one and by `Checkout` |
| `PaymentRow` | what the API promises of rows and their money | abstract: no ticks, attempts, faults, crashes |
| `TransactionProcessor` | the two cron jobs and the API handlers that share their rows | one step per await; implements `PaymentRow` |
| `Kyc` | `api/kyc`, with KYCAID | opening an applicant, webhooks, the two awaits of `processWebhook` |
| `Ramps` | `api/ramps`: service, poller, provider | extends `Kyc`; one step per await |
| `RampPages` | the deposit and withdrawal pages of both web apps | extends `Ramps`; the anchor waits for the user's money |
| `Checkout` | `POST /transactions` with its idempotency keys, and the payment page of `apps/web-landing` | what becomes of a row later is any sequence of the moves in `RowMoves` |
| `Referrals` | `api/referrals` beside the administrator's calls of `api/rewards` | what a call has read is a tuple in `calls` |
| `MerchantReview` | `api/admin`'s reviews, `api/merchants`, the merchant calls of `soroban.service.ts`, the review pages and the onboarding wizard | implements `MerchantRegistry` in what it does on the ledger |
| `Accounts` | wallet challenge and login, `api/wallets`, `api/users`, the wallet provider | a user goes by the login that made it |
| `*_proofs` | the theorems | each extends its component; `Contracts_proofs` also instantiates `StarToken_proofs` and `PaymentEngine_proofs`, `Services_proofs` extends `MCServices` and `Ramps_proofs` |
| `Sums_proofs` | nothing of its own: lemmas on the sum of a function's values | used by `StarToken_proofs` |
| `MC*` | bounded instances | with the `.cfg` files |

Conventions. Names of state and actions are the source's. In the contracts, an
action's `caller` is the address whose `require_auth` the entry point demands, and
the variable `signer` remembers it for the access properties only. A Soroban call
that errs or panics leaves no trace, so the error paths are the negations of the
guards. A definition called a "Mutant of X" is a plausible bug of X; no
specification uses it, and replacing X by it breaks the property it is listed
with in `PROJECT.json`.

### Contracts

The state of each contract is its instance and persistent storage; absent entries
are `None` or the default the source reads. TTL bumps, events and metadata strings
are left out. i128 arithmetic is checked in the source and amounts stay under the
cap, so `Int` is faithful. In `PaymentEngine` the answer of `is_approved` and the
amount of the reward call (0: it failed) are inputs. In `Contracts` they are what
the other contracts' state says, and between the deployed ones a reward record, the
mint and the payment's STAR figure change together or not at all.

The code trusts whatever callee an admin configures: `create_payment` takes any
registry's word, `issue_reward` any reward engine's answer, the reward engine any
token's mint. `OtherAddress` stands for another working deployment of each kind. Its
own state is not modelled, so it may answer anything the same code could: the registry
vouches for anyone or not, the reward engine pays the reward under an id used up here
(with STAR of this token if it was made a minter, `PaidByAnother`) or fails, the token
mints in its own books or traps. An address of no such contract fails the call as the source's
`try_` handles it, or traps. Nothing is claimed of what another deployment answers:
with a redeployed reward engine two payments can share a reward id and both earn STAR.
Two history variables, which no step reads, tell the deployed callees' answers apart:
`hVouched`, the payments the deployed registry vouched for, and `hAnswered`, those
whose reward was asked of the deployed reward engine. `StarIsBacked` and
`PayeesStayRegistered` are about these.

### Transaction processor

`handlePendingTransactions` runs every five seconds whether or not an earlier
invocation still works, so `Ticks` is a set of concurrent invocations.
`stage[w]` is what tick `w` awaits next; the function `After` is the order of
`processTransaction`, `Records` the status each stage writes. An await is one step
that may take effect and answer, take effect and throw (the answer is lost), or
throw; throws, lost answers and crashes are counted by `faults` up to the bound
`MaxFaults`. `Claim` is the `updateMany`, `Fetch` the `findMany` (which does not
look at who claimed), `Catch` the outer catch block, `GiveUp` the last update of
the retry wrapper. `create` and `createReward`, and the two halves of `cancel` and
`fail`, are separate steps because the handlers await in between.

The status of a row's SPEND reward has another writer: the administrators' endpoints
of `api/rewards`. `createManually`, `markMinted` and `reverse` write it whatever it is
and whichever tick is at work on the row. "Mint" mints nothing: it sets MINTED with no
`stellarMintHash` (a TODO says so), so `RewardStatus` tells MARKED (MINTED without a
hash) from MINTED (with one), and `RewardRecordIsTrue` is about the hash. A reward made
by hand is taken to name the row's payer, as the processor's own do; `Managed` bounds
the rows administrators write.

What the model says of the chain: `createPayment` refuses a payment id the engine
knows (`Open`, `opened`) and a row without a wallet; every other engine call answers
or throws. Which contract is deployed is configuration, and the model's safety
results hold whatever it answers. Against the engine of this repository,
`soroban.service.ts` calls `quote_payment` and the `mark_` and `complete_`
transitions without their `operator` argument and never calls `issue_reward`, which
`complete_payment` requires; there every row ends FAILED by the "throws" branch
after `createPayment`. The model contains that behaviour; it is not a property.

### Ramps, identity checks and their pages

`request[r]` is what the handler that initiates ramp `r` awaits next; everything
from the provider's authentication to the answer lies inside the source's `try`, so
`OnThrow` leads to `Fail` there and to nothing elsewhere. `stage`, `batch`,
`current`, `previous` and `answer` are the local variables of a tick of
`reconcilePending`. `applyStatus` writes whatever the provider answered if it
differs from the status the tick read before it asked, over any status the row has
by now. The `account` of an off-ramp stands for the anchor's address and memo.

The sequence number of an event is not counted: `seen[w]` says whether writer `w`
has read the last number of its ramp and whether another writer has used the next
one since, which is all the unique index looks at. A clash throws after the status
was written.

KYCAID is `applicantOf` and `sent`: an applicant may be opened without anybody
hearing of it, and every webhook it ever sent may arrive again at any time, in any
order. `found` are the webhooks that have found their user and not yet written.

The pages. `step[r]` is the page's `step`. The deposit and the withdrawal page of
the two apps differ in what they show and in the trustline, which only the deposit
page of `apps/web` asks for; the model takes the union. `SubmitPayment` is the
user's USDC payment, which the anchor then moves on from; `paid` counts them.

### Orders, referrals, reviews, accounts

`Checkout` follows a request through the handler, each await a stage: look the key
up, create the row, log, reserve the reward, keep the answer, respond. `settled` are
the rows that have been COMPLETED at some time, because calls that read a row before
may write over it afterwards (`TransactionProcessor` shows how). A row moves as `MayBecome` of `RowMoves` says, with
QUOTED to REWARDING counted as AUTHORIZED; that the processor moves its rows in these
ways only is `ImplementsRow`, checked and proved. The page gives up
after ten seconds for the request and a minute for the payment; the request or the
payment may still be under way, and a second one may be ordered then. "Cancel" is not
disabled while the request is on its way: the page then shows its first step with
"Get quote" disabled (`left`), until the answer takes it to the payment it ordered.

In `Referrals`, every handler reads, checks and writes in different awaits; the
triple in `calls` is what it carries across them, and `MaxCalls` bounds how many are
under way. `reward` writes the referral and its reward in one database transaction.

`MerchantReview` has one call per administrator and merchant: `update`, `log`,
`getMerchant`, `registerMerchant`, `Submit`, with the registry's rules from
`contracts/merchant-registry`. A merchant made through the wizard has an owner, and
the owner handed to the registry is then a user id and no Stellar address, so
`registerMerchant` throws every time: only merchants of the seed reach the ledger.
`Registry` is `MerchantRegistry` under the mapping in which the service's key is the
registry's admin and its only caller, the registry is never paused, and a merchant on
the ledger is owned by the platform's default address: `ImplementsRegistry` says that the reviews, whatever
order they come in, make a behaviour of the contract. It is what ties the registry's
rules, restated in `Allows` for the service's view of them, to the contract's own.

`Accounts` keeps `holder[a]`, the user of the one row with address `a`. The nested
insert of user and wallet is one step because it is one database transaction; the
look-up before it is another.

`MCServices` puts these side by side. They share no table and no call (except `Kyc`
and `Ramps`, which are one part, and `Ramps` and `RampPages`), so a behaviour is
about one of them, told by the variable `part`, and the others stay as they are.
Only in the part `ramps` has the user been verified before; in the part `kyc` the
checks run against the gate. The modules it extends have no name in common; where
the source uses one name in several services, the module tells them apart
(`createMerchant`, `createTransaction`, `ThrowOrder`, ...).

## 3. Runs

| Run | Configuration | Shows | Bounds |
|---|---|---|---|
| `star_money` | `MCStarTokenMoney` | supply is the sum of balances and within the cap; every debit is granted | 3 addresses (owner, spender, recipient differ), cap 2, amounts 1 and 2, 2 ledgers (before and after expiry) |
| `star_roles` | `MCStarTokenRoles` | frozen and paused state is still; roles come from the admin | every address may take every role, one may be granted allowances; fee rates 0, one half and one over the limit |
| `star_revoked` | `MCStarTokenRevoked` | **violation**: a frozen ex-admin spends an old allowance | handoff between two addresses, one unit |
| `payment_engine` | `MCPaymentEngine` | records, agreements, keys, operators; implements `PaymentLifecycle` | 2 payments, 2 admins/operators, valid and invalid amounts and quotes |
| `contracts` | `MCContracts` | rewards, mints and STAR figures agree; a settled payment always has a way on | 2 payments on one reward id, supply for two rewards, this and another reward engine and token, at most two disturbances at a time |
| `contracts_admin` | `MCContractsAdmin` | standing, record ownership and issuers across handoffs of registry and reward engine; payees of open payments stay registered | 2 candidates each, one merchant, one campaign reward, one payment, this and another registry |
| `processor` | `MCTransactionProcessor` | no payment twice, no status ahead of the money, finished rows rest; implements `PaymentRow` | 2 ticks, 2 rows (one reaches the payout, one is refused by the engine), 2 attempts, batch 1, 1 fault |
| `processor_alone` | `MCTransactionProcessorAlone` | a row that is started on is left (`StartedIsFinished`), and left final (`LeftIsFinished`); a recorded hash is of a mint that was made (`RewardRecordIsTrue`) | 1 tick, 1 row with a wallet and without UPI address, administrators who write its reward, the code's 3 attempts, 7 faults: enough to fail every attempt twice and the last update |
| `processor_claim` | `MCTransactionProcessorClaim` | **violation**: two ticks work on one row | 2 ticks, 2 rows, no fault |
| `processor_confirm` | `MCTransactionProcessorConfirm` | **violation**: CONFIRMED before the bank answers | 1 tick, 1 row, no fault |
| `services` | `MCServices` | the nine invariants and three temporal properties of the other services and their pages; the reviews implement `MerchantRegistry` | see below; 408,000 states |
| `offramp_paid_twice` | `MCRampPagesTwice` | **violation**: the withdrawal page asks for a second payment | one ramp, one tick, no fault |

The types of the token and of the engine are parts of the types `contracts` checks.

Why the bounds are enough. Two addresses can hold and take over a role, a third is
a bystander; an allowance needs one ledger to be valid and one to be expired; two
payments are the least that can compete for a reward id. For the processor, a
second row is needed for a second tick to get past its claim at all, and two ticks
already hold one row together; the theorems below remove the bounds for the most
important properties.

The bounds of `services`: one user with two applicants (a check and the one that
replaces it); one ramp, so that everybody meets on one row, with two overlapping
ticks, two attempts instead of three, one fault or crash (`MaxFaults`) and one USDC
payment (`MaxPayments`); anchor statuses that map to every kind of row status except
EXPIRED, which is handled like REFUNDED. Three members of whom one makes two codes,
two payments (one the inviter's own) and two calls between awaits (`MaxCalls`): the
least for two acceptances, or an acceptance and a reward, to race. One merchant
before two administrators. Two addresses and two logins, which may race for one
address. Three requests with one key (one answered, one at work, one arriving) and
two of the page (one given up, one ordered after it).

Reductions. `SYMMETRY` permutes the ticks in `processor` and the payments in
`contracts` (no liveness is checked in either). The `VIEW` of `MCContracts` drops the
four signers: no guard reads them and the properties read only the signer of the step
being taken. Of its `CONSTRAINTS`, `FewDisturbances` bounds how many things are out of
order at once (paused contracts, other callees, missing rights, another minter), not
which or how often; `NoneFrozen` leaves freezing to the runs of the token.

Deadlock is checked for the contracts (an admin can always pause). It is not for
the processor: when every row is finished and no instruction is outstanding,
nothing is left to do.

Deadlock is not checked in `services` and `offramp_paid_twice` either: a ramp, a
referral or an order that is through leaves nothing to do.

Fairness. `processor_alone` assumes weak fairness of each tick's steps
(`LiveSpec`), `services` of the ramp poller's ticks (`Fairness`) and of the
payment page's timers (`PageFairness`). The event loop resumes a tick whenever
its await settles, so for the ticks this amounts to every await answering or throwing
in the end; the Soroban polls give up after forty seconds, and the HTTP calls rely on
the platform's timeouts. The cron job starts a tick every thirty seconds, so a row
that stays pending is fetched again: that is why `RampsAreReconciled` holds although
one tick may overwrite another's answer with an older one. It says nothing of a row
older than a day, which the poller no longer fetches. The page's request ends after
ten seconds and its timer reads the row every three seconds. Handlers, KYCAID,
the anchor, the bank, the users, the clock (except the page's minute) and crashes
need no fairness.

### Findings

- `star_revoked`: the comment in `accept_admin` (star-token `lib.rs:170-173`) says a
  rotated-out key can no longer move funds; `spend_allowance` never looks at the
  spender's flag, so allowances granted to it earlier still work.
- `processor_claim`: the comment above the claim
  (`transaction-processor.service.ts:22-23`) says a row is processed only by who
  moved it; the fetch takes any recently AUTHORIZED row. `PaidAtMostOnce` shows what
  saves the merchant's money: the second tick's `createPayment` is refused. The row
  itself suffers: the second tick marks it FAILED while the first goes on.
- `processor_confirm`: the log line 194 leaves confirmation to the poller; lines
  293-300 confirm unconditionally, and the poller then no longer looks.
- `offramp_paid_twice`: after `handleSignPayment` has submitted the payment, the
  withdrawal page polls the row at once; it still says PENDING_USER_TRANSFER with an
  account until the next tick of the poller, and the page asks for the signature
  again (`offramp/page.tsx:75` of `apps/web`, `:94-96,133` of `apps/web-landing`).

Behaviours the model contains that a reader may expect to be excluded: a row is
FAILED although its payout was accepted (any error after it, also the audit log's);
`cancel` and `fail` overwrite whatever a tick made of a row after their check; rows
beyond the batch of ten, older than six seconds or left by a crash stay AUTHORIZED
for good; a second tick that had fetched a row writes AUTHORIZED over the first one's
COMPLETED, and FAILED after that. Further:

- An administrator's "mint" of a reward makes it MINTED with no mint and no hash, also
  when it is not PENDING, although `rewards.controller.ts:62` calls it marking a pending
  reward, and takes the hash of a real mint away.
- An administrator's reversal of a reward that a tick has read as PENDING is lost: the
  tick mints and writes MINTED, or FAILED, over it.
- A terminal ramp may become pending again for a while: a slow tick writes an older
  answer over it, although the comment in `ramps.service.ts:190-194` calls the
  refresh idempotent. The next tick repairs it, unless the row is a day old by then;
  older pending rows stay pending for good, because reading a ramp does not refresh it.
- A SEP-24 status `mapStatus` does not know makes a row ERROR, which is terminal:
  no tick looks at it again, whatever the anchor does. So does the clash of event
  numbers while the ramp is being initiated, for a ramp that is alive.
- `processWebhook` may write VERIFIED after a new verification has begun.
- Two members may be accepted by one code one after the other's check; the second
  write wins, the referral goes back to INVITED, and may be rewarded once more on the
  same reward row. Its rewards are called MINTED and are minted on no chain.
- A review whose call to the registry fails is not repeated: the comment in
  `admin.service.ts:136` says the administrator can retry, but the page offers no
  approval for an approved merchant. A rejection after an approval is refused by the
  registry and stays in the table only.
- Requests that overlap with one idempotency key each create a payment; the key is
  neither bound to a user nor is its expiry looked at.
- A wallet login reactivates a suspended or deleted account.
- The quote on display is not the one a payment is made with: rates are fetched again.
- The AML page of `apps/admin` reads fields the API does not return, and shows every
  address as low risk.

## 4. Proofs

TLAPS proves the following for every value of the constants that the `ASSUME`s
allow. The invariants hold for any number of payments, users, rows, ticks, attempts
and faults, where a run has two or three of each.

### The contracts one by one

- `StarToken_proofs`: type correctness, from what every action assigns to the money,
  the allowances and the roles (`MoneyTypes`, `AllowanceTypes`, `RoleTypes`);
  `SupplyCapped` (with the types inductive);
  the action properties `FrozenIsStill`, `SpendingGranted`, `PausedStill`,
  `RolesFromTheAdmin`, each by cases over the entry points (`StepCases`,
  `MoneyCases`); and `SupplyIsBalances`, that the hand-kept supply is the sum of the
  balances. A transfer is two writes, which may meet in one address, so the last needs
  to know what one changed value does to a sum.
- `Sums_proofs` says that: `SumOfOneChange`, for the fold the model uses and any finite
  domain. The library's induction theorems take an operator and cannot be used, so
  induction is made over sets: `NumbersByInduction` over a set with 0 and every
  successor (from well-foundedness of `<`), `SubsetsByInduction` over a set of subsets,
  and `PartialExists`, that the recursive function behind the fold exists, from it.
- `PaymentEngine_proofs`: type correctness; `RecordsMatch`, where
  `RecordMatchesStatus` together with the types is inductive because it ties quote,
  terms and STAR to the status; `AgreementsKept`, `RightKeyMoves` and
  `OperatorsFromTheAdmin` from it; and `Implements`, the refinement of
  `PaymentLifecycle` under the mapping `stages`, `rewarded`: every step of the
  engine is a step of the abstract life cycle or leaves both unchanged.

### The contracts together

`Contracts_proofs` proves of the four contracts on one ledger `TypeCorrect`,
`StarBacked`, `RecordsFollowMints`, `PayeesRegistered` and the three theorems of the
registry and the reward engine (`StandingFromTheAdmin`, `OwnersKeepTheRecord`,
`IssuersFromTheAdmin`). Types alone are not inductive here: `issue_reward` hands the
reward engine the payer and the reward id of a payment's terms, and that there are
terms follows from its status. `IInv` is the four type invariants, the engine's
`RecordMatchesStatus`, `StarIsBacked`, `PayeesStayRegistered` and
`HistoriesMatchStatus`, which ties the two histories to the status: a payment the
registry vouched for exists and one whose reward was asked for is past Settled. That is
what keeps another reward engine's figure out of `StarIsBacked`: a payment is rewarded
once, so whoever answered first answered for good. A STAR figure stays backed because a record
is never rewritten and the terms of a payment keep its reward id, payer and source;
the step that sets the figure writes the record. A payee stays registered because
only a Pending merchant is rejected, the status never returns to Pending, and the
payment's terms keep its merchant.

Every step of the whole is, for each contract, one of its own entry points or none
(`EngineAmongOthers`, `TokenAmongOthers`, `RegistryAmongOthers`, `RewardCases`). So
`EngineIsAPart` and `TokenIsAPart`: a behaviour of the four is a behaviour of the
engine with arbitrary callees and of the token with arbitrary callers. What was proved
of each of these alone follows for the whole (`PaymentsAmongContracts`,
`TokenAmongContracts`), the life cycle, the cap and the sum of the balances included.
`RegistryIsAPart` says the same of the registry.

### The transaction processor

`TransactionProcessor_proofs`: type correctness; `PaidOnce` and `PaidFirst` from the
invariant `IInv`; `RewardsAreTrue` from `RInv`. Neither `PaidAtMostOnce` nor
`CompletedMeansPaid` is inductive. `IInv` adds what makes them so: beyond the answer
of `createPayment` at most one tick works on a row (`OneThrough`), on an opened row
(`ThroughIsOpened`), a row not opened is not paid (`UnopenedIsUnpaid`), and the tick's
stage tells which payments are still to come (`NotYetPaid`) and which are made
(`AlreadyPaid`). `NoPaymentStep` handles all steps that pay nothing; `Open`, `Submit`
and `Payout` are done one by one. `RInv` adds that a tick about to record a mint has
made it; the administrators' writes (`AdminWrites`) never set a hash.

`FinishedRests` proves that a finished row nobody holds is not touched again; it needs
that a tick without a row is at rest (`IdleIsNowhere`). `LeavesFinished` proves
`LeftIsFinished`, the safety half of "no row is left half done": a tick that lets go
of a row leaves it final unless it died. It has the hypothesis that no two ticks are
different, because with overlapping ticks it is false of the code: between the first
tick's COMPLETED and its return, a second one that had fetched the row writes
AUTHORIZED over it. `ConfirmsFinished` (the instruction is confirmed after COMPLETED)
is what makes it inductive. That the row is left at all is liveness, and TLC's.

`ImplementsPaymentRow` proves that all of this implements `PaymentRow`: seen from
outside, a row is ordered, claimed and moved as `RowMoves` says, and opening, Stellar
payment, payout and mint each happen at most once and in this order, although two ticks
may hold the row, either may die, and `cancel` and `fail` write over both. The mapping
is `RowOf`, which forgets between which stages a claimed row is. The step-by-step part
is `WriteIsMove` for the steps that write a status and `MoneyMoves` for those that pay,
from `IInv` and two more parts, which make `RowInv`: a row that a tick holds has been
taken and never becomes CREATED again (`HeldIsTaken`), and a row a handler has checked
is in the table (`CheckedIsThere`). `IInv` says that the tick making a payment is the
only one past `createPayment` and that the payments before it are made. `MoneyInOrder` is then proved of the abstract row alone (`RowOrderStep`) and
holds of the processor by the refinement; it relates the money of a row to its status
and to the other money in one invariant.

### The services

- `Ramps_proofs`: type correctness (with `TickInv`: only a tick that has asked has an
  answer); `RampsAreTrue`, which is inductive once `AnswersStand` (a settled answer a
  tick carries is still the anchor's) and `NotYetInitiated` are added; and
  `RampsNeedApproval` from `ReviewInv` (an applicant on file was opened for its user,
  a user about to be VERIFIED has been approved) and `GateInv` (so is the owner of
  every row in the table, beyond the gate or in a tick's hands). With the pages:
  `PagesTypeCorrect`, `PagesTellTheTruth`, and `DoneIsCompleted`, where what a page
  calls done is a COMPLETED row, which the truth of the table and the finality of the
  anchor's statuses keep from changing (`SettledStays`, `DoneStep`).
- `Services_proofs`, in sections. Orders: `DoneIsPaid` from `OrderPageInv` (a page polls
  the row its own request made) and `AnsweredOnce` from `KeyInv` (what was answered by
  its key is kept). Referrals: `RewardsAreEarned` from `Invitations`, `Qualifications`
  and `Rewards`, which say of every call under way what its checks have established and
  no later step undoes; `RewardsAreRecorded` is inductive with the types. Reviews:
  `RegistryFollows` from `ApprovedFirst` (an approval past its first write is in the
  table), and `ReviewsImplementRegistry`, that the reviews implement the contract: every
  call to the ledger is a step of `MerchantRegistry` (`RegistrationIsCall`,
  `VerdictIsCall`), everything else leaves it alone (`NoCall`). It supposes what the
  deployment does, that the service's key is the registry's admin and that the registry
  is not paused. Accounts: `AccountsAreReachable` from `AccountInv` (a login that found a
  wallet works on an existing account).
- Side by side: `ServicesAreParts` proves that `ServicesSpec` implements the `Spec` of
  each of the four, so their theorems hold of what the run `services` checks
  (`ServicesAmongServices`); `ServicesTypeCorrect` and `RampsAmongServices` prove the
  rest, the ramps from their own inductive invariant because `ServicesInit` may begin
  with a user verified before (`VerifiedIsReviewed`).

### What is assumed, and what is not proved

The assumptions on constants are named in the modules and evaluated by TLC in the runs.
`StarTokenAssumption`: accounts are finitely many (an address is a key or a hash of 32
bytes), `None` is none of them, the cap is positive. `ContractsAssumption`: users are
no contracts, `OtherAddress` is none of the four deployed ones, payments and campaigns
have no name in common, and the four contracts' own. `RampsAssumption`, `CheckoutAssumption`, `ReferralsAssumption`,
`AccountsAssumption`, `RampPagesAssumption`: names of different kinds differ, every
ramp, code and payment has its user, and bounds are numbers.
`MCRampPagesAssumption`, that the instance has exactly one user, who has an applicant,
is used only by `RampsAmongServices` and `ServicesTypeCorrect`, since `Verified` is a
state of that user; the theorems of `Ramps_proofs` are for any users.

Only model-checked: `SettledIsNeverTrapped`, which is about `ENABLED`, and the liveness
properties `StartedIsFinished`, `RampsAreReconciled` and `WaitingEnds`, which rest on
fairness. Every other property of a passing run is the statement of a theorem.

## 5. Not modelled

Formatting, events and logs, rates and amounts off chain, TTL extension, the order
of `transaction_events` (a clash of sequence numbers is one of the throws).

- Token refresh and the mock login: what distinguishes a rotated refresh token from
  the current one is a comparison of two strings by bcrypt, which these models
  abstract from.
- The primary flag of a wallet: two concurrent updates can leave two primaries, and
  no payment reads the flag.
- Campaigns and brands: each handler is one read and one independent write, and
  nothing spends a campaign's budget. Analytics, health, QR codes: queries.
- AML screening: a pure function of a provider's answer that only the
  administrators' page asks for. The top-level README (line 384) says high-risk
  addresses are quarantined before settlement; no payment, ramp or wallet call does.
- The payment page of `apps/web`: it orders through `/simulate`, which the API does
  not have, so it never gets past its first request.
- The circuit breaker's states: an open breaker is a call that throws, which every
  model allows at any time. The poller's limit of twenty ramps a tick: a row that
  never moves keeps its place among the oldest twenty for a day.
- The pages that only show what they fetch, the component library, the landing page,
  the seed and the generated clients carry no protocol. They are most of the source.

## 6. Plan

Done: the four contracts alone and together, the processor, ramps with identity
checks and pages, orders with idempotency keys, referrals, merchant reviews,
accounts; the refinements of `PaymentLifecycle`, `PaymentRow` and `MerchantRegistry`;
and the proofs above, of every safety property the runs check except the one about
`ENABLED`.

What is left, in this order:

1. `Checkout` and `TransactionProcessor` as one specification. They meet in `RowMoves`:
   the processor is proved to move rows so, the checkout allows every such move. One
   specification would also say which moves a page can really see in a minute.
2. Two rows and the limit of twenty in `Ramps`.
3. Token refresh and wallet selection (section 5), with a model of what bcrypt compares.
