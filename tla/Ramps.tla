------------------------------- MODULE Ramps -------------------------------
(***************************************************************************)
(* Cash in and out over a SEP-24 anchor: ramps.service.ts opens a          *)
(* transaction at the provider for a verified user and files it as a row;  *)
(* ramp-reconciliation.service.ts polls the provider for every pending row *)
(* every thirty seconds, whether or not the last tick is through; and      *)
(* providers/moneygram.provider.ts translates the answers.  Every await is *)
(* a step.  What a refresh knows is what it read before it asked.          *)
(***************************************************************************)
EXTENDS Kyc, Naturals

CONSTANTS
    Rows,           \* rows of the ramp_transactions table
    Owner,          \* the user of each row
    Ticks,          \* invocations of reconcilePending that may overlap
    RawStatus,      \* the SEP-24 statuses the anchor uses
    AnchorSteps,    \* how its transactions move among them: a set of pairs
    MaxAttempts,    \* attempts of withRetry: 3
    MaxFaults       \* bound: awaits that throw and crashes

\* What is known of the constants.
ASSUME RampsAssumption ==
    /\ None \notin Users \cup Applicants \cup Rows
    /\ Owner \in [Rows -> Users]
    /\ Rows \cap Ticks = {}
    /\ "incomplete" \in RawStatus /\ "none" \notin RawStatus
    /\ AnchorSteps \subseteq RawStatus \X RawStatus
    /\ MaxAttempts \in Nat \ {0} /\ MaxFaults \in Nat

VARIABLES
    ramp,           \* ramp_transactions.status, "Absent" before the insert
    type,           \* ONRAMP or OFFRAMP
    tracked,        \* the rows with a providerTxId
    account,        \* the rows with the anchor's account and memo
    aged,           \* the rows older than 24 hours
    request,        \* what the handler that initiates the ramp does next
    attempt,        \* failed attempts of the call it is making
    seen,           \* what each writer's appendEvent knows of the last sequence number
    stage,          \* what each tick does next
    batch,          \* the rows it fetched and has not refreshed yet
    current,        \* the row it refreshes
    previous,       \* the status it read before it asked
    answer,         \* what the anchor answered
    provider,       \* the anchor: status of its transaction, "none" before
    faults

requestVars == <<type, request, attempt>>
tickVars    == <<stage, batch, current, previous, answer>>
rampVars    == <<ramp, type, tracked, account, aged, request, attempt,
                 seen, stage, batch, current, previous, answer, provider, faults>>

PendingStatus == {"PENDING_USER_TRANSFER", "PENDING_ANCHOR", "PENDING_STELLAR",
                  "PENDING_EXTERNAL"}
isTerminal(s) == s \in {"COMPLETED", "REFUNDED", "EXPIRED", "ERROR"}
RampStatus == {"INITIATED", "COMPLETED", "REFUNDED", "EXPIRED", "ERROR"} \cup PendingStatus

\* Mutant of mapStatus24: a transaction under way counts as completed.
mapUnderWay(raw) ==
    CASE raw \in {"incomplete", "pending_user_transfer_start",
                  "pending_customer_info_update"} -> "PENDING_USER_TRANSFER"
      [] raw = "refunded" -> "REFUNDED"
      [] raw \in {"expired", "too_late"} -> "EXPIRED"
      [] OTHER -> "COMPLETED"

\* moneygram.provider.ts: every SEP-24 status in the words of the table; a
\* status it does not know is an ERROR.
mapStatus24(raw) ==
    CASE raw \in {"incomplete", "pending_user_transfer_start",
                  "pending_customer_info_update"} -> "PENDING_USER_TRANSFER"
      [] raw \in {"pending_anchor", "pending_trust", "pending_user"} -> "PENDING_ANCHOR"
      [] raw = "pending_stellar" -> "PENDING_STELLAR"
      [] raw \in {"pending_user_transfer_complete", "pending_external"} -> "PENDING_EXTERNAL"
      [] raw = "completed" -> "COMPLETED"
      [] raw = "refunded" -> "REFUNDED"
      [] raw \in {"expired", "too_late"} -> "EXPIRED"
      [] OTHER -> "ERROR"

\* The anchor does not take these back.
Settled == {"completed", "refunded", "expired", "too_late"}

\* A writer has not read the last sequence number, knows it, or knows one that
\* has been inserted by another writer since.
Seen == {"unread", "last", "taken"}

NoRow == None

RequestStage == {"none", "gate", "create", "created", "authenticate", "initiate",
                 "record", "initiated", "answered", "fail", "failed", "thrown"}
TickStage == {"idle", "next", "ask", "apply", "log"}

\* Where a handler goes on when an await of this stage throws: everything
\* between the first event and the answer is inside the try.
OnThrow(s) == IF s \in {"authenticate", "initiate", "record", "initiated"}
              THEN "fail" ELSE "thrown"

RampsTypeOK ==
    /\ ramp \in [Rows -> RampStatus \cup {"Absent"}]
    /\ type \in [Rows -> {"ONRAMP", "OFFRAMP"}]
    /\ tracked \subseteq Rows
    /\ account \subseteq Rows
    /\ aged \subseteq Rows
    /\ request \in [Rows -> RequestStage]
    /\ attempt \in [Rows -> 0..MaxAttempts]
    /\ seen \in [Rows \cup Ticks -> Seen]
    /\ stage \in [Ticks -> TickStage]
    /\ batch \in [Ticks -> SUBSET Rows]
    /\ current \in [Ticks -> Rows \cup {NoRow}]
    /\ previous \in [Ticks -> RampStatus \cup {"Absent"}]
    /\ answer \in [Ticks -> RawStatus \cup {"none"}]
    /\ provider \in [Rows -> RawStatus \cup {"none"}]
    /\ faults \in 0..MaxFaults

RampsInit ==
    /\ ramp = [r \in Rows |-> "Absent"]
    /\ type \in [Rows -> {"ONRAMP", "OFFRAMP"}]
    /\ tracked = {}
    /\ account = {}
    /\ aged = {}
    /\ request = [r \in Rows |-> "none"]
    /\ attempt = [r \in Rows |-> 0]
    /\ seen = [w \in Rows \cup Ticks |-> "unread"]
    /\ stage = [t \in Ticks |-> "idle"]
    /\ batch = [t \in Ticks |-> {}]
    /\ current = [t \in Ticks |-> NoRow]
    /\ previous = [t \in Ticks |-> "Absent"]
    /\ answer = [t \in Ticks |-> "none"]
    /\ provider = [r \in Rows |-> "none"]
    /\ faults = 0

-----------------------------------------------------------------------------
(* The handler that initiates a ramp.                                      *)

Receive(r) ==
    /\ request[r] = "none"
    /\ request' = [request EXCEPT ![r] = "gate"]
    /\ UNCHANGED <<ramp, type, tracked, account, aged, attempt, seen,
                   tickVars, provider, faults>>

\* Mutant of assertKycVerified: a check that has begun is enough.
assertKycBegun(r) ==
    /\ request[r] = "gate"
    /\ request' = [request EXCEPT ![r] =
                      IF kycStatus[Owner[r]] # "NONE" THEN "create" ELSE "thrown"]
    /\ UNCHANGED <<ramp, type, tracked, account, aged, attempt, seen,
                   tickVars, provider, faults>>

assertKycVerified(r) ==
    /\ request[r] = "gate"
    /\ request' = [request EXCEPT ![r] =
                      IF kycStatus[Owner[r]] = "VERIFIED" THEN "create" ELSE "thrown"]
    /\ UNCHANGED <<ramp, type, tracked, account, aged, attempt, seen,
                   tickVars, provider, faults>>

Create(r) ==
    /\ request[r] = "create"
    /\ ramp' = [ramp EXCEPT ![r] = "INITIATED"]
    /\ request' = [request EXCEPT ![r] = "created"]
    /\ UNCHANGED <<type, tracked, account, aged, attempt, seen, tickVars,
                   provider, faults>>

\* authenticate and initiate are tried MaxAttempts times.
Attempt(r) ==
    /\ request[r] \in {"authenticate", "initiate"}
    /\ attempt' = [attempt EXCEPT ![r] = 0]
    /\ \/ /\ request[r] = "authenticate"
          /\ request' = [request EXCEPT ![r] = "initiate"]
          /\ UNCHANGED provider
       \/ /\ request[r] = "initiate"
          /\ request' = [request EXCEPT ![r] = "record"]
          /\ provider' = [provider EXCEPT ![r] = "incomplete"]
    /\ UNCHANGED <<ramp, type, tracked, account, aged, seen, tickVars, faults>>

\* A failed attempt may have opened a transaction all the same: its id is lost
\* and nobody is ever sent to it.
withRetry(r) ==
    /\ request[r] \in {"authenticate", "initiate"}
    /\ faults < MaxFaults
    /\ faults' = faults + 1
    /\ attempt' = [attempt EXCEPT ![r] = IF @ + 1 < MaxAttempts THEN @ + 1 ELSE 0]
    /\ request' = [request EXCEPT ![r] = IF attempt[r] + 1 < MaxAttempts THEN @ ELSE "fail"]
    /\ UNCHANGED <<ramp, type, tracked, account, aged, seen, tickVars, provider>>

Record(r) ==
    /\ request[r] = "record"
    /\ tracked' = tracked \cup {r}
    /\ ramp' = [ramp EXCEPT ![r] = "PENDING_USER_TRANSFER"]
    /\ request' = [request EXCEPT ![r] = "initiated"]
    /\ UNCHANGED <<type, account, aged, attempt, seen, tickVars, provider, faults>>

\* Mutant of Fail: a status the table does not have.
FailOddly(r) ==
    /\ request[r] = "fail"
    /\ ramp' = [ramp EXCEPT ![r] = "FAILED"]
    /\ request' = [request EXCEPT ![r] = "failed"]
    /\ UNCHANGED <<type, tracked, account, aged, attempt, seen, tickVars,
                   provider, faults>>

Fail(r) ==
    /\ request[r] = "fail"
    /\ ramp' = [ramp EXCEPT ![r] = "ERROR"]
    /\ request' = [request EXCEPT ![r] = "failed"]
    /\ UNCHANGED <<type, tracked, account, aged, attempt, seen, tickVars,
                   provider, faults>>

\* Every other await of the handler may throw.
Throw(r) ==
    /\ request[r] \in {"gate", "create", "created", "record", "initiated", "fail", "failed"}
    /\ faults < MaxFaults
    /\ faults' = faults + 1
    /\ request' = [request EXCEPT ![r] = OnThrow(@)]
    /\ seen' = [seen EXCEPT ![r] = "unread"]
    /\ UNCHANGED <<ramp, type, tracked, account, aged, attempt, tickVars, provider>>

-----------------------------------------------------------------------------
(* appendEvent reads the last sequence number of the ramp's events and     *)
(* inserts the next one; the table refuses a number it has.                *)

Writers(r) == {r} \cup {t \in Ticks : current[t] = r}

ReadSequence(w) ==
    /\ seen[w] = "unread"
    /\ seen' = [seen EXCEPT ![w] = "last"]
    /\ UNCHANGED <<ramp, requestVars, tracked, account, aged, tickVars, provider, faults>>

\* An insert the table takes: what the row's other writers know is out of date.
Insert(w, r) ==
    /\ seen[w] # "unread"
    /\ seen' = [v \in Rows \cup Ticks |->
                   CASE v = w -> "unread"
                     [] v # w /\ v \in Writers(r) /\ seen[w] = "last" /\ seen[v] = "last" -> "taken"
                     [] OTHER -> seen[v]]
    /\ UNCHANGED <<ramp, type, tracked, account, aged, attempt, batch, provider, faults>>

RequestEvent(r) ==
    /\ request[r] \in {"created", "initiated", "failed"}
    /\ \/ ReadSequence(r)
       \/ /\ Insert(r, r)
          /\ request' = [request EXCEPT ![r] =
                CASE seen[r] = "taken" -> OnThrow(@)
                  [] @ = "created" -> "authenticate"
                  [] @ = "initiated" -> "answered"
                  [] OTHER -> "thrown"]
          /\ UNCHANGED <<stage, current, previous, answer>>

-----------------------------------------------------------------------------
(* The poller.                                                             *)

\* Mutant of reconcilePending: only rows whose user has paid yet are polled.
reconcilePaid(t) ==
    /\ stage[t] = "idle"
    /\ LET pending == {r \in Rows : ramp[r] = "PENDING_ANCHOR" /\ r \in tracked \ aged}
       IN /\ pending # {}
          /\ batch' = [batch EXCEPT ![t] = pending]
    /\ stage' = [stage EXCEPT ![t] = "next"]
    /\ UNCHANGED <<ramp, requestVars, tracked, account, aged, seen, current,
                   previous, answer, provider, faults>>

\* findMany: pending rows the provider knows, not older than a day.  The
\* limit of twenty rows a tick is out of the instances' reach.
reconcilePending(t) ==
    /\ stage[t] = "idle"
    /\ LET pending == {r \in Rows : ramp[r] \in PendingStatus /\ r \in tracked \ aged}
       IN /\ pending # {}
          /\ batch' = [batch EXCEPT ![t] = pending]
    /\ stage' = [stage EXCEPT ![t] = "next"]
    /\ UNCHANGED <<ramp, requestVars, tracked, account, aged, seen, current,
                   previous, answer, provider, faults>>

\* refreshStatus reads the row again and leaves a terminal one alone.
refreshStatus(t, r) ==
    /\ stage[t] = "next"
    /\ r \in batch[t]
    /\ batch' = [batch EXCEPT ![t] = @ \ {r}]
    /\ \/ /\ isTerminal(ramp[r]) \/ r \notin tracked
          /\ UNCHANGED <<stage, current, previous>>
       \/ /\ ~isTerminal(ramp[r]) /\ r \in tracked
          /\ stage' = [stage EXCEPT ![t] = "ask"]
          /\ current' = [current EXCEPT ![t] = r]
          /\ previous' = [previous EXCEPT ![t] = ramp[r]]
    /\ UNCHANGED <<ramp, requestVars, tracked, account, aged, seen, answer,
                   provider, faults>>

getStatus(t) ==
    /\ stage[t] = "ask"
    /\ answer' = [answer EXCEPT ![t] = provider[current[t]]]
    /\ stage' = [stage EXCEPT ![t] = "apply"]
    /\ UNCHANGED <<ramp, requestVars, tracked, account, aged, seen, batch,
                   current, previous, provider, faults>>

\* What a tick forgets when it is through with a row.
Forget(t) ==
    /\ current' = [current EXCEPT ![t] = NoRow]
    /\ previous' = [previous EXCEPT ![t] = "Absent"]
    /\ answer' = [answer EXCEPT ![t] = "none"]

\* applyStatus writes the answer if it differs from the status read before the
\* question, over whatever the row says by now; the anchor's account and memo
\* come with every answer to an off-ramp whose form has been filled in.
applyStatus(t) ==
    LET r == current[t]
        changed == mapStatus24(answer[t]) # previous[t]
    IN  /\ stage[t] = "apply"
        /\ ramp' = [ramp EXCEPT ![r] = IF changed THEN mapStatus24(answer[t]) ELSE @]
        /\ account' = IF type[r] = "OFFRAMP" /\ answer[t] # "incomplete"
                      THEN account \cup {r} ELSE account
        /\ \/ /\ changed
              /\ stage' = [stage EXCEPT ![t] = "log"]
              /\ UNCHANGED <<current, previous, answer>>
           \/ /\ ~changed
              /\ stage' = [stage EXCEPT ![t] = "next"]
              /\ Forget(t)
        /\ UNCHANGED <<requestVars, tracked, aged, seen, batch, provider, faults>>

TickEvent(t) ==
    /\ stage[t] = "log"
    /\ \/ ReadSequence(t)
       \/ /\ Insert(t, current[t])
          /\ stage' = [stage EXCEPT ![t] = "next"]
          /\ Forget(t)
          /\ UNCHANGED request

\* An error is caught and the next row of the batch is refreshed.
Catch(t) ==
    /\ stage[t] \in {"ask", "apply", "log"}
    /\ faults < MaxFaults
    /\ faults' = faults + 1
    /\ stage' = [stage EXCEPT ![t] = "next"]
    /\ seen' = [seen EXCEPT ![t] = "unread"]
    /\ Forget(t)
    /\ UNCHANGED <<ramp, requestVars, tracked, account, aged, batch, provider>>

EndTick(t) ==
    /\ stage[t] = "next"
    /\ batch[t] = {}
    /\ stage' = [stage EXCEPT ![t] = "idle"]
    /\ UNCHANGED <<ramp, requestVars, tracked, account, aged, seen, batch,
                   current, previous, answer, provider, faults>>

-----------------------------------------------------------------------------
(* The world.                                                              *)

\* The process goes down: handlers and ticks are gone, the rows remain.
Crash ==
    /\ faults < MaxFaults
    /\ faults' = faults + 1
    /\ request' = [r \in Rows |-> IF request[r] \in {"none", "answered"}
                                  THEN request[r] ELSE "thrown"]
    /\ attempt' = [r \in Rows |-> 0]
    /\ seen' = [w \in Rows \cup Ticks |-> "unread"]
    /\ stage' = [t \in Ticks |-> "idle"]
    /\ batch' = [t \in Ticks |-> {}]
    /\ current' = [t \in Ticks |-> NoRow]
    /\ previous' = [t \in Ticks |-> "Absent"]
    /\ answer' = [t \in Ticks |-> "none"]
    /\ UNCHANGED <<ramp, type, tracked, account, aged, provider>>

\* The anchor's transaction moves on, until it is settled.
Advance(r, raw) ==
    /\ provider[r] \notin Settled
    /\ <<provider[r], raw>> \in AnchorSteps
    /\ provider' = [provider EXCEPT ![r] = raw]
    /\ UNCHANGED <<ramp, requestVars, tracked, account, aged, seen, tickVars, faults>>

\* A day passes.  Only reconcilePending asks for the age of a row, so the day is
\* counted while the row is pending.
Age(r) ==
    /\ ramp[r] \in PendingStatus /\ r \notin aged
    /\ aged' = aged \cup {r}
    /\ UNCHANGED <<ramp, requestVars, tracked, account, seen, tickVars,
                   provider, faults>>

-----------------------------------------------------------------------------
Request(r) ==
    assertKycVerified(r) \/ Create(r) \/ Attempt(r) \/ withRetry(r) \/ Record(r)
    \/ Fail(r) \/ Throw(r) \/ RequestEvent(r)

Tick(t) ==
    reconcilePending(t) \/ (\E r \in Rows : refreshStatus(t, r)) \/ getStatus(t)
    \/ applyStatus(t) \/ TickEvent(t) \/ EndTick(t)

RampsNext ==
    \/ \E r \in Rows : Receive(r) \/ Request(r) \/ Age(r)
    \/ \E r \in Rows, raw \in RawStatus : Advance(r, raw)
    \/ \E t \in Ticks : Tick(t) \/ Catch(t)
    \/ Crash

Next ==
    \/ RampsNext /\ UNCHANGED kycVars
    \/ KycNext /\ UNCHANGED rampVars

vars == <<kycVars, rampVars>>

Init == KycInit /\ RampsInit

Spec == Init /\ [][Next]_vars

\* The cron job keeps running: its ticks finish what they begin.
Fairness == \A t \in Ticks : WF_vars(Tick(t) /\ UNCHANGED kycVars)

-----------------------------------------------------------------------------
TypeOK == KycTypeOK /\ RampsTypeOK

\* A row that says COMPLETED, REFUNDED or EXPIRED says what the anchor says: no
\* stale poll, retry or crash writes an outcome the money did not have
\* (applyStatus may write over any status, terminal ones included).
RampTellsTheTruth ==
    \A r \in Rows :
        /\ ramp[r] = "COMPLETED" => provider[r] = "completed"
        /\ ramp[r] = "REFUNDED"  => provider[r] = "refunded"
        /\ ramp[r] = "EXPIRED"   => provider[r] \in {"expired", "too_late"}

\* A ramp exists only for a user whose check KYCAID completed at some time,
\* however its webhooks were repeated, reordered or overtaken by a new
\* verification (assertKycVerified, processWebhook).
RampsAreForTheVerified == \A r \in Rows : ramp[r] # "Absent" => Approved(Owner[r])

\* Whatever the ticks overlap, and after any finite number of faults, a ramp
\* the anchor has settled is settled in the table, if the poller gets to it
\* within its day.
RampsAreReconciled ==
    \A r \in Rows : (r \in tracked /\ provider[r] \in Settled)
                        ~> (isTerminal(ramp[r]) \/ r \in aged)
=============================================================================
