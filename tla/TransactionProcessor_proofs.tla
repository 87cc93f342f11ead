--------------------- MODULE TransactionProcessor_proofs ---------------------
(***************************************************************************)
(* Theorems about the transaction processor, for any number of rows, of    *)
(* overlapping ticks, attempts and faults.  The argument for PaidOnce and  *)
(* PaidFirst is one inductive invariant: create_payment lets one tick      *)
(* through per row, so whatever lies beyond it is done by one tick, once,  *)
(* and in order.                                                           *)
(***************************************************************************)
EXTENDS TransactionProcessor, TLAPS

\* The stages before each payment, counted from the answer of create_payment.
BeforeSubmit == {"quote", "convert", "route", "submit"}
BeforePayout == BeforeSubmit \cup {"routed", "settle", "payout"}

\* The stages after each payment.
AfterPayout == {"sent", "reward", "mint", "recordMinted", "recordFailed", "rewarded",
                "complete", "confirm"}
AfterSubmit == AfterPayout \cup {"routed", "settle", "payout"}

Through == BeforeSubmit \cup AfterSubmit

At(w, t, stages) == current[w] = t /\ stage[w] \in stages

OneThrough ==
    \A t \in Txs : \A v, w \in Ticks :
        At(v, t, Through) /\ At(w, t, Through) => v = w

ThroughIsOpened == \A t \in Txs : \A w \in Ticks : At(w, t, Through) => t \in opened

UnopenedIsUnpaid == \A t \in Txs \ opened : landed[t] = 0 /\ payouts[t] = 0

NotYetPaid ==
    \A t \in Txs : \A w \in Ticks :
        /\ At(w, t, BeforeSubmit) => landed[t] = 0
        /\ At(w, t, BeforePayout) => payouts[t] = 0

AlreadyPaid ==
    \A t \in Txs : \A w \in Ticks :
        /\ At(w, t, AfterSubmit) => landed[t] > 0
        /\ At(w, t, AfterPayout) /\ t \in WithVpa => payouts[t] > 0

\* The inductive invariant.
IInv ==
    /\ TypeOK
    /\ OneThrough
    /\ ThroughIsOpened
    /\ UnopenedIsUnpaid
    /\ NotYetPaid
    /\ AlreadyPaid
    /\ PaidAtMostOnce
    /\ CompletedMeansPaid

-----------------------------------------------------------------------------
(* The table of stages.                                                    *)

\* What processTransaction records at a stage is a status.
LEMMA RecordsStatus ==
    /\ DOMAIN Records = {"authorize", "quote", "convert", "route", "routed",
                         "settle", "rewarded", "complete"}
    /\ \A s \in DOMAIN Records : Records[s] \in TransactionStatus
  BY DEF Records, TransactionStatus

\* The order of the stages of processTransaction.
LEMMA AfterStages ==
    /\ DOMAIN After = {"authorize", "lookup", "open", "quote", "convert", "route",
           "submit", "routed", "settle", "payout", "sent", "recordMinted",
           "recordFailed", "rewarded", "complete", "confirm", "catch", "giveUp"}
    /\ After["authorize"] = "lookup"
    /\ After["open"] = "quote"
    /\ After["quote"] = "convert"
    /\ After["convert"] = "route"
    /\ After["route"] = "submit"
    /\ After["routed"] = "settle"
    /\ After["settle"] = "payout"
    /\ After["payout"] = "sent"
    /\ After["sent"] = "reward"
    /\ After["recordMinted"] = "rewarded"
    /\ After["recordFailed"] = "rewarded"
    /\ After["rewarded"] = "complete"
    /\ After["complete"] = "confirm"
    /\ After["confirm"] = "next"
    /\ After["catch"] = "next"
    /\ After["giveUp"] = "next"
  BY DEF After

\* A tick that moves on, or throws, is at a stage again.
LEMMA StageTypes ==
    ASSUME TypeOK, NEW w \in Ticks
    PROVE  /\ \A s \in Stages : Goto(w, s) =>
                  /\ stage' \in [Ticks -> Stages]
                  /\ stage'[w] = s
                  /\ \A v \in Ticks \ {w} : stage'[v] = stage[v]
                  /\ UNCHANGED <<batch, current, attempt>>
           /\ \A s \in DOMAIN After : After[s] \in Stages
           /\ "catch" \in Stages /\ DOMAIN After \subseteq Stages
           /\ Stages = DOMAIN After \cup {"idle", "fetch", "next", "reward", "mint"}
           /\ \A n \in Nat : Fault(n) => faults' \in 0..MaxFaults
  <1>1. DOMAIN After \subseteq Stages /\ "catch" \in Stages
    BY AfterStages DEF Stages
  <1>2. \A s \in DOMAIN After : After[s] \in Stages
    BY DEF After, Stages
  <1>3. \A n \in Nat : Fault(n) => faults' \in 0..MaxFaults
    BY TransactionProcessorAssumption DEF Fault, TypeOK
  <1>4. \A s \in Stages : Goto(w, s) =>
                  /\ stage' \in [Ticks -> Stages]
                  /\ stage'[w] = s
                  /\ \A v \in Ticks \ {w} : stage'[v] = stage[v]
                  /\ UNCHANGED <<batch, current, attempt>>
    BY DEF Goto, TypeOK
  <1> QED  BY <1>1, <1>2, <1>3, <1>4 DEF Stages

\* The steps of the processor, one by one.
LEMMA StepCases ==
    ASSUME NEW G, [Next]_vars,
           \A w \in Ticks : Claim(w) \/ Fetch(w) \/ Start(w) \/ Finish(w) => G,
           \A w \in Ticks : updateStatus(w) \/ Lookup(w) \/ Open(w) \/ Submit(w) => G,
           \A w \in Ticks : Payout(w) \/ updateInstruction(w) \/ PendingRewards(w) => G,
           \A w \in Ticks : Mint(w) \/ RecordReward(w) \/ Catch(w) \/ GiveUp(w) => G,
           \A t \in Txs : create(t) \/ createReward(t) \/ cancel(t) \/ fail(t) => G,
           \A t \in Txs : PollOne(t) \/ BankDecides(t) \/ Expire(t) \/ Age(t) => G,
           \A t \in Txs : AdminStep(t) => G,
           PollSettlements => G,
           Crash => G,
           UNCHANGED vars => G
    PROVE  G
  <1>1. ASSUME NEW w \in Ticks, TickStep(w) PROVE G
    BY <1>1, Zenon DEF TickStep
  <1>2. ASSUME NEW t \in Txs, RowStep(t) PROVE G
    BY <1>2, Zenon DEF RowStep
  <1>3. Managed \subseteq Txs
    BY TransactionProcessorAssumption
  <1> QED  BY <1>1, <1>2, <1>3 DEF Next

\* An administrator writes the status of one reward, never with a hash, and
\* nothing else.
LEMMA AdminWrites ==
    ASSUME NEW t \in Txs, AdminStep(t)
    PROVE  /\ \E to \in RewardStatus \ {"MINTED"} : reward' = [reward EXCEPT ![t] = to]
           /\ UNCHANGED <<status, expired, request, recent, instruction, tickVars,
                          worldVars, polled, faults>>
BY DEF AdminStep, createManually, markMinted, reverse, WriteReward, RewardStatus,
       apiVars

-----------------------------------------------------------------------------
(* Type correctness.                                                       *)

\* Every step keeps the types.
LEMMA TypeStep == TypeOK /\ [Next]_vars => TypeOK'
  <1> SUFFICES ASSUME TypeOK, [Next]_vars PROVE TypeOK'
    OBVIOUS
  <1> USE TransactionProcessorAssumption
  <1>1. ASSUME NEW w \in Ticks, Claim(w) \/ Fetch(w) \/ Start(w) \/ Finish(w)
        PROVE  TypeOK'
    <2>1. CASE Claim(w)
      BY <2>1 DEF Claim, TypeOK, apiVars, worldVars, TransactionStatus, Stages
    <2>2. CASE Fetch(w)
      <3>1. Fetchable \in SUBSET Txs
        BY DEF Fetchable, TypeOK
      <3>2. CASE EndTick(w) /\ Fault(1)
        BY <2>2, <3>2, StageTypes DEF Fetch, EndTick, TypeOK, apiVars, worldVars
      <3>3. CASE ~ (EndTick(w) /\ Fault(1))
        <4>1. PICK fetched \in SUBSET Fetchable : batch' = [batch EXCEPT ![w] = fetched]
          BY <2>2, <3>3 DEF Fetch
        <4>2. batch' \in [Ticks -> SUBSET Txs]
          BY <3>1, <4>1 DEF TypeOK
        <4> QED
          BY <2>2, <3>3, <4>2, StageTypes DEF Fetch, TypeOK, apiVars, worldVars
      <3> QED  BY <2>2, <3>2, <3>3 DEF Fetch
    <2>3. CASE Start(w)
      <3>1. PICK t \in batch[w] :
               /\ batch' = [batch EXCEPT ![w] = @ \ {t}]
               /\ current' = [current EXCEPT ![w] = t]
        BY <2>3 DEF Start
      <3>2. t \in Txs
        BY <3>1 DEF TypeOK
      <3> QED
        BY <2>3, <3>1, <3>2, AfterStages, StageTypes
        DEF Start, TypeOK, apiVars, worldVars
    <2>4. CASE Finish(w)
      BY <2>4, StageTypes DEF Finish, EndTick, TypeOK, apiVars, worldVars
    <2> QED  BY <1>1, <2>1, <2>2, <2>3, <2>4
  <1>2. ASSUME NEW w \in Ticks, updateStatus(w) \/ Lookup(w) \/ Open(w) \/ Submit(w)
        PROVE  TypeOK'
    <2>1. CASE updateStatus(w)
      <3>1. stage[w] \in DOMAIN After
        BY <2>1, RecordsStatus, AfterStages DEF updateStatus
      <3>2. status' \in [Txs -> TransactionStatus \cup {"Absent"}]
        BY <2>1, RecordsStatus DEF updateStatus, TypeOK
      <3>3. \/ Goto(w, After[stage[w]]) /\ UNCHANGED faults
            \/ Goto(w, "catch") /\ Fault(1)
        BY <2>1, Zenon DEF updateStatus, Proceed, Throw
      <3> QED
        BY <2>1, <3>1, <3>2, <3>3, StageTypes
        DEF updateStatus, TypeOK, apiVars, worldVars
    <2>2. CASE Lookup(w)
      <3>1. "open" \in Stages
        BY AfterStages, StageTypes
      <3> QED
        BY <2>2, <3>1, StageTypes DEF Lookup, TypeOK, apiVars, worldVars
    <2>3. CASE Open(w)
      <3>1. /\ opened' \subseteq Txs
            /\ Goto(w, After[stage[w]]) \/ Goto(w, "catch")
            /\ UNCHANGED faults \/ Fault(1)
            /\ stage[w] \in DOMAIN After
        BY <2>3, AfterStages DEF Open, Proceed, Throw, TypeOK
      <3> QED
        BY <2>3, <3>1, StageTypes DEF Open, TypeOK, apiVars
    <2>4. CASE Submit(w)
      <3>1. PICK n \in 0..Submissions :
               /\ landed' = [landed EXCEPT ![current[w]] = @ + n]
               /\ \/ n > 0 /\ Goto(w, "routed") /\ Fault(n - 1)
                  \/ Goto(w, "catch") /\ Fault(IF n = 0 THEN 1 ELSE n)
        BY <2>4, Zenon DEF Submit
      <3>2. landed' \in [Txs -> Nat] /\ n \in Nat
        <4>1. n \in Nat
          BY DEF Submissions
        <4>2. \A t \in Txs : landed'[t] = landed[t] \/ landed'[t] = landed[t] + n
          BY <3>1 DEF TypeOK
        <4>3. DOMAIN landed' = Txs /\ landed' = [t \in Txs |-> landed'[t]]
          BY <3>1 DEF TypeOK
        <4>4. \A t \in Txs : landed'[t] \in Nat
          BY <4>1, <4>2 DEF TypeOK
        <4> QED  BY <4>1, <4>3, <4>4
      <3>3. faults' \in 0..MaxFaults
        BY <3>1, <3>2, StageTypes
      <3>4. "routed" \in Stages
        BY AfterStages, StageTypes
      <3> QED
        BY <2>4, <3>1, <3>2, <3>3, <3>4, StageTypes DEF Submit, TypeOK, apiVars
    <2> QED  BY <1>2, <2>1, <2>2, <2>3, <2>4
  <1>3. ASSUME NEW w \in Ticks, Payout(w) \/ updateInstruction(w) \/ PendingRewards(w)
        PROVE  TypeOK'
    <2>1. CASE Payout(w)
      <3>1. /\ payouts' \in [Txs -> Nat]
            /\ bank' \in [Txs -> {"none", "processing", "success", "rejected"}]
        BY <2>1 DEF Payout, TypeOK
      <3>2. /\ Goto(w, "reward") \/ Goto(w, After["payout"]) \/ Goto(w, "catch")
            /\ UNCHANGED faults \/ Fault(1)
        BY <2>1, Zenon DEF Payout, Proceed, Throw
      <3> QED
        BY <2>1, <3>1, <3>2, AfterStages, StageTypes DEF Payout, TypeOK, apiVars
    <2>2. CASE updateInstruction(w)
      <3>1. instruction' \in [Txs -> {"Absent", "PENDING", "SENT", "CONFIRMED", "FAILED"}]
        BY <2>2 DEF updateInstruction, TypeOK
      <3>2. /\ Goto(w, After[stage[w]]) \/ Goto(w, "catch")
            /\ UNCHANGED faults \/ Fault(1)
            /\ stage[w] \in {"sent", "confirm"}
        BY <2>2, Zenon DEF updateInstruction, Proceed, Throw
      <3> QED
        BY <2>2, <3>1, <3>2, AfterStages, StageTypes
        DEF updateInstruction, TypeOK, apiVars, worldVars
    <2>3. CASE PendingRewards(w)
      BY <2>3, AfterStages, StageTypes DEF PendingRewards, TypeOK, apiVars, worldVars
    <2> QED  BY <1>3, <2>1, <2>2, <2>3
  <1>4. ASSUME NEW w \in Ticks, Mint(w) \/ RecordReward(w) \/ Catch(w) \/ GiveUp(w)
        PROVE  TypeOK'
    <2>1. CASE Mint(w)
      <3>1. /\ minted' \subseteq Txs
            /\ Goto(w, "recordMinted") \/ Goto(w, "recordFailed")
            /\ UNCHANGED faults \/ Fault(1)
        BY <2>1 DEF Mint, TypeOK
      <3> QED
        BY <2>1, <3>1, AfterStages, StageTypes DEF Mint, TypeOK, apiVars
    <2>2. CASE RecordReward(w)
      <3>1. reward' \in [Txs -> RewardStatus \cup {"Absent"}]
        BY <2>2 DEF RecordReward, TypeOK, RewardStatus
      <3>2. \/ Goto(w, After[stage[w]]) /\ UNCHANGED faults
            \/ Goto(w, "recordFailed") /\ Fault(1)
            \/ Goto(w, "catch") /\ Fault(1)
        BY <2>2 DEF RecordReward, Proceed
      <3>3. stage[w] \in {"recordMinted", "recordFailed"}
        BY <2>2 DEF RecordReward
      <3> QED
        BY <2>2, <3>1, <3>2, <3>3, AfterStages, StageTypes
        DEF RecordReward, TypeOK, apiVars, worldVars
    <2>3. CASE Catch(w)
      <3>1. /\ stage' \in [Ticks -> Stages]
            /\ attempt' \in [Ticks -> 1..MAX_ATTEMPTS]
            /\ UNCHANGED <<batch, current>>
        BY <2>3, AfterStages, StageTypes DEF Catch, Proceed, Goto, TypeOK
      <3>2. faults' \in 0..MaxFaults
        BY <2>3, StageTypes DEF Catch, Proceed, TypeOK
      <3>3. status' \in [Txs -> TransactionStatus \cup {"Absent"}]
        BY <2>3 DEF Catch, TypeOK, TransactionStatus
      <3> QED
        BY <2>3, <3>1, <3>2, <3>3 DEF Catch, TypeOK, apiVars, worldVars
    <2>4. CASE GiveUp(w)
      <3>1. CASE EndTick(w) /\ Fault(1) /\ UNCHANGED status
        BY <2>4, <3>1, StageTypes DEF GiveUp, EndTick, TypeOK, apiVars, worldVars
      <3>2. CASE status' = [status EXCEPT ![current[w]] = "FAILED"] /\ Proceed(w)
        <4>1. Goto(w, After["giveUp"]) /\ UNCHANGED faults
          BY <2>4, <3>2, Zenon DEF GiveUp, Proceed
        <4>2. status' \in [Txs -> TransactionStatus \cup {"Absent"}]
          BY <3>2 DEF TypeOK, TransactionStatus
        <4>3. "next" \in Stages
          BY StageTypes
        <4> QED
          BY <2>4, <4>1, <4>2, <4>3, AfterStages, StageTypes
          DEF GiveUp, TypeOK, apiVars, worldVars
      <3> QED  BY <2>4, <3>1, <3>2, Zenon DEF GiveUp
    <2> QED  BY <1>4, <2>1, <2>2, <2>3, <2>4
  <1>5. ASSUME NEW t \in Txs, create(t) \/ createReward(t) \/ cancel(t) \/ fail(t)
        PROVE  TypeOK'
    BY <1>5 DEF create, createReward, cancel, fail, Check, Write, TypeOK,
       TransactionStatus, RewardStatus, tickVars, worldVars
  <1>6. ASSUME NEW t \in Txs, PollOne(t) \/ BankDecides(t) \/ Expire(t) \/ Age(t)
        PROVE  TypeOK'
    BY <1>6, Fault(1) => faults' \in 0..MaxFaults
    DEF PollOne, BankDecides, Expire, Age, Fault, TypeOK, apiVars, tickVars, worldVars
  <1>7. ASSUME PollSettlements PROVE TypeOK'
    BY <1>7 DEF PollSettlements, TypeOK, apiVars, tickVars, worldVars
  <1>8. ASSUME Crash PROVE TypeOK'
    BY <1>8 DEF Crash, Fault, Stages, TypeOK, worldVars
  <1>9. ASSUME UNCHANGED vars PROVE TypeOK'
    BY <1>9 DEF TypeOK, vars
  <1>10. ASSUME NEW t \in Txs, AdminStep(t) PROVE TypeOK'
    BY <1>10, AdminWrites DEF TypeOK, RewardStatus, tickVars, worldVars
  <1> QED
    BY <1>1, <1>2, <1>3, <1>4, <1>5, <1>6, <1>7, <1>8, <1>9, <1>10, StepCases

\* The processor's state keeps its types, for every set of rows, of ticks and of
\* merchants and payers, and every bound on attempts and faults.
THEOREM TypeCorrect == Spec => []TypeOK
  <1>1. Init => TypeOK
    BY TransactionProcessorAssumption DEF Init, TypeOK, Stages
  <1> QED  BY <1>1, TypeStep, PTL DEF Spec

-----------------------------------------------------------------------------
(* The inductive invariant.                                                *)

Paid == {"REWARDING", "COMPLETED"}

\* Where a step leaves a tick: outside the stretch beyond create_payment, or
\* further along it on the same row with no payment in between.
Onward(w) ==
    \/ stage'[w] \notin Through
    \/ /\ stage[w] \in Through
       /\ current'[w] = current[w]
       /\ stage'[w] \in BeforeSubmit => stage[w] \in BeforeSubmit
       /\ stage'[w] \in BeforePayout => stage[w] \in BeforePayout
       /\ stage'[w] \in AfterSubmit => stage[w] \in AfterSubmit
       /\ stage'[w] \in AfterPayout /\ current[w] \in WithVpa => stage[w] \in AfterPayout

\* A step that makes no payment preserves the invariant, if it marks a row as
\* paid only when some tick has paid for it.
LEMMA NoPaymentStep ==
    ASSUME IInv, TypeOK',
           UNCHANGED <<opened, landed, payouts>>,
           faults' >= faults,
           \A w \in Ticks : Onward(w),
           \A t \in Txs : status'[t] \in Paid =>
               status[t] \in Paid \/ \E w \in Ticks : At(w, t, AfterPayout)
    PROVE  IInv'
  <1>1. OneThrough'
    BY DEF IInv, OneThrough, At, Onward
  <1>2. ThroughIsOpened'
    BY DEF IInv, ThroughIsOpened, At, Onward
  <1>3. UnopenedIsUnpaid'
    BY DEF IInv, UnopenedIsUnpaid
  <1>4. NotYetPaid'
    BY DEF IInv, NotYetPaid, At, Onward, BeforePayout, Through, AfterSubmit
  <1>5. AlreadyPaid'
    BY DEF IInv, AlreadyPaid, At, Onward, Through, AfterSubmit
  <1>6. PaidAtMostOnce'
    BY DEF IInv, PaidAtMostOnce, TypeOK
  <1>7. CompletedMeansPaid'
    <2> SUFFICES ASSUME NEW t \in Txs, status'[t] \in Paid
                 PROVE  landed[t] > 0 /\ (t \in WithVpa => payouts[t] > 0)
      BY DEF CompletedMeansPaid, Paid
    <2>1. CASE status[t] \in Paid
      BY <2>1 DEF IInv, CompletedMeansPaid, Paid
    <2>2. CASE \E w \in Ticks : At(w, t, AfterPayout)
      BY <2>2 DEF IInv, AlreadyPaid, At, AfterSubmit
    <2> QED  BY <2>1, <2>2
  <1> QED  BY <1>1, <1>2, <1>3, <1>4, <1>5, <1>6, <1>7 DEF IInv

\* A tick that moves moves alone.
LEMMA OneMoves ==
    ASSUME TypeOK, NEW w \in Ticks, NEW s, Goto(w, s)
    PROVE  /\ stage'[w] = s
           /\ current' = current
           /\ \A v \in Ticks \ {w} : stage'[v] = stage[v] /\ Onward(v)
           /\ s \notin Through => Onward(w)
  <1>1. /\ stage'[w] = s
        /\ current' = current
        /\ \A v \in Ticks \ {w} : stage'[v] = stage[v]
    BY DEF Goto, TypeOK
  <1> QED  BY <1>1 DEF Onward, Through, BeforePayout, AfterSubmit

\* A tick that ends ends alone.
LEMMA OneEnds ==
    ASSUME TypeOK, NEW w \in Ticks, EndTick(w)
    PROVE  \A v \in Ticks : Onward(v)
  <1>1. /\ stage'[w] = "idle"
        /\ \A v \in Ticks \ {w} : stage'[v] = stage[v] /\ current'[v] = current[v]
    BY DEF EndTick, TypeOK
  <1> QED
    BY <1>1 DEF Onward, Through, BeforeSubmit, BeforePayout, AfterSubmit, AfterPayout

\* The steps of a tick outside the stretch beyond create_payment.
LEMMA OutsideStep ==
    ASSUME IInv, TypeOK', NEW w \in Ticks,
           Claim(w) \/ Fetch(w) \/ Start(w) \/ Finish(w) \/ Lookup(w) \/ Catch(w) \/ GiveUp(w)
    PROVE  IInv'
  <1> USE DEF IInv
  <1>1. UNCHANGED <<opened, landed, payouts>>
    BY DEF Claim, Fetch, Start, Finish, Lookup, Catch, GiveUp, worldVars
  <1>2. faults' >= faults
    BY DEF Claim, Fetch, Start, Finish, Lookup, Catch, GiveUp, Proceed, Fault, TypeOK
  <1>3. \A t \in Txs : status'[t] \in Paid => status[t] \in Paid
    BY DEF Claim, Fetch, Start, Finish, Lookup, Catch, GiveUp, TypeOK, Paid
  <1>4. ASSUME NEW v \in Ticks PROVE Onward(v)
    <2>1. CASE EndTick(w)
      BY <2>1, OneEnds
    <2>2. CASE \E s \in {"catch", "open", "next"} : Goto(w, s)
      BY <2>2, OneMoves DEF Through, BeforeSubmit, BeforePayout, AfterSubmit, AfterPayout
    <2>3. CASE /\ \E s \in {"fetch", "next", "authorize", "giveUp"} :
                     stage' = [stage EXCEPT ![w] = s]
               /\ \A u \in Ticks \ {w} : current'[u] = current[u]
      BY <2>3 DEF TypeOK, Onward, Through, BeforeSubmit, BeforePayout, AfterSubmit,
                  AfterPayout
    <2>4. Claim(w) \/ Start(w) =>
             /\ \E s \in {"fetch", "authorize"} : stage' = [stage EXCEPT ![w] = s]
             /\ \A u \in Ticks \ {w} : current'[u] = current[u]
      BY DEF Claim, Start, TypeOK
    <2>5. Fetch(w) => \/ EndTick(w)
                      \/ stage' = [stage EXCEPT ![w] = "next"] /\ current' = current
      BY Zenon DEF Fetch
    <2>6. Finish(w) => EndTick(w)
      BY Zenon DEF Finish
    <2>7. Lookup(w) => Goto(w, "catch") \/ Goto(w, "open")
      BY Zenon DEF Lookup
    <2>8. GiveUp(w) => EndTick(w) \/ Goto(w, "next")
      BY AfterStages, Zenon DEF GiveUp, Proceed
    <2>9. Catch(w) =>
             \/ Goto(w, "next")
             \/ /\ \E s \in {"authorize", "giveUp"} : stage' = [stage EXCEPT ![w] = s]
                /\ current' = current
      BY AfterStages DEF Catch, Proceed
    <2> QED  BY <2>1, <2>2, <2>3, <2>4, <2>5, <2>6, <2>7, <2>8, <2>9
  <1> QED  BY <1>1, <1>2, <1>3, <1>4, NoPaymentStep

\* The steps within the stretch that make no payment.
LEMMA ThroughStep ==
    ASSUME IInv, TypeOK', NEW w \in Ticks,
           \/ updateStatus(w) \/ updateInstruction(w) \/ PendingRewards(w)
           \/ Mint(w) \/ RecordReward(w)
    PROVE  IInv'
  <1> USE DEF IInv
  <1> DEFINE Stretch == {"catch", "lookup"} \cup Through
  <1>1. UNCHANGED <<opened, landed, payouts>>
    BY DEF updateStatus, updateInstruction, PendingRewards, Mint, RecordReward, worldVars
  <1>2. faults' >= faults
    BY DEF updateStatus, updateInstruction, PendingRewards, Mint, RecordReward, Proceed,
           Throw, Fault, TypeOK
  <1>3. ASSUME NEW t \in Txs, status'[t] \in Paid
        PROVE  status[t] \in Paid \/ \E v \in Ticks : At(v, t, AfterPayout)
    <2>1. CASE status' = status
      BY <1>3, <2>1
    <2>2. CASE updateStatus(w) /\ status' = [status EXCEPT ![current[w]] = Records[stage[w]]]
      <3>1. \A s \in DOMAIN Records : Records[s] \in Paid => s \in AfterPayout
        BY DEF Records, Paid, AfterPayout
      <3>2. stage[w] \in DOMAIN Records
        BY <2>2 DEF updateStatus
      <3>3. CASE t = current[w]
        BY <1>3, <2>2, <3>1, <3>2, <3>3 DEF TypeOK, At
      <3>4. CASE t # current[w]
        BY <1>3, <2>2, <3>4 DEF TypeOK
      <3> QED  BY <3>3, <3>4
    <2> QED
      BY <2>1, <2>2
      DEF updateStatus, updateInstruction, PendingRewards, Mint, RecordReward
  <1>4. \/ Goto(w, "catch")
        \/ stage[w] = "authorize" /\ Goto(w, "lookup")
        \/ stage[w] = "quote" /\ Goto(w, "convert")
        \/ stage[w] = "convert" /\ Goto(w, "route")
        \/ stage[w] = "route" /\ Goto(w, "submit")
        \/ stage[w] = "routed" /\ Goto(w, "settle")
        \/ stage[w] = "settle" /\ Goto(w, "payout")
        \/ stage[w] \in AfterPayout /\ \E s \in AfterPayout \cup {"next"} : Goto(w, s)
    <2>1. CASE updateStatus(w)
      <3>1. Goto(w, "catch") \/ Goto(w, After[stage[w]])
        BY <2>1, Zenon DEF updateStatus, Proceed, Throw
      <3>2. stage[w] \in DOMAIN Records
        BY <2>1 DEF updateStatus
      <3> QED  BY <3>1, <3>2, RecordsStatus, AfterStages DEF AfterPayout
    <2>2. CASE updateInstruction(w)
      <3>1. Goto(w, "catch") \/ Goto(w, After[stage[w]])
        BY <2>2, Zenon DEF updateInstruction, Proceed, Throw
      <3>2. stage[w] \in {"sent", "confirm"}
        BY <2>2 DEF updateInstruction
      <3> QED  BY <3>1, <3>2, AfterStages DEF AfterPayout
    <2>3. CASE PendingRewards(w)
      BY <2>3 DEF PendingRewards, AfterPayout
    <2>4. CASE Mint(w)
      <3>1. Goto(w, "recordMinted") \/ Goto(w, "recordFailed")
        BY <2>4, Zenon DEF Mint
      <3> QED  BY <2>4, <3>1 DEF Mint, AfterPayout
    <2>5. CASE RecordReward(w)
      <3>1. \/ Goto(w, "catch") \/ Goto(w, "recordFailed")
            \/ Goto(w, After[stage[w]])
        BY <2>5 DEF RecordReward, Proceed
      <3>2. stage[w] \in {"recordMinted", "recordFailed"}
        BY <2>5 DEF RecordReward
      <3> QED  BY <3>1, <3>2, AfterStages DEF AfterPayout
    <2> QED  BY <2>1, <2>2, <2>3, <2>4, <2>5
  <1>5. Onward(w)
    BY <1>4, OneMoves DEF Onward, Through, BeforeSubmit, BeforePayout, AfterSubmit,
                          AfterPayout
  <1>6. ASSUME NEW v \in Ticks \ {w} PROVE Onward(v)
    BY <1>4, OneMoves
  <1> QED  BY <1>1, <1>2, <1>3, <1>5, <1>6, NoPaymentStep

\* The answer of create_payment: from here on the row is this tick's.
LEMMA OpenStep ==
    ASSUME IInv, TypeOK', NEW w \in Ticks, Open(w)
    PROVE  IInv'
  <1> USE DEF IInv
  <1>1. /\ UNCHANGED <<landed, payouts, status>>
        /\ faults' >= faults
    BY DEF Open, Proceed, Throw, Fault, TypeOK
  <1>2. Goto(w, "catch") \/ (opened' = opened \cup {current[w]} /\ Goto(w, "quote"))
    BY AfterStages DEF Open, Proceed, Throw
  <1>3. /\ opened' = opened \/ opened' = opened \cup {current[w]}
        /\ stage'[w] = "quote" => current[w] \notin opened
    <2>1. stage'[w] = "quote" => ~ Goto(w, "catch")
      BY OneMoves
    <2> QED  BY <2>1 DEF Open, Throw
  <1>4. CASE opened' = opened
    <2>1. Goto(w, "catch")
      BY <1>4, <1>2 DEF Open, Throw
    <2>2. \A v \in Ticks : Onward(v)
      BY <2>1, OneMoves DEF Through, BeforeSubmit, BeforePayout, AfterSubmit, AfterPayout
    <2> QED  BY <1>1, <1>4, <2>2, NoPaymentStep
  <1>5. CASE opened' = opened \cup {current[w]} /\ current[w] \notin opened
    <2>1. \A v \in Ticks, t \in Txs : At(v, t, Through)' =>
             \/ At(v, t, Through)
             \/ v = w /\ t = current[w] /\ stage'[w] = "quote"
      BY <1>2, OneMoves DEF At, Through, BeforeSubmit, BeforePayout, AfterSubmit, AfterPayout
    <2>2. \A v \in Ticks \ {w} : stage'[v] = stage[v]
      BY <1>2, OneMoves
    <2>3. stage'[w] \in {"catch", "quote"} /\ current' = current
      BY <1>2, OneMoves
    <2>4. OneThrough'
      BY <2>1, <1>5 DEF OneThrough, ThroughIsOpened
    <2>5. ThroughIsOpened'
      BY <2>1, <1>5 DEF ThroughIsOpened
    <2>6. UnopenedIsUnpaid'
      BY <1>1, <1>5 DEF UnopenedIsUnpaid
    <2>7. NotYetPaid'
      BY <1>1, <1>5, <2>2, <2>3
      DEF NotYetPaid, UnopenedIsUnpaid, At, BeforePayout, BeforeSubmit
    <2>8. AlreadyPaid'
      BY <1>1, <2>2, <2>3 DEF AlreadyPaid, At, AfterSubmit, AfterPayout
    <2>9. PaidAtMostOnce' /\ CompletedMeansPaid'
      BY <1>1, <1>5 DEF PaidAtMostOnce, CompletedMeansPaid, TypeOK
    <2> QED  BY <2>4, <2>5, <2>6, <2>7, <2>8, <2>9
  <1> QED  BY <1>3, <1>4, <1>5 DEF Open

\* The Stellar payment: the first for its row, but for the retries of its policy.
LEMMA SubmitStep ==
    ASSUME IInv, TypeOK', NEW w \in Ticks, Submit(w)
    PROVE  IInv'
  <1> USE DEF IInv
  <1>1. PICK n \in 0..Submissions :
           /\ landed' = [landed EXCEPT ![current[w]] = @ + n]
           /\ \/ n > 0 /\ Goto(w, "routed") /\ Fault(n - 1)
              \/ Goto(w, "catch") /\ Fault(IF n = 0 THEN 1 ELSE n)
    BY Zenon DEF Submit
  <1>2. n \in Nat
    BY DEF Submissions
  <1>3. UNCHANGED <<opened, payouts, status>> /\ stage[w] = "submit"
    BY DEF Submit
  <1>4. /\ stage'[w] \in {"routed", "catch"} /\ current' = current
        /\ stage'[w] = "routed" => n > 0
        /\ \A v \in Ticks \ {w} : stage'[v] = stage[v]
    BY <1>1, OneMoves
  <1>5. faults' >= faults /\ faults' >= faults + n - 1
    BY <1>1, <1>2 DEF Fault, TypeOK
  <1>6. \A t \in Txs : landed'[t] = IF t = current[w] THEN n ELSE landed[t]
    <2>1. \A t \in Txs : t = current[w] => landed[t] = 0
      BY <1>3 DEF NotYetPaid, At, BeforeSubmit
    <2> QED  BY <1>1, <1>2, <2>1 DEF TypeOK
  <1>7. \A t \in Txs : t = current[w] => t \in opened
    BY <1>3 DEF ThroughIsOpened, At, Through, BeforeSubmit
  <1>8. \A t \in Txs : t = current[w] =>
           \A v \in Ticks \ {w} : ~ At(v, t, Through)
    BY <1>3 DEF OneThrough, At, Through, BeforeSubmit
  <1>9. \A v \in Ticks, t \in Txs : At(v, t, Through)' => At(v, t, Through)
    BY <1>3, <1>4 DEF At, Through, BeforeSubmit
  <1>10. OneThrough' /\ ThroughIsOpened'
    BY <1>3, <1>9 DEF OneThrough, ThroughIsOpened
  <1>11. UnopenedIsUnpaid'
    BY <1>3, <1>6, <1>7 DEF UnopenedIsUnpaid
  <1>12. NotYetPaid'
    BY <1>3, <1>4, <1>6, <1>8
    DEF NotYetPaid, At, Through, BeforePayout, BeforeSubmit
  <1>13. AlreadyPaid'
    BY <1>2, <1>3, <1>4, <1>6, <1>8
    DEF AlreadyPaid, At, Through, AfterSubmit, AfterPayout
  <1>14. PaidAtMostOnce'
    BY <1>2, <1>3, <1>5, <1>6, <1>7 DEF PaidAtMostOnce, TypeOK
  <1>15. CompletedMeansPaid'
    <2>1. \A t \in Txs : landed[t] > 0 => landed'[t] > 0
      BY <1>3, <1>6 DEF NotYetPaid, At, BeforeSubmit
    <2> QED  BY <1>3, <2>1 DEF CompletedMeansPaid
  <1> QED  BY <1>10, <1>11, <1>12, <1>13, <1>14, <1>15

\* The UPI payout: the only one for its row.
LEMMA PayoutStep ==
    ASSUME IInv, TypeOK', NEW w \in Ticks, Payout(w)
    PROVE  IInv'
  <1> USE DEF IInv
  <1>1. /\ UNCHANGED <<opened, landed, status>> /\ stage[w] = "payout"
        /\ faults' >= faults
    BY DEF Payout, Proceed, Throw, Fault, TypeOK
  <1>2. CASE /\ UNCHANGED payouts
             /\ \/ current[w] \notin WithVpa /\ Goto(w, "reward")
                \/ Goto(w, "catch")
    <2>1. \A v \in Ticks : Onward(v)
      BY <1>1, <1>2, OneMoves
      DEF Onward, Through, BeforeSubmit, BeforePayout, AfterSubmit, AfterPayout
    <2> QED  BY <1>1, <1>2, <2>1, NoPaymentStep
  <1>3. CASE /\ payouts' = [payouts EXCEPT ![current[w]] = @ + 1]
             /\ current[w] \in Txs
             /\ Goto(w, "sent") \/ Goto(w, "catch")
    <2>1. /\ stage'[w] \in {"sent", "catch"} /\ current' = current
          /\ \A v \in Ticks \ {w} : stage'[v] = stage[v]
      BY <1>3, OneMoves
    <2>2. At(w, current[w], BeforePayout) /\ At(w, current[w], AfterSubmit)
      BY <1>1 DEF At, BeforePayout, AfterSubmit
    <2>3. payouts[current[w]] = 0 /\ current[w] \in opened /\ landed[current[w]] > 0
      BY <1>3, <2>2 DEF NotYetPaid, AlreadyPaid, ThroughIsOpened, At, Through
    <2>4. \A t \in Txs : payouts'[t] = IF t = current[w] THEN 1 ELSE payouts[t]
      BY <1>3, <2>3 DEF TypeOK
    <2>5. \A v \in Ticks \ {w} : ~ At(v, current[w], Through)
      BY <1>3, <2>2 DEF OneThrough, At, Through
    <2>6. \A v \in Ticks, t \in Txs : At(v, t, Through)' => At(v, t, Through)
      BY <2>1, <2>2 DEF At, Through
    <2>7. OneThrough' /\ ThroughIsOpened'
      BY <1>1, <2>6 DEF OneThrough, ThroughIsOpened
    <2>8. UnopenedIsUnpaid'
      BY <1>1, <2>3, <2>4 DEF UnopenedIsUnpaid
    <2>9. NotYetPaid'
      BY <1>1, <2>1, <2>4, <2>5
      DEF NotYetPaid, At, Through, BeforePayout, BeforeSubmit, AfterSubmit
    <2>10. AlreadyPaid'
      BY <1>1, <2>1, <2>3, <2>4, <2>5
      DEF AlreadyPaid, At, Through, AfterSubmit, AfterPayout
    <2>11. PaidAtMostOnce' /\ CompletedMeansPaid'
      BY <1>1, <2>3, <2>4 DEF PaidAtMostOnce, CompletedMeansPaid, TypeOK
    <2> QED  BY <2>7, <2>8, <2>9, <2>10, <2>11
  <1> QED
    <2>1. WithVpa \subseteq Txs
      BY TransactionProcessorAssumption
    <2> QED  BY <1>2, <1>3, <2>1, AfterStages DEF Payout, Proceed, Throw

-----------------------------------------------------------------------------
\* Every step keeps the inductive invariant.
LEMMA IInvStep == IInv /\ [Next]_vars => IInv'
  <1> SUFFICES ASSUME IInv, [Next]_vars PROVE IInv'
    OBVIOUS
  <1>0. TypeOK'
    BY TypeStep DEF IInv
  <1>1. ASSUME NEW w \in Ticks, Claim(w) \/ Fetch(w) \/ Start(w) \/ Finish(w)
        PROVE  IInv'
    BY <1>0, <1>1, OutsideStep, Zenon
  <1>2. ASSUME NEW w \in Ticks, updateStatus(w) \/ Lookup(w) \/ Open(w) \/ Submit(w)
        PROVE  IInv'
    BY <1>0, <1>2, OutsideStep, ThroughStep, OpenStep, SubmitStep, Zenon
  <1>3. ASSUME NEW w \in Ticks, Payout(w) \/ updateInstruction(w) \/ PendingRewards(w)
        PROVE  IInv'
    BY <1>0, <1>3, PayoutStep, ThroughStep, Zenon
  <1>4. ASSUME NEW w \in Ticks, Mint(w) \/ RecordReward(w) \/ Catch(w) \/ GiveUp(w)
        PROVE  IInv'
    BY <1>0, <1>4, ThroughStep, OutsideStep, Zenon
  <1>5. ASSUME UNCHANGED <<tickVars, opened, landed, payouts>>, faults' >= faults,
               \A t \in Txs : status'[t] \in Paid => status[t] \in Paid
        PROVE  IInv'
    <2>1. \A w \in Ticks : Onward(w)
      BY <1>5 DEF tickVars, Onward, Through, BeforePayout, AfterSubmit
    <2> QED  BY <1>0, <1>5, <2>1, NoPaymentStep
  <1>6. faults \in Nat
    BY TransactionProcessorAssumption DEF IInv, TypeOK
  <1>7. ASSUME NEW t \in Txs, create(t) \/ createReward(t) \/ cancel(t) \/ fail(t)
        PROVE  IInv'
    BY <1>5, <1>6, <1>7
    DEF create, createReward, cancel, fail, Check, Write, worldVars, IInv, TypeOK, Paid
  <1>8. ASSUME NEW t \in Txs, PollOne(t) \/ BankDecides(t) \/ Expire(t) \/ Age(t)
        PROVE  IInv'
    BY <1>5, <1>6, <1>8 DEF PollOne, BankDecides, Expire, Age, Fault, worldVars
  <1>9. ASSUME PollSettlements PROVE IInv'
    BY <1>5, <1>6, <1>9 DEF PollSettlements, worldVars
  <1>10. ASSUME Crash PROVE IInv'
    <2>1. \A w \in Ticks : Onward(w)
      BY <1>10 DEF Crash, Onward, Through, BeforeSubmit, BeforePayout, AfterSubmit,
                   AfterPayout
    <2> QED  BY <1>0, <1>6, <1>10, <2>1, NoPaymentStep DEF Crash, Fault, worldVars
  <1>11. ASSUME UNCHANGED vars PROVE IInv'
    BY <1>5, <1>6, <1>11 DEF vars, tickVars
  <1>12. ASSUME NEW t \in Txs, AdminStep(t) PROVE IInv'
    BY <1>5, <1>6, <1>12, AdminWrites DEF worldVars
  <1> QED
    BY <1>1, <1>2, <1>3, <1>4, <1>7, <1>8, <1>9, <1>10, <1>11, <1>12, StepCases, Zenon

\* No row reaches create_payment's answer before a tick takes it there.
LEMMA IInvInit == Init => IInv
  <1> SUFFICES ASSUME Init PROVE IInv
    OBVIOUS
  <1>1. TypeOK
    BY TransactionProcessorAssumption DEF Init, TypeOK, Stages
  <1>2. \A w \in Ticks, t \in Txs : ~ At(w, t, Through)
    BY DEF Init, At, Through, BeforeSubmit, BeforePayout, AfterSubmit, AfterPayout
  <1>3. OneThrough /\ ThroughIsOpened /\ NotYetPaid /\ AlreadyPaid
    BY <1>2 DEF OneThrough, ThroughIsOpened, NotYetPaid, AlreadyPaid, At, Through,
                BeforePayout, AfterSubmit
  <1>4. UnopenedIsUnpaid /\ PaidAtMostOnce /\ CompletedMeansPaid
    BY DEF Init, UnopenedIsUnpaid, PaidAtMostOnce, CompletedMeansPaid
  <1> QED  BY <1>1, <1>3, <1>4 DEF IInv

\* However many ticks overlap, and however often they retry and die, no row is
\* paid out twice, and a Stellar payment is repeated only after a lost answer.
THEOREM PaidOnce == Spec => []PaidAtMostOnce
  <1>1. IInv => PaidAtMostOnce
    BY DEF IInv
  <1> QED  BY <1>1, IInvInit, IInvStep, PTL DEF Spec

\* No row is REWARDING or COMPLETED before both of its payments are made.
THEOREM PaidFirst == Spec => []CompletedMeansPaid
  <1>1. IInv => CompletedMeansPaid
    BY DEF IInv
  <1> QED  BY <1>1, IInvInit, IInvStep, PTL DEF Spec

-----------------------------------------------------------------------------
(* The record of the reward.                                               *)

\* What a tick is about to record as minted is minted.
AboutToRecord ==
    \A t \in WithWallet : \A w \in Ticks : At(w, t, {"recordMinted"}) => t \in minted

RInv == TypeOK /\ AboutToRecord /\ RewardRecordIsTrue

\* Every step keeps the record of rewards true: only Mint leads to recordMinted.
LEMMA RInvStep == RInv /\ [Next]_vars => RInv'
  <1> SUFFICES ASSUME RInv, [Next]_vars PROVE RInv'
    OBVIOUS
  <1> USE DEF RInv
  <1>0. TypeOK' /\ WithWallet \subseteq Txs
    BY TypeStep, TransactionProcessorAssumption
  <1> DEFINE
        Records1 == \A t \in Txs : reward'[t] = "MINTED" =>
            reward[t] = "MINTED" \/ \E w \in Ticks : At(w, t, {"recordMinted"})
        Comes1 == \A w \in Ticks : stage'[w] = "recordMinted" =>
            stage[w] = "recordMinted" /\ current'[w] = current[w]
  <1>1. ASSUME minted \subseteq minted', Records1, Comes1 \/ \E w \in Ticks : Mint(w)
        PROVE  RInv'
    <2>1. ASSUME NEW t \in WithWallet, NEW v \in Ticks, At(v, t, {"recordMinted"})'
          PROVE  t \in minted'
      <3>1. CASE stage[v] = "recordMinted" /\ current'[v] = current[v]
        BY <1>1, <2>1, <3>1 DEF AboutToRecord, At
      <3>2. CASE \E w \in Ticks : Mint(w)
        <4>1. PICK w \in Ticks : Mint(w)
          BY <3>2
        <4>2. Goto(w, "recordMinted") \/ Goto(w, "recordFailed")
          BY <4>1, Zenon DEF Mint
        <4>3. CASE v = w
          <5>1. Goto(w, "recordMinted") /\ ~ Goto(w, "recordFailed")
            BY <2>1, <4>2, <4>3, OneMoves DEF At
          <5>2. current[w] = t
            BY <2>1, <4>3, <5>1 DEF Goto, At
          <5> QED  BY <4>1, <5>1, <5>2 DEF Mint
        <4>4. CASE v # w
          <5>1. stage'[v] = stage[v] /\ current'[v] = current[v]
            BY <4>2, <4>4, OneMoves
          <5> QED  BY <1>1, <2>1, <5>1 DEF AboutToRecord, At
        <4> QED  BY <4>3, <4>4
      <3> QED  BY <1>1, <2>1, <3>1, <3>2 DEF At
    <2>2. RewardRecordIsTrue'
      BY <1>0, <1>1 DEF RewardRecordIsTrue, AboutToRecord
    <2> QED  BY <1>0, <2>1, <2>2 DEF AboutToRecord
  <1>2. ASSUME NEW w \in Ticks, Claim(w) \/ Fetch(w) \/ Start(w) \/ Finish(w)
        PROVE  RInv'
    BY <1>1, <1>2
    DEF Claim, Fetch, Start, Finish, EndTick, TypeOK, worldVars
  <1>3. ASSUME NEW w \in Ticks, updateStatus(w) \/ Lookup(w) \/ Open(w) \/ Submit(w)
        PROVE  RInv'
    <2>1. minted' = minted /\ reward' = reward
      BY <1>3 DEF updateStatus, Lookup, Open, Submit, worldVars
    <2>2. PICK s : Goto(w, s) /\ s # "recordMinted"
      <3>1. CASE updateStatus(w)
        <4>1. Goto(w, "catch") \/ Goto(w, After[stage[w]])
          BY <3>1, Zenon DEF updateStatus, Proceed, Throw
        <4>2. stage[w] \in DOMAIN Records
          BY <3>1 DEF updateStatus
        <4> QED  BY <4>1, <4>2, RecordsStatus, AfterStages
      <3>2. CASE Lookup(w) \/ Open(w) \/ Submit(w)
        <4>1. \/ Goto(w, "catch") \/ Goto(w, "open") \/ Goto(w, "routed")
              \/ stage[w] = "open" /\ Goto(w, After[stage[w]])
          BY <3>2, Zenon DEF Lookup, Open, Submit, Proceed, Throw
        <4> QED  BY <4>1, AfterStages
      <3> QED  BY <1>3, <3>1, <3>2
    <2>3. Comes1
      BY <2>2, OneMoves
    <2> QED  BY <1>1, <2>1, <2>3
  <1>4. ASSUME NEW w \in Ticks, Payout(w) \/ updateInstruction(w) \/ PendingRewards(w)
        PROVE  RInv'
    <2>1. minted' = minted /\ reward' = reward
      BY <1>4 DEF Payout, updateInstruction, PendingRewards, worldVars
    <2>2. PICK s : Goto(w, s) /\ s # "recordMinted"
      <3>1. \/ Goto(w, "catch") \/ Goto(w, "reward") \/ Goto(w, "mint")
            \/ Goto(w, "rewarded")
            \/ stage[w] \in {"payout", "sent", "confirm"} /\ Goto(w, After[stage[w]])
        BY <1>4 DEF Payout, updateInstruction, PendingRewards, Proceed, Throw
      <3> QED  BY <3>1, AfterStages
    <2>3. Comes1
      BY <2>2, OneMoves
    <2> QED  BY <1>1, <2>1, <2>3
  <1>5. ASSUME NEW w \in Ticks, Mint(w) PROVE RInv'
    <2>1. minted \subseteq minted' /\ reward' = reward
      BY <1>5 DEF Mint
    <2> QED  BY <1>1, <1>5, <2>1
  <1>6. ASSUME NEW w \in Ticks, RecordReward(w) PROVE RInv'
    <2>1. minted' = minted
      BY <1>6 DEF RecordReward, worldVars
    <2>2. PICK s : Goto(w, s) /\ s # "recordMinted"
      <3>1. \/ Goto(w, "catch") \/ Goto(w, "recordFailed")
            \/ stage[w] \in {"recordMinted", "recordFailed"} /\ Goto(w, After[stage[w]])
        BY <1>6 DEF RecordReward, Proceed
      <3> QED  BY <3>1, AfterStages
    <2>3. Comes1
      BY <2>2, OneMoves
    <2>4. Records1
      BY <1>6 DEF RecordReward, At, TypeOK
    <2> QED  BY <1>1, <2>1, <2>3, <2>4
  <1>7. ASSUME NEW w \in Ticks, Catch(w) \/ GiveUp(w) PROVE RInv'
    <2>1. minted' = minted /\ reward' = reward
      BY <1>7 DEF Catch, GiveUp, worldVars
    <2>2. \A v \in Ticks : stage'[v] = "recordMinted" =>
             stage[v] = "recordMinted" /\ current'[v] = current[v]
      BY <1>7, AfterStages DEF Catch, GiveUp, Proceed, Goto, EndTick, TypeOK
    <2> QED  BY <1>1, <2>1, <2>2
  <1>8. ASSUME NEW t \in Txs, create(t) \/ createReward(t) \/ cancel(t) \/ fail(t)
        PROVE  RInv'
    BY <1>1, <1>8 DEF create, createReward, cancel, fail, Check, Write, TypeOK, tickVars,
                      worldVars
  <1>9. ASSUME NEW t \in Txs, PollOne(t) \/ BankDecides(t) \/ Expire(t) \/ Age(t)
        PROVE  RInv'
    BY <1>1, <1>9 DEF PollOne, BankDecides, Expire, Age, tickVars, worldVars
  <1>10. ASSUME PollSettlements PROVE RInv'
    BY <1>1, <1>10 DEF PollSettlements, tickVars, worldVars
  <1>11. ASSUME Crash PROVE RInv'
    BY <1>1, <1>11 DEF Crash, worldVars
  <1>12. ASSUME UNCHANGED vars PROVE RInv'
    BY <1>1, <1>12 DEF vars
  <1>13. ASSUME NEW t \in Txs, AdminStep(t) PROVE RInv'
    <2>1. UNCHANGED <<minted, stage, current>> /\ Comes1
      BY <1>13, AdminWrites DEF tickVars, worldVars
    <2>2. Records1
      BY <1>13, AdminWrites DEF TypeOK
    <2> QED  BY <1>1, <2>1, <2>2
  <1> QED
    BY <1>2, <1>3, <1>4, <1>5, <1>6, <1>7, <1>8, <1>9, <1>10, <1>11, <1>12, <1>13,
       StepCases, Zenon

\* A reward recorded as MINTED with its hash, for a payer with a wallet, was minted,
\* whatever administrators write to the same record meanwhile.
THEOREM RewardsAreTrue == Spec => []RewardRecordIsTrue
  <1>1. Init => RInv
    BY TransactionProcessorAssumption
    DEF Init, RInv, TypeOK, Stages, AboutToRecord, RewardRecordIsTrue, At
  <1>2. RInv => RewardRecordIsTrue
    BY DEF RInv
  <1> QED  BY <1>1, <1>2, RInvStep, PTL DEF Spec

-----------------------------------------------------------------------------
(* Rows and their money.                                                    *)

Fresh == {"Absent", "CREATED"}

\* A tick has to do with claimed rows only, a cancel or fail with rows that exist.
HeldIsTaken ==
    \A t \in Txs, w \in Ticks :
        t \in batch[w] \/ current[w] = t => status[t] \notin Fresh

CheckedIsThere == \A t \in Txs : request[t] \in {"cancel", "fail"} => status[t] # "Absent"

RowInv == IInv /\ HeldIsTaken /\ CheckedIsThere

\* The writes of a status, by whoever makes them.
Inserted(t) == status[t] = "Absent" /\ status' = [status EXCEPT ![t] = "CREATED"]

Claimed(S) ==
    /\ \A t \in S : status[t] = "CREATED"
    /\ status' = [t \in Txs |-> IF t \in S THEN "AUTHORIZED" ELSE status[t]]

Written(t, s) ==
    /\ status' = [status EXCEPT ![t] = s]
    /\ \/ status[t] = "CREATED" /\ s \in {"FAILED", "CANCELLED"}
       \/ status[t] \notin Fresh /\ s \in TransactionStatus \ {"CREATED"}
    /\ s = "COMPLETED" => \E w \in Ticks : At(w, t, AfterPayout)

StatusStep ==
    \/ UNCHANGED status
    \/ /\ UNCHANGED <<opened, landed, payouts, minted>>
       /\ \/ \E t \in Txs : Inserted(t)
          \/ \E S \in SUBSET Txs : Claimed(S)
          \/ \E t \in Txs, s \in TransactionStatus : Written(t, s)

\* A tick writes the status of a row it holds.
LEMMA TickWrites ==
    ASSUME RowInv, NEW w \in Ticks, NEW s \in TransactionStatus \ {"CREATED"},
           s = "COMPLETED" => stage[w] \in AfterPayout,
           UNCHANGED <<opened, landed, payouts, minted>>,
           status' = [status EXCEPT ![current[w]] = s]
    PROVE  StatusStep
  <1>1. CASE current[w] \in Txs
    <2>1. status[current[w]] \notin Fresh
      BY <1>1 DEF RowInv, HeldIsTaken
    <2>2. s = "COMPLETED" => At(w, current[w], AfterPayout)
      BY DEF At
    <2>3. Written(current[w], s)
      BY <2>1, <2>2 DEF Written
    <2> QED  BY <1>1, <2>3 DEF StatusStep
  <1>2. CASE current[w] \notin Txs
    BY <1>2 DEF StatusStep, RowInv, IInv, TypeOK
  <1> QED  BY <1>1, <1>2

\* Every step writes a status in one of these ways, if it writes one.
LEMMA StatusMoves == ASSUME RowInv, [Next]_vars PROVE StatusStep
  <1>1. ASSUME NEW w \in Ticks, Claim(w) \/ Fetch(w) \/ Start(w) \/ Finish(w)
        PROVE  StatusStep
    <2>1. CASE Claim(w)
      <3> DEFINE S == {t \in Txs : status[t] = "CREATED" /\ t \notin expired}
      <3>1. Claimed(S) /\ UNCHANGED worldVars
        BY <2>1 DEF Claim, Claimed
      <3> QED  BY <3>1 DEF StatusStep, worldVars
    <2> QED  BY <1>1, <2>1 DEF Fetch, Start, Finish, StatusStep
  <1>2. ASSUME NEW w \in Ticks, updateStatus(w) \/ Lookup(w) \/ Open(w) \/ Submit(w)
        PROVE  StatusStep
    <2>1. CASE updateStatus(w) /\ status' = [status EXCEPT ![current[w]] = Records[stage[w]]]
      <3>1. stage[w] \in DOMAIN Records /\ UNCHANGED worldVars
        BY <2>1 DEF updateStatus
      <3>2. /\ Records[stage[w]] \in TransactionStatus \ {"CREATED"}
            /\ Records[stage[w]] = "COMPLETED" => stage[w] \in AfterPayout
        BY <3>1 DEF Records, TransactionStatus, AfterPayout
      <3> QED  BY <2>1, <3>1, <3>2, TickWrites DEF worldVars
    <2>2. CASE UNCHANGED status
      BY <2>2 DEF StatusStep
    <2> QED  BY <1>2, <2>1, <2>2 DEF updateStatus, Lookup, Open, Submit
  <1>3. ASSUME NEW w \in Ticks, Payout(w) \/ updateInstruction(w) \/ PendingRewards(w)
        PROVE  StatusStep
    BY <1>3 DEF Payout, updateInstruction, PendingRewards, StatusStep
  <1>4. ASSUME NEW w \in Ticks, Mint(w) \/ RecordReward(w) \/ Catch(w) \/ GiveUp(w)
        PROVE  StatusStep
    <2>1. CASE (Catch(w) \/ GiveUp(w)) /\ status' = [status EXCEPT ![current[w]] = "FAILED"]
      <3>1. "FAILED" \in TransactionStatus \ {"CREATED"} /\ UNCHANGED worldVars
        BY <2>1 DEF Catch, GiveUp, TransactionStatus
      <3> QED  BY <2>1, <3>1, TickWrites DEF worldVars
    <2>2. CASE UNCHANGED status
      BY <2>2 DEF StatusStep
    <2> QED  BY <1>4, <2>1, <2>2 DEF Mint, RecordReward, Catch, GiveUp
  <1>5. ASSUME NEW t \in Txs, create(t) \/ createReward(t) \/ cancel(t) \/ fail(t)
        PROVE  StatusStep
    <2>1. CASE create(t)
      BY <2>1 DEF create, StatusStep, Inserted, worldVars
    <2>2. ASSUME NEW kind \in {"cancel", "fail"}, NEW to \in {"CANCELLED", "FAILED"},
                 Write(t, kind, to)
          PROVE  StatusStep
      <3>1. status[t] \in TransactionStatus
        BY <2>2 DEF Write, RowInv, CheckedIsThere, IInv, TypeOK
      <3>2. Written(t, to) /\ to \in TransactionStatus
        BY <2>2, <3>1 DEF Write, Written, Fresh, TransactionStatus
      <3> QED  BY <2>2, <3>2 DEF StatusStep, Write, worldVars
    <2>3. CASE UNCHANGED status
      BY <2>3 DEF StatusStep
    <2> QED
      BY <1>5, <2>1, <2>2, <2>3 DEF createReward, cancel, fail, Check
  <1>6. ASSUME NEW t \in Txs, PollOne(t) \/ BankDecides(t) \/ Expire(t) \/ Age(t)
        PROVE  StatusStep
    BY <1>6 DEF PollOne, BankDecides, Expire, Age, StatusStep
  <1>7. PollSettlements \/ Crash \/ UNCHANGED vars => StatusStep
    BY DEF PollSettlements, Crash, vars, StatusStep
  <1>8. ASSUME NEW t \in Txs, AdminStep(t) PROVE StatusStep
    BY <1>8, AdminWrites DEF StatusStep
  <1> QED
    BY <1>1, <1>2, <1>3, <1>4, <1>5, <1>6, <1>7, <1>8, StepCases, Zenon

\* A row is inserted once and taken up once.
LEMMA TakenStays ==
    ASSUME RowInv, StatusStep, NEW t \in Txs
    PROVE  /\ status[t] \notin Fresh => status'[t] \notin Fresh
           /\ status[t] # "Absent" => status'[t] # "Absent"
  <1>1. status \in [Txs -> TransactionStatus \cup {"Absent"}]
    BY DEF RowInv, IInv, TypeOK
  <1>2. ASSUME NEW u \in Txs, Inserted(u)
        PROVE  /\ status[t] \notin Fresh => status'[t] \notin Fresh
               /\ status[t] # "Absent" => status'[t] # "Absent"
    BY <1>1, <1>2 DEF Inserted, Fresh
  <1>3. ASSUME NEW S \in SUBSET Txs, Claimed(S)
        PROVE  /\ status[t] \notin Fresh => status'[t] \notin Fresh
               /\ status[t] # "Absent" => status'[t] # "Absent"
    BY <1>1, <1>3 DEF Claimed, Fresh
  <1>4. ASSUME NEW u \in Txs, NEW s \in TransactionStatus, Written(u, s)
        PROVE  /\ status[t] \notin Fresh => status'[t] \notin Fresh
               /\ status[t] # "Absent" => status'[t] # "Absent"
    BY <1>1, <1>4 DEF Written, Fresh, TransactionStatus
  <1> QED  BY <1>2, <1>3, <1>4 DEF StatusStep

\* Rows come into a tick's hands by Fetch alone, which takes claimed rows, and into
\* a handler's by a check that finds them.
LEMMA HeldStep ==
    ASSUME RowInv, [Next]_vars
    PROVE  HeldIsTaken' /\ CheckedIsThere'
  <1> DEFINE
        HeldBefore == \A t \in Txs, w \in Ticks : t \in batch'[w] \/ current'[w] = t =>
            t \in batch[w] \/ current[w] = t \/ status[t] = "AUTHORIZED"
        CheckedBefore == \A t \in Txs : request'[t] \in {"cancel", "fail"} =>
            request[t] \in {"cancel", "fail"} \/ status[t] \in TransactionStatus
  <1>0. None \notin Txs
    BY TransactionProcessorAssumption
  <1>1. ASSUME HeldBefore, CheckedBefore PROVE HeldIsTaken' /\ CheckedIsThere'
    <2>1. \A t \in Txs : /\ status[t] \notin Fresh => status'[t] \notin Fresh
                         /\ status[t] # "Absent" => status'[t] # "Absent"
      BY StatusMoves, TakenStays
    <2> QED
      BY <1>1, <2>1 DEF RowInv, HeldIsTaken, CheckedIsThere, Fresh, TransactionStatus
  <1>2. /\ UNCHANGED <<batch, current>> => HeldBefore
        /\ UNCHANGED request => CheckedBefore
    OBVIOUS
  <1>3. ASSUME NEW w \in Ticks, EndTick(w) PROVE HeldBefore
    BY <1>0, <1>3 DEF EndTick, RowInv, IInv, TypeOK
  <1> HIDE DEF HeldBefore, CheckedBefore
  <1>4. ASSUME NEW w \in Ticks, Claim(w) \/ Fetch(w) \/ Start(w) \/ Finish(w)
        PROVE  HeldBefore /\ CheckedBefore
    <2>1. CheckedBefore
      BY <1>2, <1>4 DEF Claim, Fetch, Start, Finish, apiVars
    <2>2. ASSUME NEW fetched \in SUBSET Fetchable,
                 batch' = [batch EXCEPT ![w] = fetched], UNCHANGED current
          PROVE  HeldBefore
      BY <2>2 DEF Fetchable, HeldBefore, RowInv, IInv, TypeOK
    <2>3. ASSUME Start(w) PROVE HeldBefore
      BY <2>3 DEF Start, HeldBefore, RowInv, IInv, TypeOK
    <2> QED  BY <1>2, <1>3, <1>4, <2>1, <2>2, <2>3 DEF Claim, Fetch, Finish
  <1>5. ASSUME NEW w \in Ticks, updateStatus(w) \/ Lookup(w) \/ Open(w) \/ Submit(w)
        PROVE  HeldBefore /\ CheckedBefore
    BY <1>2, <1>5 DEF updateStatus, Lookup, Open, Submit, Proceed, Throw, Goto, apiVars
  <1>6. ASSUME NEW w \in Ticks, Payout(w) \/ updateInstruction(w) \/ PendingRewards(w)
        PROVE  HeldBefore /\ CheckedBefore
    BY <1>2, <1>6 DEF Payout, updateInstruction, PendingRewards, Proceed, Throw, Goto, apiVars
  <1>7. ASSUME NEW w \in Ticks, Mint(w) \/ RecordReward(w) \/ Catch(w) \/ GiveUp(w)
        PROVE  HeldBefore /\ CheckedBefore
    BY <1>2, <1>3, <1>7 DEF Mint, RecordReward, Catch, GiveUp, Proceed, Goto, apiVars
  <1>8. ASSUME NEW t \in Txs, create(t) \/ createReward(t) \/ cancel(t) \/ fail(t)
        PROVE  HeldBefore /\ CheckedBefore
    <2>1. HeldBefore
      BY <1>2, <1>8 DEF create, createReward, cancel, fail, Check, Write, tickVars
    <2>2. request \in [Txs -> {"none", "create", "cancel", "fail"}]
      BY DEF RowInv, IInv, TypeOK
    <2>3. ASSUME NEW kind \in {"none", "create"}, request' = [request EXCEPT ![t] = kind]
          PROVE  CheckedBefore
      BY <2>2, <2>3 DEF CheckedBefore
    <2>4. ASSUME NEW kind \in {"cancel", "fail"}, request' = [request EXCEPT ![t] = kind],
                 status[t] \in TransactionStatus
          PROVE  CheckedBefore
      BY <2>2, <2>4 DEF CheckedBefore
    <2>5. create(t) \/ createReward(t) =>
              \E kind \in {"none", "create"} : request' = [request EXCEPT ![t] = kind]
      BY DEF create, createReward
    <2>6. cancel(t) \/ fail(t) =>
              \/ request' = [request EXCEPT ![t] = "none"]
              \/ /\ \E kind \in {"cancel", "fail"} : request' = [request EXCEPT ![t] = kind]
                 /\ status[t] \in TransactionStatus
      BY DEF cancel, fail, Check, Write, TransactionStatus
    <2> QED  BY <1>8, <2>1, <2>3, <2>4, <2>5, <2>6
  <1>9. ASSUME NEW t \in Txs, PollOne(t) \/ BankDecides(t) \/ Expire(t) \/ Age(t)
        PROVE  HeldBefore /\ CheckedBefore
    BY <1>2, <1>9 DEF PollOne, BankDecides, Expire, Age, apiVars, tickVars
  <1>10. PollSettlements \/ UNCHANGED vars => HeldBefore /\ CheckedBefore
    BY <1>2 DEF PollSettlements, vars, apiVars, tickVars
  <1>11. Crash => HeldBefore /\ CheckedBefore
    BY <1>0 DEF Crash, HeldBefore, CheckedBefore
  <1>12. ASSUME NEW t \in Txs, AdminStep(t) PROVE HeldBefore /\ CheckedBefore
    BY <1>2, <1>12, AdminWrites DEF tickVars
  <1>13. HeldBefore /\ CheckedBefore
    BY <1>4, <1>5, <1>6, <1>7, <1>8, <1>9, <1>10, <1>11, <1>12, StepCases, Zenon
  <1> QED  BY <1>1, <1>13

\* The invariant of rows that are held, checked and paid.
LEMMA RowInvariance == Spec => []RowInv
  <1>1. Init => HeldIsTaken /\ CheckedIsThere
    BY TransactionProcessorAssumption DEF Init, HeldIsTaken, CheckedIsThere
  <1> QED  BY <1>1, IInvInit, IInvStep, HeldStep, PTL DEF Spec, RowInv

\* A write of a status is a move that RowMoves allows, and COMPLETED is written only
\* when the money is there.
LEMMA WriteIsMove ==
    ASSUME RowInv, StatusStep
    PROVE  Row!Next \/ UNCHANGED rows
  <1>1. status \in [Txs -> TransactionStatus \cup {"Absent"}]
    BY DEF RowInv, IInv, TypeOK
  <1>2. \A t \in Txs : rows[t] = RowOf(status[t])
    BY DEF rows
  <1>3. ASSUME NEW t \in Txs, NEW s, status' = [status EXCEPT ![t] = s]
        PROVE  rows' = [rows EXCEPT ![t] = RowOf(s)]
    BY <1>1, <1>3 DEF rows
  <1>4. ASSUME UNCHANGED <<opened, landed, payouts, minted>>, NEW t \in Txs, Inserted(t)
        PROVE  Row!Order(t)
    <2>1. rows[t] = "Absent" /\ rows' = [rows EXCEPT ![t] = "CREATED"]
      BY <1>2, <1>3, <1>4 DEF Inserted, RowOf
    <2> QED  BY <1>4, <2>1 DEF Row!Order, Row!money
  <1>5. ASSUME UNCHANGED <<opened, landed, payouts, minted>>, NEW S \in SUBSET Txs, Claimed(S)
        PROVE  Row!Claim(S)
    <2>1. \A t \in S : rows[t] = "CREATED"
      BY <1>2, <1>5 DEF Claimed, RowOf
    <2>2. rows' = [t \in Txs |-> IF t \in S THEN "AUTHORIZED" ELSE rows[t]]
      BY <1>2, <1>5 DEF Claimed, rows, RowOf, Final
    <2> QED  BY <1>5, <2>1, <2>2 DEF Row!Claim, Row!money
  <1>6. ASSUME UNCHANGED <<opened, landed, payouts, minted>>, NEW t \in Txs,
               NEW s \in TransactionStatus, Written(t, s)
        PROVE  RowOf(s) \in Row!RowStatus /\ Row!Become(t, RowOf(s))
    <2>1. rows[t] = RowOf(status[t]) /\ rows' = [rows EXCEPT ![t] = RowOf(s)]
      BY <1>2, <1>3, <1>6 DEF Written
    <2>2. RowOf(s) \in Row!RowStatus /\ Row!MayBecome(RowOf(status[t]), RowOf(s))
      BY <1>1, <1>6 DEF Written, Fresh, RowOf, Final, TransactionStatus, Row!RowStatus,
                        Row!Taken, Row!MayBecome
    <2>3. ASSUME RowOf(s) = "COMPLETED" PROVE Row!Ready(t)
      <3>1. s = "COMPLETED"
        BY <2>3 DEF RowOf
      <3>2. PICK w \in Ticks : At(w, t, AfterPayout)
        BY <1>6, <3>1 DEF Written
      <3>3. landed[t] > 0 /\ (t \in WithVpa => payouts[t] > 0) /\ payouts[t] <= 1
        BY <3>2 DEF RowInv, IInv, AlreadyPaid, PaidAtMostOnce, At, AfterSubmit
      <3> QED  BY <3>3 DEF Row!Ready, RowInv, IInv, TypeOK
    <2> QED  BY <1>6, <2>1, <2>2, <2>3 DEF Row!Become, Row!money
  <1>7. UNCHANGED status => UNCHANGED rows
    BY DEF rows
  <1> QED  BY <1>4, <1>5, <1>6, <1>7 DEF StatusStep, Row!Next

\* A tick that moves money moves the money of a row it holds, when it is that
\* payment's turn.
LEMMA TickPays ==
    ASSUME RowInv, NEW w \in Ticks, Open(w) \/ Submit(w) \/ Payout(w) \/ Mint(w)
    PROVE  \/ UNCHANGED <<opened, landed, payouts, minted>>
           \/ UNCHANGED rows /\ Row!Next
  <1> DEFINE t == current[w]
             Goal == \/ UNCHANGED <<opened, landed, payouts, minted>>
                     \/ UNCHANGED rows /\ Row!Next
  <1>1. /\ WithPayer \subseteq Txs /\ WithVpa \subseteq Txs /\ WithWallet \subseteq Txs
        /\ landed \in [Txs -> Nat] /\ payouts \in [Txs -> Nat]
    BY TransactionProcessorAssumption DEF RowInv, IInv, TypeOK
  <1>2. UNCHANGED status /\ UNCHANGED rows
    BY DEF Open, Submit, Payout, Mint, rows
  <1>3. t \in Txs => rows[t] \in Row!Taken
    BY DEF RowInv, IInv, TypeOK, HeldIsTaken, rows, RowOf, Fresh, Final, TransactionStatus,
           Row!Taken, Row!RowStatus
  <1>4. ASSUME Open(w) PROVE Goal
    <2>1. CASE UNCHANGED opened
      BY <1>4, <2>1 DEF Open
    <2>2. CASE t \in Txs /\ t \notin opened /\ opened' = opened \cup {t}
      <3>1. Row!Open(t)
        BY <1>2, <1>3, <1>4, <2>2 DEF Open, Row!Open
      <3> QED  BY <1>2, <2>2, <3>1 DEF Row!Next
    <2> QED  BY <1>1, <1>4, <2>1, <2>2 DEF Open
  <1>5. ASSUME Submit(w) PROVE Goal
    <2>1. PICK n \in 0..Submissions : landed' = [landed EXCEPT ![t] = @ + n]
      BY <1>5, Zenon DEF Submit
    <2>2. n \in Nat /\ UNCHANGED <<opened, payouts, minted>> /\ stage[w] = "submit"
      BY <1>5 DEF Submit, Submissions
    <2>3. CASE n = 0 \/ t \notin Txs
      BY <1>1, <2>1, <2>2, <2>3
    <2>4. CASE n > 0 /\ t \in Txs
      <3>1. landed[t] = 0 /\ t \in opened
        BY <2>2, <2>4 DEF RowInv, IInv, NotYetPaid, ThroughIsOpened, At, Through, BeforeSubmit
      <3>2. landed' = [landed EXCEPT ![t] = n]
        BY <2>1, <2>2, <3>1
      <3>3. Row!Send(t, n) /\ n \in 1..Submissions
        BY <1>2, <2>2, <2>4, <3>1, <3>2 DEF Row!Send
      <3> QED  BY <1>2, <2>4, <3>3 DEF Row!Next
    <2> QED  BY <2>2, <2>3, <2>4
  <1>6. ASSUME Payout(w) PROVE Goal
    <2>1. CASE UNCHANGED payouts
      BY <1>6, <2>1 DEF Payout
    <2>2. CASE t \in Txs /\ payouts' = [payouts EXCEPT ![t] = @ + 1]
      <3>1. payouts[t] = 0 /\ landed[t] > 0
        BY <1>6, <2>2
        DEF Payout, RowInv, IInv, NotYetPaid, AlreadyPaid, At, BeforePayout, AfterSubmit
      <3>2. payouts' = [payouts EXCEPT ![t] = 1]
        BY <2>2, <3>1
      <3>3. Row!PayOut(t)
        BY <1>2, <1>6, <3>1, <3>2 DEF Payout, Row!PayOut
      <3> QED  BY <1>2, <2>2, <3>3 DEF Row!Next
    <2> QED  BY <1>1, <1>6, <2>1, <2>2 DEF Payout
  <1>7. ASSUME Mint(w) PROVE Goal
    <2>1. CASE UNCHANGED minted
      BY <1>7, <2>1 DEF Mint
    <2>2. CASE t \in Txs /\ t \notin minted /\ minted' = minted \cup {t}
      <3>1. landed[t] > 0 /\ (t \in WithVpa => payouts[t] > 0) /\ payouts[t] <= 1
        BY <1>7, <2>2
        DEF Mint, RowInv, IInv, AlreadyPaid, PaidAtMostOnce, At, AfterPayout, AfterSubmit
      <3>2. Row!Ready(t)
        BY <1>1, <2>2, <3>1 DEF Row!Ready
      <3>3. Row!Mint(t)
        BY <1>2, <1>7, <2>2, <3>2 DEF Mint, Row!Mint
      <3> QED  BY <1>2, <2>2, <3>3 DEF Row!Next
    <2> QED  BY <1>1, <1>7, <2>1, <2>2 DEF Mint
  <1> QED  BY <1>4, <1>5, <1>6, <1>7

\* Nothing but a tick at one of these four stages moves money.
LEMMA MoneyMoves ==
    ASSUME RowInv, [Next]_vars
    PROVE  \/ UNCHANGED <<opened, landed, payouts, minted>>
           \/ UNCHANGED rows /\ Row!Next
  <1> DEFINE Still == UNCHANGED <<opened, landed, payouts, minted>>
  <1>1. ASSUME NEW w \in Ticks,
               \/ Claim(w) \/ Fetch(w) \/ Start(w) \/ Finish(w) \/ updateStatus(w)
               \/ Lookup(w) \/ updateInstruction(w) \/ PendingRewards(w)
               \/ RecordReward(w) \/ Catch(w) \/ GiveUp(w)
        PROVE  Still
    BY <1>1 DEF Claim, Fetch, Start, Finish, updateStatus, Lookup, updateInstruction,
                PendingRewards, RecordReward, Catch, GiveUp, worldVars
  <1>2. ASSUME NEW t \in Txs,
               \/ create(t) \/ createReward(t) \/ cancel(t) \/ fail(t) \/ PollOne(t)
               \/ BankDecides(t) \/ Expire(t) \/ Age(t)
        PROVE  Still
    BY <1>2 DEF create, createReward, cancel, fail, Check, Write, PollOne, BankDecides,
                Expire, Age, worldVars
  <1>3. PollSettlements \/ Crash \/ UNCHANGED vars => Still
    BY DEF PollSettlements, Crash, vars, worldVars
  <1>5. ASSUME NEW t \in Txs, AdminStep(t) PROVE Still
    BY <1>5, AdminWrites DEF worldVars
  <1> HIDE DEF Still
  <1>4. Still \/ \E w \in Ticks : Open(w) \/ Submit(w) \/ Payout(w) \/ Mint(w)
    BY <1>1, <1>2, <1>3, <1>5, StepCases, Zenon
  <1> QED  BY <1>4, TickPays DEF Still

\* However many ticks overlap, retry and die over however many rows, and whatever the
\* API calls write meanwhile, the processor implements PaymentRow.
THEOREM ImplementsPaymentRow == Spec => ImplementsRow
<1>1. Init => Row!Init
  BY DEF Init, Row!Init, rows, RowOf
<1>2. RowInv /\ [Next]_vars => [Row!Next]_<<rows, Row!money>>
  <2> SUFFICES ASSUME RowInv, [Next]_vars
               PROVE  Row!Next \/ UNCHANGED <<rows, opened, landed, payouts, minted>>
    BY DEF Row!money
  <2>1. CASE UNCHANGED <<opened, landed, payouts, minted>>
    BY <2>1, StatusMoves, WriteIsMove
  <2>2. CASE Row!Next
    BY <2>2
  <2> QED  BY <2>1, <2>2, MoneyMoves
<1> QED  BY <1>1, <1>2, RowInvariance, PTL DEF Spec, ImplementsRow, Row!Spec

\* Types of the abstract specification, as far as its order needs them.
RowTypes ==
    /\ rows \in [Txs -> Row!RowStatus]
    /\ landed \in [Txs -> Nat]
    /\ payouts \in [Txs -> Nat]

\* PaymentRow keeps the order of the money: a consequence of its steps alone.
LEMMA RowOrderStep ==
    ASSUME RowTypes, RowTypes', Row!InOrder, [Row!Next]_<<rows, Row!money>>
    PROVE  Row!InOrder'
  <1> USE DEF Row!InOrder, Row!Ready
  <1>1. CASE UNCHANGED <<rows, Row!money>>
    BY <1>1 DEF Row!money
  <1>2. ASSUME NEW claimed \in SUBSET Txs, Row!Claim(claimed) PROVE Row!InOrder'
    BY <1>2 DEF Row!Claim, Row!money, RowTypes, Row!Taken, Row!RowStatus
  <1>3. ASSUME NEW t \in Txs, Row!Order(t) PROVE Row!InOrder'
    BY <1>3 DEF Row!Order, Row!money, RowTypes, Row!Taken
  <1>4. ASSUME NEW t \in Txs, NEW to \in Row!RowStatus, Row!Become(t, to) PROVE Row!InOrder'
    BY <1>4 DEF Row!Become, Row!money, RowTypes, Row!MayBecome, Row!Taken
  <1>5. ASSUME NEW t \in Txs, Row!Open(t) PROVE Row!InOrder'
    BY <1>5 DEF Row!Open
  <1>6. ASSUME NEW t \in Txs, NEW n \in 1..Submissions, Row!Send(t, n) PROVE Row!InOrder'
    <2>1. n \in Nat /\ n > 0
      BY DEF Submissions
    <2> QED  BY <1>6, <2>1 DEF Row!Send, RowTypes
  <1>7. ASSUME NEW t \in Txs, Row!PayOut(t) PROVE Row!InOrder'
    BY <1>7 DEF Row!PayOut, RowTypes
  <1>8. ASSUME NEW t \in Txs, Row!Mint(t) PROVE Row!InOrder'
    BY <1>8 DEF Row!Mint
  <1> QED
    BY <1>1, <1>2, <1>3, <1>4, <1>5, <1>6, <1>7, <1>8 DEF Row!Next

\* What the abstract specification says of the money therefore holds of the processor:
\* no payment before the engine has opened the row, no payout before the payment, no
\* STAR and no COMPLETED before both, and none of it for a row nobody has claimed.
THEOREM MoneyInOrder == Spec => []Row!InOrder
<1>1. RowInv => RowTypes
  <2> SUFFICES ASSUME RowInv PROVE RowTypes
    OBVIOUS
  <2>1. \A s \in TransactionStatus \cup {"Absent"} : RowOf(s) \in Row!RowStatus
    BY DEF RowOf, Final, TransactionStatus, Row!RowStatus
  <2> QED  BY <2>1 DEF RowInv, IInv, TypeOK, RowTypes, rows
<1>2. Row!Init => Row!InOrder
  BY DEF Row!Init, Row!InOrder
<1> QED
  BY <1>1, <1>2, RowInvariance, RowOrderStep, ImplementsPaymentRow, PTL
  DEF ImplementsRow, Row!Spec

-----------------------------------------------------------------------------
(* What is finished stays finished.                                         *)

\* A tick that has not fetched its rows is at none.
Nowhere == {"idle", "fetch"}
IdleIsNowhere == \A w \in Ticks : stage[w] \in Nowhere => current[w] \notin Txs

\* A tick that moves on has its row in hand, and takes up no other.
LEMMA GotoRests ==
    ASSUME TypeOK, NEW t \in Txs, ~ Held(t), NEW w \in Ticks, NEW s,
           stage[w] \notin {"idle", "next"}, Goto(w, s)
    PROVE  current[w] # t /\ ~ Held(t)'
  <1>1. current[w] # t
    BY DEF Held, WorksOn
  <1>2. UNCHANGED <<batch, current>> /\ \A v \in Ticks \ {w} : stage'[v] = stage[v]
    BY DEF Goto, TypeOK
  <1> QED  BY <1>1, <1>2 DEF Held, WorksOn

LEMMA EndRests ==
    ASSUME TypeOK, NEW t \in Txs, ~ Held(t), NEW w \in Ticks, EndTick(w)
    PROVE  ~ Held(t)'
  <1>1. stage'[w] = "idle" /\ batch'[w] = {}
    BY DEF EndTick, TypeOK
  <1>2. \A v \in Ticks \ {w} :
            stage'[v] = stage[v] /\ batch'[v] = batch[v] /\ current'[v] = current[v]
    BY DEF EndTick, TypeOK
  <1> QED  BY <1>1, <1>2 DEF Held, WorksOn

\* A tick takes up only rows that are AUTHORIZED, and writes only to its own.
LEMMA TickRests ==
    ASSUME TypeOK, IdleIsNowhere, NEW t \in Txs, status[t] \in Final, ~ Held(t),
           NEW w \in Ticks, TickStep(w)
    PROVE  status'[t] = status[t] /\ ~ Held(t)'
  <1>1. CASE Claim(w)
    <2>1. status'[t] = status[t]
      BY <1>1 DEF Claim, Final
    <2>2. UNCHANGED <<batch, current>> /\ \A v \in Ticks \ {w} : stage'[v] = stage[v]
      BY <1>1 DEF Claim, TypeOK
    <2>3. current[w] # t
      BY <1>1 DEF Claim, IdleIsNowhere, Nowhere
    <2> QED  BY <2>1, <2>2, <2>3 DEF Held, WorksOn
  <1>2. CASE Fetch(w)
    <2>1. CASE EndTick(w)
      BY <1>2, <2>1, EndRests DEF Fetch
    <2>2. CASE stage' = [stage EXCEPT ![w] = "next"]
      <3>1. t \notin Fetchable
        BY DEF Fetchable, Final
      <3>2. PICK fetched \in SUBSET Fetchable : batch' = [batch EXCEPT ![w] = fetched]
        BY <1>2, <2>2 DEF Fetch, EndTick, TypeOK
      <3>3. t \notin batch'[w] /\ stage'[w] = "next"
        BY <2>2, <3>1, <3>2 DEF TypeOK
      <3>4. \A v \in Ticks \ {w} : stage'[v] = stage[v] /\ batch'[v] = batch[v]
        BY <2>2, <3>2 DEF TypeOK
      <3>5. UNCHANGED <<status, current>> \/ EndTick(w)
        BY <1>2 DEF Fetch
      <3> QED  BY <1>2, <2>1, <3>3, <3>4, <3>5 DEF Held, WorksOn
    <2> QED  BY <1>2, <2>1, <2>2 DEF Fetch
  <1>3. CASE Start(w)
    <2>1. PICK k \in batch[w] : /\ batch' = [batch EXCEPT ![w] = @ \ {k}]
                                /\ current' = [current EXCEPT ![w] = k]
      BY <1>3 DEF Start
    <2>2. k # t /\ t \notin batch[w]
      BY DEF Held
    <2>3. current'[w] = k /\ t \notin batch'[w]
      BY <2>1, <2>2 DEF TypeOK
    <2>4. \A v \in Ticks \ {w} :
              stage'[v] = stage[v] /\ batch'[v] = batch[v] /\ current'[v] = current[v]
      BY <1>3, <2>1 DEF Start, TypeOK
    <2> QED  BY <1>3, <2>2, <2>3, <2>4 DEF Start, Held, WorksOn
  <1>4. CASE Finish(w)
    BY <1>4, EndRests DEF Finish
  <1>5. CASE updateStatus(w)
    <2>1. stage[w] \notin {"idle", "next"} /\ \E s : Goto(w, s)
      BY <1>5, RecordsStatus DEF updateStatus, Proceed, Throw
    <2>2. current[w] # t /\ ~ Held(t)'
      BY <2>1, GotoRests
    <2> QED  BY <1>5, <2>2 DEF updateStatus, TypeOK
  <1>6. CASE Lookup(w) \/ Open(w) \/ Submit(w) \/ Payout(w) \/ updateInstruction(w)
    <2>1. /\ stage[w] \notin {"idle", "next"}
          /\ \E s : Goto(w, s)
          /\ UNCHANGED status
      BY <1>6 DEF Lookup, Open, Submit, Payout, updateInstruction, Proceed, Throw
    <2> QED  BY <2>1, GotoRests
  <1>7. CASE PendingRewards(w) \/ Mint(w) \/ RecordReward(w)
    <2>1. /\ stage[w] \notin {"idle", "next"}
          /\ \E s : Goto(w, s)
          /\ UNCHANGED status
      BY <1>7 DEF PendingRewards, Mint, RecordReward, Proceed, Throw
    <2> QED  BY <2>1, GotoRests
  <1>8. CASE Catch(w)
    <2>1. stage[w] \notin {"idle", "next"}
      BY <1>8 DEF Catch
    <2>2. current[w] # t
      BY <2>1 DEF Held, WorksOn
    <2>3. UNCHANGED <<batch, current>> /\ \A v \in Ticks \ {w} : stage'[v] = stage[v]
      BY <1>8 DEF Catch, Proceed, Goto, TypeOK
    <2>4. ~ Held(t)'
      BY <2>2, <2>3 DEF Held, WorksOn
    <2> QED  BY <1>8, <2>2, <2>4 DEF Catch, TypeOK
  <1>9. CASE GiveUp(w)
    <2>1. stage[w] \notin {"idle", "next"}
      BY <1>9 DEF GiveUp
    <2>2. current[w] # t
      BY <2>1 DEF Held, WorksOn
    <2>3. ~ Held(t)'
      BY <1>9, <2>1, GotoRests, EndRests DEF GiveUp, Proceed
    <2> QED  BY <1>9, <2>2, <2>3 DEF GiveUp, TypeOK
  <1> QED
    BY <1>1, <1>2, <1>3, <1>4, <1>5, <1>6, <1>7, <1>8, <1>9 DEF TickStep

\* A tick that stops forgets its row.
LEMMA IdleStep == TypeOK /\ IdleIsNowhere /\ [Next]_vars => IdleIsNowhere'
  <1> SUFFICES ASSUME TypeOK, IdleIsNowhere, [Next]_vars PROVE IdleIsNowhere'
    OBVIOUS
  <1> USE DEF IdleIsNowhere, Nowhere
  <1>1. ASSUME NEW w \in Ticks, EndTick(w) PROVE IdleIsNowhere'
    <2>1. current'[w] = None
      BY <1>1 DEF EndTick, TypeOK
    <2>2. \A v \in Ticks \ {w} : stage'[v] = stage[v] /\ current'[v] = current[v]
      BY <1>1 DEF EndTick, TypeOK
    <2> QED  BY <2>1, <2>2, TransactionProcessorAssumption
  <1>2. ASSUME NEW w \in Ticks, UNCHANGED current,
               stage'[w] \notin Nowhere, \A v \in Ticks \ {w} : stage'[v] = stage[v]
        PROVE  IdleIsNowhere'
    BY <1>2
  <1>3. ASSUME NEW w \in Ticks, NEW s, Goto(w, s), s \notin Nowhere PROVE IdleIsNowhere'
    BY <1>2, <1>3 DEF Goto, TypeOK
  <1>4. \A s \in DOMAIN After : After[s] \notin Nowhere
    BY DEF After
  <1>5. ASSUME NEW w \in Ticks, Claim(w) \/ Fetch(w) \/ Start(w) \/ Finish(w)
        PROVE  IdleIsNowhere'
    <2>1. CASE EndTick(w)
      BY <1>1, <2>1
    <2>2. CASE Claim(w)
      <3>1. UNCHANGED current /\ \A v \in Ticks \ {w} : stage'[v] = stage[v]
        BY <2>2 DEF Claim, TypeOK
      <3> QED  BY <2>2, <3>1 DEF Claim
    <2>4. CASE Fetch(w) /\ ~ EndTick(w)
      BY <1>2, <2>4 DEF Fetch, TypeOK
    <2>3. CASE Start(w)
      <3>1. stage'[w] = "authorize"
        BY <2>3 DEF Start, TypeOK
      <3>2. \A v \in Ticks \ {w} : stage'[v] = stage[v] /\ current'[v] = current[v]
        BY <2>3 DEF Start, TypeOK
      <3> QED  BY <3>1, <3>2
    <2> QED  BY <1>5, <2>1, <2>2, <2>3, <2>4 DEF Finish
  <1>6. ASSUME NEW w \in Ticks, updateStatus(w) \/ Lookup(w) \/ Open(w) \/ Submit(w)
        PROVE  IdleIsNowhere'
    BY <1>3, <1>4, <1>6, RecordsStatus, AfterStages
    DEF updateStatus, Lookup, Open, Submit, Proceed, Throw
  <1>7. ASSUME NEW w \in Ticks, Payout(w) \/ updateInstruction(w) \/ PendingRewards(w)
        PROVE  IdleIsNowhere'
    BY <1>3, <1>4, <1>7, AfterStages
    DEF Payout, updateInstruction, PendingRewards, Proceed, Throw
  <1>8. ASSUME NEW w \in Ticks, Mint(w) \/ RecordReward(w) \/ Catch(w) \/ GiveUp(w)
        PROVE  IdleIsNowhere'
    <2>1. CASE Mint(w) \/ RecordReward(w)
      BY <1>3, <1>4, <2>1, AfterStages DEF Mint, RecordReward, Proceed
    <2>2. CASE GiveUp(w)
      BY <1>1, <1>3, <1>4, <2>2, AfterStages DEF GiveUp, Proceed
    <2>3. CASE Catch(w)
      <3>1. /\ UNCHANGED current /\ stage'[w] \notin Nowhere
            /\ \A v \in Ticks \ {w} : stage'[v] = stage[v]
        BY <1>4, <2>3, AfterStages DEF Catch, Proceed, Goto, TypeOK
      <3> QED  BY <1>2, <3>1
    <2> QED  BY <1>8, <2>1, <2>2, <2>3
  <1>9. ASSUME UNCHANGED tickVars PROVE IdleIsNowhere'
    BY <1>9 DEF tickVars
  <1>10. ASSUME NEW t \in Txs, create(t) \/ createReward(t) \/ cancel(t) \/ fail(t)
         PROVE  IdleIsNowhere'
    BY <1>9, <1>10 DEF create, createReward, cancel, fail, Check, Write
  <1>11. ASSUME NEW t \in Txs, PollOne(t) \/ BankDecides(t) \/ Expire(t) \/ Age(t)
         PROVE  IdleIsNowhere'
    BY <1>9, <1>11 DEF PollOne, BankDecides, Expire, Age
  <1>12. ASSUME PollSettlements \/ UNCHANGED vars PROVE IdleIsNowhere'
    BY <1>9, <1>12 DEF PollSettlements, vars, tickVars
  <1>13. ASSUME Crash PROVE IdleIsNowhere'
    BY <1>13, TransactionProcessorAssumption DEF Crash
  <1>14. ASSUME NEW t \in Txs, AdminStep(t) PROVE IdleIsNowhere'
    BY <1>9, <1>14, AdminWrites
  <1> QED
    BY <1>5, <1>6, <1>7, <1>8, <1>10, <1>11, <1>12, <1>13, <1>14, StepCases, Zenon

\* A finished row that nobody has in hand is at rest: no claim, fetch, retry or
\* crash of any number of ticks takes it up again or changes its status.
THEOREM FinishedRests == Spec => FinishedIsAtRest
  <1>1. Init => IdleIsNowhere
    BY TransactionProcessorAssumption DEF Init, IdleIsNowhere
  <1>2. ASSUME TypeOK, IdleIsNowhere, [Next]_vars, NEW t \in Txs,
               status[t] \in Final, ~ Held(t), request[t] = "none"
        PROVE  status'[t] = status[t] /\ ~ Held(t)'
    <2>1. ASSUME NEW w \in Ticks, TickStep(w) PROVE status'[t] = status[t] /\ ~ Held(t)'
      BY <1>2, <2>1, TickRests
    <2>2. ASSUME UNCHANGED tickVars PROVE ~ Held(t)'
      BY <1>2, <2>2 DEF tickVars, Held, WorksOn
    <2>3. ASSUME NEW k \in Txs, RowStep(k) PROVE status'[t] = status[t] /\ UNCHANGED tickVars
      BY <1>2, <2>3
      DEF RowStep, create, createReward, cancel, fail, Check, Write, PollOne, BankDecides,
          Expire, Age, TypeOK, Final
    <2>4. CASE PollSettlements \/ UNCHANGED vars
      BY <2>2, <2>4 DEF PollSettlements, vars, tickVars
    <2>5. CASE Crash
      BY <2>5 DEF Crash, Held, WorksOn
    <2>6. ASSUME NEW k \in Managed, AdminStep(k)
          PROVE  status'[t] = status[t] /\ UNCHANGED tickVars
      BY <2>6, AdminWrites, TransactionProcessorAssumption
    <2> QED  BY <1>2, <2>1, <2>2, <2>3, <2>4, <2>5, <2>6 DEF Next
  <1>3. TypeOK /\ IdleIsNowhere /\ [Next]_vars =>
            [\A t \in Txs :
                status[t] \in Final /\ ~ Held(t) /\ request[t] = "none"
                   => status'[t] = status[t] /\ ~ Held(t)']_vars
    BY <1>2
  <1> QED  BY <1>1, <1>3, IdleStep, TypeCorrect, PTL DEF Spec, FinishedIsAtRest

-----------------------------------------------------------------------------
(* One tick at a time.                                                      *)

\* A row whose completion is being confirmed is over.
ConfirmsFinished == \A w \in Ticks :
    stage[w] = "confirm" /\ current[w] \in Txs => status[current[w]] \in Final

\* With one tick, only the handlers write beside it, and they only finish rows.
LEMMA AloneStep ==
    ASSUME \A v, w \in Ticks : v = w,
           TypeOK, IdleIsNowhere, ConfirmsFinished, [Next]_vars
    PROVE  /\ ConfirmsFinished'
           /\ \A w \in Ticks, t \in Txs :
                 WorksOn(w, t) /\ ~ WorksOn(w, t)'
                    => status'[t] \in Final \/ stage'[w] = "idle"
  <1> DEFINE Left(w) == \A t \in Txs :
                 WorksOn(w, t) /\ ~ WorksOn(w, t)'
                    => status'[t] \in Final \/ stage'[w] = "idle"
             Confirmed(w) ==
                 stage[w] = "confirm" /\ current[w] \in Txs => status[current[w]] \in Final
             G == ConfirmsFinished' /\ \A w \in Ticks : Left(w)
  <1>0. ASSUME NEW w \in Ticks, Left(w), Confirmed(w)' PROVE G
    BY <1>0 DEF ConfirmsFinished
  <1>a. \A w \in Ticks : Confirmed(w)
    BY DEF ConfirmsFinished
  <1> HIDE DEF G
  <1>1. ASSUME NEW w \in Ticks, NEW s, Goto(w, s), stage[w] # "next",
               s \notin {"next", "confirm"}
        PROVE  G
    <2>1. stage'[w] = s /\ UNCHANGED current
      BY <1>1 DEF Goto, TypeOK
    <2> QED  BY <1>0, <1>1, <2>1 DEF WorksOn
  <1>2. ASSUME NEW w \in Ticks, EndTick(w) PROVE G
    <2>1. stage'[w] = "idle"
      BY <1>2 DEF EndTick, TypeOK
    <2> QED  BY <1>0, <2>1
  <1>3. ASSUME NEW w \in Ticks, NEW s, Goto(w, s),
               current[w] \in Txs => status'[current[w]] \in Final
        PROVE  G
    <2>1. stage'[w] = s /\ UNCHANGED current
      BY <1>3 DEF Goto, TypeOK
    <2> QED  BY <1>0, <1>3, <2>1 DEF WorksOn
  <1>4. ASSUME NEW w \in Ticks, Claim(w) \/ Fetch(w) \/ Start(w) \/ Finish(w) PROVE G
    <2>1. CASE EndTick(w)
      BY <1>2, <2>1
    <2>2. CASE Claim(w)
      <3>1. stage[w] = "idle" /\ stage'[w] = "fetch"
        BY <2>2 DEF Claim, TypeOK
      <3> QED  BY <1>0, <3>1 DEF WorksOn
    <2>3. CASE Start(w)
      <3>1. stage[w] = "next" /\ stage'[w] = "authorize"
        BY <2>3 DEF Start, TypeOK
      <3> QED  BY <1>0, <3>1 DEF WorksOn
    <2>4. CASE Fetch(w) /\ ~ EndTick(w)
      <3>1. current[w] \notin Txs /\ stage'[w] = "next"
        BY <2>4 DEF Fetch, IdleIsNowhere, Nowhere, TypeOK
      <3> QED  BY <1>0, <3>1 DEF WorksOn
    <2> QED  BY <1>4, <2>1, <2>2, <2>3, <2>4 DEF Finish
  <1>5. ASSUME NEW w \in Ticks, updateStatus(w) PROVE G
    <2>1. stage[w] \in DOMAIN Records /\ stage[w] # "next"
      BY <1>5, RecordsStatus DEF updateStatus
    <2>2. CASE Goto(w, "catch")
      BY <1>1, <2>1, <2>2
    <2>3. CASE Goto(w, After[stage[w]]) /\ stage[w] # "complete"
      <3>1. After[stage[w]] \notin {"next", "confirm"}
        BY <2>1, <2>3, RecordsStatus DEF After
      <3> QED  BY <1>1, <2>1, <2>3, <3>1
    <2>4. CASE Goto(w, After[stage[w]]) /\ stage[w] = "complete"
      <3>1. CASE status' = [status EXCEPT ![current[w]] = Records[stage[w]]]
        <4>1. Records["complete"] \in Final
          BY DEF Records, Final
        <4>2. current[w] \in Txs => status'[current[w]] \in Final
          BY <2>4, <3>1, <4>1 DEF TypeOK
        <4> QED  BY <1>3, <2>4, <4>2
      <3> QED  BY <1>5, <2>2, <3>1 DEF updateStatus, Throw
    <2> QED  BY <1>5, <2>2, <2>3, <2>4 DEF updateStatus, Proceed, Throw
  <1>6. ASSUME NEW w \in Ticks, Lookup(w) \/ Open(w) \/ Submit(w) PROVE G
    <2>1. After["open"] = "quote"
      BY DEF After
    <2>2. /\ stage[w] # "next"
          /\ \E s \in {"catch", "open", "quote", "routed"} : Goto(w, s)
      BY <1>6, <2>1 DEF Lookup, Open, Submit, Proceed, Throw
    <2> QED  BY <1>1, <2>2
  <1>7. ASSUME NEW w \in Ticks, Payout(w) \/ PendingRewards(w) \/ Mint(w) \/ RecordReward(w)
        PROVE  G
    <2>1. /\ After["payout"] = "sent"
          /\ After["recordMinted"] = "rewarded" /\ After["recordFailed"] = "rewarded"
      BY DEF After
    <2>2. /\ stage[w] # "next"
          /\ \E s \in {"catch", "reward", "sent", "mint", "rewarded", "recordMinted",
                       "recordFailed"} : Goto(w, s)
      BY <1>7, <2>1 DEF Payout, PendingRewards, Mint, RecordReward, Proceed, Throw
    <2> QED  BY <1>1, <2>2
  <1>8. ASSUME NEW w \in Ticks, updateInstruction(w) PROVE G
    <2>1. After["sent"] = "reward" /\ After["confirm"] = "next"
      BY DEF After
    <2>2. CASE stage[w] = "sent" \/ Goto(w, "catch")
      <3>1. stage[w] # "next" /\ \E s \in {"catch", "reward"} : Goto(w, s)
        BY <1>8, <2>1, <2>2 DEF updateInstruction, Proceed, Throw
      <3> QED  BY <1>1, <3>1
    <2>3. CASE stage[w] = "confirm" /\ Goto(w, "next")
      <3>1. status' = status
        BY <1>8, <2>3 DEF updateInstruction
      <3>2. current[w] \in Txs => status'[current[w]] \in Final
        BY <1>a, <2>3, <3>1
      <3> QED  BY <1>3, <2>3, <3>2
    <2> QED  BY <1>8, <2>1, <2>2, <2>3 DEF updateInstruction, Proceed, Throw
  <1>9. ASSUME NEW w \in Ticks, Catch(w) \/ GiveUp(w) PROVE G
    <2>1. After["catch"] = "next" /\ After["giveUp"] = "next"
      BY DEF After
    <2>2. CASE status' = [status EXCEPT ![current[w]] = "FAILED"] /\ Proceed(w)
      <3>1. \E s : Goto(w, s)
        BY <2>2 DEF Proceed
      <3>2. current[w] \in Txs => status'[current[w]] \in Final
        BY <2>2 DEF TypeOK, Final
      <3> QED  BY <1>3, <3>1, <3>2
    <2>3. CASE EndTick(w)
      BY <1>2, <2>3
    <2>4. CASE Catch(w) /\ ~ (status' = [status EXCEPT ![current[w]] = "FAILED"] /\ Proceed(w))
      <3>1. /\ stage[w] = "catch"
            /\ stage'[w] \in {"giveUp", "authorize"}
            /\ UNCHANGED current
        BY <2>4 DEF Catch, TypeOK
      <3> QED  BY <1>0, <3>1 DEF WorksOn
    <2> QED  BY <1>9, <2>2, <2>3, <2>4 DEF Catch, GiveUp
  <1>10. ASSUME UNCHANGED <<stage, current>>,
                \A t \in Txs : status[t] \in Final => status'[t] \in Final
         PROVE  G
    <2>1. \A w \in Ticks : Left(w) /\ Confirmed(w)'
      BY <1>a, <1>10 DEF WorksOn
    <2> QED  BY <2>1 DEF G, ConfirmsFinished
  <1>11. ASSUME NEW t \in Txs, create(t) \/ createReward(t) \/ cancel(t) \/ fail(t)
         PROVE  G
    <2>1. \A k \in Txs : status[k] \in Final => status'[k] \in Final
      BY <1>11 DEF create, createReward, cancel, fail, Check, Write, TypeOK, Final
    <2> QED
      BY <1>10, <1>11, <2>1
      DEF create, createReward, cancel, fail, Check, Write, tickVars
  <1>12. ASSUME NEW t \in Txs, PollOne(t) \/ BankDecides(t) \/ Expire(t) \/ Age(t)
         PROVE  G
    BY <1>10, <1>12 DEF PollOne, BankDecides, Expire, Age, tickVars
  <1>13. ASSUME PollSettlements \/ UNCHANGED vars PROVE G
    BY <1>10, <1>13 DEF PollSettlements, vars, tickVars
  <1>14. ASSUME Crash PROVE G
    <2>1. \A w \in Ticks : stage'[w] = "idle"
      BY <1>14 DEF Crash
    <2> QED  BY <2>1 DEF G, ConfirmsFinished
  <1>15. ASSUME NEW t \in Txs, AdminStep(t) PROVE G
    BY <1>10, <1>15, AdminWrites DEF tickVars
  <1>16. G
    BY <1>4, <1>5, <1>6, <1>7, <1>8, <1>9, <1>11, <1>12, <1>13, <1>14, <1>15, StepCases,
       Zenon
  <1> QED  BY <1>16 DEF G

\* With one tick at a time, a row it leaves is over, whatever throws and whoever
\* cancels or fails the row meanwhile.
THEOREM LeavesFinished == (\A v, w \in Ticks : v = w) => (Spec => LeftIsFinished)
  <1> SUFFICES ASSUME \A v, w \in Ticks : v = w PROVE Spec => LeftIsFinished
    OBVIOUS
  <1>1. Init => IdleIsNowhere /\ ConfirmsFinished
    BY TransactionProcessorAssumption DEF Init, IdleIsNowhere, ConfirmsFinished
  <1>2. TypeOK /\ IdleIsNowhere /\ ConfirmsFinished /\ [Next]_vars =>
            /\ ConfirmsFinished'
            /\ [\A w \in Ticks, t \in Txs :
                   WorksOn(w, t) /\ ~ WorksOn(w, t)'
                      => status'[t] \in Final \/ stage'[w] = "idle"]_vars
    BY AloneStep
  <1> QED  BY <1>1, <1>2, IdleStep, TypeCorrect, PTL DEF Spec, LeftIsFinished
=============================================================================
