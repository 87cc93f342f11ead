------------------------- MODULE PaymentEngine_proofs -------------------------
(***************************************************************************)
(* What TLAPS proves of the payment engine, for every set of addresses,    *)
(* payments, merchants, amounts and quotes.                                *)
(***************************************************************************)
EXTENDS PaymentEngine, TLAPS

\* The steps that move one payment, apart from how they are drawn.
PaymentStep(caller) ==
    \/ \E p \in Payments, payer \in Payers, m \in Merchants, a \in Paise,
          r \in RewardIds, approved \in BOOLEAN :
           create_payment(caller, payer, p, m, a, r, approved)
    \/ \E p \in Payments, q \in Quotes : quote_payment(caller, p, q)
    \/ \E p \in Payments, from, to \in PaymentStatus :
           /\ <<from, to>> \in {<<"Quoted", "Converted">>, <<"Converted", "Settled">>,
                                <<"Rewarded", "Completed">>}
           /\ transition_operator(caller, p, from, to)
    \/ \E p \in Payments, amount \in Rewards \cup {0} : issue_reward(caller, p, amount)
    \/ \E p \in Payments : cancel_payment(caller, p) \/ fail_payment(caller, p)

\* A step of the engine is an administrative one, a move of one payment, or
\* a stutter.
LEMMA StepCases ==
    ASSUME [Next]_vars
    PROVE  \/ \E caller \in Accounts : AdminStep(caller)
           \/ \E caller \in Accounts : PaymentStep(caller)
           \/ UNCHANGED vars
<1> SUFFICES ASSUME Next
             PROVE  \/ \E caller \in Accounts : AdminStep(caller)
                    \/ \E caller \in Accounts : PaymentStep(caller)
  OBVIOUS
<1>1. PICK caller \in Accounts :
          \/ LocalStep(caller)
          \/ \E p \in Payments, payer \in Payers, m \in Merchants, a \in Paise,
                r \in RewardIds, approved \in BOOLEAN :
                 create_payment(caller, payer, p, m, a, r, approved)
          \/ \E p \in Payments, amount \in Rewards \cup {0} :
                 issue_reward(caller, p, amount)
  BY DEF Next
<1>2. ASSUME NEW p \in Payments, mark_converted(caller, p) \/ mark_settled(caller, p)
                                    \/ complete_payment(caller, p)
      PROVE  PaymentStep(caller)
  BY <1>2 DEF mark_converted, mark_settled, complete_payment, PaymentStep,
              PaymentStatus
<1>3. LocalStep(caller) => AdminStep(caller) \/ PaymentStep(caller)
  BY <1>2, Zenon DEF LocalStep, PaymentStep
<1> QED
  BY <1>1, <1>3, Zenon DEF PaymentStep

\* Administration leaves every payment alone.
LEMMA AdminLeavesPayments ==
    ASSUME NEW caller \in Accounts, AdminStep(caller)
    PROVE  UNCHANGED <<status, terms, quote, star>>
BY DEF AdminStep, set_admin, accept_admin, SetPaused, set_operator, set_contracts,
       paymentVars

\* A move of a payment leaves the roles and the configuration alone.
LEMMA PaymentsLeaveConfig ==
    ASSUME NEW caller \in Accounts, PaymentStep(caller)
    PROVE  /\ UNCHANGED <<admin, pendingAdmin, paused, operator,
                          merchantRegistry, rewardEngine>>
           /\ signer' = caller
BY Zenon DEF PaymentStep, create_payment, quote_payment, transition_operator,
       issue_reward, cancel_payment, fail_payment, OperatorCall, Authenticated,
       configVars

-----------------------------------------------------------------------------
\* Type correctness of the engine's state: at the start and over a step.
LEMMA TypeInit == ASSUME Init PROVE TypeOK
<1>1. paused \in BOOLEAN
  BY DEF Init
<1> QED
  BY <1>1, PaymentEngineAssumption DEF PaymentEngineAssumption, Init, TypeOK

LEMMA TypeStep == ASSUME TypeOK, [Next]_vars PROVE TypeOK'
<1> USE PaymentEngineAssumption DEF PaymentEngineAssumption, TypeOK
<1>1. ASSUME NEW caller \in Accounts, AdminStep(caller)
      PROVE  TypeOK'
  <2>1. UNCHANGED <<status, terms, quote, star>>
    BY <1>1, AdminLeavesPayments
  <2>2. ASSUME NEW a \in Candidates, set_admin(caller, a)
        PROVE  TypeOK'
    BY <2>1, <2>2 DEF set_admin, AdminCall, Authenticated
  <2>3. CASE accept_admin(caller)
    BY <2>1, <2>3 DEF accept_admin, Authenticated
  <2>4. ASSUME NEW flag \in BOOLEAN, SetPaused(caller, flag)
        PROVE  TypeOK'
    BY <2>1, <2>4 DEF SetPaused
  <2>5. ASSUME NEW a \in OperatorHolders, NEW flag \in BOOLEAN,
               set_operator(caller, a, flag)
        PROVE  TypeOK'
    BY <2>1, <2>5 DEF set_operator, AdminCall, Authenticated
  <2>6. ASSUME NEW r \in Registries, NEW e \in RewardEngines,
               set_contracts(caller, r, e)
        PROVE  TypeOK'
    BY <2>1, <2>6 DEF set_contracts, AdminCall, Authenticated
  <2> QED
    BY <1>1, <2>2, <2>3, <2>4, <2>5, <2>6 DEF AdminStep
<1>2. ASSUME NEW caller \in Accounts, PaymentStep(caller)
      PROVE  TypeOK'
  <2>1. UNCHANGED <<admin, pendingAdmin, paused, operator, merchantRegistry,
                    rewardEngine>> /\ signer' = caller
    BY <1>2, PaymentsLeaveConfig
  <2>2. ASSUME NEW p \in Payments, NEW payer \in Payers, NEW m \in Merchants,
               NEW a \in Paise, NEW r \in RewardIds, NEW approved \in BOOLEAN,
               create_payment(caller, payer, p, m, a, r, approved)
        PROVE  TypeOK'
    <3>1. [payer |-> payer, merchant_id |-> m, amount_in_paise |-> a,
           reward_id |-> r] \in Terms
      BY DEF Terms
    <3> QED
      BY <2>1, <2>2, <3>1 DEF create_payment, PaymentStatus
  <2>3. ASSUME NEW p \in Payments, NEW q \in Quotes, quote_payment(caller, p, q)
        PROVE  TypeOK'
    BY <2>1, <2>3 DEF quote_payment, PaymentStatus
  <2>4. ASSUME NEW p \in Payments, NEW from \in PaymentStatus,
               NEW to \in PaymentStatus, transition_operator(caller, p, from, to)
        PROVE  TypeOK'
    BY <2>1, <2>4 DEF transition_operator
  <2>5. ASSUME NEW p \in Payments, NEW amount \in Rewards \cup {0},
               issue_reward(caller, p, amount)
        PROVE  TypeOK'
    BY <2>1, <2>5 DEF issue_reward, PaymentStatus
  <2>6. ASSUME NEW p \in Payments,
               cancel_payment(caller, p) \/ fail_payment(caller, p)
        PROVE  TypeOK'
    BY <2>1, <2>6 DEF cancel_payment, fail_payment, PaymentStatus
  <2> QED
    BY <1>2, <2>2, <2>3, <2>4, <2>5, <2>6 DEF PaymentStep
<1>3. CASE UNCHANGED vars
  BY <1>3 DEF vars
<1> QED
  BY <1>1, <1>2, <1>3, StepCases

\* Type correctness of the engine's state.
THEOREM TypeCorrect == Spec => []TypeOK
BY TypeInit, TypeStep, PTL DEF Spec

-----------------------------------------------------------------------------
\* Every record is what its status says: at the start and over a step.  The
\* property is inductive as it stands, given the types: each move of a payment
\* is guarded by the status it leaves.
LEMMA RecordsInit == ASSUME Init PROVE RecordMatchesStatus
BY PaymentEngineAssumption DEF PaymentEngineAssumption, Init, RecordMatchesStatus

LEMMA RecordsStep ==
    ASSUME TypeOK, RecordMatchesStatus, [Next]_vars
    PROVE  RecordMatchesStatus'
<1> USE PaymentEngineAssumption DEF PaymentEngineAssumption
<1>1. CASE UNCHANGED <<status, terms, quote, star>>
  BY <1>1 DEF RecordMatchesStatus
<1>2. ASSUME NEW caller \in Accounts, PaymentStep(caller)
      PROVE  RecordMatchesStatus'
  <2> USE DEF TypeOK, PaymentStatus
  <2>1. ASSUME NEW p \in Payments, NEW payer \in Payers, NEW m \in Merchants,
               NEW a \in Paise, NEW r \in RewardIds, NEW approved \in BOOLEAN,
               create_payment(caller, payer, p, m, a, r, approved)
        PROVE  RecordMatchesStatus'
    <3> DEFINE new == [payer |-> payer, merchant_id |-> m,
                       amount_in_paise |-> a, reward_id |-> r]
    <3>1. new # None /\ new.amount_in_paise > 0
      <4>1. new \in Terms
        BY DEF Terms
      <4>2. a > 0
        BY <2>1 DEF create_payment
      <4> QED
        BY <4>1, <4>2
    <3>2. /\ status[p] = "Absent"
          /\ status' = [status EXCEPT ![p] = "Created"]
          /\ terms' = [terms EXCEPT ![p] = new]
          /\ UNCHANGED <<quote, star>>
      BY <2>1 DEF create_payment
    <3> HIDE DEF new
    <3> QED
      BY <3>1, <3>2 DEF RecordMatchesStatus
  <2>2. ASSUME NEW p \in Payments, NEW q \in Quotes, quote_payment(caller, p, q)
        PROVE  RecordMatchesStatus'
    <3>1. q # None
      OBVIOUS
    <3> QED
      BY <2>2, <3>1 DEF RecordMatchesStatus, quote_payment
  <2>3. ASSUME NEW p \in Payments, NEW from \in PaymentStatus,
               NEW to \in PaymentStatus,
               <<from, to>> \in {<<"Quoted", "Converted">>,
                   <<"Converted", "Settled">>, <<"Rewarded", "Completed">>},
               transition_operator(caller, p, from, to)
        PROVE  RecordMatchesStatus'
    BY <2>3 DEF RecordMatchesStatus, transition_operator
  <2>4. ASSUME NEW p \in Payments, NEW amount \in Rewards \cup {0},
               issue_reward(caller, p, amount)
        PROVE  RecordMatchesStatus'
    BY <2>4 DEF RecordMatchesStatus, issue_reward
  <2>5. ASSUME NEW p \in Payments,
               cancel_payment(caller, p) \/ fail_payment(caller, p)
        PROVE  RecordMatchesStatus'
    BY <2>5 DEF RecordMatchesStatus, cancel_payment, fail_payment
  <2> QED
    BY <1>2, <2>1, <2>2, <2>3, <2>4, <2>5 DEF PaymentStep
<1> QED
  BY <1>1, <1>2, StepCases, AdminLeavesPayments DEF vars

\* Every record is what its status says.
THEOREM RecordsMatch == Spec => []RecordMatchesStatus
BY RecordsInit, RecordsStep, TypeCorrect, PTL DEF Spec

-----------------------------------------------------------------------------
\* A payment's terms, once there, are never written again (one step).
LEMMA TermsStay ==
    ASSUME TypeOK, RecordMatchesStatus, [Next]_vars
    PROVE  \A p \in Payments : terms[p] # None => terms'[p] = terms[p]
<1>1. ASSUME NEW caller \in Accounts, PaymentStep(caller)
      PROVE  \A p \in Payments : terms[p] # None => terms'[p] = terms[p]
  BY <1>1 DEF PaymentStep, create_payment, quote_payment, transition_operator,
      issue_reward, cancel_payment, fail_payment, TypeOK, RecordMatchesStatus
<1> QED
  BY <1>1, StepCases, AdminLeavesPayments DEF vars

\* What is open is never absent again, and what is past its reward, or failed,
\* is never back before it (one step).
LEMMA StatusStays ==
    ASSUME TypeOK, RecordMatchesStatus, [Next]_vars, NEW p \in Payments
    PROVE  /\ status[p] # "Absent" => status'[p] # "Absent"
           /\ status[p] \in {"Rewarded", "Completed", "Failed"} =>
                  status'[p] \in {"Rewarded", "Completed", "Failed"}
<1>1. ASSUME NEW caller \in Accounts, PaymentStep(caller)
      PROVE  /\ status[p] # "Absent" => status'[p] # "Absent"
             /\ status[p] \in {"Rewarded", "Completed", "Failed"} =>
                    status'[p] \in {"Rewarded", "Completed", "Failed"}
  BY <1>1 DEF PaymentStep, create_payment, quote_payment, transition_operator,
      issue_reward, cancel_payment, fail_payment, TypeOK
<1> QED
  BY <1>1, StepCases, AdminLeavesPayments DEF vars

\* The terms, the quote and the STAR of a payment never change once set.
THEOREM AgreementsKept == Spec => AgreementsAreKept
<1> DEFINE Kept ==
        \A p \in Payments :
            /\ terms[p] # None => terms'[p] = terms[p]
            /\ quote[p] # None => quote'[p] = quote[p]
            /\ status[p] \in {"Rewarded", "Completed", "Failed", "Cancelled"}
                   => star'[p] = star[p]
<1>1. TypeOK /\ RecordMatchesStatus /\ [Next]_vars => [Kept]_vars
  <2> SUFFICES ASSUME TypeOK, RecordMatchesStatus, [Next]_vars
               PROVE  Kept
    OBVIOUS
  <2> USE DEF TypeOK, RecordMatchesStatus
  <2>1. CASE UNCHANGED <<status, terms, quote, star>>
    BY <2>1
  <2>2. ASSUME NEW caller \in Accounts, PaymentStep(caller)
        PROVE  Kept
    <3>1. ASSUME NEW p \in Payments, NEW payer \in Payers, NEW m \in Merchants,
                 NEW a \in Paise, NEW r \in RewardIds, NEW approved \in BOOLEAN,
                 create_payment(caller, payer, p, m, a, r, approved)
          PROVE  Kept
      BY <3>1 DEF create_payment
    <3>2. ASSUME NEW p \in Payments, NEW q \in Quotes, quote_payment(caller, p, q)
          PROVE  Kept
      BY <3>2 DEF quote_payment
    <3>3. ASSUME NEW p \in Payments, NEW from \in PaymentStatus,
                 NEW to \in PaymentStatus, transition_operator(caller, p, from, to)
          PROVE  Kept
      BY <3>3 DEF transition_operator
    <3>4. ASSUME NEW p \in Payments, NEW amount \in Rewards \cup {0},
                 issue_reward(caller, p, amount)
          PROVE  Kept
      BY <3>4 DEF issue_reward
    <3>5. ASSUME NEW p \in Payments,
                 cancel_payment(caller, p) \/ fail_payment(caller, p)
          PROVE  Kept
      BY <3>5 DEF cancel_payment, fail_payment
    <3> QED
      BY <2>2, <3>1, <3>2, <3>3, <3>4, <3>5 DEF PaymentStep
  <2> QED
    BY <2>1, <2>2, StepCases, AdminLeavesPayments DEF vars
<1> QED
  BY <1>1, TypeCorrect, RecordsMatch, PTL DEF Spec, AgreementsAreKept

\* A payment moves only by an operator of an unpaused engine, or is cancelled
\* by its payer.
THEOREM RightKeyMoves == Spec => MovedByTheRightKey
<1> DEFINE Moved ==
        status' # status =>
          /\ ~paused
          /\ \A p \in Payments : status'[p] # status[p] =>
                IF status'[p] = "Cancelled" THEN signer' = terms[p].payer
                                            ELSE signer' \in operator
<1>1. TypeOK /\ [Next]_vars => [Moved]_vars
  <2> SUFFICES ASSUME TypeOK, [Next]_vars, status' # status
               PROVE  /\ ~paused
                      /\ \A p \in Payments : status'[p] # status[p] =>
                            IF status'[p] = "Cancelled"
                            THEN signer' = terms[p].payer
                            ELSE signer' \in operator
    BY Zenon
  <2>1. PICK caller \in Accounts : PaymentStep(caller)
    BY StepCases, AdminLeavesPayments DEF vars
  <2>2. ~paused
    BY <2>1, Zenon DEF PaymentStep, create_payment, quote_payment, transition_operator,
        issue_reward, cancel_payment, fail_payment, OperatorCall, Authenticated
  <2>3. signer' = caller
    BY <2>1, PaymentsLeaveConfig
  <2>4. ASSUME NEW p \in Payments, cancel_payment(caller, p)
        PROVE  \A id \in Payments : status'[id] # status[id] =>
                   status'[id] = "Cancelled" /\ signer' = terms[id].payer
    BY <2>3, <2>4 DEF cancel_payment, TypeOK
  <2>5. ASSUME ~\E p \in Payments : cancel_payment(caller, p)
        PROVE  caller \in operator
    BY <2>1, <2>5, Zenon DEF PaymentStep, create_payment, quote_payment,
        transition_operator, issue_reward, fail_payment, OperatorCall
  <2>6. ASSUME ~\E p \in Payments : cancel_payment(caller, p)
        PROVE  \A id \in Payments : status'[id] = "Cancelled" =>
                   status'[id] = status[id]
    BY <2>1, <2>6 DEF PaymentStep, create_payment, quote_payment,
        transition_operator, issue_reward, fail_payment, TypeOK
  <2> QED
    BY <2>2, <2>3, <2>4, <2>5, <2>6
<1> QED
  BY <1>1, TypeCorrect, PTL DEF Spec, MovedByTheRightKey

\* Operators come from the admin or from a handoff, which unmakes the last one.
THEOREM OperatorsFromTheAdmin == Spec => OperatorsComeFromTheAdmin
<1> DEFINE Allowed ==
        /\ operator' \ operator # {} =>
             \/ signer' = admin
             \/ /\ signer' = pendingAdmin
                /\ operator' \ operator \subseteq {admin'}
        /\ admin' # admin => admin \notin operator'
<1>1. TypeOK /\ [Next]_vars => [Allowed]_vars
  <2> SUFFICES ASSUME TypeOK, [Next]_vars
               PROVE  Allowed
    OBVIOUS
  <2>1. CASE UNCHANGED <<admin, operator>>
    BY <2>1
  <2>2. ASSUME NEW caller \in Accounts, accept_admin(caller)
        PROVE  Allowed
    BY <2>2 DEF accept_admin, Authenticated
  <2>3. ASSUME NEW caller \in Accounts, NEW a \in OperatorHolders,
               NEW flag \in BOOLEAN, set_operator(caller, a, flag)
        PROVE  Allowed
    BY <2>3 DEF set_operator, AdminCall, Authenticated
  <2>4. ASSUME NEW caller \in Accounts, AdminStep(caller)
        PROVE  Allowed
    BY <2>1, <2>2, <2>3, <2>4 DEF AdminStep, set_admin, SetPaused, set_contracts
  <2> QED
    BY <2>1, <2>4, StepCases, PaymentsLeaveConfig DEF vars
<1> QED
  BY <1>1, TypeCorrect, PTL DEF Spec, OperatorsComeFromTheAdmin

-----------------------------------------------------------------------------
\* A move of one payment moves one abstract stage.
LEMMA StageMoves ==
    ASSUME TypeOK, NEW p \in Payments, NEW s \in PaymentStatus,
           status' = [status EXCEPT ![p] = s]
    PROVE  stages' = [stages EXCEPT ![p] = StageOf(s)]
BY DEF TypeOK, stages

\* Leaving the STAR figures alone leaves the set of rewarded payments alone.
LEMMA RewardedStays ==
    ASSUME UNCHANGED star
    PROVE  UNCHANGED rewarded
BY DEF rewarded

\* The engine implements the abstract life cycle of a payment.
THEOREM Implements == Spec => ImplementsLifecycle
<1> USE DEF Lifecycle!Advance, Lifecycle!Terminal, Lifecycle!Stages
<1>1. Init => Lifecycle!Init
  BY DEF Init, Lifecycle!Init, stages, rewarded, StageOf
<1>2. TypeOK /\ RecordMatchesStatus /\ [Next]_vars
          => [Lifecycle!Next]_<<stages, rewarded>>
  <2> SUFFICES ASSUME TypeOK, RecordMatchesStatus, [Next]_vars
               PROVE  Lifecycle!Next \/ UNCHANGED <<stages, rewarded>>
    OBVIOUS
  <2>0. \A p \in Payments : stages[p] = StageOf(status[p])
    BY DEF stages
  <2>1. CASE UNCHANGED <<status, terms, quote, star>>
    BY <2>1, RewardedStays DEF stages
  <2>2. ASSUME NEW caller \in Accounts, PaymentStep(caller)
        PROVE  Lifecycle!Next \/ UNCHANGED <<stages, rewarded>>
    <3>1. ASSUME NEW p \in Payments, NEW payer \in Payers, NEW m \in Merchants,
                 NEW a \in Paise, NEW r \in RewardIds, NEW approved \in BOOLEAN,
                 create_payment(caller, payer, p, m, a, r, approved)
          PROVE  Lifecycle!Open(p)
      <4>1. stages[p] = "absent"
        BY <2>0, <3>1 DEF create_payment, StageOf
      <4>2. stages' = [stages EXCEPT ![p] = "open"]
        BY <3>1, StageMoves DEF create_payment, PaymentStatus, StageOf
      <4> QED
        BY <3>1, <4>1, <4>2, RewardedStays DEF create_payment, Lifecycle!Open
    <3>2. ASSUME NEW p \in Payments, NEW q \in Quotes, quote_payment(caller, p, q)
          PROVE  UNCHANGED <<stages, rewarded>>
      <4>1. stages[p] = "open"
        BY <2>0, <3>2 DEF quote_payment, StageOf
      <4>2. stages' = [stages EXCEPT ![p] = "open"]
        BY <3>2, StageMoves DEF quote_payment, PaymentStatus, StageOf
      <4> QED
        BY <3>2, <4>1, <4>2, RewardedStays DEF quote_payment, stages
    <3>3. ASSUME NEW p \in Payments, NEW from \in PaymentStatus,
                 NEW to \in PaymentStatus,
                 <<from, to>> \in {<<"Quoted", "Converted">>,
                     <<"Converted", "Settled">>, <<"Rewarded", "Completed">>},
                 transition_operator(caller, p, from, to)
          PROVE  Lifecycle!Commit(p) \/ Lifecycle!Settle(p) \/ Lifecycle!Complete(p)
      <4>1. stages[p] = StageOf(from) /\ stages' = [stages EXCEPT ![p] = StageOf(to)]
        BY <2>0, <3>3, StageMoves DEF transition_operator
      <4>2. UNCHANGED rewarded
        BY <3>3, RewardedStays DEF transition_operator
      <4> QED
        BY <3>3, <4>1, <4>2 DEF StageOf, Lifecycle!Commit, Lifecycle!Settle,
                                Lifecycle!Complete
    <3>4. ASSUME NEW p \in Payments, NEW amount \in Rewards \cup {0},
                 issue_reward(caller, p, amount)
          PROVE  Lifecycle!Reward(p)
      <4>1. stages[p] = "settled"
        BY <2>0, <3>4 DEF issue_reward, StageOf
      <4>2. stages' = [stages EXCEPT ![p] = "closing"]
        BY <3>4, StageMoves DEF issue_reward, PaymentStatus, StageOf
      <4>3. rewarded' \in {rewarded, rewarded \cup {p}}
        <5>1. ~(star[p] > 0)
          BY <3>4 DEF issue_reward, RecordMatchesStatus
        <5> QED
          BY <3>4, <5>1 DEF issue_reward, rewarded, TypeOK
      <4> QED
        BY <4>1, <4>2, <4>3 DEF Lifecycle!Reward
    <3>5. ASSUME NEW p \in Payments, cancel_payment(caller, p)
          PROVE  Lifecycle!Cancel(p)
      <4>1. stages[p] = "open"
        BY <2>0, <3>5 DEF cancel_payment, StageOf
      <4>2. stages' = [stages EXCEPT ![p] = "cancelled"]
        BY <3>5, StageMoves DEF cancel_payment, PaymentStatus, StageOf
      <4> QED
        BY <3>5, <4>1, <4>2, RewardedStays DEF cancel_payment, Lifecycle!Cancel
    <3>6. ASSUME NEW p \in Payments, fail_payment(caller, p)
          PROVE  Lifecycle!Fail(p) \/ UNCHANGED <<stages, rewarded>>
      <4>1. stages' = [stages EXCEPT ![p] = "failed"] /\ UNCHANGED rewarded
        BY <3>6, StageMoves, RewardedStays DEF fail_payment, PaymentStatus, StageOf
      <4>2. CASE status[p] = "Failed"
        BY <2>0, <4>1, <4>2 DEF StageOf, stages
      <4>3. CASE status[p] # "Failed"
        <5>1. stages[p] \in {"open", "committed", "settled", "closing"}
          BY <2>0, <3>6, <4>3 DEF fail_payment, StageOf, TypeOK, PaymentStatus
        <5> QED
          BY <4>1, <5>1 DEF Lifecycle!Fail
      <4> QED
        BY <4>2, <4>3
    <3> QED
      BY <2>2, <3>1, <3>2, <3>3, <3>4, <3>5, <3>6 DEF PaymentStep, Lifecycle!Next
  <2> QED
    BY <2>1, <2>2, StepCases, AdminLeavesPayments DEF vars
<1> QED
  BY <1>1, <1>2, TypeCorrect, RecordsMatch, PTL DEF Spec, ImplementsLifecycle,
     Lifecycle!Spec
=============================================================================
