---------------------------- MODULE Ramps_proofs ----------------------------
(* Theorems about the ramps, the identity checks before them and the pages  *)
(* after them, for any number of users, applicants, rows, overlapping ticks *)
(* and faults.                                                              *)
EXTENDS RampPages, TLAPS

\* A tick that asks, applies or logs is at a row, and only one that has asked
\* has an answer.
TickInv == \A t \in Ticks :
    /\ stage[t] \in {"ask", "apply", "log"} => current[t] \in Rows
    /\ stage[t] \notin {"apply", "log"} => answer[t] = "none"

\* The tables, the handlers and the ticks keep their types (one step).
LEMMA TypeStep == ASSUME RampsTypeOK, TickInv, RampsNext PROVE RampsTypeOK' /\ TickInv'
  <1> USE RampsAssumption DEF RampsTypeOK, TickInv, requestVars, tickVars
  <1>1. ASSUME NEW r \in Rows,
      Receive(r) \/ assertKycVerified(r) \/ Create(r) \/ Record(r) \/ Fail(r)
        PROVE  RampsTypeOK' /\ TickInv'
    BY <1>1 DEF Receive, assertKycVerified, Create, Record, Fail, RequestStage, RampStatus,
                PendingStatus
  <1>2. ASSUME NEW r \in Rows, Attempt(r) PROVE RampsTypeOK' /\ TickInv'
    BY <1>2 DEF Attempt, RequestStage
  <1>3. ASSUME NEW r \in Rows, withRetry(r) PROVE RampsTypeOK' /\ TickInv'
    BY <1>3 DEF withRetry, RequestStage
  <1>4. ASSUME NEW r \in Rows, Throw(r) PROVE RampsTypeOK' /\ TickInv'
    BY <1>4 DEF Throw, OnThrow, RequestStage, Seen
  <1>5. ASSUME NEW r \in Rows, RequestEvent(r) PROVE RampsTypeOK' /\ TickInv'
    <2>1. CASE ReadSequence(r)
      BY <2>1 DEF ReadSequence, Seen
    <2>2. CASE Insert(r, r)
      BY <1>5, <2>2 DEF RequestEvent, Insert, ReadSequence, OnThrow, RequestStage, Seen
    <2> QED BY <1>5, <2>1, <2>2 DEF RequestEvent
  <1>6. ASSUME NEW r \in Rows, NEW raw \in RawStatus, Age(r) \/ Advance(r, raw)
        PROVE  RampsTypeOK' /\ TickInv'
    BY <1>6 DEF Age, Advance
  <1>7. ASSUME NEW t \in Ticks, reconcilePending(t) PROVE RampsTypeOK' /\ TickInv'
    BY <1>7 DEF reconcilePending, TickStage
  <1>8. ASSUME NEW t \in Ticks, NEW r \in Rows, refreshStatus(t,
      r) PROVE RampsTypeOK' /\ TickInv'
    BY <1>8 DEF refreshStatus, TickStage
  <1>9. ASSUME NEW t \in Ticks, getStatus(t) PROVE RampsTypeOK' /\ TickInv'
    BY <1>9 DEF getStatus, TickStage
  <1>10. ASSUME NEW t \in Ticks, applyStatus(t) PROVE RampsTypeOK' /\ TickInv'
    BY <1>10 DEF applyStatus, Forget, mapStatus24, RampStatus, PendingStatus, TickStage
  <1>11. ASSUME NEW t \in Ticks, TickEvent(t) PROVE RampsTypeOK' /\ TickInv'
    BY <1>11, SMTT(30) DEF TickEvent, ReadSequence, Insert, Forget, TickStage, Seen
  <1>12. ASSUME NEW t \in Ticks, Catch(t) PROVE RampsTypeOK' /\ TickInv'
    BY <1>12 DEF Catch, Forget, TickStage, Seen
  <1>13. ASSUME NEW t \in Ticks, EndTick(t) PROVE RampsTypeOK' /\ TickInv'
    BY <1>13 DEF EndTick, TickStage
  <1>14. CASE Crash
    BY <1>14 DEF Crash, RequestStage, TickStage, Seen
  <1> QED BY <1>1, <1>2, <1>3, <1>4, <1>5, <1>6, <1>7, <1>8, <1>9, <1>10, <1>11, <1>12, <1>13,
             <1>14 DEF RampsNext, Request, Tick

LEMMA KycTypeStep == ASSUME KycTypeOK, KycNext PROVE KycTypeOK'
  <1> USE DEF KycTypeOK
  <1>1. ASSUME NEW u \in Users, NEW a \in Applicants, OpenApplicant(u, a) PROVE KycTypeOK'
    BY <1>1 DEF OpenApplicant
  <1>2. ASSUME NEW u \in Users, NEW a \in Applicants, createVerification(u, a) PROVE KycTypeOK'
    BY <1>2 DEF createVerification, KycStatus
  <1>3. ASSUME NEW a \in Applicants, NEW s \in WebhookStatus, Report(a, s) PROVE KycTypeOK'
    BY <1>3 DEF Report
  <1>4. ASSUME NEW u \in Users, NEW w \in sent, FindUser(u, w) PROVE KycTypeOK'
    BY <1>4 DEF FindUser, mapStatus, KycStatus
  <1>5. ASSUME NEW u \in Users, NEW s \in KycStatus, processWebhook(u, s) PROVE KycTypeOK'
    BY <1>5 DEF processWebhook
  <1>6. ASSUME NEW u \in Users, deleteAccount(u) PROVE KycTypeOK'
    BY <1>6 DEF deleteAccount
  <1> QED BY <1>1, <1>2, <1>3, <1>4, <1>5, <1>6 DEF KycNext

LEMMA TypeInit == ASSUME Init PROVE TypeOK /\ TickInv
  BY RampsAssumption
  DEF Init, KycInit, RampsInit, TypeOK, KycTypeOK, RampsTypeOK, TickInv, KycStatus,
      RampStatus, RequestStage, Seen, TickStage

LEMMA NextTypeStep == ASSUME TypeOK, TickInv, [Next]_vars PROVE TypeOK' /\ TickInv'
  <1> USE DEF TypeOK
  <1>1. CASE RampsNext /\ UNCHANGED kycVars
    BY <1>1, TypeStep DEF kycVars, KycTypeOK
  <1>2. CASE KycNext /\ UNCHANGED rampVars
    BY <1>2, KycTypeStep DEF rampVars, RampsTypeOK, TickInv
  <1>3. CASE UNCHANGED vars
    BY <1>3 DEF vars, kycVars, rampVars, KycTypeOK, RampsTypeOK, TickInv
  <1> QED BY <1>1, <1>2, <1>3 DEF Next

\* The tables, the handlers, the ticks and the provider keep their types.
THEOREM TypeCorrect == Spec => [](TypeOK /\ TickInv)
  BY TypeInit, NextTypeStep, PTL DEF Spec

-----------------------------------------------------------------------------
(* The table tells the truth.                                               *)

\* What a tick has been told and cannot change any more is still so, however
\* late it writes it.
AnswersStand == \A t \in Ticks :
    answer[t] \in Settled => current[t] \in Rows /\ provider[current[t]] = answer[t]

\* The anchor knows nothing of a ramp it has not been asked to initiate.
NotYetInitiated == \A r \in Rows :
    request[r] \in {"none", "gate", "create", "created", "authenticate", "initiate"}
        => provider[r] = "none"

TruthInv == RampTellsTheTruth /\ AnswersStand /\ NotYetInitiated

\* The provider's words for what is settled are used for nothing else.
LEMMA MapTellsTheTruth ==
    ASSUME NEW raw
    PROVE  /\ mapStatus24(raw) = "COMPLETED" => raw = "completed"
           /\ mapStatus24(raw) = "REFUNDED" => raw = "refunded"
           /\ mapStatus24(raw) = "EXPIRED" => raw \in {"expired", "too_late"}
  BY DEF mapStatus24

LEMMA TruthStep ==
    ASSUME RampsTypeOK, TickInv, TruthInv, RampsNext PROVE TruthInv'
  <1> USE RampsAssumption
      DEF RampsTypeOK, TruthInv, RampTellsTheTruth, AnswersStand, NotYetInitiated,
          requestVars, tickVars, Settled
  <1>1. ASSUME NEW r \in Rows,
      Receive(r) \/ assertKycVerified(r) \/ Create(r) \/ Record(r) \/ Fail(r)
        PROVE  TruthInv'
    BY <1>1 DEF Receive, assertKycVerified, Create, Record, Fail
  <1>2. ASSUME NEW r \in Rows, Attempt(r) PROVE TruthInv'
    BY <1>2 DEF Attempt
  <1>3. ASSUME NEW r \in Rows, withRetry(r) PROVE TruthInv'
    BY <1>3 DEF withRetry
  <1>4. ASSUME NEW r \in Rows, Throw(r) PROVE TruthInv'
    BY <1>4 DEF Throw, OnThrow
  <1>5. ASSUME NEW r \in Rows, RequestEvent(r) PROVE TruthInv'
    BY <1>5 DEF RequestEvent, ReadSequence, Insert, OnThrow
  <1>6. ASSUME NEW r \in Rows, Age(r) PROVE TruthInv'
    BY <1>6 DEF Age
  <1>7. ASSUME NEW r \in Rows, NEW raw \in RawStatus, Advance(r, raw) PROVE TruthInv'
    <2>1. provider[r] \in RawStatus /\ provider[r] \notin Settled
      BY <1>7 DEF Advance
    <2>2. request[r] \notin {"none", "gate", "create", "created", "authenticate", "initiate"}
      BY <2>1
    <2> QED BY <1>7, <2>1, <2>2 DEF Advance
  <1>8. ASSUME NEW t \in Ticks, reconcilePending(t) \/ EndTick(t) PROVE TruthInv'
    BY <1>8 DEF reconcilePending, EndTick
  <1>9. ASSUME NEW t \in Ticks, NEW r \in Rows, refreshStatus(t, r) PROVE TruthInv'
    BY <1>9 DEF refreshStatus, TickInv
  <1>10. ASSUME NEW t \in Ticks, getStatus(t) PROVE TruthInv'
    BY <1>10 DEF getStatus, TickInv
  <1>11. ASSUME NEW t \in Ticks, applyStatus(t) PROVE TruthInv'
    <2>1. current[t] \in Rows
      BY <1>11 DEF applyStatus, TickInv
    <2>2. UNCHANGED <<provider, request>>
      BY <1>11 DEF applyStatus
    <2>3. RampTellsTheTruth'
      <3>1. PICK told : told = mapStatus24(answer[t])
        OBVIOUS
      <3>2. ramp' = ramp \/ ramp' = [ramp EXCEPT ![current[t]] = told]
        <4>1. ramp' = [ramp EXCEPT ![current[t]] = IF told # previous[t] THEN told ELSE @]
          BY <1>11, <3>1 DEF applyStatus
        <4> QED BY <2>1, <4>1
      <3>3. /\ told = "COMPLETED" => provider[current[t]] = "completed"
            /\ told = "REFUNDED" => provider[current[t]] = "refunded"
            /\ told = "EXPIRED" => provider[current[t]] \in {"expired", "too_late"}
        BY <3>1, MapTellsTheTruth
      <3>4. \A r \in Rows : ramp'[r] = ramp[r] \/ (r = current[t] /\ ramp'[r] = told)
        BY <2>1, <3>2
      <3> QED BY <2>2, <3>3, <3>4
    <2>4. AnswersStand'
      BY <1>11, <2>2 DEF applyStatus, Forget
    <2> QED BY <2>2, <2>3, <2>4
  <1>12. ASSUME NEW t \in Ticks, TickEvent(t) PROVE TruthInv'
    BY <1>12 DEF TickEvent, ReadSequence, Insert, Forget
  <1>13. ASSUME NEW t \in Ticks, Catch(t) PROVE TruthInv'
    BY <1>13 DEF Catch, Forget
  <1>14. CASE Crash
    BY <1>14 DEF Crash
  <1> QED BY <1>1, <1>2, <1>3, <1>4, <1>5, <1>6, <1>7, <1>8, <1>9, <1>10, <1>11, <1>12, <1>13,
             <1>14 DEF RampsNext, Request, Tick

LEMMA TruthInit == ASSUME Init PROVE TruthInv
  BY DEF Init, RampsInit, TruthInv, RampTellsTheTruth, AnswersStand, NotYetInitiated, Settled

LEMMA TruthNext == ASSUME TypeOK, TickInv, TruthInv, [Next]_vars PROVE TruthInv'
  <1>1. CASE RampsNext
    BY <1>1, TruthStep DEF TypeOK
  <1>2. CASE UNCHANGED rampVars
    BY <1>2 DEF rampVars, TruthInv, RampTellsTheTruth, AnswersStand, NotYetInitiated
  <1> QED BY <1>1, <1>2 DEF Next, vars

\* No stale poll, retry, overlap or crash writes an outcome the money did not
\* have.
THEOREM RampsAreTrue == Spec => []RampTellsTheTruth
<1>1. TruthInv => RampTellsTheTruth
  BY DEF TruthInv
<1> QED BY <1>1, TruthInit, TruthNext, TypeCorrect, PTL DEF Spec

-----------------------------------------------------------------------------
(* Ramps are for the verified.                                              *)

\* An applicant on file, or about to be, was opened for the user; a user is
\* VERIFIED, or about to be, only after an approval.
ReviewInv ==
    /\ \A u \in Users, a \in Applicants : <<u, a>> \in opened => applicantOf[a] = u
    /\ \A u \in Users : kycReference[u] # None => applicantOf[kycReference[u]] = u
    /\ \A u \in Users :
          kycStatus[u] = "VERIFIED" \/ <<u, "VERIFIED">> \in found => Approved(u)

\* A ramp beyond the gate, in the table or in a tick is an approved user's.
Involved(r) ==
    \/ ramp[r] # "Absent"
    \/ request[r] \notin {"none", "gate", "thrown"}
    \/ \E t \in Ticks : current[t] = r \/ r \in batch[t]

GateInv == \A r \in Rows : Involved(r) => Approved(Owner[r])

\* An approval is never undone.
LEMMA ReviewStep ==
    ASSUME KycTypeOK, ReviewInv, KycNext
    PROVE  ReviewInv' /\ \A u \in Users : Approved(u) => Approved(u)'
  <1> USE RampsAssumption DEF KycTypeOK, ReviewInv, Approved
  <1>1. ASSUME NEW u \in Users, NEW a \in Applicants, OpenApplicant(u, a)
        PROVE  ReviewInv' /\ \A v \in Users : Approved(v) => Approved(v)'
    <2>1. \A b \in Applicants : applicantOf[b] # None => applicantOf'[b] = applicantOf[b]
      BY <1>1 DEF OpenApplicant
    <2>2. applicantOf'[a] = u
      BY <1>1 DEF OpenApplicant
    <2>3. \A v \in Users : Approved(v) => Approved(v)'
      BY <1>1, <2>1 DEF OpenApplicant
    <2>4. \A v \in Users, b \in Applicants : <<v, b>> \in opened' => applicantOf'[b] = v
      <3>1. \A v \in Users, b \in Applicants :
               <<v, b>> \in opened' => <<v, b>> \in opened \/ (v = u /\ b = a)
        BY <1>1 DEF OpenApplicant
      <3> QED BY <2>1, <2>2, <3>1
    <2>5. \A v \in Users : kycReference'[v] # None => applicantOf'[kycReference'[v]] = v
      BY <1>1, <2>1 DEF OpenApplicant
    <2>6. \A v \in Users : kycStatus'[v] = "VERIFIED" \/ <<v, "VERIFIED">> \in found'
                             => Approved(v)'
      <3>1. UNCHANGED <<kycStatus, found>>
        BY <1>1 DEF OpenApplicant
      <3> QED BY <2>3, <3>1
    <2> QED BY <2>3, <2>4, <2>5, <2>6
  <1>2. ASSUME NEW u \in Users, NEW a \in Applicants, createVerification(u, a)
        PROVE  ReviewInv' /\ \A v \in Users : Approved(v) => Approved(v)'
    BY <1>2 DEF createVerification
  <1>3. ASSUME NEW a \in Applicants, NEW s \in WebhookStatus, Report(a, s)
        PROVE  ReviewInv' /\ \A v \in Users : Approved(v) => Approved(v)'
    BY <1>3 DEF Report
  <1>4. ASSUME NEW u \in Users, NEW w \in sent, FindUser(u, w)
        PROVE  ReviewInv' /\ \A v \in Users : Approved(v) => Approved(v)'
    <2>1. w[1] \in Applicants /\ applicantOf[w[1]] = u /\ w = <<w[1], w[2]>>
      BY <1>4 DEF FindUser
    <2>2. mapStatus(w[2]) = "VERIFIED" => w[2] = "completed"
      BY DEF mapStatus
    <2>3. w[2] = "completed" => <<w[1], "completed">> \in sent
      BY <2>1
    <2>4. mapStatus(w[2]) = "VERIFIED" => Approved(u)
      BY <2>1, <2>2, <2>3
    <2>5. found' = found \cup {<<u, mapStatus(w[2])>>}
      BY <1>4 DEF FindUser
    <2> QED BY <1>4, <2>4, <2>5 DEF FindUser
  <1>5. ASSUME NEW u \in Users, NEW s \in KycStatus, processWebhook(u, s)
        PROVE  ReviewInv' /\ \A v \in Users : Approved(v) => Approved(v)'
    BY <1>5 DEF processWebhook
  <1>6. ASSUME NEW u \in Users, deleteAccount(u)
        PROVE  ReviewInv' /\ \A v \in Users : Approved(v) => Approved(v)'
    BY <1>6 DEF deleteAccount
  <1> QED BY <1>1, <1>2, <1>3, <1>4, <1>5, <1>6 DEF KycNext

\* Only the gate lets a ramp in.
LEMMA GateStep ==
    ASSUME RampsTypeOK, TickInv, ReviewInv, GateInv, RampsNext, UNCHANGED kycVars
    PROVE  GateInv'
  <1> USE RampsAssumption
      DEF RampsTypeOK, GateInv, Involved, Approved, kycVars, requestVars, tickVars, NoRow
  <1>1. ASSUME NEW r \in Rows, assertKycVerified(r) PROVE GateInv'
    <2>1. request'[r] = "create" => Approved(Owner[r])
      BY <1>1 DEF assertKycVerified, ReviewInv
    <2> QED BY <1>1, <2>1 DEF assertKycVerified
  <1>2. ASSUME NEW r \in Rows, Receive(r) \/ Create(r) \/ Record(r) \/ Fail(r) PROVE GateInv'
    BY <1>2 DEF Receive, Create, Record, Fail
  <1>3. ASSUME NEW r \in Rows, Attempt(r) \/ withRetry(r) PROVE GateInv'
    <2>1. /\ request[r] \in {"authenticate", "initiate"}
          /\ \A q \in Rows : q # r => request'[q] = request[q]
          /\ UNCHANGED <<ramp, batch, current>>
      BY <1>3 DEF Attempt, withRetry
    <2> QED BY <2>1
  <1>4. ASSUME NEW r \in Rows, Throw(r) PROVE GateInv'
    BY <1>4 DEF Throw, OnThrow
  <1>5. ASSUME NEW r \in Rows, RequestEvent(r) PROVE GateInv'
    BY <1>5 DEF RequestEvent, ReadSequence, Insert, OnThrow
  <1>6. ASSUME NEW r \in Rows, NEW raw \in RawStatus, Age(r) \/ Advance(r, raw) PROVE GateInv'
    BY <1>6 DEF Age, Advance
  <1>7. ASSUME NEW t \in Ticks, reconcilePending(t) PROVE GateInv'
    <2>1. \A r \in Rows : r \in batch'[t] => ramp[r] # "Absent"
      BY <1>7 DEF reconcilePending, PendingStatus
    <2> QED BY <1>7, <2>1, SMTT(30) DEF reconcilePending
  <1>8. ASSUME NEW t \in Ticks, NEW r \in Rows, refreshStatus(t, r) PROVE GateInv'
    BY <1>8 DEF refreshStatus
  <1>9. ASSUME NEW t \in Ticks, getStatus(t) \/ EndTick(t) PROVE GateInv'
    <2>1. UNCHANGED <<ramp, request, batch, current>>
      BY <1>9 DEF getStatus, EndTick
    <2> QED BY <2>1
  <1>10. ASSUME NEW t \in Ticks, applyStatus(t) PROVE GateInv'
    <2>1. current[t] \in Rows
      BY <1>10 DEF applyStatus, TickInv
    <2>2. \A r \in Rows : ramp'[r] = ramp[r] \/ r = current[t]
      BY <1>10 DEF applyStatus
    <2>3. \A r \in Rows, k \in Ticks : current'[k] = r => current[k] = r
      BY <1>10 DEF applyStatus, Forget
    <2>4. UNCHANGED <<request, batch>>
      BY <1>10 DEF applyStatus
    <2>5. Approved(Owner[current[t]])
      BY <2>1
    <2>6. \A r \in Rows : Involved(r)' => Involved(r) \/ r = current[t]
      BY <2>2, <2>3, <2>4
    <2>7. \A r \in Rows : Approved(Owner[r]) => Approved(Owner[r])'
      OBVIOUS
    <2> QED BY <2>5, <2>6, <2>7
  <1>11. ASSUME NEW t \in Ticks, TickEvent(t) \/ Catch(t) PROVE GateInv'
    BY <1>11 DEF TickEvent, Catch, ReadSequence, Insert, Forget
  <1>12. CASE Crash
    BY <1>12 DEF Crash
  <1> QED BY <1>1, <1>2, <1>3, <1>4, <1>5, <1>6, <1>7, <1>8, <1>9, <1>10, <1>11, <1>12
          DEF RampsNext, Request, Tick

LEMMA GateInit == ASSUME Init PROVE ReviewInv /\ GateInv
  BY RampsAssumption DEF Init, KycInit, RampsInit, ReviewInv, GateInv, Involved, NoRow

LEMMA GateNext ==
    ASSUME TypeOK, TickInv, ReviewInv, GateInv, [Next]_vars PROVE ReviewInv' /\ GateInv'
  <1>1. CASE RampsNext /\ UNCHANGED kycVars
    <2>1. ReviewInv'
      BY <1>1 DEF kycVars, ReviewInv, Approved
    <2> QED BY <1>1, <2>1, GateStep DEF TypeOK
  <1>2. CASE KycNext /\ UNCHANGED rampVars
    <2>1. ReviewInv' /\ \A u \in Users : Approved(u) => Approved(u)'
      BY <1>2, ReviewStep DEF TypeOK
    <2>2. \A r \in Rows : Involved(r)' => Involved(r)
      BY <1>2 DEF rampVars, Involved
    <2> QED BY <2>1, <2>2, RampsAssumption DEF GateInv
  <1>3. CASE UNCHANGED vars
    BY <1>3 DEF vars, kycVars, rampVars, ReviewInv, GateInv, Involved, Approved
  <1> QED BY <1>1, <1>2, <1>3 DEF Next

\* A ramp exists only for a user whose check was completed, for any number of
\* applicants and any order and repetition of their webhooks.
THEOREM RampsNeedApproval == Spec => []RampsAreForTheVerified
<1>1. GateInv => RampsAreForTheVerified
  BY DEF GateInv, Involved, RampsAreForTheVerified
<1> QED BY <1>1, GateInit, GateNext, TypeCorrect, PTL DEF Spec

-----------------------------------------------------------------------------
(* The pages.                                                               *)

\* Whatever the pages do, the ramps behind them make a step of their own, or
\* none.
LEMMA PagesAreRamps == ASSUME [PagesNext]_allVars PROVE [Next]_vars
  <1>1. ASSUME NEW r \in Rows, PageStep(r) PROVE [Next]_vars
    <2>1. CASE initiate(r)
      BY <2>1 DEF initiate, Next, RampsNext
    <2>2. CASE handleAddTrustline(r)
      <3>1. CASE Receive(r)
        BY <2>2, <3>1 DEF handleAddTrustline, Next, RampsNext
      <3>2. CASE UNCHANGED rampVars
        BY <2>2, <3>2 DEF handleAddTrustline, vars
      <3> QED BY <2>2, <3>1, <3>2 DEF handleAddTrustline
    <2>3. CASE UNCHANGED vars
      BY <2>3
    <2>4. \/ initiate(r) \/ handleAddTrustline(r) \/ UNCHANGED vars
      BY <1>1 DEF PageStep, Initiated, handleIframeDone, DepositPage, handleContinue,
          pollDeposit, WithdrawalPage, pollWithdrawal, handleSignPayment, SubmitPayment
    <2> QED BY <2>1, <2>2, <2>3, <2>4
  <1>2. ASSUME NEW r \in Rows, NEW raw \in RawStatus, AnchorMoves(r, raw) PROVE [Next]_vars
    BY <1>2 DEF AnchorMoves, Next, RampsNext
  <1>3. CASE ServerStep /\ UNCHANGED <<kycVars, pageVars>>
    BY <1>3 DEF ServerStep, Next, RampsNext
  <1>4. CASE KycNext /\ UNCHANGED <<rampVars, pageVars>>
    BY <1>4 DEF Next
  <1>5. CASE UNCHANGED allVars
    BY <1>5 DEF allVars
  <1> QED BY <1>1, <1>2, <1>3, <1>4, <1>5 DEF PagesNext

\* Every page is at a step of its own and has signed no more than it may.
PagesType == step \in [Rows -> Step] /\ paid \in [Rows -> 0..MaxPayments]

LEMMA PagesTypeStep == ASSUME PagesType, [PagesNext]_allVars PROVE PagesType'
  <1> USE RampPagesAssumption DEF PagesType, Step, Goto
  <1>1. ASSUME NEW r \in Rows, PageStep(r) PROVE PagesType'
    <2>1. CASE initiate(r) \/ Initiated(r) \/ handleIframeDone(r)
      BY <2>1 DEF initiate, Initiated, handleIframeDone
    <2>2. CASE DepositPage(r)
      BY <2>2 DEF DepositPage, handleContinue, handleAddTrustline, pollDeposit, Conclude
    <2>3. CASE pollWithdrawal(r) \/ handleSignPayment(r)
      BY <2>3 DEF pollWithdrawal, handleSignPayment, Conclude
    <2>4. CASE SubmitPayment(r)
      BY <2>4 DEF SubmitPayment
    <2> QED BY <1>1, <2>1, <2>2, <2>3, <2>4 DEF PageStep, WithdrawalPage
  <1>2. ASSUME NEW r \in Rows, NEW raw \in RawStatus, AnchorMoves(r, raw) PROVE PagesType'
    BY <1>2 DEF AnchorMoves, pageVars
  <1>3. CASE UNCHANGED pageVars
    BY <1>3 DEF pageVars
  <1> QED BY <1>1, <1>2, <1>3 DEF PagesNext, allVars

\* The ramps and their pages keep their types, whatever users and anchors do.
THEOREM PagesTypeCorrect == PagesSpec => [](PagesTypeOK /\ TickInv)
<1>1. PagesInit => TypeOK /\ TickInv /\ PagesType
  BY TypeInit, RampPagesAssumption DEF PagesInit, PagesType, Step
<1>2. TypeOK /\ TickInv /\ PagesType /\ [PagesNext]_allVars
        => TypeOK' /\ TickInv' /\ PagesType'
  BY PagesAreRamps, NextTypeStep, PagesTypeStep
<1>3. TypeOK /\ PagesType => PagesTypeOK
  BY DEF PagesType, PagesTypeOK
<1> QED BY <1>1, <1>2, <1>3, PTL DEF PagesSpec

\* What the anchor has settled stays as it is (Advance, and initiate only of
\* what it has not been asked for).
LEMMA SettledStays ==
    ASSUME RampsTypeOK, NotYetInitiated, [Next]_vars, NEW r \in Rows, provider[r] \in Settled
    PROVE  provider'[r] = provider[r]
  <1> USE DEF RampsTypeOK
  <1>1. CASE RampsNext
    <2>1. ASSUME NEW q \in Rows, Attempt(q) PROVE provider'[r] = provider[r]
      <3>1. provider[q] = "none"
        BY <2>1 DEF Attempt, NotYetInitiated
      <3>2. q # r
        BY <3>1 DEF Settled
      <3> QED BY <2>1, <3>2 DEF Attempt
    <2>2. ASSUME NEW q \in Rows, NEW raw \in RawStatus, Advance(q, raw)
          PROVE  provider'[r] = provider[r]
      <3>1. q # r
        BY <2>2 DEF Advance
      <3> QED BY <2>2, <3>1 DEF Advance
    <2>3. ASSUME NEW q \in Rows, Receive(q) \/ Age(q) \/ (Request(q) /\ ~Attempt(q))
          PROVE  UNCHANGED provider
      BY <2>3 DEF Receive, Age, Request, assertKycVerified, Create, withRetry, Record, Fail,
          Throw, RequestEvent, ReadSequence, Insert
    <2>4. ASSUME NEW t \in Ticks, Tick(t) \/ Catch(t) PROVE UNCHANGED provider
      BY <2>4 DEF Tick, Catch, reconcilePending, refreshStatus, getStatus, applyStatus,
          TickEvent, EndTick, ReadSequence, Insert
    <2>5. CASE Crash
      BY <2>5 DEF Crash
    <2> QED BY <1>1, <2>1, <2>2, <2>3, <2>4, <2>5 DEF RampsNext, Request
  <1>2. CASE UNCHANGED rampVars
    BY <1>2 DEF rampVars
  <1> QED BY <1>1, <1>2 DEF Next, vars

\* A page is done only when the row it reads says COMPLETED.
LEMMA DoneStep ==
    ASSUME PagesType, RampTellsTheTruth, [PagesNext]_allVars, NEW r \in Rows,
           step[r] # "done", step'[r] = "done"
    PROVE  provider[r] = "completed" /\ UNCHANGED provider
  <1> USE DEF PagesType, Step, Goto
  <1>1. ASSUME NEW q \in Rows, PageStep(q)
        PROVE  q = r /\ ramp[q] = "COMPLETED" /\ UNCHANGED vars
    <2>1. CASE initiate(q) \/ Initiated(q) \/ handleIframeDone(q)
      BY <2>1 DEF initiate, Initiated, handleIframeDone
    <2>2. CASE DepositPage(q)
      BY <2>2 DEF DepositPage, handleContinue, handleAddTrustline, pollDeposit, Conclude
    <2>3. CASE WithdrawalPage(q)
      BY <2>3 DEF WithdrawalPage, pollWithdrawal, handleSignPayment, SubmitPayment, Conclude
    <2> QED BY <1>1, <2>1, <2>2, <2>3 DEF PageStep
  <1>2. CASE UNCHANGED pageVars
    BY <1>2 DEF pageVars
  <1>3. \/ \E q \in Rows : PageStep(q)
        \/ UNCHANGED pageVars
    BY DEF PagesNext, AnchorMoves, allVars
  <1> QED BY <1>1, <1>2, <1>3 DEF RampTellsTheTruth, vars, rampVars

LEMMA DoneNext ==
    ASSUME TypeOK, TickInv, PagesType, TruthInv, DoneMeansCompleted, [Next]_vars,
           [PagesNext]_allVars \/ UNCHANGED pageVars
    PROVE  DoneMeansCompleted'
  <1>1. \A r \in Rows : step[r] = "done" => provider'[r] = "completed"
    BY SettledStays DEF TypeOK, TruthInv, DoneMeansCompleted, Settled
  <1>2. \A r \in Rows : step[r] # "done" /\ step'[r] = "done" => provider'[r] = "completed"
    BY DoneStep DEF TruthInv, pageVars
  <1> QED BY <1>1, <1>2 DEF DoneMeansCompleted

\* A page that says the money has arrived is right, however late it reads the
\* row and whatever the ticks do meanwhile.
THEOREM DoneIsCompleted == PagesSpec => []DoneMeansCompleted
<1> DEFINE IInv == TruthInv /\ DoneMeansCompleted
<1>1. PagesInit => IInv
  BY TruthInit DEF PagesInit, DoneMeansCompleted
<1>2. PagesTypeOK /\ TickInv /\ IInv /\ [PagesNext]_allVars => IInv'
  <2>1. PagesTypeOK => TypeOK /\ PagesType
    BY DEF PagesTypeOK, PagesType
  <2> QED BY <2>1, PagesAreRamps, TruthNext, DoneNext
<1>3. IInv => DoneMeansCompleted
  OBVIOUS
<1> HIDE DEF IInv
<1> QED BY <1>1, <1>2, <1>3, PagesTypeCorrect, PTL DEF PagesSpec

\* The table tells the truth with the pages at work, too.
THEOREM PagesTellTheTruth == PagesSpec => []RampTellsTheTruth
<1>1. PagesInit => TruthInv
  BY TruthInit DEF PagesInit
<1>2. PagesTypeOK /\ TickInv /\ TruthInv /\ [PagesNext]_allVars => TruthInv'
  BY PagesAreRamps, TruthNext DEF PagesTypeOK
<1>3. TruthInv => RampTellsTheTruth
  BY DEF TruthInv
<1> QED BY <1>1, <1>2, <1>3, PagesTypeCorrect, PTL DEF PagesSpec
=============================================================================
