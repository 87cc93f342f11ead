--------------------------- MODULE Services_proofs ---------------------------
(* Theorems about the services of the API and their pages, for any number   *)
(* of members, codes, merchants, administrators, logins, wallets, requests  *)
(* and keys; those about ramps and identity checks are in Ramps_proofs.     *)
EXTENDS MCServices, Ramps_proofs

-----------------------------------------------------------------------------
(* Referrals and their rewards.                                             *)

\* The two tables and the calls keep their types (one step).
LEMMA ReferralsTypeStep ==
    ASSUME ReferralsTypeOK, [ReferralsNext]_refVars PROVE ReferralsTypeOK'
  <1> USE DEF ReferralsTypeOK, Calls, Read, Resume
  <1>1. CASE \E c \in Codes :
               \/ createInvite(c) \/ CheckReward(c) \/ reward(c) \/ Expire(c)
               \/ create(c) \/ mint(c) \/ reverse(c)
    BY <1>1 DEF createInvite, CheckReward, reward, Expire, create, mint, reverse, SetReward
  <1>2. CASE \E c \in Codes, u \in Members : CheckAccept(c, u) \/ CheckInvited(c, u)
    BY <1>2 DEF CheckAccept, CheckInvited
  <1>3. CASE \E c \in Codes, u \in Members : accept(c, u)
    BY <1>3 DEF accept
  <1>4. CASE \E c \in Codes, u \in Members, p \in Payments : CheckPayment(c, u, p)
    BY <1>4 DEF CheckPayment
  <1>5. CASE \E c \in Codes, p \in Payments : qualify(c, p)
    BY <1>5 DEF qualify
  <1>6. CASE \E p \in Payments : Complete(p)
    BY <1>6 DEF Complete
  <1>7. CASE UNCHANGED refVars
    BY <1>7 DEF refVars
  <1> QED BY <1>1, <1>2, <1>3, <1>4, <1>5, <1>6, <1>7 DEF ReferralsNext

\* The tables of the referrals and what every call has read keep their types.
THEOREM ReferralsTypeCorrect == ReferralsSpec => []ReferralsTypeOK
<1>1. ReferralsInit => ReferralsTypeOK
  BY DEF ReferralsInit, ReferralsTypeOK
<1> QED BY <1>1, ReferralsTypeStep, PTL DEF ReferralsSpec

-----------------------------------------------------------------------------
(* The reward is earned.                                                    *)

\* Nobody is invited, or about to be, by a code of their own.
Invitations ==
    /\ \A c \in Codes : invited[c] # Inviter[c]
    /\ \A c \in Codes, u \in Members :
          <<"accept", c, u>> \in calls \/ <<"check", c, u>> \in calls => u # Inviter[c]

\* A payment that counts for a code, or is about to, is a completed one of
\* somebody else.
Counts(c, p) == p \in completed /\ Payer[p] # Inviter[c]

Qualifications ==
    /\ \A c \in Codes : firstPayment[c] # Nobody => Counts(c, firstPayment[c])
    /\ \A c \in Codes, p \in Payments : <<"qualify", c, p>> \in calls => Counts(c, p)

\* A code that is qualified or rewarded, or about to be rewarded, has its
\* payment.
Rewards == \A c \in Codes :
    standing[c] \in {"QUALIFIED", "REWARDED"} \/ <<"reward", c, Nobody>> \in calls
        => firstPayment[c] # Nobody

LEMMA InvitationsStep ==
    ASSUME ReferralsTypeOK, Invitations, [ReferralsNext]_refVars PROVE Invitations'
  <1> USE ReferralsAssumption DEF ReferralsTypeOK, Invitations, Read, Resume
  <1>1. CASE \E c \in Codes :
               \/ createInvite(c) \/ CheckReward(c) \/ reward(c) \/ Expire(c)
               \/ create(c) \/ mint(c) \/ reverse(c)
    BY <1>1 DEF createInvite, CheckReward, reward, Expire, create, mint, reverse, SetReward
  <1>2. CASE \E c \in Codes, u \in Members : CheckAccept(c, u) \/ CheckInvited(c, u)
    BY <1>2 DEF CheckAccept, Acceptable, CheckInvited
  <1>3. CASE \E c \in Codes, u \in Members : accept(c, u)
    BY <1>3 DEF accept
  <1>4. CASE \E c \in Codes, u \in Members, p \in Payments : CheckPayment(c, u, p)
    BY <1>4 DEF CheckPayment
  <1>5. CASE \E c \in Codes, p \in Payments : qualify(c, p)
    BY <1>5 DEF qualify
  <1>6. CASE \E p \in Payments : Complete(p)
    BY <1>6 DEF Complete
  <1>7. CASE UNCHANGED refVars
    BY <1>7 DEF refVars
  <1> QED BY <1>1, <1>2, <1>3, <1>4, <1>5, <1>6, <1>7 DEF ReferralsNext

LEMMA QualificationsStep ==
    ASSUME ReferralsTypeOK, Invitations, Qualifications, [ReferralsNext]_refVars
    PROVE  Qualifications'
  <1> USE ReferralsAssumption DEF ReferralsTypeOK, Qualifications, Counts, Read, Resume
  <1>1. CASE \E c \in Codes :
               \/ createInvite(c) \/ CheckReward(c) \/ reward(c) \/ Expire(c)
               \/ create(c) \/ mint(c) \/ reverse(c)
    BY <1>1 DEF createInvite, CheckReward, reward, Expire, create, mint, reverse, SetReward
  <1>2. CASE \E c \in Codes, u \in Members : CheckAccept(c, u) \/ CheckInvited(c, u)
    BY <1>2 DEF CheckAccept, CheckInvited
  <1>3. CASE \E c \in Codes, u \in Members : accept(c, u)
    BY <1>3 DEF accept
  <1>4. CASE \E c \in Codes, u \in Members, p \in Payments : CheckPayment(c, u, p)
    BY <1>4 DEF CheckPayment, Invitations
  <1>5. CASE \E c \in Codes, p \in Payments : qualify(c, p)
    BY <1>5 DEF qualify
  <1>6. CASE \E p \in Payments : Complete(p)
    BY <1>6 DEF Complete
  <1>7. CASE UNCHANGED refVars
    BY <1>7 DEF refVars
  <1> QED BY <1>1, <1>2, <1>3, <1>4, <1>5, <1>6, <1>7 DEF ReferralsNext

LEMMA RewardsStep ==
    ASSUME ReferralsTypeOK, Rewards, [ReferralsNext]_refVars PROVE Rewards'
  <1> USE ReferralsAssumption DEF ReferralsTypeOK, Rewards, Read, Resume
  <1>1. CASE \E c \in Codes :
               \/ createInvite(c) \/ CheckReward(c) \/ reward(c) \/ Expire(c)
               \/ create(c) \/ mint(c) \/ reverse(c)
    BY <1>1 DEF createInvite, CheckReward, reward, Expire, create, mint, reverse, SetReward
  <1>2. CASE \E c \in Codes, u \in Members : CheckAccept(c, u) \/ CheckInvited(c, u)
    BY <1>2 DEF CheckAccept, CheckInvited
  <1>3. CASE \E c \in Codes, u \in Members : accept(c, u)
    BY <1>3 DEF accept
  <1>4. CASE \E c \in Codes, u \in Members, p \in Payments : CheckPayment(c, u, p)
    BY <1>4 DEF CheckPayment
  <1>5. CASE \E c \in Codes, p \in Payments : qualify(c, p)
    BY <1>5 DEF qualify
  <1>6. CASE \E p \in Payments : Complete(p)
    BY <1>6 DEF Complete
  <1>7. CASE UNCHANGED refVars
    BY <1>7 DEF refVars
  <1> QED BY <1>1, <1>2, <1>3, <1>4, <1>5, <1>6, <1>7 DEF ReferralsNext

\* Every qualified or rewarded referral rests on a completed payment of a friend,
\* for any number of calls of accept, qualify and reward under way.
THEOREM RewardsAreEarned == ReferralsSpec => []RewardIsEarned
<1> DEFINE IInv == Invitations /\ Qualifications /\ Rewards
<1>1. ReferralsInit => IInv
  BY ReferralsAssumption DEF ReferralsInit, Invitations, Qualifications, Rewards
<1>2. ReferralsTypeOK /\ IInv /\ [ReferralsNext]_refVars => IInv'
  BY InvitationsStep, QualificationsStep, RewardsStep
<1>3. ReferralsTypeOK /\ IInv => RewardIsEarned
  BY DEF ReferralsTypeOK, Qualifications, Rewards, Counts, RewardIsEarned
<1> HIDE DEF IInv
<1> QED BY <1>1, <1>2, <1>3, ReferralsTypeCorrect, PTL DEF ReferralsSpec

-----------------------------------------------------------------------------
\* A rewarded referral always has its reward, minted or reversed.
THEOREM RewardsAreRecorded == ReferralsSpec => []RewardedIsRecorded
<1>1. ReferralsInit => RewardedIsRecorded
  BY DEF ReferralsInit, RewardedIsRecorded
<1>2. ReferralsTypeOK /\ RewardedIsRecorded /\ [ReferralsNext]_refVars => RewardedIsRecorded'
  <2> SUFFICES ASSUME ReferralsTypeOK, RewardedIsRecorded, [ReferralsNext]_refVars
               PROVE  RewardedIsRecorded'
    OBVIOUS
  <2> USE DEF ReferralsTypeOK, RewardedIsRecorded
  <2>1. CASE \E c \in Codes : createInvite(c) \/ CheckReward(c) \/ Expire(c)
    BY <2>1 DEF createInvite, CheckReward, Expire
  <2>2. CASE \E c \in Codes : reward(c)
    BY <2>2 DEF reward
  <2>3. CASE \E c \in Codes : create(c) \/ mint(c) \/ reverse(c)
    BY <2>3 DEF create, mint, reverse, SetReward
  <2>4. CASE \E c \in Codes, u \in Members :
               CheckAccept(c, u) \/ accept(c, u) \/ CheckInvited(c, u)
    BY <2>4 DEF CheckAccept, accept, CheckInvited
  <2>5. CASE \E c \in Codes, u \in Members, p \in Payments : CheckPayment(c, u, p)
    BY <2>5 DEF CheckPayment
  <2>6. CASE \E c \in Codes, p \in Payments : qualify(c, p)
    BY <2>6 DEF qualify
  <2>7. CASE (\E p \in Payments : Complete(p)) \/ UNCHANGED refVars
    BY <2>7 DEF Complete, refVars
  <2> QED BY <2>1, <2>2, <2>3, <2>4, <2>5, <2>6, <2>7 DEF ReferralsNext
<1> QED BY <1>1, <1>2, ReferralsTypeCorrect, PTL DEF ReferralsSpec

-----------------------------------------------------------------------------
(* Reviews of merchants and the registry.                                   *)

ReviewCall == [review : Review, at : ReviewAwait]

\* A review at work has its verdict, and goes on with it.
LEMMA ReviewGoesOn ==
    ASSUME ReviewTypeOK, NEW a \in Admins, NEW m \in Merchants, NEW await \in ReviewAwait,
           work[a][m].at # "none", ReviewGoto(a, m, await)
    PROVE  /\ work[a][m] \in ReviewCall
           /\ work' \in [Admins -> [Merchants -> ReviewCall \cup {Idle}]]
           /\ work'[a][m] \in ReviewCall
           /\ work'[a][m].at = await
           /\ work'[a][m].review = work[a][m].review
           /\ \A b \in Admins, n \in Merchants : b # a \/ n # m => work'[b][n] = work[b][n]
  <1>1. work[a][m] \in ReviewCall
    BY DEF ReviewTypeOK, Idle, ReviewCall
  <1>2. [work[a][m] EXCEPT !.at = await] \in ReviewCall
    BY <1>1 DEF ReviewCall
  <1>3. work' = [work EXCEPT ![a] = [work[a] EXCEPT ![m] = [work[a][m] EXCEPT !.at = await]]]
    BY DEF ReviewGoto
  <1>4. /\ work \in [Admins -> [Merchants -> ReviewCall \cup {Idle}]]
        /\ work[a] \in [Merchants -> ReviewCall \cup {Idle}]
    BY DEF ReviewTypeOK, ReviewCall
  <1>5. work'[a][m] = [work[a][m] EXCEPT !.at = await]
    BY <1>3, <1>4
  <1>6. work'[a][m].at = await /\ work'[a][m].review = work[a][m].review
    BY <1>5, <1>1 DEF ReviewCall
  <1> QED BY <1>1, <1>2, <1>3, <1>4, <1>5, <1>6

\* A review that is over leaves its page idle and the others as they are.
LEMMA ReviewOver ==
    ASSUME ReviewTypeOK, NEW a \in Admins, NEW m \in Merchants, End(a, m)
    PROVE  /\ work' \in [Admins -> [Merchants -> ReviewCall \cup {Idle}]]
           /\ work'[a][m] = Idle
           /\ \A b \in Admins, n \in Merchants : b # a \/ n # m => work'[b][n] = work[b][n]
  BY DEF ReviewTypeOK, End, ReviewCall

LEMMA ReviewTypeStep == ASSUME ReviewTypeOK, [ReviewNext]_reviewVars PROVE ReviewTypeOK'
  <1> USE DEF ReviewTypeOK, DbStatus, LedgerStatus, Review, ReviewAwait, At, ReviewCall
  <1>1. CASE \E m \in Merchants : createMerchant(m)
    BY <1>1 DEF createMerchant
  <1>2. CASE \E m \in Merchants, status \in DbStatus \ {"Absent"} : WriteStatus(m, status)
    BY <1>2 DEF WriteStatus, Decide
  <1>3. CASE \E a \in Admins, m \in Merchants :
               \/ Look(a, m) \/ update(a, m) \/ logReview(a, m) \/ getMerchant(a, m)
               \/ registerMerchant(a, m) \/ Submit(a, m) \/ ThrowReview(a, m)
               \/ \E review \in Review : Press(a, m, review)
    <2>1. PICK a \in Admins, m \in Merchants :
               \/ Look(a, m) \/ update(a, m) \/ logReview(a, m) \/ getMerchant(a, m)
               \/ registerMerchant(a, m) \/ Submit(a, m) \/ ThrowReview(a, m)
               \/ \E review \in Review : Press(a, m, review)
      BY <1>3
    <2>2. CASE Look(a, m)
      BY <2>2 DEF Look
    <2>3. CASE update(a, m)
      <3>1. work[a][m] \in ReviewCall
        BY <2>3 DEF update, Idle
      <3>2. dbStatus' \in [Merchants -> DbStatus] /\ approved' \subseteq Merchants
        BY <2>3, <3>1 DEF update, Decide, Verdict
      <3> QED BY <2>3, <3>2, ReviewGoesOn DEF update
    <2>4. CASE logReview(a, m)
      BY <2>4, ReviewGoesOn DEF logReview
    <2>5. CASE getMerchant(a, m)
      BY <2>5, ReviewGoesOn DEF getMerchant
    <2>6. CASE registerMerchant(a, m)
      <3>1. work' \in [Admins -> [Merchants -> ReviewCall \cup {Idle}]]
        BY <2>6, ReviewGoesOn, ReviewOver DEF registerMerchant
      <3> QED BY <2>6, <3>1 DEF registerMerchant
    <2>7. CASE Submit(a, m)
      <3>1. work[a][m] \in ReviewCall
        BY <2>7 DEF Submit, Idle
      <3>2. ledger' \in [Merchants -> LedgerStatus]
        BY <2>7, <3>1 DEF Submit, Outcome
      <3> QED BY <2>7, <3>2, ReviewOver DEF Submit
    <2>8. CASE ThrowReview(a, m)
      BY <2>8, ReviewOver DEF ThrowReview
    <2>9. CASE \E review \in Review : Press(a, m, review)
      BY <2>9 DEF Press
    <2> QED BY <2>1, <2>2, <2>3, <2>4, <2>5, <2>6, <2>7, <2>8, <2>9
  <1>4. CASE UNCHANGED reviewVars
    BY <1>4 DEF reviewVars
  <1> QED BY <1>1, <1>2, <1>3, <1>4 DEF ReviewNext

\* The table, the registry, the pages and the reviews under way keep their types.
THEOREM ReviewTypeCorrect == ReviewSpec => []ReviewTypeOK
<1>1. ReviewInit => ReviewTypeOK
  BY DEF ReviewInit, ReviewTypeOK, DbStatus, LedgerStatus, Idle
<1> QED BY <1>1, ReviewTypeStep, PTL DEF ReviewSpec

-----------------------------------------------------------------------------
\* An approval on its way to the registry has been written to the table.
ApprovedFirst == \A a \in Admins, m \in Merchants :
    \/ work[a][m].at \in {"get", "register"}
    \/ work[a][m].review = "approve" /\ work[a][m].at \in {"log", "submit"}
    => m \in approved

\* Another review than an approval never registers a merchant, and approvedAt is
\* never taken back.
LEMMA LedgerStep ==
    ASSUME ReviewTypeOK, ApprovedFirst, OnLedgerIsApproved, [ReviewNext]_reviewVars
    PROVE  ApprovedFirst' /\ OnLedgerIsApproved'
  <1> USE DEF ReviewTypeOK, ApprovedFirst, OnLedgerIsApproved, Idle, At
  <1>1. CASE \E m \in Merchants : createMerchant(m)
    BY <1>1 DEF createMerchant
  <1>2. CASE \E m \in Merchants, status \in DbStatus \ {"Absent"} : WriteStatus(m, status)
    BY <1>2 DEF WriteStatus, Decide
  <1>3. CASE \E a \in Admins, m \in Merchants :
               \/ Look(a, m) \/ update(a, m) \/ logReview(a, m) \/ getMerchant(a, m)
               \/ registerMerchant(a, m) \/ Submit(a, m) \/ ThrowReview(a, m)
               \/ \E review \in Review : Press(a, m, review)
    <2>1. PICK a \in Admins, m \in Merchants :
               \/ Look(a, m) \/ update(a, m) \/ logReview(a, m) \/ getMerchant(a, m)
               \/ registerMerchant(a, m) \/ Submit(a, m) \/ ThrowReview(a, m)
               \/ \E review \in Review : Press(a, m, review)
      BY <1>3
    <2>2. CASE Look(a, m)
      BY <2>2 DEF Look
    <2>3. CASE update(a, m)
      <3>1. approved \subseteq approved' /\ UNCHANGED ledger
        BY <2>3 DEF update, Decide
      <3>2. work'[a][m].review = "approve" => m \in approved'
        BY <2>3, ReviewGoesOn DEF update, Decide, Verdict, ReviewAwait
      <3>3. /\ work'[a][m].at = "log"
            /\ \A b \in Admins, n \in Merchants : b # a \/ n # m => work'[b][n] = work[b][n]
        BY <2>3, ReviewGoesOn DEF update, ReviewAwait
      <3> QED BY <3>1, <3>2, <3>3
    <2>4. CASE logReview(a, m)
      <3>1. /\ work'[a][m].review = work[a][m].review
            /\ work'[a][m].at = IF work[a][m].review = "approve" THEN "get" ELSE "submit"
            /\ \A b \in Admins, n \in Merchants : b # a \/ n # m => work'[b][n] = work[b][n]
        BY <2>4, ReviewGoesOn DEF logReview, ReviewAwait
      <3>2. work[a][m].review = "approve" => m \in approved
        BY <2>4 DEF logReview
      <3> QED BY <2>4, <3>1, <3>2 DEF logReview
    <2>5. CASE getMerchant(a, m)
      <3>1. /\ work'[a][m].review = work[a][m].review
            /\ work'[a][m].at \in {"register", "submit"}
            /\ \A b \in Admins, n \in Merchants : b # a \/ n # m => work'[b][n] = work[b][n]
        BY <2>5, ReviewGoesOn DEF getMerchant, ReviewAwait
      <3>2. m \in approved
        BY <2>5 DEF getMerchant
      <3> QED BY <2>5, <3>1, <3>2 DEF getMerchant
    <2>6. CASE registerMerchant(a, m)
      <3>1. m \in approved
        BY <2>6 DEF registerMerchant
      <3>2. UNCHANGED approved /\ OnLedgerIsApproved'
        BY <2>6, <3>1 DEF registerMerchant
      <3>3. ApprovedFirst'
        BY <2>6, <3>1, <3>2, ReviewGoesOn, ReviewOver DEF registerMerchant, ReviewAwait
      <3> QED BY <3>2, <3>3
    <2>7. CASE Submit(a, m)
      <3>1. UNCHANGED approved /\ OnLedgerIsApproved'
        <4>1. work[a][m].review \in Review
          BY <2>7 DEF Submit, ReviewAwait
        <4>2. ~Allows("Absent", work[a][m].review)
          BY <4>1 DEF Allows, Review
        <4> QED BY <2>7, <4>2 DEF Submit
      <3> QED BY <2>7, <3>1, ReviewOver DEF Submit
    <2>8. CASE ThrowReview(a, m)
      BY <2>8, ReviewOver DEF ThrowReview
    <2>9. CASE \E review \in Review : Press(a, m, review)
      BY <2>9 DEF Press
    <2> QED BY <2>1, <2>2, <2>3, <2>4, <2>5, <2>6, <2>7, <2>8, <2>9
  <1>4. CASE UNCHANGED reviewVars
    BY <1>4 DEF reviewVars
  <1> QED BY <1>1, <1>2, <1>3, <1>4 DEF ReviewNext

\* The registry never runs ahead of the table, for any number of administrators
\* at work on any number of merchants.
THEOREM RegistryFollows == ReviewSpec => []OnLedgerIsApproved
<1>1. ReviewInit => ApprovedFirst /\ OnLedgerIsApproved
  BY DEF ReviewInit, ApprovedFirst, OnLedgerIsApproved, Idle
<1> QED BY <1>1, LedgerStep, ReviewTypeCorrect, PTL DEF ReviewSpec

-----------------------------------------------------------------------------
(* The reviews and the contract they drive.                                 *)

\* Away from the ledger a review is no call of the contract.
LEMMA NoCall == ASSUME UNCHANGED ledger PROVE UNCHANGED Registry!vars
  BY DEF Registry!vars

\* A registration that reaches the ledger is one the contract accepts.
LEMMA RegistrationIsCall ==
    ASSUME ReviewTypeOK, NEW m \in Merchants, ledger[m] = "Absent",
           ledger' = [ledger EXCEPT ![m] = "Pending"]
    PROVE  Registry!Next
  <1> DEFINE owners == [n \in Merchants |->
                           IF ledger[n] = "Absent" THEN "none" ELSE "default"]
             hashes == [n \in Merchants |-> IF ledger[n] = "Absent" THEN "none" ELSE "zeros"]
  <1>1. \A n \in Merchants : ledger'[n] = IF n = m THEN "Pending" ELSE ledger[n]
    BY DEF ReviewTypeOK
  <1>2. \A n \in Merchants :
            /\ owners'[n] = IF n = m THEN "default" ELSE owners[n]
            /\ hashes'[n] = IF n = m THEN "zeros" ELSE hashes[n]
    BY <1>1
  <1>3. owners' = [owners EXCEPT ![m] = "default"] /\ hashes' = [hashes EXCEPT ![m] = "zeros"]
    BY <1>2
  <1>4. Registry!register_merchant("platform", m, "default", "zeros")
    BY <1>3 DEF Registry!register_merchant, Registry!Authenticated
  <1> QED
    BY <1>4 DEF Registry!Next, Registry!Step

\* A verdict that the contract's rule allows leaves owner and metadata alone and is
\* the call of that name; one that it refuses changes nothing.
LEMMA VerdictIsCall ==
    ASSUME ReviewTypeOK, NEW m \in Merchants, NEW review \in Review,
           ledger' = [ledger EXCEPT ![m] = IF Allows(@, review) THEN Outcome(review) ELSE @]
    PROVE  Registry!Next \/ UNCHANGED Registry!vars
  <1>1. CASE ~ Allows(ledger[m], review)
    BY <1>1, NoCall DEF ReviewTypeOK
  <1>2. CASE Allows(ledger[m], review)
    <2>1. ledger' = [ledger EXCEPT ![m] = Outcome(review)]
      BY <1>2
    <2>2. ledger[m] # "Absent" /\ Outcome(review) # "Absent"
      BY <1>2 DEF Allows, Outcome, Review
    <2>3. \A n \in Merchants : ledger'[n] = "Absent" <=> ledger[n] = "Absent"
      BY <2>1, <2>2 DEF ReviewTypeOK
    <2>4. /\ [n \in Merchants |-> IF ledger[n] = "Absent" THEN "none" ELSE "default"]'
                = [n \in Merchants |-> IF ledger[n] = "Absent" THEN "none" ELSE "default"]
          /\ [n \in Merchants |-> IF ledger[n] = "Absent" THEN "none" ELSE "zeros"]'
                = [n \in Merchants |-> IF ledger[n] = "Absent" THEN "none" ELSE "zeros"]
      BY <2>3
    <2>5. \/ Registry!approve_merchant("platform", m)
          \/ Registry!suspend_merchant("platform", m)
          \/ Registry!reject_merchant("platform", m)
      BY <1>2, <2>1, <2>4
      DEF Allows, Outcome, Review, Registry!approve_merchant, Registry!suspend_merchant,
          Registry!reject_merchant, Registry!Review, Registry!Authenticated
    <2> QED
      BY <2>5 DEF Registry!Next, Registry!Step
  <1> QED BY <1>1, <1>2

\* For any number of administrators and merchants, whatever reviews overlap, repeat
\* or break off, what they do to the ledger is a behaviour of the registry contract.
THEOREM ReviewsImplementRegistry == ReviewSpec => ImplementsRegistry
<1>1. ReviewInit => Registry!Init
  BY DEF ReviewInit, Registry!Init
<1>2. ReviewTypeOK /\ [ReviewNext]_reviewVars => [Registry!Next]_(Registry!vars)
  <2> SUFFICES ASSUME ReviewTypeOK, [ReviewNext]_reviewVars
               PROVE  Registry!Next \/ UNCHANGED Registry!vars
    OBVIOUS
  <2>1. CASE UNCHANGED ledger
    BY <2>1, NoCall
  <2>2. ASSUME NEW a \in Admins, NEW m \in Merchants, registerMerchant(a, m)
        PROVE  Registry!Next \/ UNCHANGED Registry!vars
    BY <2>2, NoCall, RegistrationIsCall DEF registerMerchant
  <2>3. ASSUME NEW a \in Admins, NEW m \in Merchants, Submit(a, m)
        PROVE  Registry!Next \/ UNCHANGED Registry!vars
    <3>1. work[a][m].review \in Review
      BY <2>3 DEF Submit, At, ReviewTypeOK, Idle
    <3> QED
      BY <2>3, <3>1, VerdictIsCall DEF Submit
  <2>4. ASSUME NEW a \in Admins, NEW m \in Merchants,
               \/ Look(a, m) \/ update(a, m) \/ logReview(a, m) \/ getMerchant(a, m)
               \/ ThrowReview(a, m) \/ \E review \in Review : Press(a, m, review)
        PROVE  UNCHANGED ledger
    BY <2>4 DEF Look, update, logReview, getMerchant, ThrowReview, Press
  <2>5. ASSUME NEW m \in Merchants,
               createMerchant(m) \/ \E status \in DbStatus : WriteStatus(m, status)
        PROVE  UNCHANGED ledger
    BY <2>5 DEF createMerchant, WriteStatus
  <2>6. UNCHANGED reviewVars => UNCHANGED ledger
    BY DEF reviewVars
  <2> QED
    BY <2>1, <2>2, <2>3, <2>4, <2>5, <2>6, Zenon DEF ReviewNext
<1> QED
  BY <1>1, <1>2, ReviewTypeCorrect, PTL DEF ReviewSpec, ImplementsRegistry, Registry!Spec

-----------------------------------------------------------------------------
(* Accounts, wallets and logins.                                            *)

Login == [at : LoginAwait, user : Logins \cup {Absentee}, address : Addresses \cup {Absentee}]

\* A login that has begun has an address; one that has looked its wallet up has
\* the user the wallet belongs to, and that account exists.
LoginInv ==
    /\ \A a \in Addresses : holder[a] # Absentee => userStatus[holder[a]] # "Absent"
    /\ \A l \in Logins :
          /\ login[l].at # "none" => login[l].address \in Addresses
          /\ login[l].at \in {"known", "wallet"} =>
                 login[l].user \in Logins /\ userStatus[login[l].user] # "Absent"

AccountInv == AccountsTypeOK /\ LoginInv /\ AccountsHoldTheirWallet

\* A login that goes on keeps its user and its address.
LEMMA LoginGoesOn ==
    ASSUME AccountsTypeOK, NEW l \in Logins, NEW await \in LoginAwait, LoginGoto(l, await)
    PROVE  /\ login' \in [Logins -> Login]
           /\ login'[l].at = await
           /\ login'[l].user = login[l].user
           /\ login'[l].address = login[l].address
           /\ \A k \in Logins : k # l => login'[k] = login[k]
  <1>1. login \in [Logins -> Login] /\ login[l] \in Login
    BY DEF AccountsTypeOK, Login
  <1>2. [login[l] EXCEPT !.at = await] \in Login
    BY <1>1 DEF Login
  <1>3. login' = [login EXCEPT ![l] = [login[l] EXCEPT !.at = await]]
    BY DEF LoginGoto
  <1>4. login'[l] = [login[l] EXCEPT !.at = await]
    BY <1>1, <1>3
  <1>5. /\ login'[l].at = await
        /\ login'[l].user = login[l].user
        /\ login'[l].address = login[l].address
    BY <1>1, <1>4 DEF Login
  <1> QED BY <1>1, <1>2, <1>3, <1>5

\* The tables and the logins keep their types, and a login its account (one
\* step).
LEMMA LoginStep ==
    ASSUME AccountInv, [AccountsNext]_accountVars
    PROVE  AccountInv'
  <1> USE AccountsAssumption DEF AccountInv, LoginInv, AccountsHoldTheirWallet, Login
  <1>0. login \in [Logins -> Login] /\ \A l \in Logins : login[l] \in Login
    BY DEF AccountsTypeOK
  <1>1. ASSUME NEW l \in Logins, CheckNonce(l) PROVE AccountInv'
    <2>1. PICK await \in {"take", "refused"} : LoginGoto(l, await)
      BY <1>1 DEF CheckNonce
    <2> QED BY <1>1, <2>1, LoginGoesOn DEF CheckNonce, AccountsTypeOK, LoginAwait
  <1>2. ASSUME NEW l \in Logins, TakeNonce(l) PROVE AccountInv'
    <2>1. PICK await \in {"look", "refused"} : LoginGoto(l, await)
      BY <1>2 DEF TakeNonce
    <2> QED BY <1>2, <2>1, LoginGoesOn DEF TakeNonce, AccountsTypeOK, LoginAwait
  <1>3. ASSUME NEW l \in Logins, LookWallet(l) PROVE AccountInv'
    <2> DEFINE u == holder[login[l].address]
               moved == [login[l] EXCEPT !.user = u,
                   !.at = IF u = Absentee THEN "new" ELSE "known"]
    <2>1. login[l].address \in Addresses /\ u \in Logins \cup {Absentee}
      BY <1>3 DEF LookWallet, AccountsTypeOK
    <2>2. login' = [login EXCEPT ![l] = moved]
      BY <1>3 DEF LookWallet
    <2>3. /\ moved \in Login
          /\ moved.address = login[l].address
          /\ moved.user = u
          /\ moved.at = IF u = Absentee THEN "new" ELSE "known"
      BY <1>0, <2>1, ZenonT(40) DEF LoginAwait
    <2>4. login'[l] = moved /\ \A k \in Logins : k # l => login'[k] = login[k]
      BY <1>0, <2>2
    <2>5. login' \in [Logins -> Login]
      BY <1>0, <2>2, <2>3
    <2> HIDE DEF moved
    <2>6. UNCHANGED <<userStatus, erased, holder, walletStatus, challenge>>
      BY <1>3 DEF LookWallet
    <2>7. AccountsTypeOK'
      BY <2>5, <2>6 DEF AccountsTypeOK
    <2>8. LoginInv'
      BY <2>1, <2>3, <2>4, <2>6
    <2> QED BY <2>6, <2>7, <2>8
  <1>4. ASSUME NEW l \in Logins, UseUser(l) PROVE AccountInv'
    <2>1. login[l].user \in Logins /\ userStatus[login[l].user] # "Absent"
      BY <1>4 DEF UseUser
    <2> QED BY <1>4, <2>1, LoginGoesOn DEF UseUser, AccountsTypeOK, LoginAwait
  <1>5. ASSUME NEW l \in Logins, UseWallet(l) PROVE AccountInv'
    <2>1. login[l].address \in Addresses
      BY <1>5 DEF UseWallet
    <2> QED BY <1>5, <2>1, LoginGoesOn DEF UseWallet, AccountsTypeOK, LoginAwait
  <1>6. ASSUME NEW l \in Logins, CreateUser(l) PROVE AccountInv'
    <2> DEFINE a == login[l].address
               moved == [login[l] EXCEPT !.at = "tokens", !.user = l]
    <2>1. a \in Addresses
      BY <1>6 DEF CreateUser
    <2>2. CASE holder[a] = Absentee
      <3>1. /\ userStatus' = [userStatus EXCEPT ![l] = "ACTIVE"]
            /\ holder' = [holder EXCEPT ![a] = l]
            /\ walletStatus' = [walletStatus EXCEPT ![a] = "ACTIVE"]
            /\ login' = [login EXCEPT ![l] = moved]
            /\ UNCHANGED <<erased, challenge>>
        BY <1>6, <2>2 DEF CreateUser
      <3>2. moved \in Login /\ moved.at = "tokens" /\ moved.address = a
        BY <1>0, <2>1, ZenonT(40) DEF LoginAwait
      <3>3. login'[l] = moved /\ \A k \in Logins : k # l => login'[k] = login[k]
        BY <1>0, <3>1
      <3>4. login' \in [Logins -> Login]
        BY <1>0, <3>1, <3>2
      <3> HIDE DEF moved, a
      <3>5. AccountsTypeOK'
        BY <2>1, <3>1, <3>4 DEF AccountsTypeOK
      <3>6. LoginInv'
        BY <2>1, <3>1, <3>2, <3>3, <1>0 DEF AccountsTypeOK
      <3>7. AccountsHoldTheirWallet'
        BY <2>1, <2>2, <3>1 DEF AccountsTypeOK
      <3> QED BY <3>5, <3>6, <3>7
    <2>3. CASE holder[a] # Absentee
      BY <1>6, <2>3, LoginGoesOn DEF CreateUser, AccountsTypeOK, LoginAwait
    <2> QED BY <2>2, <2>3
  <1>7. ASSUME NEW l \in Logins, generateTokens(l) \/ ThrowLogin(l)
        PROVE  AccountInv'
    <2>1. PICK await \in {"done", "refused"} : LoginGoto(l, await)
      BY <1>7 DEF generateTokens, ThrowLogin
    <2> QED BY <1>7, <2>1, LoginGoesOn DEF generateTokens, ThrowLogin, AccountsTypeOK,
            LoginAwait
  <1>8. ASSUME NEW l \in Logins, NEW a \in Addresses, issueWalletChallenge(l, a)
        PROVE  AccountInv'
    <2> DEFINE moved == [login[l] EXCEPT !.at = "sign", !.address = a]
    <2>1. login' = [login EXCEPT ![l] = moved]
      BY <1>8 DEF issueWalletChallenge
    <2>2. moved \in Login /\ moved.at = "sign" /\ moved.address = a
      BY <1>0, ZenonT(40) DEF LoginAwait
    <2>3. login'[l] = moved /\ \A k \in Logins : k # l => login'[k] = login[k]
      BY <1>0, <2>1
    <2>4. login' \in [Logins -> Login]
      BY <1>0, <2>1, <2>2
    <2> HIDE DEF moved
    <2> QED BY <1>8, <2>2, <2>3, <2>4 DEF issueWalletChallenge, AccountsTypeOK
  <1>9. ASSUME NEW u \in Logins, NEW a \in Addresses, addWallet(u, a)
        PROVE  AccountInv'
    BY <1>9 DEF addWallet, AccountsTypeOK
  <1>10. ASSUME NEW u \in Logins,
                \/ softDelete(u) \/ deleteOwnAccount(u) \/ ExpireChallenge(u)
                \/ \E status \in {"ACTIVE", "SUSPENDED"} : setStatus(u, status)
         PROVE  AccountInv'
    BY <1>10 DEF softDelete, deleteOwnAccount, ExpireChallenge, setStatus, AccountsTypeOK
  <1>11. ASSUME NEW a \in Addresses,
                \/ disconnect(a)
                \/ \E status \in {"ACTIVE", "DISCONNECTED", "REVOKED"} : updateWallet(a, status)
         PROVE  AccountInv'
    BY <1>11 DEF disconnect, updateWallet, AccountsTypeOK
  <1>12. CASE UNCHANGED accountVars
    BY <1>12 DEF accountVars, AccountsTypeOK
  <1> QED BY <1>1, <1>2, <1>3, <1>4, <1>5, <1>6, <1>7, <1>8, <1>9, <1>10, <1>11,
      <1>12 DEF AccountsNext

LEMMA LoginInit ==
    ASSUME AccountsInit PROVE AccountInv
  BY AccountsAssumption DEF AccountsInit, AccountInv, AccountsTypeOK, LoginInv,
      AccountsHoldTheirWallet, LoginAwait

\* Users, wallets, challenges and logins keep their types.
THEOREM AccountsTypeCorrect == AccountsSpec => []AccountsTypeOK
  BY LoginInit, LoginStep, PTL DEF AccountsSpec, AccountInv

\* Every account a login made holds a wallet, for any number of logins racing
\* with one address.
THEOREM AccountsAreReachable == AccountsSpec => []AccountsHoldTheirWallet
  BY LoginInit, LoginStep, PTL DEF AccountsSpec, AccountInv

-----------------------------------------------------------------------------
(* Orders, keys and the page that pays.                                     *)

\* Only requests with a key look one up or keep an answer.
KeylessPages == \A q \in PageRequests : handler[q] \notin {"lookup", "keep"}

\* The handler and its page keep their types (one step).
LEMMA CheckoutTypeStep ==
    ASSUME CheckoutTypeOK, KeylessPages, [CheckoutNext]_checkoutVars
    PROVE  CheckoutTypeOK' /\ KeylessPages'
  <1> USE DEF CheckoutTypeOK, HandlerStage, OrderGoto, Answer, Show, pageOnly, Keyed
  <1>1. CASE \E q \in Requests : ReceiveOrder(q) \/ Handle(q)
    <2>1. PICK q \in Requests : ReceiveOrder(q) \/ Handle(q)
      BY <1>1
    <2>2. handler' \in [Requests -> HandlerStage] /\ UNCHANGED pageOnly
      BY <2>1 DEF ReceiveOrder, Handle, Lookup, createTransaction, logCreated, createReward,
          keep, respond, ThrowOrder
    <2>3. row' \in [Requests -> RowStatus] /\ settled' = settled
      BY <2>1 DEF ReceiveOrder, Handle, Lookup, createTransaction, logCreated, createReward,
          keep, respond, ThrowOrder,
                  RowStatus
    <2>4. record' \in [Keys -> Requests \cup {NoRequest}]
      BY <2>1 DEF ReceiveOrder, Handle, Lookup, createTransaction, logCreated, createReward,
          keep, respond, ThrowOrder
    <2>5. given' \in [Requests -> Requests \cup {NoRequest}]
      <3>1. CASE Lookup(q)
        <4>1. q \in Keyed
          BY <3>1 DEF Lookup, KeylessPages
        <4> QED BY <3>1, <4>1, CheckoutAssumption DEF Lookup
      <3>2. CASE ~Lookup(q)
        BY <2>1, <3>2 DEF ReceiveOrder, Handle, createTransaction, logCreated, createReward,
            keep, respond, ThrowOrder
      <3> QED BY <3>1, <3>2
    <2>6. KeylessPages'
      BY <2>1, CheckoutAssumption DEF KeylessPages, ReceiveOrder, Handle, Lookup,
          createTransaction, logCreated, createReward, keep, respond, ThrowOrder
    <2> QED BY <2>2, <2>3, <2>4, <2>5, <2>6
  <1>2. CASE \E q \in Requests, status \in RowStatus : Proceed(q, status)
    BY <1>2 DEF Proceed, KeylessPages
  <1>3. CASE Page
    <2>1. CheckoutTypeOK'
      BY <1>3, CheckoutAssumption DEF Page, resolveAndQuote, Confirmed, pollTransaction,
          PollFails, Overdue, reset, confirmPay, Screen, Ordering
    <2>2. KeylessPages'
      BY <1>3, CheckoutAssumption DEF Page, resolveAndQuote, Confirmed, pollTransaction,
          PollFails, Overdue, reset, confirmPay, KeylessPages
    <2> QED BY <2>1, <2>2
  <1>4. CASE UNCHANGED checkoutVars
    BY <1>4 DEF checkoutVars, KeylessPages
  <1> QED BY <1>1, <1>2, <1>3, <1>4 DEF CheckoutNext

LEMMA CheckoutTypeInit == ASSUME CheckoutInit PROVE CheckoutTypeOK /\ KeylessPages
  BY CheckoutAssumption DEF CheckoutInit, CheckoutTypeOK, KeylessPages, HandlerStage,
      RowStatus, Screen, Keyed

\* The handler and its page keep their types, and no request of the page is ever
\* looked up by a key it does not have.
THEOREM CheckoutTypeCorrect == CheckoutSpec => [](CheckoutTypeOK /\ KeylessPages)
  BY CheckoutTypeInit, CheckoutTypeStep, PTL DEF CheckoutSpec

-----------------------------------------------------------------------------
(* What the page says of a payment.                                         *)

\* A page that waits waits for a request of its own, a page that polls polls the
\* row its request made, and a row that says COMPLETED has been COMPLETED.
OrderPageInv ==
    /\ \A q \in PageRequests : handler[q] = "answered" => given[q] = q
    /\ screen \in Ordering \cup {"processing"} => order \in PageRequests
    /\ screen = "processing" => handler[order] = "answered"
    /\ \A q \in Requests : row[q] = "COMPLETED" => q \in settled
    /\ DoneMeansPaid

LEMMA OrderPageStep ==
    ASSUME CheckoutTypeOK, KeylessPages, OrderPageInv, [CheckoutNext]_checkoutVars
    PROVE  OrderPageInv'
  <1> USE DEF CheckoutTypeOK, OrderPageInv, OrderGoto, Answer, Show, pageOnly, DoneMeansPaid,
         Ordering
  <1>1. CASE \E q \in Requests : ReceiveOrder(q) \/ Handle(q)
    <2>1. PICK q \in Requests : ReceiveOrder(q) \/ Handle(q)
      BY <1>1
    <2>2. UNCHANGED <<screen, order, overdue, settled>>
      BY <2>1 DEF ReceiveOrder, Handle, Lookup, createTransaction, logCreated, createReward,
          keep, respond, ThrowOrder
    <2>3. handler[q] # "answered" /\ \A p \in Requests \ {q} : handler'[p] = handler[p]
      BY <2>1 DEF ReceiveOrder, Handle, Lookup, createTransaction, logCreated, createReward,
          keep, respond, ThrowOrder
    <2>4. \A p \in Requests : row'[p] = "COMPLETED" => p \in settled'
      BY <2>1, <2>2 DEF ReceiveOrder, Handle, Lookup, createTransaction, logCreated,
          createReward, keep, respond, ThrowOrder
    <2>5. \A p \in Requests \ {q} : given'[p] = given[p]
      BY <2>1 DEF ReceiveOrder, Handle, Lookup, createTransaction, logCreated, createReward,
          keep, respond, ThrowOrder
    <2>6. q \in PageRequests /\ handler'[q] = "answered" => given'[q] = q
      BY <2>1 DEF ReceiveOrder, Handle, Lookup, createTransaction, logCreated, createReward,
          keep, respond, ThrowOrder,
                  KeylessPages, Keyed, HandlerStage
    <2> QED BY <2>2, <2>3, <2>4, <2>5, <2>6, CheckoutAssumption
  <1>2. CASE \E q \in Requests, status \in RowStatus : Proceed(q, status)
    BY <1>2 DEF Proceed
  <1>3. CASE Page
    <2>1. CASE \E q \in PageRequests : confirmPay(q)
      BY <2>1, CheckoutAssumption DEF confirmPay
    <2>2. CASE Confirmed
      BY <2>2 DEF Confirmed
    <2>3. CASE pollTransaction
      BY <2>3, CheckoutAssumption DEF pollTransaction
    <2>4. CASE resolveAndQuote \/ PollFails \/ Overdue \/ reset
      BY <2>4 DEF resolveAndQuote, PollFails, Overdue, reset
    <2> QED BY <1>3, <2>1, <2>2, <2>3, <2>4 DEF Page
  <1>4. CASE UNCHANGED checkoutVars
    BY <1>4 DEF checkoutVars
  <1> QED BY <1>1, <1>2, <1>3, <1>4 DEF CheckoutNext

\* The page says "done" only of a payment that has been completed, for any
\* number of payments ordered, given up and ordered again.
THEOREM DoneIsPaid == CheckoutSpec => []DoneMeansPaid
<1>1. CheckoutInit => OrderPageInv
  BY CheckoutAssumption DEF CheckoutInit, OrderPageInv, DoneMeansPaid, Ordering
<1>2. /\ CheckoutTypeOK /\ KeylessPages /\ OrderPageInv
      /\ [CheckoutNext]_checkoutVars
      => OrderPageInv'
  BY OrderPageStep
<1>3. OrderPageInv => DoneMeansPaid
  BY DEF OrderPageInv
<1> QED BY <1>1, <1>2, <1>3, CheckoutTypeCorrect, PTL DEF CheckoutSpec

-----------------------------------------------------------------------------
(* Idempotency keys.                                                        *)

\* What has been answered by its key, or is about to be, is kept for the key.
KeyInv == \A q \in Keyed :
              handler[q] \in {"respond", "answered"} => record[KeyOf[q]] # NoRequest

LEMMA KeyStep ==
    ASSUME CheckoutTypeOK, KeyInv, [CheckoutNext]_checkoutVars
    PROVE  /\ KeyInv'
           /\ \A p, q \in Keyed :
                 /\ KeyOf[p] = KeyOf[q]
                 /\ handler[q] = "answered"
                 /\ handler[p] = "lookup"
                 => handler'[p] # "create" /\ record'[KeyOf[q]] = record[KeyOf[q]]
  <1> USE CheckoutAssumption DEF CheckoutTypeOK, KeyInv, OrderGoto, Answer, pageOnly, Keyed
  <1>1. CASE \E q \in Requests : ReceiveOrder(q) \/ Handle(q)
    <2>1. PICK r \in Requests : ReceiveOrder(r) \/ Handle(r)
      BY <1>1
    <2>2. \A k \in Keys : record[k] # NoRequest => record'[k] = record[k]
      BY <2>1 DEF ReceiveOrder, Handle, Lookup, createTransaction, logCreated, createReward,
          keep, respond, ThrowOrder
    <2>3. \A p \in Requests \ {r} : handler'[p] = handler[p]
      BY <2>1 DEF ReceiveOrder, Handle, Lookup, createTransaction, logCreated, createReward,
          keep, respond, ThrowOrder
    <2>4. r \in Keyed /\ handler'[r] \in {"respond",
        "answered"} => record'[KeyOf[r]] # NoRequest
      BY <2>1 DEF ReceiveOrder, Handle, Lookup, createTransaction, logCreated, createReward,
          keep, respond, ThrowOrder
    <2>5. r \in Keyed /\ handler[r] = "lookup" /\ record[KeyOf[r]] # NoRequest
             => handler'[r] # "create"
      BY <2>1 DEF ReceiveOrder, Handle, Lookup, createTransaction, logCreated, createReward,
          keep, respond, ThrowOrder
    <2> QED BY <2>2, <2>3, <2>4, <2>5
  <1>2. CASE \E q \in Requests, status \in RowStatus : Proceed(q, status)
    BY <1>2 DEF Proceed
  <1>3. CASE Page
    BY <1>3 DEF Page, resolveAndQuote, Confirmed, pollTransaction, PollFails, Overdue, reset,
                confirmPay
  <1>4. CASE UNCHANGED checkoutVars
    BY <1>4 DEF checkoutVars
  <1> QED BY <1>1, <1>2, <1>3, <1>4 DEF CheckoutNext

\* A client that repeats an answered request gets the first answer and orders
\* nothing, however many requests share the key.
THEOREM AnsweredOnce == CheckoutSpec => AnsweredIsNotRepeated
<1>1. CheckoutInit => KeyInv
  BY DEF CheckoutInit, KeyInv, Keyed
<1>2. CheckoutTypeOK /\ KeyInv /\ [CheckoutNext]_checkoutVars => KeyInv'
  BY KeyStep
<1>3. CheckoutTypeOK /\ KeyInv /\ [CheckoutNext]_checkoutVars =>
         [\A p, q \in Keyed :
             /\ KeyOf[p] = KeyOf[q]
             /\ handler[q] = "answered"
             /\ handler[p] = "lookup"
             => handler'[p] # "create" /\ record'[KeyOf[q]] = record[KeyOf[q]]]_checkoutVars
  BY KeyStep
<1> QED BY <1>1, <1>2, <1>3, CheckoutTypeCorrect, PTL DEF CheckoutSpec, AnsweredIsNotRepeated

-----------------------------------------------------------------------------
(* The services side by side.                                               *)

\* A step of one part is a step of its service, and none of another's.
LEMMA PartsStep ==
    ASSUME [ServicesNext]_servicesVars
    PROVE  /\ [Next]_vars
           /\ [PagesNext]_allVars \/ UNCHANGED pageVars
           /\ [ReferralsNext]_refVars
           /\ [ReviewNext]_reviewVars
           /\ [AccountsNext]_accountVars
           /\ [CheckoutNext]_checkoutVars
  <1>1. CASE KycPart
    <2>1. ASSUME NEW r \in Rows, Receive(r) \/ assertKycVerified(r) \/ Create(r)
          PROVE  RampsNext
      BY <2>1 DEF RampsNext, Request
    <2>2. Next /\ UNCHANGED pageVars
      BY <1>1, <2>1 DEF KycPart, Next
    <2> QED BY <1>1, <2>2 DEF KycPart
  <1>2. CASE RampsPart
    <2>1. PagesNext
      BY <1>2 DEF RampsPart, VerifiedNext, PagesNext
    <2> QED BY <1>2, <2>1, PagesAreRamps DEF RampsPart
  <1>3. CASE ReferralsPart
    BY <1>3 DEF ReferralsPart, pagesVars, vars
  <1>4. CASE ReviewsPart
    BY <1>4 DEF ReviewsPart, pagesVars, vars
  <1>5. CASE AccountsPart
    BY <1>5 DEF AccountsPart, pagesVars, vars
  <1>6. CASE CheckoutPart
    <2>1. CheckoutNext
      BY <1>6, CheckoutAssumption DEF CheckoutPart, CheckoutNext
    <2> QED BY <1>6, <2>1 DEF CheckoutPart, pagesVars, vars
  <1>7. CASE UNCHANGED servicesVars
    BY <1>7 DEF servicesVars, pagesVars, vars
  <1> QED BY <1>1, <1>2, <1>3, <1>4, <1>5, <1>6, <1>7 DEF ServicesNext

\* Side by side, each service behaves as it does alone.
THEOREM ServicesAreParts ==
    ServicesSpec => ReferralsSpec /\ ReviewSpec /\ AccountsSpec /\ CheckoutSpec
<1>1. ServicesInit => ReferralsInit /\ ReviewInit /\ AccountsInit /\ CheckoutInit
  BY DEF ServicesInit
<1> QED
  BY <1>1, PartsStep, PTL
  DEF ServicesSpec, ReferralsSpec, ReviewSpec, AccountsSpec, CheckoutSpec

\* The one user of the ramps' part has been checked as applicants of their own.
LEMMA VerifiedIsReviewed == ASSUME Verified PROVE KycTypeOK /\ ReviewInv
  <1>1. PICK u \in Users : Users = {u}
    BY MCRampPagesAssumption
  <1>2. PICK a \in Applicants : a = CHOOSE b \in Applicants : TRUE
    BY MCRampPagesAssumption
  <1>3. (CHOOSE v \in Users : TRUE) = u
    BY <1>1
  <1>4. /\ kycStatus = [v \in Users |-> "VERIFIED"]
        /\ kycReference = [v \in Users |-> a]
        /\ applicantOf = [b \in Applicants |-> u]
        /\ sent = Applicants \X {"completed"}
        /\ deleted = {} /\ opened = {} /\ found = {}
    BY <1>2, <1>3 DEF Verified
  <1>5. KycTypeOK
    BY <1>4 DEF KycTypeOK, KycStatus, WebhookStatus
  <1>6. Approved(u)
    BY <1>4 DEF Approved
  <1>7. ReviewInv
    BY <1>1, <1>4, <1>6 DEF ReviewInv
  <1> QED BY <1>5, <1>7

\* What the ramps need of the services' first states.
LEMMA PartsInit ==
    ASSUME ServicesInit
    PROVE  TypeOK /\ TickInv /\ PagesType /\ TruthInv /\ ReviewInv /\ GateInv
             /\ DoneMeansCompleted
  <1>1. KycTypeOK /\ ReviewInv
    <2>1. CASE Verified
      BY <2>1, VerifiedIsReviewed
    <2>2. CASE KycInit
      BY <2>2, RampsAssumption DEF KycInit, KycTypeOK, KycStatus, ReviewInv
    <2> QED BY <2>1, <2>2 DEF ServicesInit
  <1>2. RampsInit
    BY DEF ServicesInit
  <1>3. RampsTypeOK /\ TickInv
    BY <1>2, RampsAssumption DEF RampsInit, RampsTypeOK, TickInv, RampStatus, RequestStage,
        Seen, TickStage
  <1>4. TruthInv
    BY <1>2 DEF RampsInit, TruthInv, RampTellsTheTruth, AnswersStand, NotYetInitiated, Settled
  <1>5. GateInv
    BY <1>2, RampsAssumption DEF RampsInit, GateInv, Involved, NoRow
  <1>6. PagesType /\ DoneMeansCompleted
    BY RampPagesAssumption DEF ServicesInit, PagesType, Step, DoneMeansCompleted
  <1> QED BY <1>1, <1>3, <1>4, <1>5, <1>6 DEF TypeOK

\* The types and the inductive invariants of the ramps and their pages.
RampsInv == TypeOK /\ TickInv /\ PagesType /\ TruthInv /\ ReviewInv /\ GateInv
               /\ DoneMeansCompleted

LEMMA RampsInvariance == ServicesSpec => []RampsInv
<1>1. ServicesInit => RampsInv
  BY PartsInit DEF RampsInv
<1>2. RampsInv /\ [ServicesNext]_servicesVars => RampsInv'
  <2> SUFFICES ASSUME RampsInv, [ServicesNext]_servicesVars PROVE RampsInv'
    OBVIOUS
  <2> USE DEF RampsInv
  <2>1. [Next]_vars /\ ([PagesNext]_allVars \/ UNCHANGED pageVars)
    BY PartsStep
  <2>2. TypeOK' /\ TickInv' /\ TruthInv' /\ ReviewInv' /\ GateInv'
    BY <2>1, NextTypeStep, TruthNext, GateNext
  <2>3. PagesType'
    BY <2>1, PagesTypeStep DEF PagesType, pageVars
  <2>4. DoneMeansCompleted'
    BY <2>1, DoneNext
  <2> QED BY <2>2, <2>3, <2>4
<1> QED BY <1>1, <1>2, PTL DEF ServicesSpec

\* Every part of the services keeps its types.
THEOREM ServicesTypeCorrect == ServicesSpec => []ServicesTypeOK
<1>1. /\ RampsInv /\ ReferralsTypeOK /\ ReviewTypeOK /\ AccountsTypeOK
      /\ CheckoutTypeOK /\ KeylessPages
      => ServicesTypeOK
  BY DEF RampsInv, ServicesTypeOK, PagesTypeOK, PagesType
<1> QED
  BY <1>1, RampsInvariance, ServicesAreParts, ReferralsTypeCorrect, ReviewTypeCorrect,
     AccountsTypeCorrect, CheckoutTypeCorrect, PTL

\* Side by side, too, the table of the ramps tells the truth, is only of those
\* who have been checked, and a page that is done is right.
THEOREM RampsAmongServices ==
    ServicesSpec => [](RampTellsTheTruth /\ RampsAreForTheVerified /\ DoneMeansCompleted)
<1>1. RampsInv => RampTellsTheTruth /\ RampsAreForTheVerified /\ DoneMeansCompleted
  BY DEF RampsInv, TruthInv, GateInv, Involved, RampsAreForTheVerified
<1> QED BY <1>1, RampsInvariance, PTL

\* And what holds of each of the other services alone holds of it beside the
\* others.
THEOREM ServicesAmongServices ==
    ServicesSpec => /\ [](RewardIsEarned /\ RewardedIsRecorded /\ OnLedgerIsApproved)
                    /\ [](AccountsHoldTheirWallet /\ DoneMeansPaid)
                    /\ AnsweredIsNotRepeated
                    /\ ImplementsRegistry
  BY ServicesAreParts, RewardsAreEarned, RewardsAreRecorded, RegistryFollows,
     ReviewsImplementRegistry, AccountsAreReachable, DoneIsPaid, AnsweredOnce, PTL
=============================================================================
