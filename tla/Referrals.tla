----------------------------- MODULE Referrals -----------------------------
(***************************************************************************)
(* Referral codes and their rewards (referrals.service.ts), beside the     *)
(* administrator's own calls on the same rewards rows (rewards.service.ts).*)
(* accept, qualify and reward read the referral, check it and write it in  *)
(* later awaits: what a call has read is kept in `calls'.                  *)
(***************************************************************************)
EXTENDS FiniteSets, Naturals

CONSTANTS
    Members,        \* users
    Codes,          \* referrals
    Inviter,        \* who made each of them
    Payments,       \* transactions
    Payer,          \* and who pays
    Nobody,         \* no user, no transaction
    MaxCalls        \* bound: calls between two awaits at a time

\* What is known of the constants.
ASSUME ReferralsAssumption ==
    /\ Inviter \in [Codes -> Members]
    /\ Payer \in [Payments -> Members]
    /\ Nobody \notin Members \cup Payments

VARIABLES
    standing,       \* referrals.status, "Absent" before the insert
    invited,        \* referrals.invitedUserId
    firstPayment,   \* referrals.firstTransactionId
    rewardRow,      \* rewards.status of the row with this referralId
    expired,        \* the codes past their expiresAt
    completed,      \* the transactions that are COMPLETED
    calls           \* <<call, code, what it read>>

refVars == <<standing, invited, firstPayment, rewardRow, expired, completed, calls>>

Calls == ({"accept", "check"} \X Codes \X Members)
         \cup ({"qualify"} \X Codes \X Payments) \cup ({"reward"} \X Codes \X {Nobody})

ReferralsTypeOK ==
    /\ standing \in [Codes -> {"Absent", "INVITED", "QUALIFIED", "REWARDED"}]
    /\ invited \in [Codes -> Members \cup {Nobody}]
    /\ firstPayment \in [Codes -> Payments \cup {Nobody}]
    /\ rewardRow \in [Codes -> {"Absent", "PENDING", "MINTED", "REVERSED"}]
    /\ expired \subseteq Codes
    /\ completed \subseteq Payments
    /\ calls \subseteq Calls

ReferralsInit ==
    /\ standing = [c \in Codes |-> "Absent"]
    /\ invited = [c \in Codes |-> Nobody]
    /\ firstPayment = [c \in Codes |-> Nobody]
    /\ rewardRow = [c \in Codes |-> "Absent"]
    /\ expired = {}
    /\ completed = {}
    /\ calls = {}

\* A handler that has read and checked goes on to its next await.
Read(call) ==
    /\ Cardinality(calls) < MaxCalls
    /\ calls' = calls \cup {call}

Resume(call) == call \in calls /\ calls' = calls \ {call}

\* A column with a unique index takes a value no other row has.
Free(column, c, v) == \A d \in Codes \ {c} : column[d] # v

createInvite(c) ==
    /\ standing[c] = "Absent"
    /\ standing' = [standing EXCEPT ![c] = "INVITED"]
    /\ UNCHANGED <<invited, firstPayment, rewardRow, expired, completed, calls>>

\* Mutant of Acceptable: one's own code will do.
AcceptableToAll(c, u) ==
    /\ standing[c] # "Absent"
    /\ invited[c] \in {u, Nobody}
    /\ c \notin expired

\* accept: the code is not one's own, not another's and not expired.
Acceptable(c, u) ==
    /\ standing[c] # "Absent"
    /\ Inviter[c] # u
    /\ invited[c] \in {u, Nobody}
    /\ c \notin expired

CheckAccept(c, u) ==
    /\ Acceptable(c, u)
    /\ Read(<<"accept", c, u>>)
    /\ UNCHANGED <<standing, invited, firstPayment, rewardRow, expired, completed>>

\* The update checks nothing again, and sends a finished referral back.
accept(c, u) ==
    /\ Resume(<<"accept", c, u>>)
    /\ IF Free(invited, c, u)
       THEN /\ invited' = [invited EXCEPT ![c] = u]
            /\ standing' = [standing EXCEPT ![c] = "INVITED"]
       ELSE UNCHANGED <<invited, standing>>
    /\ UNCHANGED <<firstPayment, rewardRow, expired, completed>>

\* qualify reads the referral, then the transaction, and then writes; it does
\* not ask for the referral's status.
CheckInvited(c, u) ==
    /\ invited[c] = u
    /\ Read(<<"check", c, u>>)
    /\ UNCHANGED <<standing, invited, firstPayment, rewardRow, expired, completed>>

CheckPayment(c, u, p) ==
    /\ <<"check", c, u>> \in calls
    /\ Payer[p] = u /\ p \in completed
    /\ calls' = (calls \ {<<"check", c, u>>}) \cup {<<"qualify", c, p>>}
    /\ UNCHANGED <<standing, invited, firstPayment, rewardRow, expired, completed>>

qualify(c, p) ==
    /\ Resume(<<"qualify", c, p>>)
    /\ IF Free(firstPayment, c, p)
       THEN /\ firstPayment' = [firstPayment EXCEPT ![c] = p]
            /\ standing' = [standing EXCEPT ![c] = "QUALIFIED"]
       ELSE UNCHANGED <<firstPayment, standing>>
    /\ UNCHANGED <<invited, rewardRow, expired, completed>>

CheckReward(c) ==
    /\ standing[c] = "QUALIFIED"
    /\ Read(<<"reward", c, Nobody>>)
    /\ UNCHANGED <<standing, invited, firstPayment, rewardRow, expired, completed>>

\* Mutant of reward: the status first, the row when the chain is asked.
RewardStatusOnly(c) ==
    /\ Resume(<<"reward", c, Nobody>>)
    /\ standing' = [standing EXCEPT ![c] = "REWARDED"]
    /\ UNCHANGED <<invited, firstPayment, rewardRow, expired, completed>>

\* One database transaction: upsert the reward, finish the referral.
reward(c) ==
    /\ Resume(<<"reward", c, Nobody>>)
    /\ rewardRow' = [rewardRow EXCEPT ![c] = "MINTED"]
    /\ standing' = [standing EXCEPT ![c] = "REWARDED"]
    /\ UNCHANGED <<invited, firstPayment, expired, completed>>

\* The administrator's calls: create for a referral without a row, mint, reverse.
SetReward(c, from, to) ==
    /\ rewardRow[c] \in from
    /\ standing[c] # "Absent"
    /\ rewardRow' = [rewardRow EXCEPT ![c] = to]
    /\ UNCHANGED <<standing, invited, firstPayment, expired, completed, calls>>

create(c)  == \E to \in {"PENDING", "MINTED", "REVERSED"} : SetReward(c, {"Absent"}, to)
mint(c)    == SetReward(c, {"PENDING", "MINTED", "REVERSED"}, "MINTED")
reverse(c) == SetReward(c, {"PENDING", "MINTED", "REVERSED"}, "REVERSED")

\* The processor completes a payment; the clock passes a code's expiresAt.
Complete(p) ==
    /\ completed' = completed \cup {p}
    /\ UNCHANGED <<standing, invited, firstPayment, rewardRow, expired, calls>>

Expire(c) ==
    /\ expired' = expired \cup {c}
    /\ UNCHANGED <<standing, invited, firstPayment, rewardRow, completed, calls>>

ReferralsNext ==
    \/ \E c \in Codes :
        \/ createInvite(c) \/ CheckReward(c) \/ reward(c) \/ Expire(c)
        \/ create(c) \/ mint(c) \/ reverse(c)
        \/ \E u \in Members : CheckAccept(c, u) \/ accept(c, u) \/ CheckInvited(c, u)
        \/ \E u \in Members, p \in Payments : CheckPayment(c, u, p)
        \/ \E p \in Payments : qualify(c, p)
    \/ \E p \in Payments : Complete(p)

ReferralsSpec == ReferralsInit /\ [][ReferralsNext]_refVars

-----------------------------------------------------------------------------
\* A referral pays only for a friend's payment: one that is qualified or
\* rewarded rests on a completed transaction of somebody other than its
\* inviter, whichever of accept, qualify and reward interleave.
RewardIsEarned ==
    \A c \in Codes : standing[c] \in {"QUALIFIED", "REWARDED"} =>
        \E p \in completed : firstPayment[c] = p /\ Payer[p] # Inviter[c]

\* A rewarded referral has its reward: the row and the status are written
\* together, and nothing makes the row PENDING again.
RewardedIsRecorded ==
    \A c \in Codes : standing[c] = "REWARDED" => rewardRow[c] \in {"MINTED", "REVERSED"}
=============================================================================
