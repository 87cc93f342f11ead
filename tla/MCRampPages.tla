----------------------------- MODULE MCRampPages -----------------------------
(* A bounded instance of the ramps and their pages, whose users have been  *)
(* verified before.                                                        *)
EXTENDS RampPages, Sequences

\* Of all users one is enough, who has somebody to be checked as.
ASSUME MCRampPagesAssumption == Applicants # {} /\ \E u \in Users : Users = {u}

\* Every ramp is the user's.
MCOwner == [r \in Rows |-> CHOOSE u \in Users : TRUE]

\* The anchor moves forward along this order, skipping what it likes; "on_hold"
\* stands for the statuses the provider does not know.
Order == <<"incomplete", "pending_user_transfer_start", "pending_anchor", "on_hold",
           "completed", "refunded">>
MCAnchorSteps == {move \in RawStatus \X RawStatus :
                     \E i, j \in 1..Len(Order) : i < j /\ move = <<Order[i], Order[j]>>}

\* The owner has been verified: of all that happens to the check, a ramp only
\* sees the gate.
Verified ==
    /\ kycStatus = [u \in Users |-> "VERIFIED"]
    /\ kycReference = [u \in Users |-> CHOOSE a \in Applicants : TRUE]
    /\ deleted = {}
    /\ applicantOf = [a \in Applicants |-> CHOOSE u \in Users : TRUE]
    /\ sent = Applicants \X {"completed"}
    /\ opened = {}
    /\ found = {}

VerifiedInit ==
    /\ Verified
    /\ RampsInit
    /\ step = [r \in Rows |-> "amount"]
    /\ paid = [r \in Rows |-> 0]

VerifiedNext ==
    \/ \E r \in Rows : PageStep(r) \/ (\E raw \in RawStatus : AnchorMoves(r, raw))
    \/ ServerStep /\ UNCHANGED <<kycVars, pageVars>>

VerifiedSpec == VerifiedInit /\ [][VerifiedNext]_allVars
=============================================================================
