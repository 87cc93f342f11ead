-------------------------------- MODULE Kyc --------------------------------
(***************************************************************************)
(* Identity checks (kyc.service.ts): createVerification opens an applicant *)
(* at KYCAID and files it as the user's kycReference; KYCAID reports on    *)
(* its applicants by webhook, again when an answer is lost and in no       *)
(* particular order; processWebhook looks the user up by that reference    *)
(* and then writes the status, in two awaits.                              *)
(***************************************************************************)
EXTENDS FiniteSets

CONSTANTS
    Users,
    Applicants,     \* the ids KYCAID can give out
    None            \* no applicant, no user, no row

VARIABLES
    kycStatus,      \* users.kycStatus
    kycReference,   \* users.kycReference
    deleted,        \* the users with a deletedAt
    applicantOf,    \* KYCAID: whom an applicant was opened for
    sent,           \* KYCAID: the webhooks <<applicant, status>> it has sent
    opened,         \* answers <<user, applicant>> createVerification has not filed yet
    found           \* statuses <<user, kycStatus>> processWebhook has not written yet

kycVars == <<kycStatus, kycReference, deleted, applicantOf, sent, opened, found>>

KycStatus == {"NONE", "PENDING", "VERIFIED", "REJECTED"}

\* What a webhook may say; "declined" stands for "rejected" too, and every other
\* word is treated like "pending".
WebhookStatus == {"pending", "completed", "declined"}

KycTypeOK ==
    /\ kycStatus \in [Users -> KycStatus]
    /\ kycReference \in [Users -> Applicants \cup {None}]
    /\ deleted \subseteq Users
    /\ applicantOf \in [Applicants -> Users \cup {None}]
    /\ sent \subseteq Applicants \X WebhookStatus
    /\ opened \subseteq Users \X Applicants
    /\ found \subseteq Users \X KycStatus

KycInit ==
    /\ kycStatus = [u \in Users |-> "NONE"]
    /\ kycReference = [u \in Users |-> None]
    /\ deleted = {}
    /\ applicantOf = [a \in Applicants |-> None]
    /\ sent = {}
    /\ opened = {}
    /\ found = {}

\* KYCAID opens an applicant; the answer reaches createVerification or is lost,
\* in which case the retry policy asks again and opens another one.
OpenApplicant(u, a) ==
    /\ applicantOf[a] = None
    /\ applicantOf' = [applicantOf EXCEPT ![a] = u]
    /\ opened' \in {opened, opened \cup {<<u, a>>}}
    /\ UNCHANGED <<kycStatus, kycReference, deleted, sent, found>>

\* Whatever the user's status was, a verification that begins makes it PENDING.
createVerification(u, a) ==
    /\ <<u, a>> \in opened
    /\ kycReference' = [kycReference EXCEPT ![u] = a]
    /\ kycStatus' = [kycStatus EXCEPT ![u] = "PENDING"]
    /\ opened' = opened \ {<<u, a>>}
    /\ UNCHANGED <<deleted, applicantOf, sent, found>>

\* KYCAID reports on an applicant, and may revise what it said before.
Report(a, status) ==
    /\ applicantOf[a] # None
    /\ sent' = sent \cup {<<a, status>>}
    /\ UNCHANGED <<kycStatus, kycReference, deleted, applicantOf, opened, found>>

mapStatus(status) ==
    CASE status = "completed" -> "VERIFIED"
      [] status = "declined" -> "REJECTED"
      [] OTHER -> "PENDING"

\* A webhook arrives, for the first time or again, and finds its user.
FindUser(u, w) ==
    /\ w \in sent
    /\ kycReference[u] = w[1]
    /\ u \notin deleted
    /\ found' = found \cup {<<u, mapStatus(w[2])>>}
    /\ UNCHANGED <<kycStatus, kycReference, deleted, applicantOf, sent, opened>>

\* The transaction writes the status, whatever reference the user has by now.
processWebhook(u, status) ==
    /\ <<u, status>> \in found
    /\ kycStatus' = [kycStatus EXCEPT ![u] = status]
    /\ found' = found \ {<<u, status>>}
    /\ UNCHANGED <<kycReference, deleted, applicantOf, sent, opened>>

deleteAccount(u) ==
    /\ deleted' = deleted \cup {u}
    /\ UNCHANGED <<kycStatus, kycReference, applicantOf, sent, opened, found>>

KycNext ==
    \/ \E u \in Users, a \in Applicants :
        OpenApplicant(u, a) \/ createVerification(u, a)
    \/ \E a \in Applicants, status \in WebhookStatus : Report(a, status)
    \/ \E u \in Users, w \in sent : FindUser(u, w)
    \/ \E u \in Users, status \in KycStatus : processWebhook(u, status)
    \/ \E u \in Users : deleteAccount(u)

\* KYCAID completed the check of somebody it was asked to check for this user.
Approved(u) == \E a \in Applicants : applicantOf[a] = u /\ <<a, "completed">> \in sent

=============================================================================
