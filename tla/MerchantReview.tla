--------------------------- MODULE MerchantReview ---------------------------
(***************************************************************************)
(* Reviewing merchants: the administrators' pages (admin/merchants), the   *)
(* reviews of admin.service.ts, which write the table, then the log, then  *)
(* the registry on the ledger through soroban.service.ts, and the calls of *)
(* merchants.service.ts that write the table only.  A page offers what the *)
(* status it fetched allows; the service asks for no status at all; the    *)
(* registry refuses what it does not allow, and a refusal or a lost answer *)
(* there is logged and forgotten.                                          *)
(***************************************************************************)
CONSTANTS Merchants, Admins

VARIABLES
    dbStatus,       \* merchants.status, "Absent" before the insert
    approved,       \* the merchants with an approvedAt
    owned,          \* the merchants with an ownerUserId
    ledger,         \* the registry's status of each, "Absent" before
    shown,          \* the status each administrator's page shows
    work            \* what each administrator's call does next

reviewVars == <<dbStatus, approved, owned, ledger, shown, work>>

DbStatus == {"Absent", "PENDING", "APPROVED", "REJECTED", "SUSPENDED"}
LedgerStatus == {"Absent", "Pending", "Approved", "Rejected", "Suspended"}
Review == {"approve", "reject", "suspend"}
ReviewAwait == {"update", "log", "get", "register", "submit"}
Idle == [review |-> "none", at |-> "none"]

ReviewTypeOK ==
    /\ dbStatus \in [Merchants -> DbStatus]
    /\ approved \subseteq Merchants
    /\ owned \subseteq Merchants
    /\ ledger \in [Merchants -> LedgerStatus]
    /\ shown \in [Admins -> [Merchants -> DbStatus]]
    /\ work \in [Admins -> [Merchants -> [review : Review, at : ReviewAwait] \cup {Idle}]]

\* Rows of the seed have no owner; create gives every other row one.
ReviewInit ==
    /\ owned \in SUBSET Merchants
    /\ dbStatus = [m \in Merchants |-> IF m \in owned THEN "Absent" ELSE "PENDING"]
    /\ approved = {}
    /\ ledger = [m \in Merchants |-> "Absent"]
    /\ shown = [a \in Admins |-> [m \in Merchants |-> "Absent"]]
    /\ work = [a \in Admins |-> [m \in Merchants |-> Idle]]

\* The onboarding wizard sends the form.
createMerchant(m) ==
    /\ dbStatus[m] = "Absent"
    /\ dbStatus' = [dbStatus EXCEPT ![m] = "PENDING"]
    /\ UNCHANGED <<approved, owned, ledger, shown, work>>

\* A page is opened, or invalidated after a review.
Look(a, m) ==
    /\ shown' = [shown EXCEPT ![a][m] = dbStatus[m]]
    /\ UNCHANGED <<dbStatus, approved, owned, ledger, work>>

\* The buttons of a page, and none while one of them is at work.
Offered(status) ==
    CASE status = "PENDING"   -> {"approve", "reject"}
      [] status = "APPROVED"  -> {"suspend"}
      [] status = "SUSPENDED" -> {"approve"}
      [] OTHER                -> {}

Press(a, m, review) ==
    /\ work[a][m] = Idle
    /\ review \in Offered(shown[a][m])
    /\ work' = [work EXCEPT ![a][m] = [review |-> review, at |-> "update"]]
    /\ UNCHANGED <<dbStatus, approved, owned, ledger, shown>>

\* The table's word for a review, and the registry's rule for it.
Verdict(review) ==
    CASE review = "approve" -> "APPROVED"
      [] review = "reject"  -> "REJECTED"
      [] review = "suspend" -> "SUSPENDED"

Outcome(review) ==
    CASE review = "approve" -> "Approved"
      [] review = "reject"  -> "Rejected"
      [] review = "suspend" -> "Suspended"

Allows(status, review) ==
    CASE review = "approve" -> status \in {"Pending", "Approved", "Suspended"}
      [] review = "reject"  -> status = "Pending"
      [] review = "suspend" -> status = "Approved"

At(a, m, await) == work[a][m].at = await

ReviewGoto(a, m, await) == work' = [work EXCEPT ![a][m].at = await]

End(a, m) == work' = [work EXCEPT ![a][m] = Idle]

Decide(m, status) ==
    /\ dbStatus' = [dbStatus EXCEPT ![m] = status]
    /\ approved' = IF status = "APPROVED" THEN approved \cup {m} ELSE approved

\* Mutant of update: the log and the ledger hear of the review, the table does
\* not.
UpdateNothing(a, m) ==
    /\ At(a, m, "update")
    /\ ReviewGoto(a, m, "log")
    /\ UNCHANGED <<dbStatus, approved, owned, ledger, shown>>

\* The first write, whatever the row says by now.
update(a, m) ==
    /\ At(a, m, "update")
    /\ Decide(m, Verdict(work[a][m].review))
    /\ ReviewGoto(a, m, "log")
    /\ UNCHANGED <<owned, ledger, shown>>

logReview(a, m) ==
    /\ At(a, m, "log")
    /\ ReviewGoto(a, m, IF work[a][m].review = "approve" THEN "get" ELSE "submit")
    /\ UNCHANGED <<dbStatus, approved, owned, ledger, shown>>

\* getMerchant answers null for an unknown merchant, and when it fails.
getMerchant(a, m) ==
    /\ At(a, m, "get")
    /\ \/ ReviewGoto(a, m, "register")
       \/ ledger[m] # "Absent" /\ ReviewGoto(a, m, "submit")
    /\ UNCHANGED <<dbStatus, approved, owned, ledger, shown>>

\* Mutant of registerMerchant: a merchant that has been registered meanwhile is
\* registered anew.
RegisterAnew(a, m) ==
    /\ At(a, m, "register")
    /\ IF m \notin owned
       THEN /\ ledger' = [ledger EXCEPT ![m] = "Pending"]
            /\ ReviewGoto(a, m, "submit") \/ End(a, m)
       ELSE UNCHANGED ledger /\ End(a, m)
    /\ UNCHANGED <<dbStatus, approved, owned, shown>>

\* The owner handed to the registry is the row's ownerUserId, which is no
\* Stellar address: for a merchant with an owner this throws every time.
registerMerchant(a, m) ==
    /\ At(a, m, "register")
    /\ IF m \notin owned /\ ledger[m] = "Absent"
       THEN /\ ledger' = [ledger EXCEPT ![m] = "Pending"]
            /\ ReviewGoto(a, m, "submit") \/ End(a, m)
       ELSE UNCHANGED ledger /\ End(a, m)
    /\ UNCHANGED <<dbStatus, approved, owned, shown>>

\* approveMerchant, rejectMerchant, suspendMerchant: refused or applied; either
\* way the call is over.
Submit(a, m) ==
    /\ At(a, m, "submit")
    /\ LET review == work[a][m].review
       IN ledger' = [ledger EXCEPT ![m] = IF Allows(@, review) THEN Outcome(review) ELSE @]
    /\ End(a, m)
    /\ UNCHANGED <<dbStatus, approved, owned, shown>>

\* An await throws or the process goes down; what was written stays.
ThrowReview(a, m) ==
    /\ work[a][m] # Idle
    /\ End(a, m)
    /\ UNCHANGED <<dbStatus, approved, owned, ledger, shown>>

\* merchants.service.ts: approve, reject, suspend and an administrator's update
\* write the table and nothing else.
WriteStatus(m, status) ==
    /\ dbStatus[m] # "Absent"
    /\ Decide(m, status)
    /\ UNCHANGED <<owned, ledger, shown, work>>

ReviewNext ==
    \/ \E m \in Merchants : createMerchant(m)
    \/ \E m \in Merchants, status \in DbStatus \ {"Absent"} : WriteStatus(m, status)
    \/ \E a \in Admins, m \in Merchants :
        \/ Look(a, m) \/ update(a, m) \/ logReview(a, m) \/ getMerchant(a, m)
        \/ registerMerchant(a, m) \/ Submit(a, m) \/ ThrowReview(a, m)
        \/ \E review \in Review : Press(a, m, review)

ReviewSpec == ReviewInit /\ [][ReviewNext]_reviewVars

-----------------------------------------------------------------------------
\* The contract at the other end: the service's key administers it, every owner
\* it names is the platform's default address, and the metadata hash is zeros.
Registry == INSTANCE MerchantRegistry WITH
    Accounts <- {"platform", "default"}, None <- "none", Hashes <- {"zeros"},
    Deployers <- {"platform"}, Candidates <- {}, Owners <- {"default"},
    admin <- "platform", pendingAdmin <- "none", paused <- FALSE, signer <- "platform",
    status <- ledger,
    owner <- [m \in Merchants |-> IF ledger[m] = "Absent" THEN "none" ELSE "default"],
    metadata <- [m \in Merchants |-> IF ledger[m] = "Absent" THEN "none" ELSE "zeros"]

-----------------------------------------------------------------------------
\* Whatever the pages, the table and the reviews under way make of a merchant,
\* the ledger moves by calls that the registry's contract accepts from its admin,
\* one at a time: what the service believes of register_merchant,
\* approve_merchant, suspend_merchant and reject_merchant is what they do.
ImplementsRegistry == Registry!Spec

\* The registry never runs ahead of the table: it knows no merchant that was
\* not approved in the table at some time, whichever reviews overlap, are cut
\* short or are repeated (admin.service.ts writes the table first).
OnLedgerIsApproved == \A m \in Merchants : ledger[m] # "Absent" => m \in approved
=============================================================================
