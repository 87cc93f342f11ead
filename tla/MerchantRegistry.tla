--------------------------- MODULE MerchantRegistry ---------------------------
(***************************************************************************)
(* The merchant registry, contracts/merchant-registry/src/lib.rs.  As in   *)
(* StarToken, a refused call is no step, `caller' is the address that must *)
(* authorize and `signer' remembers it.  created_ledger, updated_ledger    *)
(* and the UPI hash, which no rule reads, are left out.                    *)
(***************************************************************************)
CONSTANTS
    Accounts,       \* addresses
    None,           \* the absent entry, whatever it would hold
    Merchants,      \* merchant ids
    Hashes,         \* metadata hashes
    Deployers,      \* addresses the contract may be deployed by
    Candidates,     \* addresses proposed as admin
    Owners          \* addresses named as merchant owners

\* What is assumed of the constants; module Contracts makes the ASSUME of it.
ConstantsOK ==
    /\ None \notin Accounts \cup Hashes
    /\ Deployers \subseteq Accounts
    /\ Candidates \subseteq Accounts
    /\ Owners \subseteq Accounts

VARIABLES
    admin, pendingAdmin, paused,
    status,         \* Merchant(id).status, "Absent" when there is no record
    owner,          \* Merchant(id).owner
    metadata,       \* Merchant(id).metadata_hash
    signer          \* who authorized the last call

merchantVars == <<status, owner, metadata>>
vars == <<admin, pendingAdmin, paused, status, owner, metadata, signer>>

MerchantStatus == {"Pending", "Approved", "Suspended", "Rejected"}

TypeOK ==
    /\ admin \in Accounts
    /\ pendingAdmin \in Accounts \cup {None}
    /\ paused \in BOOLEAN
    /\ status \in [Merchants -> MerchantStatus \cup {"Absent"}]
    /\ owner \in [Merchants -> Accounts \cup {None}]
    /\ metadata \in [Merchants -> Hashes \cup {None}]
    /\ signer \in Accounts

Init ==
    /\ admin \in Deployers
    /\ pendingAdmin = None
    /\ paused = FALSE
    /\ status = [m \in Merchants |-> "Absent"]
    /\ owner = [m \in Merchants |-> None]
    /\ metadata = [m \in Merchants |-> None]
    /\ signer = admin

-----------------------------------------------------------------------------
Authenticated(caller) == ~paused /\ signer' = caller

set_admin(caller, new_admin) ==
    /\ caller = admin
    /\ Authenticated(caller)
    /\ pendingAdmin' = new_admin
    /\ UNCHANGED <<admin, paused, merchantVars>>

\* Nothing to revoke here: the registry has no role besides admin.
accept_admin(caller) ==
    /\ caller = pendingAdmin
    /\ Authenticated(caller)
    /\ admin' = pendingAdmin
    /\ pendingAdmin' = None
    /\ UNCHANGED <<paused, merchantVars>>

SetPaused(caller, flag) ==
    /\ caller = admin
    /\ signer' = caller
    /\ paused' = flag
    /\ UNCHANGED <<admin, pendingAdmin, merchantVars>>

register_merchant(caller, m, account, hash) ==
    /\ caller = admin
    /\ Authenticated(caller)
    /\ status[m] = "Absent"
    /\ status' = [status EXCEPT ![m] = "Pending"]
    /\ owner' = [owner EXCEPT ![m] = account]
    /\ metadata' = [metadata EXCEPT ![m] = hash]
    /\ UNCHANGED <<admin, pendingAdmin, paused>>

\* What approve, suspend and reject share: an admin moves an existing record.
Review(caller, m, from, to) ==
    /\ caller = admin
    /\ Authenticated(caller)
    /\ status[m] \in from
    /\ status' = [status EXCEPT ![m] = to]
    /\ UNCHANGED <<admin, pendingAdmin, paused, owner, metadata>>

\* Mutant of approve_merchant: a rejected merchant is approved after all.
ApproveRejected(caller, m) ==
    Review(caller, m, MerchantStatus, "Approved")

\* Approving is refused for a rejected merchant only, so it also re-instates a
\* suspended one and repeats harmlessly.
approve_merchant(caller, m) ==
    Review(caller, m, {"Pending", "Approved", "Suspended"}, "Approved")

suspend_merchant(caller, m) == Review(caller, m, {"Approved"}, "Suspended")

\* Mutant of reject_merchant: a suspended merchant is rejected as well.
RejectSuspended(caller, m) ==
    Review(caller, m, {"Pending", "Suspended"}, "Rejected")

reject_merchant(caller, m) == Review(caller, m, {"Pending"}, "Rejected")

\* Mutant of update_metadata: the admin may do it as well.
UpdateByAdmin(caller, m, hash) ==
    /\ status[m] # "Absent"
    /\ caller \in {owner[m], admin}
    /\ Authenticated(caller)
    /\ metadata' = [metadata EXCEPT ![m] = hash]
    /\ UNCHANGED <<admin, pendingAdmin, paused, status, owner>>

update_metadata(caller, m, hash) ==
    /\ status[m] # "Absent"
    /\ caller = owner[m]
    /\ Authenticated(caller)
    /\ metadata' = [metadata EXCEPT ![m] = hash]
    /\ UNCHANGED <<admin, pendingAdmin, paused, status, owner>>

transfer_owner(caller, m, account) ==
    /\ status[m] # "Absent"
    /\ caller = owner[m]
    /\ Authenticated(caller)
    /\ owner' = [owner EXCEPT ![m] = account]
    /\ UNCHANGED <<admin, pendingAdmin, paused, status, metadata>>

\* Read by the payment engine, paused or not; an unknown id is an error there.
is_approved(m) == status[m] = "Approved"

-----------------------------------------------------------------------------
Step(caller) ==
    \/ \E a \in Candidates : set_admin(caller, a)
    \/ accept_admin(caller)
    \/ \E flag \in BOOLEAN : SetPaused(caller, flag)
    \/ \E m \in Merchants, a \in Owners, h \in Hashes :
           register_merchant(caller, m, a, h)
    \/ \E m \in Merchants : \/ approve_merchant(caller, m)
                            \/ suspend_merchant(caller, m)
                            \/ reject_merchant(caller, m)
    \/ \E m \in Merchants, h \in Hashes : update_metadata(caller, m, h)
    \/ \E m \in Merchants, a \in Owners : transfer_owner(caller, m, a)

Next == \E caller \in Accounts : Step(caller)

Spec == Init /\ [][Next]_vars

-----------------------------------------------------------------------------
(* Properties.                                                             *)

\* A merchant's standing is decided by the sitting admin alone, a rejection
\* is never reversed, and a record never returns to Pending or disappears.
\* Only a pending merchant is rejected and only an approved one suspended, so
\* a suspended merchant can only be re-instated.
StandingIsDecidedByAdmin ==
    [][\A m \in Merchants : status'[m] # status[m] =>
          /\ signer' = admin
          /\ status[m] # "Rejected"
          /\ status'[m] = "Pending" => status[m] = "Absent"
          /\ status'[m] # "Absent"
          /\ status'[m] = "Suspended" => status[m] = "Approved"
          /\ status'[m] = "Rejected" => status[m] = "Pending"]_vars

\* The owner's side of the record belongs to the owner: not even the admin can
\* redirect a registered merchant to another owner or metadata hash.
OwnerKeepsTheRecord ==
    [][\A m \in Merchants :
          /\ status[m] # "Absent"
          /\ owner'[m] # owner[m] \/ metadata'[m] # metadata[m]
          => signer' = owner[m]]_vars
=============================================================================
