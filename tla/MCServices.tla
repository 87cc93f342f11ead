------------------------------ MODULE MCServices ------------------------------
(* Bounded instances of the API's services and their pages, side by side:  *)
(* `part' says which of them this behaviour is about, the others stay as   *)
(* they are.  The services of different parts share no table and no call.  *)
EXTENDS MCRampPages, Referrals, MerchantReview, Accounts, Checkout

VARIABLE part

Part == {"kyc", "ramps", "referrals", "reviews", "accounts", "keys", "checkout"}

\* One member makes every code; every payment is another's, one the inviter's.
MCInviter == [c \in Codes |-> CHOOSE u \in Members : TRUE]
MCPayer == CHOOSE f \in [Payments -> Members] :
              /\ \A p, q \in Payments : p # q => f[p] # f[q]
              /\ \E p \in Payments : f[p] = CHOOSE u \in Members : TRUE

MCKeyOf == [q \in Requests \ PageRequests |-> CHOOSE k \in Keys : TRUE]

pagesVars == <<rampVars, pageVars>>

ServicesInit ==
    /\ part \in Part
    /\ IF part = "ramps" THEN Verified ELSE KycInit
    /\ RampsInit
    /\ part # "ramps" => \A r \in Rows : type[r] = "ONRAMP"
    /\ step = [r \in Rows |-> "amount"]
    /\ paid = [r \in Rows |-> 0]
    /\ ReferralsInit /\ ReviewInit /\ AccountsInit /\ CheckoutInit
    /\ part # "reviews" => owned = {}

KycPart ==
    /\ part = "kyc"
    /\ \/ KycNext /\ UNCHANGED rampVars
       \/ \E r \in Rows : (Receive(r) \/ assertKycVerified(r) \/ Create(r)) /\ UNCHANGED kycVars
    /\ UNCHANGED <<part, pageVars, refVars, reviewVars, accountVars, checkoutVars>>

RampsPart ==
    /\ part = "ramps"
    /\ VerifiedNext
    /\ UNCHANGED <<part, refVars, reviewVars, accountVars, checkoutVars>>

ReferralsPart ==
    /\ part = "referrals"
    /\ ReferralsNext
    /\ UNCHANGED <<part, kycVars, pagesVars, reviewVars, accountVars, checkoutVars>>

ReviewsPart ==
    /\ part = "reviews"
    /\ ReviewNext
    /\ UNCHANGED <<part, kycVars, pagesVars, refVars, accountVars, checkoutVars>>

AccountsPart ==
    /\ part = "accounts"
    /\ AccountsNext
    /\ UNCHANGED <<part, kycVars, pagesVars, refVars, reviewVars, checkoutVars>>

\* Requests with a key and requests of the page meet in no row and no record.
CheckoutPart ==
    /\ \/ /\ part = "keys"
          /\ \E q \in Requests \ PageRequests : ReceiveOrder(q) \/ Handle(q)
       \/ /\ part = "checkout"
          /\ \/ \E q \in PageRequests : \/ Handle(q)
                                        \/ \E s \in RowStatus : Proceed(q, s)
             \/ Page
    /\ UNCHANGED <<part, kycVars, pagesVars, refVars, reviewVars, accountVars>>

ServicesNext ==
    KycPart \/ RampsPart \/ ReferralsPart \/ ReviewsPart \/ AccountsPart \/ CheckoutPart

servicesVars == <<part, kycVars, pagesVars, refVars, reviewVars, accountVars, checkoutVars>>

ServicesSpec ==
    ServicesInit /\ [][ServicesNext]_servicesVars /\ Fairness /\ PageFairness

-----------------------------------------------------------------------------
\* Every table, handler, tick and page of the services keeps its type.
ServicesTypeOK ==
    PagesTypeOK /\ ReferralsTypeOK /\ ReviewTypeOK /\ AccountsTypeOK /\ CheckoutTypeOK
=============================================================================
