----------------------------- MODULE PaymentRow -----------------------------
(***************************************************************************)
(* What the API promises about the rows of the transactions table and      *)
(* their money, without its ticks, attempts, faults and crashes.  A row    *)
(* that has been taken up is opened at the payment engine once; then, each *)
(* once and in this order, the payer's Stellar payment goes out, the       *)
(* merchant's UPI payout and the STAR of the reward; and a row is only     *)
(* COMPLETED when the first two are made.  What a row's status does        *)
(* besides is told by RowMoves.                                            *)
(***************************************************************************)
EXTENDS RowMoves, Naturals

CONSTANTS
    Rows,
    ByUpi,      \* the rows whose merchant is paid out by UPI
    Calls       \* how often one Stellar payment may land, with its retries

VARIABLES
    row,        \* the status of each row
    opened,     \* the rows opened at the payment engine
    sent,       \* how often the Stellar payment of each landed
    paid,       \* how often each was paid out
    minted      \* the rows whose reward was minted

money == <<opened, sent, paid, minted>>

Init ==
    /\ row = [t \in Rows |-> "Absent"]
    /\ opened = {}
    /\ sent = [t \in Rows |-> 0]
    /\ paid = [t \in Rows |-> 0]
    /\ minted = {}

Ready(t) == sent[t] > 0 /\ (t \in ByUpi => paid[t] = 1)

Order(t) ==
    /\ row[t] = "Absent"
    /\ row' = [row EXCEPT ![t] = "CREATED"]
    /\ UNCHANGED money

\* Any number of fresh rows at once.
Claim(claimed) ==
    /\ \A t \in claimed : row[t] = "CREATED"
    /\ row' = [t \in Rows |-> IF t \in claimed THEN "AUTHORIZED" ELSE row[t]]
    /\ UNCHANGED money

Become(t, to) ==
    /\ MayBecome(row[t], to)
    /\ to = "COMPLETED" => Ready(t)
    /\ row' = [row EXCEPT ![t] = to]
    /\ UNCHANGED money

Open(t) ==
    /\ row[t] \in Taken
    /\ t \notin opened
    /\ opened' = opened \cup {t}
    /\ UNCHANGED <<row, sent, paid, minted>>

Send(t, n) ==
    /\ t \in opened
    /\ sent[t] = 0
    /\ sent' = [sent EXCEPT ![t] = n]
    /\ UNCHANGED <<row, opened, paid, minted>>

PayOut(t) ==
    /\ sent[t] > 0
    /\ paid[t] = 0
    /\ paid' = [paid EXCEPT ![t] = 1]
    /\ UNCHANGED <<row, opened, sent, minted>>

Mint(t) ==
    /\ Ready(t)
    /\ t \notin minted
    /\ minted' = minted \cup {t}
    /\ UNCHANGED <<row, opened, sent, paid>>

Next ==
    \/ \E claimed \in SUBSET Rows : Claim(claimed)
    \/ \E t \in Rows :
        \/ Order(t) \/ Open(t) \/ PayOut(t) \/ Mint(t)
        \/ \E to \in RowStatus : Become(t, to)
        \/ \E n \in 1..Calls : Send(t, n)

Spec == Init /\ [][Next]_<<row, money>>

-----------------------------------------------------------------------------
\* At any moment the money of a row is some way along opening, payment, payout, with
\* no gap, and neither the reward nor COMPLETED is ahead of it.
InOrder ==
    \A t \in Rows :
        /\ t \in opened => row[t] \in Taken
        /\ sent[t] > 0 => t \in opened
        /\ paid[t] > 0 => sent[t] > 0 /\ paid[t] = 1
        /\ t \in minted \/ row[t] = "COMPLETED" => Ready(t)
=============================================================================
