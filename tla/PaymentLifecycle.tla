--------------------------- MODULE PaymentLifecycle ---------------------------
(***************************************************************************)
(* What the payment engine promises about a payment, without its operators,*)
(* quotes, pause switch or callees.  The money of a payment is committed   *)
(* when it is converted: before, the payer may withdraw; after, the        *)
(* payment runs to its end or fails.  A reward is paid once, between       *)
(* settlement and completion.                                              *)
(***************************************************************************)
CONSTANT Payments

VARIABLES
    stage,      \* how far each payment has come
    rewarded    \* the payments whose reward was paid

Stages == {"absent", "open", "committed", "settled", "closing",
           "completed", "failed", "cancelled"}

Terminal == {"completed", "failed", "cancelled"}

Init ==
    /\ stage = [p \in Payments |-> "absent"]
    /\ rewarded = {}

Advance(p, from, to) ==
    /\ stage[p] \in from
    /\ stage' = [stage EXCEPT ![p] = to]

Open(p)     == Advance(p, {"absent"}, "open")         /\ UNCHANGED rewarded
Commit(p)   == Advance(p, {"open"}, "committed")      /\ UNCHANGED rewarded
Settle(p)   == Advance(p, {"committed"}, "settled")   /\ UNCHANGED rewarded
Complete(p) == Advance(p, {"closing"}, "completed")   /\ UNCHANGED rewarded
Cancel(p)   == Advance(p, {"open"}, "cancelled")      /\ UNCHANGED rewarded

\* The payment leaves "settled" whether or not a reward could be paid.
Reward(p) ==
    /\ Advance(p, {"settled"}, "closing")
    /\ rewarded' \in {rewarded, rewarded \cup {p}}

Fail(p) ==
    /\ Advance(p, Stages \ (Terminal \cup {"absent"}), "failed")
    /\ UNCHANGED rewarded

Next == \E p \in Payments :
            Open(p) \/ Commit(p) \/ Settle(p) \/ Reward(p) \/ Complete(p)
                \/ Cancel(p) \/ Fail(p)

Spec == Init /\ [][Next]_<<stage, rewarded>>
=============================================================================
