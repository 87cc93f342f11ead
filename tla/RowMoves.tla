------------------------------ MODULE RowMoves ------------------------------
(***************************************************************************)
(* How the row of a payment moves, for whoever reads transactions.status:  *)
(* QUOTED to REWARDING, between the claim and the end, count as AUTHORIZED.*)
(* TransactionProcessor is shown to move its rows so and no other way;     *)
(* Checkout, which reads them, lets them move in every such way.           *)
(***************************************************************************)
RowStatus == {"Absent", "CREATED", "AUTHORIZED", "COMPLETED", "FAILED", "CANCELLED"}

Taken == RowStatus \ {"Absent", "CREATED"}

\* From CREATED a row is claimed, cancelled or failed; after that ticks that
\* overlap and calls that have read the row before write over one another.
MayBecome(from, to) ==
    \/ from = "CREATED" /\ to \in {"AUTHORIZED", "CANCELLED", "FAILED"}
    \/ from \in Taken /\ to \in Taken
=============================================================================
