------------------------ MODULE MCTransactionProcessor ------------------------
(* Model values for the transaction processor.                             *)
EXTENDS TransactionProcessor, TLC

\* The invocations of the cron job differ in nothing but their names.
TickSymmetry == Permutations(Ticks)
=============================================================================
