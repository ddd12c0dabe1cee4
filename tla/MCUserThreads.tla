--------------------------- MODULE MCUserThreads ---------------------------
(* Values of the command line for TLC: negative numbers, which a cfg cannot *)
(* write, are the withdrawals of bank_operation.                            *)
EXTENDS UserThreads

Withdraw300 == -300      \* one of two such operations succeeds
=============================================================================
