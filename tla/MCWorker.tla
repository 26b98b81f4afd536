------------------------------ MODULE MCWorker ------------------------------
(* Worker with a mailbox of two tasks. *)
EXTENDS Worker

CONSTANT w1

MCMaxTaskSize == [b \in Bodies |-> 2]
MCRuns == [r \in Threads |-> w1]
=============================================================================
