---------------------------- MODULE MCThreadPool ----------------------------
(* ThreadPool with two workers whose mailboxes hold one task; t2 is urgent *)
(* and t3 is bound to worker 1.                                            *)
EXTENDS ThreadPool

CONSTANTS t1, t2, t3

MCTasks == {t1, t2, t3}
MCPriority == [t \in MCTasks |-> IF t = t2 THEN 0 ELSE 2]
MCAffinity == [t \in MCTasks |-> IF t = t3 THEN 1 ELSE -1]
MCMaxTaskSize == [b \in Bodies |-> IF b = Dispatcher THEN 2 ELSE 1]
MCRuns == [b \in Bodies |-> b]
=============================================================================
