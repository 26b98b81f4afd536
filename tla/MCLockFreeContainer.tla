------------------------ MODULE MCLockFreeContainer ------------------------
(***************************************************************************)
(* The two containers of misc/LockFreeContainer.h, instantiated for TLC.   *)
(* They share nothing: a behaviour exercises one of them and leaves the    *)
(* other alone.                                                            *)
(***************************************************************************)
EXTENDS LockFreeStack, LockFreeQueue

VARIABLE subject   \* the container this behaviour is about

allVars == <<vars, queueVars, subject>>

MCInit == Init /\ QueueInit /\ subject \in {"stack", "queue"}

\* A step of a call of one container, which leaves the other alone.
OnStack(A) == subject = "stack" /\ A /\ UNCHANGED <<queueVars, subject>>
OnQueue(A) == subject = "queue" /\ A /\ UNCHANGED <<vars, subject>>

MCSpec ==
  /\ MCInit /\ [][OnStack(Next) \/ OnQueue(QueueNext)]_allVars
  /\ \A t \in Threads : WF_allVars(OnStack(Step(t)))
  /\ \A t \in Callers : WF_allVars(OnQueue(QueueStep(t)))
=============================================================================
