--------------------------- MODULE ProgramCounter ---------------------------
(***************************************************************************)
(* What the modules of misc/ share: threads, and where each of them is in  *)
(* the call it is making.                                                  *)
(***************************************************************************)
CONSTANT Threads

VARIABLE pc   \* [Threads -> STRING]

Goto(t, from, to) == pc[t] = from /\ pc' = [pc EXCEPT ![t] = to]
=============================================================================
