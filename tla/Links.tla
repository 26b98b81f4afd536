------------------------------- MODULE Links -------------------------------
(***************************************************************************)
(* Linked lists in memory: the nodes one comes to from p, where link is    *)
(* the function from a node to the one its next points to.                 *)
(***************************************************************************)
EXTENDS Integers

\* At most steps links are followed, so that a cycle does not matter.
Follow(link, p, nil, steps) ==
  LET at[i \in 0..steps] ==
        IF i = 0 THEN p
        ELSE IF at[i - 1] = nil THEN nil ELSE link[at[i - 1]]
  IN  at

Reached(link, p, nil, steps) == {Follow(link, p, nil, steps)[i] : i \in 0..steps} \ {nil}
=============================================================================
