------------------------------- MODULE Finality -------------------------------
(***************************************************************************)
(* What consensus promises to the rest of the node: at every height at     *)
(* most one block is ever decided, and a decision is never taken back.     *)
(***************************************************************************)
CONSTANTS Heights, Blocks
VARIABLE decided    \* decided[h]: the blocks of h some commit certificate exists for

Init == decided = [h \in Heights |-> {}]

Decide(h, b) == decided[h] = {} /\ decided' = [decided EXCEPT ![h] = {b}]

Next == \E h \in Heights, b \in Blocks : Decide(h, b)

Spec == Init /\ [][Next]_decided
===============================================================================
