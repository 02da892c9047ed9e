------------------------------- MODULE MCForum -------------------------------
(***************************************************************************)
(* A small forum for TLC: a customer's token and an agent's.               *)
(***************************************************************************)
EXTENDS Forum, TLC

CONSTANTS customer, agent

Holder == [k \in Tokens |-> k]
\* Lock, unlock, pin, and a request that omits both flags.
Flags == {<<TRUE, None>>, <<FALSE, None>>, <<None, TRUE>>, <<None, None>>}

ForumSymmetry == Permutations(Slots) \cup Permutations(Posts)
============================================================================
