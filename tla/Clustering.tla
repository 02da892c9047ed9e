------------------------------ MODULE Clustering ------------------------------
(***************************************************************************)
(* _single_linkage (ai-service clustering.py): the groups it makes of a    *)
(* set of items, by their similarity near[{x, y}] and a threshold.  The    *)
(* api-service has the same loop in _lexical_groups (incidents.py).        *)
(***************************************************************************)
EXTENDS Integers, FiniteSets

\* _single_linkage takes the items in the order of the request, at[x]: x goes
\* to the group with the item most like it, the last opened of equals, or
\* opens a group.
Like(x, C, near) ==
  LET scores == { near[{x, y}] : y \in C }
  IN CHOOSE m \in scores : \A n \in scores : n <= m

Joinable(x, P, at, near, bar) ==
  LET Before(C) == { y \in C : at[y] < at[x] }
  IN { C \in P : Before(C) # {} /\ Like(x, Before(C), near) >= bar }

Placed(x, C, P, at, near, bar) ==
  LET Before(D) == { y \in D : at[y] < at[x] }
      fits == Joinable(x, P, at, near, bar)
      Pull(D) == Like(x, Before(D), near)
      Older(D) == \E y \in D : \A z \in C : at[y] < at[z]
  IN \/ fits = {} /\ Before(C) = {}
     \/ C \in fits /\ \A D \in fits \ {C} :
          Pull(D) < Pull(C) \/ (Pull(D) = Pull(C) /\ Older(D))

Orders(S) ==
  { at \in [S -> 1 .. Cardinality(S)] : \A x, y \in S : at[x] = at[y] => x = y }

Groupings(S, near, bar) ==
  { P \in SUBSET ((SUBSET S) \ {{}}) :
      /\ UNION P = S /\ \A C, D \in P : C = D \/ C \cap D = {}
      /\ \E at \in Orders(S) : \A C \in P : \A x \in C :
           Placed(x, C, P, at, near, bar) }
==============================================================================
