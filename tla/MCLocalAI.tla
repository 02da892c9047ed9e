----------------------------- MODULE MCLocalAI -----------------------------
(***************************************************************************)
(* Two jobs.  Each past ticket reaches the bars on one scale only, the     *)
(* best one has no resolution, and the scales rank the articles apart.     *)
(* Locally vpn is like both other tickets, which are unlike each other; in *)
(* words, printer and unanswered are alike.                                *)
(***************************************************************************)
EXTENDS LocalAI, SequencesExt

CONSTANTS first, second, printer, vpn, unanswered, faq, policy, manual

Kinds == (first :> {"copilot"})
           @@ (second :> {"assistant", "auto_resolve", "duplicates", "classify",
                         "cluster"})

Configs == { [enabled |-> TRUE, download |-> d] : d \in BOOLEAN }
             \cup {[enabled |-> FALSE, download |-> TRUE]}

Asked == [threat : {"none", "ticket", "conversation"}, blank : {FALSE},
          offered : {{}, {vpn}}]
           \cup [threat : {"none"}, blank : BOOLEAN,
                 offered : {{printer, vpn, unanswered}}]

Similarity ==
  [local |-> (printer :> 97) @@ (vpn :> 70) @@ (unanswered :> 99)
               @@ (faq :> 60) @@ (policy :> 45) @@ (manual :> 42),
   fallback |-> (printer :> 50) @@ (vpn :> 92) @@ (unanswered :> 95)
               @@ (faq :> 5) @@ (policy :> 20) @@ (manual :> 15)]

Pairs ==
  [local |-> [S \in SUBSET {printer, vpn, unanswered} |->
     CASE S = {printer, vpn} -> 50 [] S = {vpn, unanswered} -> 47 [] OTHER -> 20],
   fallback |-> [S \in SUBSET {printer, vpn, unanswered} |->
     IF S = {printer, unanswered} THEN 30 ELSE 5]]

(* Reference: _single_linkage as the loop it is. *)
Greedy(items, near, bar) ==
  LET Closeness(c, x) == Max({ near[{x, y}] : y \in ToSet(c) })
      Add(clusters, x) ==
        LET fits == { i \in DOMAIN clusters : Closeness(clusters[i], x) >= bar }
            best == { i \in fits : \A k \in fits :
                        Closeness(clusters[k], x) <= Closeness(clusters[i], x) }
        IN IF fits = {} THEN Append(clusters, <<x>>)
           ELSE [clusters EXCEPT ![Max(best)] = Append(@, x)]
  IN { ToSet(c) : c \in ToSet(FoldLeft(Add, <<>>, items)) }

\* Groupings returns just what the loop does for some order of the items.
ASSUME LET tickets == {printer, vpn, unanswered}
           pairs == { S \in SUBSET tickets : Cardinality(S) = 2 }
       IN \A near \in [pairs -> 0 .. 3], bar \in {1, 2} :
            Groupings(tickets, near, bar) =
              { Greedy(items, near, bar) : items \in SetToSeqs(tickets) }
============================================================================
