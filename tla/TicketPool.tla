------------------------------ MODULE TicketPool ------------------------------
(***************************************************************************)
(* What the smart queue promises to the agents, with none of its ranking:  *)
(* an agent who asks for a ticket gets one that waits, in one step and     *)
(* before anyone else, or nothing at all; whatever else happens to the     *)
(* tickets answers nobody's question.                                      *)
(***************************************************************************)
CONSTANTS Tickets, Agents, Nobody

VARIABLES waiting,   \* tickets in the queue
          holder,    \* ticket -> its agent, or Nobody
          asking     \* agents who wait for claim_next to return

vars == <<waiting, holder, asking>>

Init == /\ waiting = {} /\ asking = {}
        /\ holder = [t \in Tickets |-> Nobody]

Ask(a) == /\ a \notin asking
          /\ asking' = asking \cup {a}
          /\ UNCHANGED <<waiting, holder>>

\* An asking agent gets a waiting ticket, or nothing.
Take(a, t) == /\ a \in asking /\ t \in waiting
              /\ asking' = asking \ {a}
              /\ waiting' = waiting \ {t}
              /\ holder' = [holder EXCEPT ![t] = a]

GoWithout(a) == /\ a \in asking
                /\ asking' = asking \ {a}
                /\ UNCHANGED <<waiting, holder>>

\* A ticket of nobody enters the queue, or leaves it without an agent.
Join(t) == /\ holder[t] = Nobody
           /\ waiting' = waiting \cup {t}
           /\ UNCHANGED <<holder, asking>>

Leave(t) == /\ waiting' = waiting \ {t}
            /\ UNCHANGED <<holder, asking>>

\* A ticket is handed to an agent directly, whoever has it.
Hand(a, t) == /\ waiting' = waiting \ {t}
              /\ holder' = [holder EXCEPT ![t] = a]
              /\ UNCHANGED asking

Next == \/ \E a \in Agents : Ask(a) \/ GoWithout(a)
        \/ \E t \in Tickets : Join(t) \/ Leave(t)
        \/ \E a \in Agents, t \in Tickets : Take(a, t) \/ Hand(a, t)

Spec == Init /\ [][Next]_vars
============================================================================
