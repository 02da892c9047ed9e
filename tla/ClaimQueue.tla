------------------------------ MODULE ClaimQueue ------------------------------
(***************************************************************************)
(* The smart queue of services/queueing.py: how a waiting ticket is scored *)
(* (priority, age, SLA breach), how claim_next ranks the queue once and    *)
(* then walks down that ranking while tickets and other agents move on,    *)
(* and what the walk may hand out.  Time is counted in hours.              *)
(***************************************************************************)
EXTENDS Integers, FiniteSets, Priorities

CONSTANTS Tickets, Agents,
          Nobody,      \* assignedAgent = None
          Hours,       \* bound: the hours at which something happens
          Levels,      \* bound: the priorities that are set
          Suggestions  \* bound: those the AI suggests

ASSUME QueueAssumption ==
  /\ Hours \subseteq Nat /\ 0 \in Hours
  /\ Levels \cup Suggestions \subseteq Priorities /\ Nobody \notin Agents

----------------------------------------------------------------------------
(* Scoring *)

SlaHours == [URGENT |-> 4, HIGH |-> 24, MEDIUM |-> 72, LOW |-> 168]
PriorityWeight == [URGENT |-> 100, HIGH |-> 60, MEDIUM |-> 30, LOW |-> 10]

AgingPointsPerHour == 2

SlaBreachBonus_Off == 0
SlaBreachBonus == 500

\* A priority field: one of Priorities, or null or junk, here "NONE".
Marks == Levels \cup Suggestions \cup {"NONE"}

Breached(doc, time) ==
  time > doc.created + SlaHours[EffectivePriority(doc)]

Age(doc, time) == IF time > doc.created THEN time - doc.created ELSE 0

Score(doc, time) ==
  PriorityWeight[EffectivePriority(doc)]
    + AgingPointsPerHour * Age(doc, time)
    + (IF Breached(doc, time) THEN SlaBreachBonus ELSE 0)

----------------------------------------------------------------------------
(* The queue and the agents who claim from it *)

VARIABLES now,       \* the hour
          ticket,    \* the tickets collection
          claim,     \* claim_next in progress: agent -> its ranking
          gone       \* history: agent -> tickets seen out of the queue
                     \* since the agent's ranking was read

vars == <<now, ticket, claim, gone>>

Document == [here : BOOLEAN, created : Hours, priority : Marks,
             suggested : Marks, active : BOOLEAN, agent : Agents \cup {Nobody}]

\* A document as create_ticket stores it, or none.
Blank(here, hour) ==
  [here |-> here, created |-> hour, priority |-> "NONE", suggested |-> "NONE",
   active |-> here, agent |-> Nobody]
NotHere == Blank(FALSE, 0)

\* active stands for the statuses OPEN and IN_PROGRESS.
Waits(doc) == doc.here /\ doc.active /\ doc.agent = Nobody
Queue == { t \in Tickets : Waits(ticket[t]) }

\* ranked: the documents as they were read; todo: those not yet tried.
Resting == [pc |-> "idle", at |-> 0, ranked |-> << >>, todo |-> {}]

Init == /\ now = 0
        /\ ticket = [t \in Tickets |-> NotHere]
        /\ claim = [a \in Agents |-> Resting]
        /\ gone = [a \in Agents |-> {}]

\* Every write to a ticket, with the history it leaves.
Write(t, doc) ==
  /\ ticket' = [ticket EXCEPT ![t] = doc]
  /\ gone' = IF Waits(doc) THEN gone
             ELSE [a \in Agents |-> gone[a] \cup {t}]

\* get_queue: the waiting tickets, with the score each has at this moment.
RankQueue(a) ==
  /\ claim[a].pc = "idle"
  /\ claim' = [claim EXCEPT ![a] =
       [pc |-> "walk", at |-> now, ranked |-> [t \in Queue |-> ticket[t]],
        todo |-> Queue]]
  /\ gone' = [gone EXCEPT ![a] = {}]
  /\ UNCHANGED <<now, ticket>>

ScoreThen(a, t) == Score(claim[a].ranked[t], claim[a].at)

\* A candidate no untried one outranks; equal scores come in any order.
Top_Any(a, t) == t \in claim[a].todo
Top(a, t) ==
  /\ t \in claim[a].todo
  /\ \A u \in claim[a].todo : ScoreThen(a, u) <= ScoreThen(a, t)

\* find_one_and_update matches: the ticket is still unassigned and claimable.
TakeTop(a, t, free) ==
  /\ claim[a].pc = "walk" /\ Top(a, t) /\ free
  /\ Write(t, [ticket[t] EXCEPT !.agent = a])
  /\ claim' = [claim EXCEPT ![a] = Resting]
  /\ UNCHANGED now

ClaimTop_NoRecheck(a, t) == TakeTop(a, t, TRUE)
ClaimTop(a, t) == TakeTop(a, t, Waits(ticket[t]))

\* It does not match: try the next candidate.
DropTop(a, t, dropped) ==
  /\ claim[a].pc = "walk" /\ Top(a, t) /\ ~Waits(ticket[t])
  /\ claim' = [claim EXCEPT ![a].todo = @ \ dropped]
  /\ UNCHANGED <<now, ticket, gone>>

SkipTop_GivesUp(a, t) == DropTop(a, t, claim[a].todo)
SkipTop(a, t) == DropTop(a, t, {t})

\* The loop ends without a ticket: claim_next returns None.
ClaimNothing(a) ==
  /\ claim[a].pc = "walk" /\ claim[a].todo = {}
  /\ claim' = [claim EXCEPT ![a] = Resting]
  /\ UNCHANGED <<now, ticket, gone>>

----------------------------------------------------------------------------
(* What the rest of the service does to the tickets meanwhile *)

Create(t) ==
  /\ ~ticket[t].here
  /\ Write(t, Blank(TRUE, now))
  /\ UNCHANGED <<now, claim>>

\* update_ticket sets the priority; classification stores its suggestion.
SetPriority(t, p) ==
  /\ ticket[t].here
  /\ Write(t, [ticket[t] EXCEPT !.priority = p])
  /\ UNCHANGED <<now, claim>>

Suggest(t, p) ==
  /\ ticket[t].here /\ ticket[t].suggested = "NONE"
  /\ Write(t, [ticket[t] EXCEPT !.suggested = p])
  /\ UNCHANGED <<now, claim>>

\* Resolved by a PATCH or by the AI; reopened by a PATCH.
Resolve(t) ==
  /\ ticket[t].here /\ ticket[t].active
  /\ Write(t, [ticket[t] EXCEPT !.active = FALSE])
  /\ UNCHANGED <<now, claim>>

Reopen(t) ==
  /\ ticket[t].here /\ ~ticket[t].active
  /\ Write(t, [ticket[t] EXCEPT !.active = TRUE])
  /\ UNCHANGED <<now, claim>>

\* assign_ticket, which looks at neither status nor agent.
Assign(t, a) ==
  /\ ticket[t].here
  /\ Write(t, [ticket[t] EXCEPT !.agent = a])
  /\ UNCHANGED <<now, claim>>

Tick(h) == now < h /\ now' = h /\ UNCHANGED <<ticket, claim, gone>>

Next ==
  \/ \E a \in Agents :
       \/ RankQueue(a) \/ ClaimNothing(a)
       \/ \E t \in Tickets : ClaimTop(a, t) \/ SkipTop(a, t) \/ Assign(t, a)
  \/ \E t \in Tickets :
       \/ Create(t) \/ Resolve(t) \/ Reopen(t)
       \/ \E p \in Levels : SetPriority(t, p)
       \/ \E p \in Suggestions : Suggest(t, p)
  \/ \E h \in Hours : Tick(h)

Spec == Init /\ [][Next]_vars

----------------------------------------------------------------------------
(* Properties *)

\* Documents, walks and history have their types, and a walk tries what it read.
Ranking == UNION { [S -> Document] : S \in SUBSET Tickets }
Walk == [pc : {"idle", "walk"}, at : Nat, ranked : Ranking,
         todo : SUBSET Tickets]

TypeOK ==
  /\ now \in Hours
  /\ ticket \in [Tickets -> Document]
  /\ claim \in [Agents -> Walk]
  /\ \A a \in Agents : claim[a].todo \subseteq DOMAIN claim[a].ranked
  /\ gone \in [Agents -> SUBSET Tickets]

\* What agent a saw when it read the queue, and nobody took away since.
Passed(a) == DOMAIN claim[a].ranked \ gone[a]

\* The step in which agent a gets ticket t from the walk.
Gets(a, t) == /\ claim[a].pc = "walk" /\ claim'[a].pc = "idle"
              /\ ticket[t].agent = Nobody /\ ticket'[t].agent = a

\* claim_next hands out the ticket that scored best when the queue was read,
\* except for tickets that left the queue since: nobody is passed over for
\* the races the walk loses (queueing.claim_next, "Atomically claim the
\* highest-scored ticket").
BestFirst ==
  [][\A a \in Agents, t \in Tickets : Gets(a, t) =>
       \A u \in Passed(a) : ScoreThen(a, u) <= ScoreThen(a, t)]_vars

\* No ticket starves: past its SLA deadline it is passed over only for one
\* that is past its own, and created at most 45 hours after it.
Yields(u, t, time) ==
  Breached(u, time) => Breached(t, time) /\ t.created <= u.created + 45

BreachedFirst ==
  [][\A a \in Agents, t \in Tickets : Gets(a, t) =>
       \A u \in Passed(a) :
         Yields(claim[a].ranked[u], claim[a].ranked[t], claim[a].at)]_vars

\* claim_next comes back empty-handed only when every ticket it read was out
\* of the queue at some moment since.
NothingMeansGone ==
  \A a \in Agents :
    claim[a].pc = "walk" /\ claim[a].todo = {} => Passed(a) = {}

\* claim_next answers each call once, with a ticket that waits at that very
\* moment or with nothing, however stale its ranking (queueing.claim_next,
\* "exactly one concurrent claimer can win each ticket").
Pool == INSTANCE TicketPool
          WITH waiting <- Queue, holder <- [t \in Tickets |-> ticket[t].agent],
               asking <- { a \in Agents : claim[a].pc = "walk" }
PoolSpec == Pool!Spec
============================================================================
