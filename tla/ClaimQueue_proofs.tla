-------------------------- MODULE ClaimQueue_proofs --------------------------
(***************************************************************************)
(* Proofs about ClaimQueue: its type invariant, the order in which the     *)
(* walk hands out tickets, that it implements TicketPool, that a walk      *)
(* ends, and how far one ticket may overtake another.                      *)
(***************************************************************************)
EXTENDS ClaimQueue, TLAPS

----------------------------------------------------------------------------
(* The inductive invariant *)

Walking(a) == claim[a].pc = "walk"

\* A ticket that was read and is not known to have left still waits.
SeenWaits ==
  \A a \in Agents : Walking(a) =>
    \A t \in Passed(a) : Waits(ticket[t])

\* The walk drops only tickets that have left.
Untried ==
  \A a \in Agents : Walking(a) => Passed(a) \subseteq claim[a].todo

\* A ticket not yet created has no agent and does not wait.
Unborn == \A t \in Tickets : ~ticket[t].here => ticket[t] = NotHere

IInv == TypeOK /\ SeenWaits /\ Untried /\ Unborn

----------------------------------------------------------------------------
(* Scores *)

LEMMA EffectiveLevel ==
  ASSUME NEW doc
  PROVE  EffectivePriority(doc) \in {"URGENT", "HIGH", "MEDIUM", "LOW"}
BY DEF EffectivePriority, Priorities

\* The terms of a score that depend on the level.
LEMMA Terms ==
  ASSUME NEW level \in {"URGENT", "HIGH", "MEDIUM", "LOW"}
  PROVE  /\ PriorityWeight[level] \in 10 .. 100
         /\ SlaHours[level] \in 4 .. 168
         /\ PriorityWeight[level] + 2 * SlaHours[level] <= 346
BY DEF PriorityWeight, SlaHours

\* The score of a document of weight w whose deadline is s hours after it.
ScoredBy(doc, time, w, s) ==
  /\ w \in 10 .. 100 /\ s \in 4 .. 168 /\ w + 2 * s <= 346
  /\ doc.created \in Nat
  /\ Breached(doc, time) <=> time > doc.created + s
  /\ Age(doc, time) \in Nat
  /\ Score(doc, time) = w + 2 * Age(doc, time)
                        + (IF Breached(doc, time) THEN 500 ELSE 0)

LEMMA ScoreParts ==
  ASSUME NEW doc \in Document, NEW time \in Nat
  PROVE  \E w, s : ScoredBy(doc, time, w, s)
<1> DEFINE level == EffectivePriority(doc)
           w == PriorityWeight[level]
           s == SlaHours[level]
<1>1. w \in 10 .. 100 /\ s \in 4 .. 168 /\ w + 2 * s <= 346
  BY EffectiveLevel, Terms
<1>2. doc.created \in Nat
  BY QueueAssumption DEF Document, QueueAssumption
<1>3. Breached(doc, time) <=> time > doc.created + s
  BY DEF Breached
<1>4. Age(doc, time) \in Nat
  BY <1>2 DEF Age
<1>5. Score(doc, time) = w + 2 * Age(doc, time)
                         + (IF Breached(doc, time) THEN 500 ELSE 0)
  BY DEF Score, AgingPointsPerHour, SlaBreachBonus
<1> HIDE DEF w, s, level
<1>6. ScoredBy(doc, time, w, s)
  BY <1>1, <1>2, <1>3, <1>4, <1>5 DEF ScoredBy
<1> QED BY <1>6

\* A ticket past its deadline is outscored only by one past its own, which is
\* at most 45 hours younger: the most that priorities are worth in age.
LEMMA BreachOutranks ==
  ASSUME NEW u \in Document, NEW t \in Document, NEW time \in Nat,
         Score(u, time) <= Score(t, time)
  PROVE  Yields(u, t, time)
<1>1. SUFFICES ASSUME Breached(u, time)
               PROVE  Breached(t, time) /\ t.created <= u.created + 45
  BY DEF Yields
<1>2. PICK w, s : ScoredBy(u, time, w, s)
  BY ScoreParts
<1>3. PICK x, y : ScoredBy(t, time, x, y)
  BY ScoreParts
<1>4. /\ w \in 10 .. 100 /\ u.created \in Nat /\ time > u.created
      /\ Score(u, time) = w + 2 * (time - u.created) + 500
  BY <1>1, <1>2 DEF ScoredBy, Age
<1>5. CASE ~Breached(t, time)
  <2>1. t.created \in Nat /\ y \in 4 .. 168 /\ time <= t.created + y
    BY <1>3, <1>5 DEF ScoredBy
  <2>2. Age(t, time) \in Nat /\ Age(t, time) <= y
    BY <2>1 DEF Age
  <2>3. /\ x \in 10 .. 100 /\ x + 2 * y <= 346
        /\ Score(t, time) = x + 2 * Age(t, time)
    BY <1>3, <1>5 DEF ScoredBy
  <2>4. Score(t, time) <= 346
    BY <2>1, <2>2, <2>3
  <2> QED BY <1>4, <2>1, <2>2, <2>3, <2>4
<1>6. CASE Breached(t, time)
  <2>1. /\ x \in 10 .. 100 /\ t.created \in Nat /\ time > t.created
        /\ Score(t, time) = x + 2 * (time - t.created) + 500
    BY <1>3, <1>6 DEF ScoredBy, Age
  <2> QED BY <1>4, <1>6, <2>1
<1> QED BY <1>5, <1>6

----------------------------------------------------------------------------
(* Types of a walk *)

LEMMA WalkTypes ==
  ASSUME TypeOK, NEW a \in Agents
  PROVE  /\ claim[a] \in Walk /\ claim[a].ranked \in Ranking
         /\ claim[a].at \in Nat /\ claim[a].todo \subseteq DOMAIN claim[a].ranked
         /\ DOMAIN claim[a].ranked \subseteq Tickets
         /\ \A t \in DOMAIN claim[a].ranked : claim[a].ranked[t] \in Document
<1>1. claim[a] \in Walk /\ claim[a].todo \subseteq DOMAIN claim[a].ranked
  BY DEF TypeOK
<1>2. claim[a].ranked \in Ranking /\ claim[a].at \in Nat
  BY <1>1 DEF Walk
<1>3. PICK S \in SUBSET Tickets : claim[a].ranked \in [S -> Document]
  BY <1>2 DEF Ranking
<1> QED BY <1>1, <1>2, <1>3

LEMMA RestingTypes ==
  /\ Resting \in Walk /\ Resting.todo = {} /\ Resting.pc = "idle"
<1>1. << >> \in [{} -> Document] /\ {} \in SUBSET Tickets
  OBVIOUS
<1>2. << >> \in Ranking
  BY <1>1 DEF Ranking
<1> QED BY <1>2 DEF Resting, Walk

----------------------------------------------------------------------------
(* Steps *)

LEMMA InitIInv == ASSUME Init PROVE IInv
<1>1. NotHere \in Document /\ ~NotHere.here
  BY QueueAssumption DEF NotHere, Blank, Document, Marks, QueueAssumption
<1> QED BY <1>1, RestingTypes, QueueAssumption
        DEF Init, IInv, TypeOK, SeenWaits, Untried, Unborn, Walking,
            QueueAssumption

\* A write to one ticket, by an agent whose walk ends or by anyone else: what
\* was seen of the ticket is forgotten unless it waits.
LEMMA WriteStep ==
  ASSUME IInv, NEW t \in Tickets, NEW doc \in Document, doc.here, Write(t, doc),
         claim' \in [Agents -> Walk], now' = now,
         \A a \in Agents : claim'[a] = claim[a] \/ claim'[a] = Resting
  PROVE  IInv'
<1>1. /\ ticket' \in [Tickets -> Document] /\ ticket'[t] = doc
      /\ \A u \in Tickets : u # t => ticket'[u] = ticket[u]
  BY DEF Write, IInv, TypeOK
<1>2. /\ gone' \in [Agents -> SUBSET Tickets]
      /\ \A a \in Agents : gone[a] \subseteq gone'[a]
      /\ ~Waits(doc) => \A a \in Agents : t \in gone'[a]
  BY DEF Write, IInv, TypeOK
<1>3. TypeOK'
  <2>1. ASSUME NEW a \in Agents
        PROVE  claim'[a].todo \subseteq DOMAIN claim'[a].ranked
    <3>1. CASE claim'[a] = claim[a]
      BY <3>1 DEF IInv, TypeOK
    <3>2. CASE claim'[a] = Resting
      BY <3>2, RestingTypes
    <3> QED BY <3>1, <3>2
  <2> QED BY <1>1, <1>2, <2>1 DEF IInv, TypeOK
<1>4. \A a \in Agents : Walking(a)' => /\ Walking(a) /\ claim'[a] = claim[a]
                                       /\ Passed(a)' \subseteq Passed(a)
  BY <1>2, RestingTypes DEF Walking, Passed
<1>5. SeenWaits'
  <2>1. ASSUME NEW a \in Agents, Walking(a)', NEW u \in Passed(a)'
        PROVE  Waits(ticket[u])'
    <3>1. Waits(ticket[u]) /\ u \in Tickets
      BY <1>4, <2>1, WalkTypes DEF IInv, SeenWaits, Passed
    <3>2. CASE u = t
      BY <1>1, <1>2, <2>1, <3>2 DEF Passed
    <3>3. CASE u # t
      BY <1>1, <3>1, <3>3
    <3> QED BY <3>2, <3>3
  <2> QED BY <2>1 DEF SeenWaits
<1>6. Untried'
  BY <1>4 DEF IInv, Untried
<1>7. Unborn'
  BY <1>1 DEF IInv, Unborn
<1> QED BY <1>3, <1>5, <1>6, <1>7 DEF IInv

\* The documents that the service writes.
LEMMA Documents ==
  ASSUME NEW doc \in Document
  PROVE  /\ \A a \in Agents \cup {Nobody} : [doc EXCEPT !.agent = a] \in Document
         /\ \A b \in BOOLEAN : [doc EXCEPT !.active = b] \in Document
         /\ \A p \in Marks : [doc EXCEPT !.priority = p] \in Document
         /\ \A p \in Marks : [doc EXCEPT !.suggested = p] \in Document
BY DEF Document

LEMMA RankQueueStep ==
  ASSUME IInv, NEW a \in Agents, RankQueue(a)
  PROVE  IInv'
<1> DEFINE c == [pc |-> "walk", at |-> now, ranked |-> [t \in Queue |-> ticket[t]],
                 todo |-> Queue]
<1>1. /\ claim' = [claim EXCEPT ![a] = c] /\ gone' = [gone EXCEPT ![a] = {}]
      /\ UNCHANGED <<now, ticket>>
  BY DEF RankQueue
<1>2. /\ c.pc = "walk" /\ c.at = now /\ c.todo = Queue /\ DOMAIN c.ranked = Queue
      /\ c.ranked = [t \in Queue |-> ticket[t]]
  OBVIOUS
<1>3. Queue \subseteq Tickets /\ now \in Nat
  BY QueueAssumption DEF Queue, IInv, TypeOK, QueueAssumption
<1>4. c \in Walk
  <2>1. [t \in Queue |-> ticket[t]] \in [Queue -> Document]
    BY <1>3 DEF IInv, TypeOK
  <2>2. [t \in Queue |-> ticket[t]] \in Ranking
    BY <1>3, <2>1 DEF Ranking
  <2> QED BY <1>3, <2>2 DEF Walk
<1> HIDE DEF c
<1>5. /\ claim' \in [Agents -> Walk] /\ claim'[a] = c /\ gone'[a] = {}
      /\ gone' \in [Agents -> SUBSET Tickets]
      /\ \A b \in Agents : b # a => claim'[b] = claim[b] /\ gone'[b] = gone[b]
  BY <1>1, <1>4 DEF IInv, TypeOK
<1>6. TypeOK'
  BY <1>1, <1>2, <1>5 DEF IInv, TypeOK
<1>7. Passed(a)' = Queue
  BY <1>2, <1>5 DEF Passed
<1>8. \A b \in Agents : b # a => /\ Passed(b)' = Passed(b)
                                 /\ Walking(b)' <=> Walking(b)
  BY <1>5 DEF Passed, Walking
<1>9. SeenWaits'
  <2>1. ASSUME NEW b \in Agents, Walking(b)', NEW t \in Passed(b)'
        PROVE  Waits(ticket[t])
    <3>1. CASE b = a
      BY <1>7, <2>1, <3>1 DEF Queue
    <3>2. CASE b # a
      BY <1>8, <2>1, <3>2 DEF IInv, SeenWaits
    <3> QED BY <3>1, <3>2
  <2> QED BY <1>1, <2>1 DEF SeenWaits
<1>10. Untried'
  <2>1. ASSUME NEW b \in Agents, Walking(b)'
        PROVE  Passed(b)' \subseteq claim'[b].todo
    <3>1. CASE b = a
      BY <1>2, <1>5, <1>7, <3>1
    <3>2. CASE b # a
      BY <1>5, <1>8, <2>1, <3>2 DEF IInv, Untried
    <3> QED BY <3>1, <3>2
  <2> QED BY <2>1 DEF Untried
<1>11. Unborn'
  BY <1>1 DEF IInv, Unborn
<1> QED BY <1>6, <1>9, <1>10, <1>11 DEF IInv

\* A walk that ends: nothing is written.
LEMMA RestStep ==
  ASSUME IInv, NEW a \in Agents, ClaimNothing(a)
  PROVE  IInv'
<1>1. /\ claim' \in [Agents -> Walk] /\ claim'[a] = Resting
      /\ \A b \in Agents : b # a => claim'[b] = claim[b]
      /\ UNCHANGED <<now, ticket, gone>>
  BY RestingTypes DEF ClaimNothing, IInv, TypeOK
<1>2. TypeOK'
  BY <1>1, RestingTypes DEF IInv, TypeOK
<1>3. \A b \in Agents : Walking(b)' => claim'[b] = claim[b] /\ Walking(b)
  BY <1>1, RestingTypes DEF Walking
<1> QED BY <1>1, <1>2, <1>3 DEF IInv, SeenWaits, Untried, Unborn, Passed

LEMMA SkipTopStep ==
  ASSUME IInv, NEW a \in Agents, NEW t \in Tickets, SkipTop(a, t)
  PROVE  IInv'
<1> DEFINE c == [claim[a] EXCEPT !.todo = @ \ {t}]
<1>1. /\ claim' = [claim EXCEPT ![a] = c] /\ UNCHANGED <<now, ticket, gone>>
      /\ Walking(a) /\ ~Waits(ticket[t])
  BY DEF SkipTop, DropTop, Walking, IInv, TypeOK
<1>2. /\ c \in Walk /\ c.ranked = claim[a].ranked
      /\ c.todo = claim[a].todo \ {t}
  BY WalkTypes DEF IInv, Walk
<1> HIDE DEF c
<1>3. /\ claim' \in [Agents -> Walk] /\ claim'[a] = c
      /\ \A b \in Agents : b # a => claim'[b] = claim[b]
  BY <1>1, <1>2 DEF IInv, TypeOK
<1>4. TypeOK'
  BY <1>1, <1>2, <1>3 DEF IInv, TypeOK
<1>5. \A b \in Agents : Passed(b)' = Passed(b)
  BY <1>1, <1>2, <1>3 DEF Passed
<1>6. \A b \in Agents : Walking(b)' => Walking(b)
  BY <1>1, <1>3 DEF Walking
<1>7. SeenWaits'
  BY <1>1, <1>5, <1>6 DEF IInv, SeenWaits
<1>8. t \notin Passed(a)
  BY <1>1 DEF IInv, SeenWaits
<1>9. Untried'
  <2>1. ASSUME NEW b \in Agents, Walking(b)'
        PROVE  Passed(b)' \subseteq claim'[b].todo
    <3>1. Passed(b) \subseteq claim[b].todo
      BY <1>6, <2>1 DEF IInv, Untried
    <3> QED BY <1>2, <1>3, <1>5, <1>8, <3>1
  <2> QED BY <2>1 DEF Untried
<1> QED BY <1>1, <1>4, <1>7, <1>9 DEF IInv, Unborn

\* The ticket that Create stores.
LEMMA FreshTypes ==
  ASSUME TypeOK
  PROVE  /\ Blank(TRUE, now) \in Document /\ Blank(TRUE, now).here
         /\ Waits(Blank(TRUE, now)) /\ Blank(TRUE, now).created = now
BY DEF Blank, Document, Marks, Waits, TypeOK

\* Every action that writes a ticket, with the document it writes: an agent is
\* never taken off it, and it keeps its hour unless it is created now.
Writes(t, doc) ==
  /\ doc \in Document /\ doc.here /\ Write(t, doc)
  /\ doc.agent = Nobody => ticket[t].agent = Nobody
  /\ doc.created \in {ticket[t].created, now}

LEMMA ClaimWrites ==
  ASSUME IInv, NEW a \in Agents, NEW t \in Tickets, ClaimTop(a, t)
  PROVE  /\ Writes(t, [ticket[t] EXCEPT !.agent = a])
         /\ Walking(a) /\ Top(a, t) /\ Waits(ticket[t])
         /\ claim' \in [Agents -> Walk] /\ claim'[a] = Resting /\ now' = now
         /\ \A b \in Agents : b # a => claim'[b] = claim[b]
<1>1. ticket[t] \in Document /\ ticket[t].here
  BY DEF ClaimTop, TakeTop, Waits, IInv, TypeOK
<1>2. [ticket[t] EXCEPT !.agent = a] \in Document
  BY <1>1, Documents
<1>3. [ticket[t] EXCEPT !.agent = a].here
  BY <1>1 DEF Document
<1>4. /\ [ticket[t] EXCEPT !.agent = a].agent # Nobody
      /\ [ticket[t] EXCEPT !.agent = a].created = ticket[t].created
  BY <1>1, QueueAssumption DEF Document, QueueAssumption
<1> QED BY <1>2, <1>3, <1>4, RestingTypes
        DEF ClaimTop, TakeTop, Writes, Walking, IInv, TypeOK

LEMMA ClaimTopStep ==
  ASSUME IInv, NEW a \in Agents, NEW t \in Tickets, ClaimTop(a, t)
  PROVE  IInv'
BY ClaimWrites, WriteStep DEF Writes

LEMMA OtherWrites ==
  ASSUME IInv, NEW t \in Tickets,
         \/ Create(t) \/ Resolve(t) \/ Reopen(t)
         \/ \E p \in Levels : SetPriority(t, p)
         \/ \E p \in Suggestions : Suggest(t, p)
         \/ \E a \in Agents : Assign(t, a)
  PROVE  UNCHANGED <<now, claim>> /\ \E doc : Writes(t, doc)
<1>1. ticket[t] \in Document
  BY DEF IInv, TypeOK
<1>2. CASE Create(t)
  <2>1. UNCHANGED <<now, claim>> /\ Write(t, Blank(TRUE, now))
    BY <1>2, FreshTypes DEF Create, IInv
  <2>2. ticket[t].agent = Nobody
    BY <1>2 DEF Create, IInv, Unborn, NotHere, Blank
  <2> QED BY <2>1, <2>2, FreshTypes DEF Writes, IInv
<1>3. CASE Resolve(t)
  <2>1. [ticket[t] EXCEPT !.active = FALSE] \in Document
    BY <1>1, Documents
  <2>2. /\ [ticket[t] EXCEPT !.active = FALSE].here
        /\ [ticket[t] EXCEPT !.active = FALSE].agent = ticket[t].agent
        /\ [ticket[t] EXCEPT !.active = FALSE].created = ticket[t].created
    BY <1>1, <1>3 DEF Document, Resolve
  <2> QED BY <1>3, <2>1, <2>2 DEF Writes, Resolve
<1>4. CASE Reopen(t)
  <2>1. [ticket[t] EXCEPT !.active = TRUE] \in Document
    BY <1>1, Documents
  <2>2. /\ [ticket[t] EXCEPT !.active = TRUE].here
        /\ [ticket[t] EXCEPT !.active = TRUE].agent = ticket[t].agent
        /\ [ticket[t] EXCEPT !.active = TRUE].created = ticket[t].created
    BY <1>1, <1>4 DEF Document, Reopen
  <2> QED BY <1>4, <2>1, <2>2 DEF Writes, Reopen
<1>5. ASSUME NEW p \in Levels, SetPriority(t, p)
      PROVE  UNCHANGED <<now, claim>> /\ \E doc : Writes(t, doc)
  <2>1. [ticket[t] EXCEPT !.priority = p] \in Document
    BY <1>1, Documents DEF Marks
  <2>2. /\ [ticket[t] EXCEPT !.priority = p].here
        /\ [ticket[t] EXCEPT !.priority = p].agent = ticket[t].agent
        /\ [ticket[t] EXCEPT !.priority = p].created = ticket[t].created
    BY <1>1, <1>5 DEF Document, SetPriority
  <2> QED BY <1>5, <2>1, <2>2 DEF Writes, SetPriority
<1>6. ASSUME NEW p \in Suggestions, Suggest(t, p)
      PROVE  UNCHANGED <<now, claim>> /\ \E doc : Writes(t, doc)
  <2>1. [ticket[t] EXCEPT !.suggested = p] \in Document
    BY <1>1, Documents DEF Marks
  <2>2. /\ [ticket[t] EXCEPT !.suggested = p].here
        /\ [ticket[t] EXCEPT !.suggested = p].agent = ticket[t].agent
        /\ [ticket[t] EXCEPT !.suggested = p].created = ticket[t].created
    BY <1>1, <1>6 DEF Document, Suggest
  <2> QED BY <1>6, <2>1, <2>2 DEF Writes, Suggest
<1>7. ASSUME NEW a \in Agents, Assign(t, a)
      PROVE  UNCHANGED <<now, claim>> /\ \E doc : Writes(t, doc)
  <2>1. [ticket[t] EXCEPT !.agent = a] \in Document
    BY <1>1, Documents
  <2>2. /\ [ticket[t] EXCEPT !.agent = a].here
        /\ [ticket[t] EXCEPT !.agent = a].agent = a /\ a # Nobody
        /\ [ticket[t] EXCEPT !.agent = a].created = ticket[t].created
    BY <1>1, <1>7, QueueAssumption DEF Document, Assign, QueueAssumption
  <2> QED BY <1>7, <2>1, <2>2 DEF Writes, Assign
<1> QED BY <1>2, <1>3, <1>4, <1>5, <1>6, <1>7

LEMMA OtherWritesStep ==
  ASSUME IInv, NEW t \in Tickets, UNCHANGED <<now, claim>>, NEW doc, Writes(t, doc)
  PROVE  IInv'
<1>1. claim' \in [Agents -> Walk]
  BY DEF IInv, TypeOK
<1> QED BY <1>1, WriteStep DEF Writes

LEMMA TickStep ==
  ASSUME IInv, NEW h \in Hours, Tick(h)
  PROVE  IInv'
BY DEF Tick, IInv, TypeOK, SeenWaits, Untried, Unborn, Passed, Walking

\* The actions of Next by what they do to tickets and walks.
LEMMA Cases ==
  ASSUME IInv, Next
  PROVE  \/ \E a \in Agents : RankQueue(a) \/ ClaimNothing(a)
         \/ \E a \in Agents, t \in Tickets : ClaimTop(a, t) \/ SkipTop(a, t)
         \/ \E t \in Tickets : \E doc : UNCHANGED <<now, claim>> /\ Writes(t, doc)
         \/ \E h \in Hours : Tick(h)
BY OtherWrites DEF Next

LEMMA NextIInv == ASSUME IInv, [Next]_vars PROVE IInv'
<1>1. CASE UNCHANGED vars
  BY <1>1 DEF vars, IInv, TypeOK, SeenWaits, Untried, Unborn, Passed, Walking
<1>2. CASE Next
  BY <1>2, Cases, RankQueueStep, RestStep, ClaimTopStep, SkipTopStep,
     OtherWritesStep, TickStep
<1> QED BY <1>1, <1>2

\* An agent gets a ticket only as the best of those it has not tried.
LEMMA GetsTop ==
  ASSUME IInv, [Next]_vars, NEW a \in Agents, NEW t \in Tickets, Gets(a, t)
  PROVE  ClaimTop(a, t)
<1>1. /\ claim[a].pc = "walk" /\ claim'[a].pc = "idle"
      /\ ticket[t].agent = Nobody /\ ticket'[t].agent = a /\ a # Nobody
  BY QueueAssumption DEF Gets, QueueAssumption
<1>2. ASSUME NEW b \in Agents, RankQueue(b) \/ ClaimNothing(b) PROVE FALSE
  BY <1>1, <1>2 DEF RankQueue, ClaimNothing
<1>3. ASSUME NEW b \in Agents, NEW u \in Tickets, SkipTop(b, u) PROVE FALSE
  BY <1>1, <1>3 DEF SkipTop, DropTop
<1>4. ASSUME NEW b \in Agents, NEW u \in Tickets, ClaimTop(b, u)
      PROVE  ClaimTop(a, t)
  <2>1. b = a
    BY <1>1, <1>4, ClaimWrites
  <2>2. u = t
    BY <1>1, <1>4 DEF ClaimTop, TakeTop, Write, IInv, TypeOK
  <2> QED BY <1>4, <2>1, <2>2
<1>5. claim' # claim
  BY <1>1
<1> QED BY <1>2, <1>3, <1>4, <1>5, Cases DEF Tick, vars

----------------------------------------------------------------------------
(* Theorems *)

\* Tickets, walks and history keep their types in every behaviour.
THEOREM TypeCorrect == Spec => []TypeOK
<1>1. IInv => TypeOK
  BY DEF IInv
<1> QED BY <1>1, InitIInv, NextIInv, PTL DEF Spec

\* A walk that runs out has seen every ticket of its ranking leave the queue.
THEOREM EmptyHandedForAReason == Spec => []NothingMeansGone
<1>1. IInv => NothingMeansGone
  BY DEF IInv, NothingMeansGone, Untried, Walking
<1> QED BY <1>1, InitIInv, NextIInv, PTL DEF Spec

\* Whatever races the walk loses, the ticket it hands out scored best of all
\* that were in its ranking and stayed in the queue.
THEOREM BestIsFirst == Spec => BestFirst
<1> DEFINE Best == \A a \in Agents, t \in Tickets : Gets(a, t) =>
                     \A u \in Passed(a) : ScoreThen(a, u) <= ScoreThen(a, t)
<1>1. ASSUME IInv, [Next]_vars PROVE Best
  <2>1. ASSUME NEW a \in Agents, NEW t \in Tickets, Gets(a, t), NEW u \in Passed(a)
        PROVE  ScoreThen(a, u) <= ScoreThen(a, t)
    <3>1. Top(a, t) /\ Walking(a)
      BY <1>1, <2>1, GetsTop, ClaimWrites
    <3>2. u \in claim[a].todo
      BY <1>1, <2>1, <3>1 DEF IInv, Untried
    <3> QED BY <3>1, <3>2 DEF Top
  <2> QED BY <2>1
<1>2. IInv /\ [Next]_vars => [Best]_vars
  BY <1>1
<1> HIDE DEF Best
<1>3. Spec => [][Best]_vars
  BY <1>2, InitIInv, NextIInv, PTL DEF Spec
<1> QED BY <1>3 DEF BestFirst, Best

\* A ticket past its deadline yields only to one past its own that is at most
\* 45 hours younger.
THEOREM NoTicketStarves == Spec => BreachedFirst
<1> DEFINE Fair == \A a \in Agents, t \in Tickets : Gets(a, t) =>
              \A u \in Passed(a) :
                Yields(claim[a].ranked[u], claim[a].ranked[t], claim[a].at)
<1>1. ASSUME IInv, [Next]_vars PROVE Fair
  <2>1. ASSUME NEW a \in Agents, NEW t \in Tickets, Gets(a, t), NEW u \in Passed(a)
        PROVE  Yields(claim[a].ranked[u], claim[a].ranked[t], claim[a].at)
    <3>1. Top(a, t) /\ Walking(a)
      BY <1>1, <2>1, GetsTop, ClaimWrites
    <3>2. u \in claim[a].todo
      BY <1>1, <2>1, <3>1 DEF IInv, Untried
    <3>3. ScoreThen(a, u) <= ScoreThen(a, t) /\ t \in claim[a].todo
      BY <3>1, <3>2 DEF Top
    <3>4. /\ claim[a].ranked[u] \in Document /\ claim[a].ranked[t] \in Document
          /\ claim[a].at \in Nat
      BY <1>1, <3>2, <3>3, WalkTypes DEF IInv
    <3> QED BY <3>3, <3>4, BreachOutranks DEF ScoreThen
  <2> QED BY <2>1
<1>2. IInv /\ [Next]_vars => [Fair]_vars
  BY <1>1
<1> HIDE DEF Fair
<1>3. Spec => [][Fair]_vars
  BY <1>2, InitIInv, NextIInv, PTL DEF Spec
<1> QED BY <1>3 DEF BreachedFirst, Fair

----------------------------------------------------------------------------
(* The pool of tickets *)

Holders == [t \in Tickets |-> ticket[t].agent]
Asking == { a \in Agents : claim[a].pc = "walk" }

\* A written ticket is in the queue when the document waits.
LEMMA WriteEffect ==
  ASSUME IInv, NEW t \in Tickets, NEW doc, Writes(t, doc)
  PROVE  /\ Holders' = [Holders EXCEPT ![t] = doc.agent]
         /\ Waits(doc) => Queue' = Queue \cup {t}
         /\ ~Waits(doc) => Queue' = Queue \ {t}
<1>1. /\ ticket' \in [Tickets -> Document] /\ ticket'[t] = doc
      /\ \A u \in Tickets : u # t => ticket'[u] = ticket[u]
  BY DEF Writes, Write, IInv, TypeOK
<1> QED BY <1>1 DEF Holders, Queue

LEMMA PoolInit == ASSUME Init PROVE Pool!Init
BY RestingTypes DEF Init, Pool!Init, Queue, Waits, NotHere, Blank

LEMMA PoolStep == ASSUME IInv, [Next]_vars PROVE [Pool!Next]_(Pool!vars)
<1>1. CASE UNCHANGED vars
  BY <1>1 DEF vars, Pool!vars, Queue
<1>2. ASSUME NEW a \in Agents, RankQueue(a) PROVE [Pool!Next]_(Pool!vars)
  <2>1. /\ claim'[a].pc = "walk" /\ claim[a].pc = "idle"
        /\ \A b \in Agents : b # a => claim'[b] = claim[b]
        /\ ticket' = ticket
    BY <1>2 DEF RankQueue, IInv, TypeOK
  <2>2. Asking' = Asking \cup {a} /\ a \notin Asking
    BY <2>1 DEF Asking
  <2>3. Queue' = Queue /\ Holders' = Holders
    BY <2>1 DEF Queue, Holders
  <2>4. Pool!Ask(a)
    BY <2>2, <2>3 DEF Pool!Ask, Asking, Holders
  <2> QED BY <2>4 DEF Pool!Next
<1>3. ASSUME NEW a \in Agents, ClaimNothing(a) PROVE [Pool!Next]_(Pool!vars)
  <2>1. /\ claim'[a].pc = "idle" /\ claim[a].pc = "walk"
        /\ \A b \in Agents : b # a => claim'[b] = claim[b]
        /\ ticket' = ticket
    BY <1>3, RestingTypes DEF ClaimNothing, IInv, TypeOK
  <2>2. Asking' = Asking \ {a} /\ a \in Asking
    BY <2>1 DEF Asking
  <2>3. Queue' = Queue /\ Holders' = Holders
    BY <2>1 DEF Queue, Holders
  <2>4. Pool!GoWithout(a)
    BY <2>2, <2>3 DEF Pool!GoWithout, Asking, Holders
  <2> QED BY <2>4 DEF Pool!Next
<1>4. ASSUME NEW a \in Agents, NEW t \in Tickets, ClaimTop(a, t)
      PROVE  [Pool!Next]_(Pool!vars)
  <2> DEFINE doc == [ticket[t] EXCEPT !.agent = a]
  <2>1. /\ Writes(t, doc) /\ Waits(ticket[t]) /\ Walking(a)
        /\ claim'[a] = Resting /\ \A b \in Agents : b # a => claim'[b] = claim[b]
    BY <1>4, ClaimWrites
  <2>2. doc.agent = a /\ ~Waits(doc)
    BY <2>1, QueueAssumption DEF Waits, QueueAssumption, IInv, TypeOK, Document
  <2> HIDE DEF doc
  <2>3. Asking' = Asking \ {a} /\ a \in Asking
    BY <2>1, RestingTypes DEF Asking, Walking
  <2>4. t \in Queue
    BY <2>1 DEF Queue
  <2>5. Queue' = Queue \ {t} /\ Holders' = [Holders EXCEPT ![t] = a]
    BY <2>1, <2>2, WriteEffect
  <2>6. Pool!Take(a, t)
    BY <2>3, <2>4, <2>5 DEF Pool!Take, Asking, Holders
  <2> QED BY <2>6 DEF Pool!Next
<1>5. ASSUME NEW a \in Agents, NEW t \in Tickets, SkipTop(a, t)
      PROVE  [Pool!Next]_(Pool!vars)
  <2>1. ticket' = ticket /\ \A b \in Agents : claim'[b].pc = claim[b].pc
    BY <1>5 DEF SkipTop, DropTop, IInv, TypeOK, Walk
  <2> QED BY <2>1 DEF Pool!vars, Queue
<1>6. ASSUME NEW t \in Tickets, NEW doc, UNCHANGED <<now, claim>>, Writes(t, doc)
      PROVE  [Pool!Next]_(Pool!vars)
  <2>1. Asking' = Asking
    BY <1>6 DEF Asking
  <2>2. Holders' = [Holders EXCEPT ![t] = doc.agent]
    BY <1>6, WriteEffect
  <2>3. CASE doc.agent \in Agents
    <3>1. Queue' = Queue \ {t}
      BY <1>6, <2>3, WriteEffect, QueueAssumption DEF Waits, QueueAssumption
    <3>2. Pool!Hand(doc.agent, t)
      BY <2>1, <2>2, <3>1 DEF Pool!Hand, Asking, Holders
    <3> QED BY <2>3, <3>2 DEF Pool!Next
  <2>4. CASE doc.agent = Nobody
    <3>1. Holders[t] = Nobody /\ Holders' = Holders
      BY <1>6, <2>2, <2>4 DEF Writes, Holders
    <3>2. CASE Waits(doc)
      <4>1. Queue' = Queue \cup {t}
        BY <1>6, <3>2, WriteEffect
      <4>2. Pool!Join(t)
        BY <2>1, <3>1, <4>1 DEF Pool!Join, Asking, Holders
      <4> QED BY <4>2 DEF Pool!Next
    <3>3. CASE ~Waits(doc)
      <4>1. Queue' = Queue \ {t}
        BY <1>6, <3>3, WriteEffect
      <4>2. Pool!Leave(t)
        BY <2>1, <3>1, <4>1 DEF Pool!Leave, Asking, Holders
      <4> QED BY <4>2 DEF Pool!Next
    <3> QED BY <3>2, <3>3
  <2> QED BY <1>6, <2>3, <2>4 DEF Writes, Document
<1>7. ASSUME NEW h \in Hours, Tick(h) PROVE [Pool!Next]_(Pool!vars)
  BY <1>7 DEF Tick, Pool!vars, Queue
<1> QED BY <1>1, <1>2, <1>3, <1>4, <1>5, <1>6, <1>7, Cases

\* claim_next implements the pool: one call, one answer, a ticket that waits.
THEOREM ImplementsPool == Spec => PoolSpec
<1>1. Spec => []IInv
  BY InitIInv, NextIInv, PTL DEF Spec
<1> QED BY <1>1, PoolInit, PoolStep, PTL DEF Spec, PoolSpec, Pool!Spec

----------------------------------------------------------------------------
(* The walk ends *)

\* What a step does to the walk of agent a: nothing; it begins, with the whole
\* queue before it; it strikes one candidate that does not wait; it ends, with
\* a candidate or with none left.
Begins(a) == ~Walking(a) /\ Walking(a)' /\ claim'[a].todo = Queue
Strikes(a) ==
  Walking(a) /\ \E t \in claim[a].todo :
                  /\ ~Waits(ticket[t])
                  /\ claim'[a] = [claim[a] EXCEPT !.todo = @ \ {t}]
Ends(a) ==
  /\ Walking(a) /\ claim'[a] = Resting
  /\ claim[a].todo = {} \/ \E t \in claim[a].todo : Gets(a, t)
WalkAdvances(a) == claim'[a] = claim[a] \/ Begins(a) \/ Strikes(a) \/ Ends(a)

LEMMA NextWalks ==
  ASSUME IInv, [Next]_vars, NEW a \in Agents
  PROVE  WalkAdvances(a)
<1>0. claim \in [Agents -> Walk]
  BY DEF IInv, TypeOK
<1>1. ASSUME NEW b \in Agents, RankQueue(b) PROVE WalkAdvances(a)
  <2>1. CASE b = a
    <3> DEFINE c == [pc |-> "walk", at |-> now,
                     ranked |-> [t \in Queue |-> ticket[t]], todo |-> Queue]
    <3>1. claim'[a] = c /\ claim[a].pc = "idle"
      BY <1>0, <1>1, <2>1 DEF RankQueue
    <3>2. c.pc = "walk" /\ c.todo = Queue
      OBVIOUS
    <3> HIDE DEF c
    <3> QED BY <3>1, <3>2 DEF WalkAdvances, Begins, Walking
  <2>2. CASE b # a
    BY <1>0, <1>1, <2>2 DEF RankQueue, WalkAdvances
  <2> QED BY <2>1, <2>2
<1>2. ASSUME NEW b \in Agents, ClaimNothing(b) PROVE WalkAdvances(a)
  <2>1. CASE b = a
    BY <1>0, <1>2, <2>1 DEF ClaimNothing, WalkAdvances, Ends, Walking
  <2>2. CASE b # a
    BY <1>0, <1>2, <2>2 DEF ClaimNothing, WalkAdvances
  <2> QED BY <2>1, <2>2
<1>3. ASSUME NEW b \in Agents, NEW t \in Tickets, ClaimTop(b, t) PROVE WalkAdvances(a)
  <2>1. /\ Walking(b) /\ Top(b, t) /\ Waits(ticket[t]) /\ claim'[b] = Resting
        /\ \A d \in Agents : d # b => claim'[d] = claim[d]
    BY <1>3, ClaimWrites
  <2>2. CASE b = a
    <3>1. ticket'[t].agent = a
      BY <1>3, <2>2 DEF ClaimTop, TakeTop, Write, IInv, TypeOK, Document
    <3>2. Gets(a, t)
      BY <2>1, <2>2, <3>1, RestingTypes DEF Gets, Walking, Waits
    <3> QED BY <2>1, <2>2, <3>2 DEF WalkAdvances, Ends, Top
  <2>3. CASE b # a
    BY <2>1, <2>3 DEF WalkAdvances
  <2> QED BY <2>2, <2>3
<1>4. ASSUME NEW b \in Agents, NEW t \in Tickets, SkipTop(b, t) PROVE WalkAdvances(a)
  <2>1. /\ claim[b].pc = "walk" /\ t \in claim[b].todo /\ ~Waits(ticket[t])
        /\ claim' = [claim EXCEPT ![b].todo = @ \ {t}]
    BY <1>4 DEF SkipTop, DropTop, Top
  <2>2. CASE b = a
    <3>1. claim'[a] = [claim[a] EXCEPT !.todo = @ \ {t}]
      BY <1>0, <2>1, <2>2
    <3> QED BY <2>1, <2>2, <3>1 DEF WalkAdvances, Strikes, Walking
  <2>3. CASE b # a
    BY <1>0, <2>1, <2>3 DEF WalkAdvances
  <2> QED BY <2>2, <2>3
<1>5. CASE claim' = claim
  BY <1>5 DEF WalkAdvances
<1> QED BY <1>1, <1>2, <1>3, <1>4, <1>5, Cases DEF vars, Tick

\* A call of claim_next ends after as many tries as it read tickets, or sooner:
\* nothing anyone does meanwhile adds a candidate to the walk or makes it start
\* over.
WalksAdvance == [][\A a \in Agents : WalkAdvances(a)]_vars

THEOREM WalksTerminate == Spec => WalksAdvance
<1> DEFINE All == \A a \in Agents : WalkAdvances(a)
<1>1. IInv /\ [Next]_vars => [All]_vars
  BY NextWalks
<1> HIDE DEF All
<1>2. Spec => [][All]_vars
  BY <1>1, InitIInv, NextIInv, PTL DEF Spec
<1> QED BY <1>2 DEF WalksAdvance, All

----------------------------------------------------------------------------
(* Age and urgency *)

\* No ticket, and no document that a walk read, is younger than its hour.
Born == \A t \in Tickets : ticket[t].created <= now
ReadBorn(a) ==
  /\ claim[a].at <= now
  /\ \A t \in DOMAIN claim[a].ranked : claim[a].ranked[t].created <= claim[a].at
Past == Born /\ \A a \in Agents : ReadBorn(a)

LEMMA RestingBorn == Resting.at = 0 /\ DOMAIN Resting.ranked = {}
BY DEF Resting

LEMMA InitPast == ASSUME Init PROVE Past
BY RestingBorn DEF Init, Past, Born, ReadBorn, NotHere, Blank

LEMMA NextPast == ASSUME IInv, Past, [Next]_vars PROVE Past'
<1>0. /\ claim \in [Agents -> Walk] /\ ticket \in [Tickets -> Document] /\ now \in Nat
      /\ \A t \in Tickets : ticket[t].created \in Nat
      /\ \A a \in Agents : claim[a].at \in Nat
  BY QueueAssumption DEF IInv, TypeOK, Document, Walk, QueueAssumption
<1>1. ASSUME NEW b \in Agents, RankQueue(b) PROVE Past'
  <2> DEFINE c == [pc |-> "walk", at |-> now,
                   ranked |-> [t \in Queue |-> ticket[t]], todo |-> Queue]
  <2>1. /\ claim'[b] = c /\ ticket' = ticket /\ now' = now
        /\ \A a \in Agents : a # b => claim'[a] = claim[a]
    BY <1>0, <1>1 DEF RankQueue
  <2>2. c.at = now /\ DOMAIN c.ranked = Queue /\ \A t \in Queue : c.ranked[t] = ticket[t]
    OBVIOUS
  <2> HIDE DEF c
  <2>3. ReadBorn(b)'
    BY <1>0, <2>1, <2>2 DEF ReadBorn, Past, Born, Queue
  <2>4. \A a \in Agents : a # b => ReadBorn(a)'
    BY <2>1 DEF ReadBorn, Past
  <2> QED BY <2>1, <2>3, <2>4 DEF Past, Born
<1>2. ASSUME now' = now, \A a \in Agents : claim'[a] = claim[a] \/ claim'[a] = Resting
      PROVE  \A a \in Agents : ReadBorn(a)'
  BY <1>0, <1>2, RestingBorn DEF Past, ReadBorn
<1>3. ASSUME NEW t \in Tickets, NEW doc, Writes(t, doc), now' = now PROVE Born'
  <2>1. ticket' = [ticket EXCEPT ![t] = doc] /\ doc.created <= now
    BY <1>0, <1>3 DEF Writes, Write, Past, Born
  <2> QED BY <1>0, <1>3, <2>1 DEF Past, Born
<1>4. ASSUME NEW b \in Agents, ClaimNothing(b) PROVE Past'
  <2>1. /\ ticket' = ticket /\ now' = now
        /\ \A a \in Agents : claim'[a] = claim[a] \/ claim'[a] = Resting
    BY <1>0, <1>4 DEF ClaimNothing
  <2> QED BY <1>2, <2>1 DEF Past, Born
<1>5. ASSUME NEW b \in Agents, NEW t \in Tickets, ClaimTop(b, t) PROVE Past'
  <2>1. /\ Writes(t, [ticket[t] EXCEPT !.agent = b]) /\ now' = now
        /\ \A a \in Agents : claim'[a] = claim[a] \/ claim'[a] = Resting
    BY <1>5, ClaimWrites
  <2> QED BY <1>2, <1>3, <2>1 DEF Past
<1>6. ASSUME NEW b \in Agents, NEW t \in Tickets, SkipTop(b, t) PROVE Past'
  <2>1. /\ ticket' = ticket /\ now' = now
        /\ claim' = [claim EXCEPT ![b].todo = @ \ {t}]
    BY <1>6 DEF SkipTop, DropTop
  <2>2. \A a \in Agents : claim'[a].at = claim[a].at /\ claim'[a].ranked = claim[a].ranked
    BY <1>0, <2>1 DEF Walk
  <2> QED BY <2>1, <2>2 DEF Past, Born, ReadBorn
<1>7. ASSUME NEW t \in Tickets, NEW doc, UNCHANGED <<now, claim>>, Writes(t, doc)
      PROVE  Past'
  BY <1>2, <1>3, <1>7 DEF Past
<1>8. ASSUME NEW h \in Hours, Tick(h) PROVE Past'
  <2>1. h \in Nat /\ now < h /\ now' = h /\ ticket' = ticket /\ claim' = claim
    BY <1>8, QueueAssumption DEF Tick, QueueAssumption
  <2> QED BY <1>0, <2>1 DEF Past, Born, ReadBorn
<1>9. CASE UNCHANGED vars
  BY <1>9 DEF vars, Past, Born, ReadBorn
<1> QED BY <1>1, <1>4, <1>5, <1>6, <1>7, <1>8, <1>9, Cases

LEMMA PastInductive == Spec => [](IInv /\ Past)
<1>1. IInv /\ Past /\ [Next]_vars => Past'
  BY NextPast
<1> QED BY <1>1, InitIInv, NextIInv, InitPast, PTL DEF Spec

Urgency(doc) == PriorityWeight[EffectivePriority(doc)]

\* u is at least as urgent as t and as old, and is not its equal in both.
Precedes(u, t) ==
  /\ Urgency(t) <= Urgency(u) /\ u.created <= t.created
  /\ Urgency(t) < Urgency(u) \/ u.created < t.created

\* The more urgent level has the shorter deadline.
LEMMA LevelOrder ==
  ASSUME NEW l \in {"URGENT", "HIGH", "MEDIUM", "LOW"},
         NEW m \in {"URGENT", "HIGH", "MEDIUM", "LOW"},
         PriorityWeight[m] <= PriorityWeight[l]
  PROVE  SlaHours[l] <= SlaHours[m]
BY DEF PriorityWeight, SlaHours

\* Priority, age and breach never pull apart: what is more urgent and older
\* scores more, at every hour.
LEMMA ScoreOrder ==
  ASSUME NEW u \in Document, NEW t \in Document, NEW time \in Nat,
         t.created <= time, Precedes(u, t)
  PROVE  Score(t, time) < Score(u, time)
<1> DEFINE w == Urgency(u)
           x == Urgency(t)
           r == SlaHours[EffectivePriority(u)]
           s == SlaHours[EffectivePriority(t)]
<1>1. w \in 10 .. 100 /\ x \in 10 .. 100 /\ r \in 4 .. 168 /\ s \in 4 .. 168
  BY EffectiveLevel, Terms DEF Urgency
<1>2. u.created \in Nat /\ t.created \in Nat
  BY QueueAssumption DEF Document, QueueAssumption
<1>3. x <= w /\ u.created <= t.created /\ (x < w \/ u.created < t.created)
  BY DEF Precedes
<1>4. r <= s
  BY <1>3, EffectiveLevel, LevelOrder DEF Urgency
<1>5. Age(u, time) = time - u.created /\ Age(t, time) = time - t.created
  BY <1>2, <1>3 DEF Age
<1>6. /\ Breached(u, time) <=> time > u.created + r
      /\ Breached(t, time) <=> time > t.created + s
  BY DEF Breached
<1>7. /\ Score(u, time) = w + 2 * (time - u.created)
                          + (IF Breached(u, time) THEN 500 ELSE 0)
      /\ Score(t, time) = x + 2 * (time - t.created)
                          + (IF Breached(t, time) THEN 500 ELSE 0)
  BY <1>5 DEF Score, Urgency, AgingPointsPerHour, SlaBreachBonus
<1> HIDE DEF w, x, r, s
<1>8. CASE Breached(t, time)
  <2>1. time > u.created + r
    BY <1>1, <1>2, <1>3, <1>4, <1>6, <1>8
  <2> QED BY <1>1, <1>2, <1>3, <1>6, <1>7, <1>8, <2>1
<1>9. CASE ~Breached(t, time) /\ Breached(u, time)
  BY <1>1, <1>2, <1>3, <1>7, <1>9
<1>10. CASE ~Breached(t, time) /\ ~Breached(u, time)
  BY <1>1, <1>2, <1>3, <1>7, <1>10
<1> QED BY <1>8, <1>9, <1>10

\* No ticket scores more than 600 and two points per hour.
LEMMA ScoreBound ==
  ASSUME NEW doc \in Document, NEW time \in Nat
  PROVE  Score(doc, time) \in Nat /\ Score(doc, time) <= 600 + 2 * time
<1>1. PICK w, s : ScoredBy(doc, time, w, s)
  BY ScoreParts
<1>2. /\ w \in 10 .. 100 /\ doc.created \in Nat /\ Age(doc, time) \in Nat
      /\ Score(doc, time) = w + 2 * Age(doc, time)
                            + (IF Breached(doc, time) THEN 500 ELSE 0)
  BY <1>1 DEF ScoredBy
<1>3. Age(doc, time) <= time
  BY <1>2 DEF Age
<1>4. CASE Breached(doc, time)
  BY <1>2, <1>3, <1>4
<1>5. CASE ~Breached(doc, time)
  BY <1>2, <1>3, <1>5
<1> QED BY <1>4, <1>5

\* A ticket that is not past its deadline is at most a week old.
LEMMA WeekAtMost ==
  ASSUME NEW u \in Document, NEW t \in Document, NEW time \in Nat,
         t.created <= time, Yields(u, t, time)
  PROVE  t.created <= u.created + 168
<1>1. u.created \in Nat /\ t.created \in Nat
  BY QueueAssumption DEF Document, QueueAssumption
<1>2. PICK s \in 4 .. 168 : Breached(u, time) <=> time > u.created + s
  BY EffectiveLevel, Terms DEF Breached
<1> QED BY <1>1, <1>2 DEF Yields

\* A walk hands out no ticket while one it read, that is as urgent and older or
\* as old and more urgent, stays in the queue: within a priority the service is
\* first come first served.  And whatever the priorities, a ticket is passed
\* over only for tickets created at most a week after it.
Overtakes ==
  [][\A a \in Agents, t \in Tickets : Gets(a, t) =>
       \A u \in Passed(a) :
         /\ ~Precedes(claim[a].ranked[u], claim[a].ranked[t])
         /\ claim[a].ranked[t].created <= claim[a].ranked[u].created + 168]_vars

THEOREM OvertakingIsBounded == Spec => Overtakes
<1> DEFINE Orderly == \A a \in Agents, t \in Tickets : Gets(a, t) =>
             \A u \in Passed(a) :
               /\ ~Precedes(claim[a].ranked[u], claim[a].ranked[t])
               /\ claim[a].ranked[t].created <= claim[a].ranked[u].created + 168
<1>1. ASSUME IInv, Past, [Next]_vars PROVE Orderly
  <2>1. ASSUME NEW a \in Agents, NEW t \in Tickets, Gets(a, t), NEW u \in Passed(a)
        PROVE  /\ ~Precedes(claim[a].ranked[u], claim[a].ranked[t])
               /\ claim[a].ranked[t].created <= claim[a].ranked[u].created + 168
    <3>1. Top(a, t) /\ Walking(a)
      BY <1>1, <2>1, GetsTop, ClaimWrites
    <3>2. u \in claim[a].todo /\ t \in claim[a].todo
      BY <1>1, <2>1, <3>1 DEF IInv, Untried, Top
    <3>3. PICK du, dt, time :
            /\ du = claim[a].ranked[u] /\ dt = claim[a].ranked[t] /\ time = claim[a].at
      OBVIOUS
    <3>4. du \in Document /\ dt \in Document /\ time \in Nat
      BY <1>1, <3>2, <3>3, WalkTypes DEF IInv
    <3>5. dt.created <= time
      BY <1>1, <3>2, <3>3, WalkTypes DEF Past, ReadBorn, IInv
    <3>6. Score(du, time) <= Score(dt, time)
      BY <3>1, <3>2, <3>3 DEF Top, ScoreThen
    <3>7. ~Precedes(du, dt)
      <4>1. Score(du, time) \in Nat /\ Score(dt, time) \in Nat
        BY <3>4, ScoreBound
      <4> QED BY <3>4, <3>5, <3>6, <4>1, ScoreOrder
    <3>8. dt.created <= du.created + 168
      BY <3>4, <3>5, <3>6, BreachOutranks, WeekAtMost
    <3> QED BY <3>3, <3>7, <3>8
  <2> QED BY <2>1
<1>2. IInv /\ Past /\ [Next]_vars => [Orderly]_vars
  BY <1>1
<1> HIDE DEF Orderly
<1>3. Spec => [][Orderly]_vars
  BY <1>2, PastInductive, PTL DEF Spec
<1> QED BY <1>3 DEF Overtakes, Orderly
=============================================================================
