------------------------------ MODULE Incidents ------------------------------
(***************************************************************************)
(* The incident overview (services/incidents.py): it reads the active      *)
(* tickets, asks the ai-service to group them, or groups them by their     *)
(* words when it gets no answer, and rolls the groups up.  The desk goes   *)
(* on meanwhile: the cursor meets each ticket at another moment, and the   *)
(* answer of the ai-service comes seconds later.                           *)
(***************************************************************************)
EXTENDS Integers, FiniteSets, Priorities, Clustering

CONSTANTS Tickets, Managers,
          Initial,       \* the tickets collection at start
          Overlap,       \* {ticket, ticket} -> shared words (_jaccard), in %
          LexicalBar,    \* threshold of _lexical_groups, in %
          MinIncident,   \* _MIN_INCIDENT
          Levels,        \* bound: the priorities that are set
          Suggestions,   \* bound: those the AI suggests
          MaxChanges     \* bound

Active == {"OPEN", "IN_PROGRESS"}
Statuses == Active \cup {"RESOLVED"}
Marks == Levels \cup Suggestions \cup {"NONE"}
Document == [status : Statuses \cup {"NONE"}, priority : Marks, suggested : Marks]

Pairs == { {t, u} : t, u \in Tickets }

ASSUME IncidentsAssumption ==
  /\ IsFiniteSet(Tickets) /\ Initial \in [Tickets -> Document]
  /\ Overlap \in [Pairs -> Nat] /\ LexicalBar \in Nat
  /\ MinIncident \in Nat \ {0} /\ MaxChanges \in Nat
  /\ Levels \cup Suggestions \subseteq Priorities

VARIABLES ticket,   \* the tickets collection; status "NONE": not created
          view,     \* manager -> the overview in progress, or the last one
          changes

vars == <<ticket, view, changes>>

NoDocs == [t \in {} |-> Initial[t]]
Resting == [pc |-> "idle"]

\* ever: the tickets active at some moment since the question; always: those
\* active since, with the status they had.
Cursor(todo, docs, ever, always) ==
  [pc |-> "read", todo |-> todo, docs |-> docs, ever |-> ever,
   always |-> always]

IsActive(doc) == doc.status \in Active
ActiveTickets == { t \in Tickets : IsActive(ticket[t]) }

Init == /\ ticket = Initial
        /\ view = [m \in Managers |-> Resting]
        /\ changes = 0

At(m, step) == view[m].pc = step

----------------------------------------------------------------------------
(* The rolled-up overview *)

SevRank == [URGENT |-> 3, HIGH |-> 2, MEDIUM |-> 1, LOW |-> 0]
Rank(doc) == SevRank[EffectivePriority(doc)]

\* The priority of the most urgent report.
Severity_OfOne(G, docs) == EffectivePriority(docs[CHOOSE t \in G : TRUE])
Severity(G, docs) ==
  CHOOSE p \in { EffectivePriority(docs[t]) : t \in G } :
    \A t \in G : Rank(docs[t]) <= SevRank[p]

Incident(G, docs) ==
  [reports |-> G, severity |-> Severity(G, docs), count |-> Cardinality(G)]

\* The order of the list: by severity, then by number of reports.
Precedes(i, j) ==
  \/ SevRank[i.severity] > SevRank[j.severity]
  \/ SevRank[i.severity] = SevRank[j.severity] /\ i.count >= j.count

Sorted(S) ==
  { s \in [1 .. Cardinality(S) -> S] :
      /\ \A x \in S : \E i \in DOMAIN s : s[i] = x
      /\ \A i, j \in DOMAIN s : i < j => Precedes(s[i], s[j]) }

Incidents(groups) == { G \in groups : Cardinality(G) >= MinIncident }

Overview(docs, list, clustered, source) ==
  [source |-> source, incidents |-> list,
   total |-> Cardinality(DOMAIN docs), clustered |-> Cardinality(clustered),
   noise |-> DOMAIN docs \ clustered,
   noiseCount |-> Cardinality(DOMAIN docs \ clustered)]

\* What overview returns of its groups; clustered are the ids it marks so.
Answer(m, groups, clustered, source) ==
  \E list \in Sorted({ Incident(G, view[m].docs) : G \in Incidents(groups) }) :
    view' = [view EXCEPT ![m] =
      [pc |-> "done", docs |-> @.docs, ever |-> @.ever, always |-> @.always,
       overview |-> Overview(@.docs, list, clustered, source)]]

RollUp_MarksSmallGroups(m, groups, source) ==
  Answer(m, groups, UNION groups, source)
RollUp(m, groups, source) ==
  Answer(m, groups, UNION Incidents(groups), source)

----------------------------------------------------------------------------
(* overview *)

AskWith(m, docs) ==
  /\ At(m, "idle") \/ At(m, "done")
  /\ view' = [view EXCEPT ![m] =
       Cursor(Tickets, docs, ActiveTickets, ActiveTickets)]
  /\ UNCHANGED <<ticket, changes>>

Ask_Cached(m) == AskWith(m, IF At(m, "done") THEN view[m].docs ELSE NoDocs)
Ask(m) == AskWith(m, NoDocs)

\* The cursor passes a ticket.
Found(docs, t) ==
  IF ~IsActive(ticket[t]) THEN docs
  ELSE [u \in DOMAIN docs \cup {t} |-> IF u = t THEN ticket[t] ELSE docs[u]]

Visit(m, t) ==
  /\ At(m, "read") /\ t \in view[m].todo
  /\ view' = [view EXCEPT ![m] =
       Cursor(@.todo \ {t}, Found(@.docs, t), @.ever, @.always)]
  /\ UNCHANGED <<ticket, changes>>

Send(m) ==
  /\ At(m, "read") /\ view[m].todo = {} /\ DOMAIN view[m].docs # {}
  /\ view' = [view EXCEPT ![m] =
       [pc |-> "ask", docs |-> @.docs, ever |-> @.ever, always |-> @.always]]
  /\ UNCHANGED <<ticket, changes>>

LexicalGroups(S) == Groupings(S, Overlap, LexicalBar)

\* Nothing is active: nobody is asked.
NothingToGroup(m) ==
  /\ At(m, "read") /\ view[m].todo = {} /\ DOMAIN view[m].docs = {}
  /\ RollUp(m, {}, "fallback")
  /\ UNCHANGED <<ticket, changes>>

\* The ai-service answers: its models or its own fallback group the items, in
\* whatever way, each item once (Clustering).
Partitions(S) ==
  { { { y \in S : f[y] = f[x] } : x \in S } : f \in [S -> S] }

Grouped(m) ==
  /\ At(m, "ask")
  /\ \E groups \in Partitions(DOMAIN view[m].docs), s \in {"local", "fallback"} :
       RollUp(m, groups, s)
  /\ UNCHANGED <<ticket, changes>>

\* ai_client gets no answer in time, or an error: 503 when the scheduler is
\* full, 504 when the job took too long.
Unanswered_Gone(m) ==
  /\ At(m, "ask") /\ view' = [view EXCEPT ![m] = Resting]
  /\ UNCHANGED <<ticket, changes>>
Unanswered(m) ==
  /\ At(m, "ask")
  /\ \E groups \in LexicalGroups(DOMAIN view[m].docs) :
       RollUp(m, groups, "fallback")
  /\ UNCHANGED <<ticket, changes>>

----------------------------------------------------------------------------
(* What the desk does to the tickets meanwhile, with the history of it *)

Observed(r, t, doc) ==
  IF r.pc # "read" THEN r
  ELSE Cursor(r.todo, r.docs,
              IF IsActive(doc) THEN r.ever \cup {t} ELSE r.ever,
              IF doc.status = ticket[t].status THEN r.always
              ELSE r.always \ {t})

Write(t, doc) ==
  /\ changes < MaxChanges /\ changes' = changes + 1
  /\ ticket' = [ticket EXCEPT ![t] = doc]
  /\ view' = [m \in Managers |-> Observed(view[m], t, doc)]

Create(t) ==
  /\ ticket[t].status = "NONE"
  /\ Write(t, [ticket[t] EXCEPT !.status = "OPEN"])

SetStatus(t, s) ==
  /\ ticket[t].status \notin {"NONE", s}
  /\ Write(t, [ticket[t] EXCEPT !.status = s])

SetPriority(t, p) ==
  /\ ticket[t].status # "NONE"
  /\ Write(t, [ticket[t] EXCEPT !.priority = p])

Suggest(t, p) ==
  /\ ticket[t].status # "NONE" /\ ticket[t].suggested = "NONE"
  /\ Write(t, [ticket[t] EXCEPT !.suggested = p])

----------------------------------------------------------------------------

Desk ==
  \E t \in Tickets :
    \/ Create(t)
    \/ \E s \in Statuses : SetStatus(t, s)
    \/ \E p \in Levels : SetPriority(t, p)
    \/ \E p \in Suggestions : Suggest(t, p)

Step(m) ==
  \/ \E t \in Tickets : Visit(m, t)
  \/ Send(m) \/ NothingToGroup(m) \/ Grouped(m) \/ Unanswered(m)

Next == Desk \/ \E m \in Managers : Ask(m) \/ Step(m)

Spec == Init /\ [][Next]_vars

\* The event loop resumes an overview whose operation has ended, and the call
\* of the ai-service ends, if only by its timeout.
FairSpec == Spec /\ \A m \in Managers : WF_vars(Step(m))

----------------------------------------------------------------------------
(* Properties *)

\* The documents an overview read, and what it is about to do with them.
Reading == {"read", "ask", "done"}
TypeOK ==
  /\ ticket \in [Tickets -> Document] /\ changes \in Nat
  /\ DOMAIN view = Managers
  /\ \A m \in Managers :
       /\ view[m].pc \in Reading \cup {"idle"}
       /\ view[m].pc \in Reading =>
            /\ DOMAIN view[m].docs \subseteq Tickets
            /\ \A t \in DOMAIN view[m].docs : view[m].docs[t] \in Document
            /\ view[m].ever \cup view[m].always \subseteq Tickets
       /\ At(m, "read") => view[m].todo \subseteq Tickets

\* The overview accounts for every complaint it read: each is in exactly one
\* incident or counted as noise, the numbers add up, and no incident is
\* smaller than the minimum.
Accounts(docs, o) ==
  LET reports(i) == o.incidents[i].reports
      places == DOMAIN o.incidents
  IN /\ (UNION { reports(i) : i \in places }) \cup o.noise = DOMAIN docs
     /\ \A i \in places :
          /\ reports(i) \cap o.noise = {}
          /\ Cardinality(reports(i)) >= MinIncident
          /\ \A j \in places \ {i} : reports(i) \cap reports(j) = {}
     /\ o.total = o.clustered + o.noiseCount

OverviewAccounts ==
  \A m \in Managers : At(m, "done") => Accounts(view[m].docs, view[m].overview)

\* It is about the tickets of its own time: none that was not active since the
\* manager asked, and all that stayed what they were while it read.
OverviewCurrent ==
  \A m \in Managers : view[m].pc \in {"ask", "done"} =>
    /\ view[m].always \subseteq DOMAIN view[m].docs
    /\ DOMAIN view[m].docs \subseteq view[m].ever

\* No report is listed below an incident that has nothing as urgent, and of
\* two equally urgent incidents the larger comes first.
MostUrgentFirst ==
  \A m \in Managers : At(m, "done") =>
    LET docs == view[m].docs
        list == view[m].overview.incidents
        AsUrgent(G, H) == \A t \in H : \E u \in G : Rank(docs[u]) >= Rank(docs[t])
    IN \A i, j \in DOMAIN list : i < j =>
         /\ AsUrgent(list[i].reports, list[j].reports)
         /\ AsUrgent(list[j].reports, list[i].reports) =>
              Cardinality(list[i].reports) >= Cardinality(list[j].reports)

\* Whatever becomes of the ai-service, who asks for an overview gets one
\* (incidents.py, "so the overview is always available").
OverviewAnswered ==
  \A m \in Managers : At(m, "read") \/ At(m, "ask") ~> At(m, "done")
============================================================================
