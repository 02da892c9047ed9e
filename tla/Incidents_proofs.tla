-------------------------- MODULE Incidents_proofs --------------------------
(***************************************************************************)
(* Proofs about Incidents: its type invariant, that an overview accounts   *)
(* for the tickets it read, that these are those of its time, and that the *)
(* most urgent incident comes first.                                       *)
(***************************************************************************)
EXTENDS Incidents, FiniteSetTheorems, TLAPS

----------------------------------------------------------------------------
(* The inductive invariant *)

\* The most urgent first, and of equally urgent ones the larger.
Ordered(docs, list) ==
  LET AsUrgent(G, H) == \A t \in H : \E u \in G : Rank(docs[u]) >= Rank(docs[t])
  IN \A i, j \in DOMAIN list : i < j =>
       /\ AsUrgent(list[i].reports, list[j].reports)
       /\ AsUrgent(list[j].reports, list[i].reports) =>
            Cardinality(list[i].reports) >= Cardinality(list[j].reports)

\* While the cursor moves, what was active all the time is read or still to be
\* passed, and active now; what is active now was so at some moment.
CursorOK(m) ==
  /\ DOMAIN view[m].docs \subseteq view[m].ever
  /\ view[m].always \subseteq view[m].todo \cup DOMAIN view[m].docs
  /\ \A t \in view[m].always : IsActive(ticket[t])
  /\ ActiveTickets \subseteq view[m].ever

ReadOK(m) ==
  /\ view[m].always \subseteq DOMAIN view[m].docs
  /\ DOMAIN view[m].docs \subseteq view[m].ever

DoneOK(m) ==
  /\ Accounts(view[m].docs, view[m].overview)
  /\ Ordered(view[m].docs, view[m].overview.incidents)

ViewOK(m) ==
  /\ At(m, "read") => CursorOK(m)
  /\ view[m].pc \in {"ask", "done"} => ReadOK(m)
  /\ At(m, "done") => DoneOK(m)

IInv == TypeOK /\ \A m \in Managers : ViewOK(m)

LEMMA Constants ==
  /\ IsFiniteSet(Tickets) /\ Initial \in [Tickets -> Document] /\ MinIncident \in Nat \ {0}
  /\ Levels \subseteq Priorities /\ Suggestions \subseteq Priorities
BY IncidentsAssumption DEF IncidentsAssumption

----------------------------------------------------------------------------
(* Groups, and the overview made of them *)

\* Every item is in exactly one group.
Covers(groups, S) ==
  /\ UNION groups = S
  /\ \A G, H \in groups : G = H \/ G \cap H = {}

LEMMA PartitionsCover ==
  ASSUME NEW S, NEW groups \in Partitions(S)
  PROVE  Covers(groups, S)
<1>1. PICK f \in [S -> S] : groups = { { y \in S : f[y] = f[x] } : x \in S }
  BY DEF Partitions
<1>2. UNION groups = S
  <2>1. ASSUME NEW x \in S PROVE x \in UNION groups
    <3>1. { y \in S : f[y] = f[x] } \in groups
      BY <1>1
    <3> QED BY <3>1
  <2>2. \A G \in groups : G \subseteq S
    BY <1>1
  <2> QED BY <2>1, <2>2
<1>3. ASSUME NEW G \in groups, NEW H \in groups, NEW z \in G \cap H PROVE G = H
  <2>1. PICK x \in S : G = { y \in S : f[y] = f[x] }
    BY <1>1
  <2>2. PICK w \in S : H = { y \in S : f[y] = f[w] }
    BY <1>1
  <2>3. f[x] = f[w]
    BY <1>3, <2>1, <2>2
  <2> QED BY <2>1, <2>2, <2>3
<1> QED BY <1>2, <1>3 DEF Covers

LEMMA GroupingsCover ==
  ASSUME NEW S, NEW groups \in LexicalGroups(S)
  PROVE  Covers(groups, S)
BY DEF LexicalGroups, Groupings, Covers

\* There is a most urgent report among several.
LEMMA SomeSeverity ==
  ASSUME NEW docs, NEW G, G # {}
  PROVE  \E p \in { EffectivePriority(docs[t]) : t \in G } :
           \A t \in G : Rank(docs[t]) <= SevRank[p]
<1>1. \A t \in G : EffectivePriority(docs[t]) \in Priorities
  BY DEF EffectivePriority, Priorities
<1>2. /\ SevRank["URGENT"] = 3 /\ SevRank["HIGH"] = 2 /\ SevRank["MEDIUM"] = 1
      /\ SevRank["LOW"] = 0
  BY DEF SevRank
<1>3. \A t \in G : Rank(docs[t]) = SevRank[EffectivePriority(docs[t])]
  BY DEF Rank
<1> DEFINE found == { EffectivePriority(docs[t]) : t \in G }
<1>4. found # {} /\ found \subseteq Priorities
  BY <1>1
<1>5. \A t \in G : EffectivePriority(docs[t]) \in found
  OBVIOUS
<1>6. \E p \in found : \A q \in found : SevRank[q] <= SevRank[p]
  <2> HIDE DEF found
  <2>1. CASE "URGENT" \in found
    BY <1>2, <1>4, <2>1 DEF Priorities
  <2>2. CASE "URGENT" \notin found /\ "HIGH" \in found
    BY <1>2, <1>4, <2>2 DEF Priorities
  <2>3. CASE "URGENT" \notin found /\ "HIGH" \notin found /\ "MEDIUM" \in found
    BY <1>2, <1>4, <2>3 DEF Priorities
  <2>4. CASE found = {"LOW"}
    BY <1>2, <2>4
  <2> QED BY <1>4, <2>1, <2>2, <2>3, <2>4 DEF Priorities
<1> QED BY <1>3, <1>5, <1>6

LEMMA SeverityIsWorst ==
  ASSUME NEW docs, NEW G, G # {}
  PROVE  /\ \E u \in G : Severity(G, docs) = EffectivePriority(docs[u])
         /\ \A t \in G : Rank(docs[t]) <= SevRank[Severity(G, docs)]
         /\ SevRank[Severity(G, docs)] \in Nat
<1>1. /\ Severity(G, docs) \in { EffectivePriority(docs[t]) : t \in G }
      /\ \A t \in G : Rank(docs[t]) <= SevRank[Severity(G, docs)]
  BY SomeSeverity DEF Severity
<1>2. Severity(G, docs) \in Priorities
  BY <1>1 DEF EffectivePriority, Priorities
<1> QED BY <1>1, <1>2 DEF SevRank, Priorities

\* A list of all incidents names each at one place.
LEMMA ListedOnce ==
  ASSUME NEW S, IsFiniteSet(S), NEW list \in Sorted(S)
  PROVE  /\ \A i \in DOMAIN list : list[i] \in S
         /\ \A x \in S : \E i \in DOMAIN list : list[i] = x
         /\ \A i, j \in DOMAIN list : list[i] = list[j] => i = j
         /\ \A i, j \in DOMAIN list : i < j => Precedes(list[i], list[j])
<1>1. PICK n \in Nat : n = Cardinality(S)
  BY FS_CardinalityType
<1>2. /\ list \in [1 .. n -> S] /\ \A x \in S : \E i \in 1 .. n : list[i] = x
      /\ \A i, j \in 1 .. n : i < j => Precedes(list[i], list[j])
  BY <1>1 DEF Sorted
<1>3. list \in Surjection(1 .. n, S)
  BY <1>2 DEF Surjection
<1>4. IsFiniteSet(1 .. n) /\ Cardinality(1 .. n) = n
  BY FS_Interval
<1>5. list \in Injection(1 .. n, S)
  BY <1>1, <1>3, <1>4, FS_SurjSameCardinalityImpliesInj
<1>6. \A i, j \in 1 .. n : list[i] = list[j] => i = j
  BY <1>5 DEF Injection, IsInjective
<1> QED BY <1>2, <1>6

\* What the list of an overview is made of.
LEMMA ListOfGroups ==
  ASSUME NEW docs, IsFiniteSet(DOMAIN docs), NEW groups, Covers(groups, DOMAIN docs),
         NEW list \in Sorted({ Incident(G, docs) : G \in Incidents(groups) })
  PROVE  /\ \A i \in DOMAIN list : /\ list[i].reports \in Incidents(groups)
                                   /\ list[i] = Incident(list[i].reports, docs)
         /\ \A G \in Incidents(groups) : \E i \in DOMAIN list : list[i].reports = G
         /\ \A i, j \in DOMAIN list : list[i].reports = list[j].reports => i = j
         /\ \A i, j \in DOMAIN list : i < j => Precedes(list[i], list[j])
<1> DEFINE S == { Incident(G, docs) : G \in Incidents(groups) }
<1>1. \A G : Incident(G, docs).reports = G
  BY DEF Incident
<1>2. IsFiniteSet(S)
  <2> DEFINE f == [G \in Incidents(groups) |-> Incident(G, docs)]
  <2>1. f \in Surjection(Incidents(groups), S)
    BY DEF Surjection
  <2>2. Incidents(groups) \in SUBSET (SUBSET DOMAIN docs)
    BY DEF Incidents, Covers
  <2>3. IsFiniteSet(Incidents(groups))
    BY <2>2, FS_SUBSET, FS_Subset
  <2> QED BY <2>1, <2>3, FS_Surjection
<1>3. /\ \A i \in DOMAIN list : list[i] \in S
      /\ \A x \in S : \E i \in DOMAIN list : list[i] = x
      /\ \A i, j \in DOMAIN list : list[i] = list[j] => i = j
      /\ \A i, j \in DOMAIN list : i < j => Precedes(list[i], list[j])
  BY <1>2, ListedOnce
<1>4. \A i \in DOMAIN list : /\ list[i].reports \in Incidents(groups)
                             /\ list[i] = Incident(list[i].reports, docs)
  BY <1>1, <1>3
<1>5. \A G \in Incidents(groups) : \E i \in DOMAIN list : list[i].reports = G
  BY <1>1, <1>3
<1>6. \A i, j \in DOMAIN list : list[i].reports = list[j].reports => i = j
  <2> TAKE i, j \in DOMAIN list
  <2> HAVE list[i].reports = list[j].reports
  <2>1. list[i] = list[j]
    BY <1>4
  <2> QED BY <1>3, <2>1
<1> QED BY <1>3, <1>4, <1>5, <1>6

LEMMA AccountsHold ==
  ASSUME NEW docs, IsFiniteSet(DOMAIN docs), NEW groups, Covers(groups, DOMAIN docs),
         NEW list \in Sorted({ Incident(G, docs) : G \in Incidents(groups) }), NEW source
  PROVE  Accounts(docs, Overview(docs, list, UNION Incidents(groups), source))
<1>1. /\ \A i \in DOMAIN list : list[i].reports \in Incidents(groups)
      /\ \A G \in Incidents(groups) : \E i \in DOMAIN list : list[i].reports = G
      /\ \A i, j \in DOMAIN list : list[i].reports = list[j].reports => i = j
  BY ListOfGroups
<1> DEFINE clustered == UNION Incidents(groups)
           o == Overview(docs, list, clustered, source)
<1>2. /\ o.incidents = list /\ o.noise = DOMAIN docs \ clustered
      /\ o.total = Cardinality(DOMAIN docs) /\ o.clustered = Cardinality(clustered)
      /\ o.noiseCount = Cardinality(DOMAIN docs \ clustered)
  BY DEF Overview
<1>3. clustered \subseteq DOMAIN docs
  BY DEF Incidents, Covers
<1> HIDE DEF o
<1>4. (UNION { o.incidents[i].reports : i \in DOMAIN o.incidents }) \cup o.noise = DOMAIN docs
  <2>1. UNION { list[i].reports : i \in DOMAIN list } = clustered
    <3>1. ASSUME NEW x \in clustered
          PROVE  x \in UNION { list[i].reports : i \in DOMAIN list }
      BY <1>1
    <3>2. \A i \in DOMAIN list : list[i].reports \subseteq clustered
      BY <1>1
    <3> QED BY <3>1, <3>2
  <2>2. UNION { o.incidents[i].reports : i \in DOMAIN o.incidents } = clustered
    BY <1>2, <2>1
  <2> QED BY <1>2, <1>3, <2>2
<1>5. ASSUME NEW i \in DOMAIN list
      PROVE  /\ list[i].reports \cap o.noise = {}
             /\ Cardinality(list[i].reports) >= MinIncident
             /\ \A j \in DOMAIN list \ {i} : list[i].reports \cap list[j].reports = {}
  <2>1. list[i].reports \subseteq clustered
    BY <1>1
  <2>2. list[i].reports \cap o.noise = {}
    BY <1>2, <2>1
  <2>3. Cardinality(list[i].reports) >= MinIncident
    BY <1>1 DEF Incidents
  <2>4. ASSUME NEW j \in DOMAIN list \ {i}
        PROVE  list[i].reports \cap list[j].reports = {}
    <3>1. list[i].reports \in groups /\ list[j].reports \in groups
      BY <1>1 DEF Incidents
    <3>2. list[i].reports # list[j].reports
      BY <1>1
    <3> QED BY <3>1, <3>2 DEF Covers
  <2> QED BY <2>2, <2>3, <2>4
<1>6. o.total = o.clustered + o.noiseCount
  <2> HIDE DEF clustered
  <2>1. /\ Cardinality(DOMAIN docs \ clustered)
             = Cardinality(DOMAIN docs) - Cardinality(DOMAIN docs \cap clustered)
        /\ Cardinality(DOMAIN docs) \in Nat
    BY FS_Difference, FS_CardinalityType
  <2>2. DOMAIN docs \cap clustered = clustered
    BY <1>3
  <2>3. Cardinality(clustered) \in Nat
    BY <1>3, FS_Subset, FS_CardinalityType
  <2>4. PICK all \in Nat, n \in Nat :
          all = Cardinality(DOMAIN docs) /\ n = Cardinality(clustered)
    BY <2>1, <2>3
  <2>5. Cardinality(DOMAIN docs \ clustered) = all - n
    BY <2>1, <2>2, <2>4
  <2> QED BY <1>2, <2>4, <2>5
<1>7. Accounts(docs, o)
  BY <1>2, <1>4, <1>5, <1>6 DEF Accounts
<1> QED BY <1>7 DEF o

LEMMA OrderHolds ==
  ASSUME NEW docs, IsFiniteSet(DOMAIN docs), NEW groups, Covers(groups, DOMAIN docs),
         NEW list \in Sorted({ Incident(G, docs) : G \in Incidents(groups) })
  PROVE  Ordered(docs, list)
<1>1. /\ \A i \in DOMAIN list : /\ list[i].reports \in Incidents(groups)
                                /\ list[i] = Incident(list[i].reports, docs)
      /\ \A i, j \in DOMAIN list : i < j => Precedes(list[i], list[j])
  BY ListOfGroups
<1>2. ASSUME NEW i \in DOMAIN list
      PROVE  /\ list[i].severity = Severity(list[i].reports, docs)
             /\ list[i].count = Cardinality(list[i].reports)
             /\ \E u \in list[i].reports : Rank(docs[u]) = SevRank[list[i].severity]
             /\ \A t \in list[i].reports : Rank(docs[t]) <= SevRank[list[i].severity]
             /\ SevRank[list[i].severity] \in Nat
  <2>1. /\ list[i].severity = Severity(list[i].reports, docs)
        /\ list[i].count = Cardinality(list[i].reports)
    BY <1>1 DEF Incident
  <2>2. list[i].reports # {}
    <3>1. Cardinality(list[i].reports) >= MinIncident
      BY <1>1 DEF Incidents
    <3> QED BY <3>1, Constants, FS_EmptySet
  <2> QED BY <2>1, <2>2, SeverityIsWorst DEF Rank
<1>3. \A d : Rank(d) \in Nat
  BY DEF Rank, SevRank, EffectivePriority, Priorities
<1>4. ASSUME NEW i \in DOMAIN list, NEW j \in DOMAIN list, i < j
      PROVE  /\ \A t \in list[j].reports :
                  \E u \in list[i].reports : Rank(docs[u]) >= Rank(docs[t])
             /\ (\A t \in list[i].reports :
                   \E u \in list[j].reports : Rank(docs[u]) >= Rank(docs[t])) =>
                  Cardinality(list[i].reports) >= Cardinality(list[j].reports)
  <2>1. \/ SevRank[list[i].severity] > SevRank[list[j].severity]
        \/ /\ SevRank[list[i].severity] = SevRank[list[j].severity]
           /\ list[i].count >= list[j].count
    BY <1>1, <1>4 DEF Precedes
  <2>2. \A t \in list[j].reports :
          \E u \in list[i].reports : Rank(docs[u]) >= Rank(docs[t])
    <3> TAKE t \in list[j].reports
    <3>1. PICK u \in list[i].reports : Rank(docs[u]) = SevRank[list[i].severity]
      BY <1>2
    <3>2. Rank(docs[t]) <= SevRank[list[j].severity]
      BY <1>2
    <3>3. Rank(docs[u]) >= Rank(docs[t])
      BY <1>2, <1>3, <2>1, <3>1, <3>2
    <3> QED BY <3>3
  <2>3. ASSUME \A t \in list[i].reports :
                 \E u \in list[j].reports : Rank(docs[u]) >= Rank(docs[t])
        PROVE  Cardinality(list[i].reports) >= Cardinality(list[j].reports)
    <3>1. PICK t \in list[i].reports : Rank(docs[t]) = SevRank[list[i].severity]
      BY <1>2
    <3>2. PICK u \in list[j].reports : Rank(docs[u]) >= Rank(docs[t])
      BY <2>3
    <3>3. Rank(docs[u]) <= SevRank[list[j].severity]
      BY <1>2
    <3>4. SevRank[list[j].severity] >= SevRank[list[i].severity]
      BY <1>2, <1>3, <3>1, <3>2, <3>3
    <3> QED BY <1>2, <2>1, <3>4
  <2> QED BY <2>2, <2>3
<1> QED BY <1>4 DEF Ordered

----------------------------------------------------------------------------
(* Steps of an overview *)

\* One overview goes on: the others stay what they were.
LEMMA ViewStep ==
  ASSUME IInv, NEW m \in Managers, NEW r, view' = [view EXCEPT ![m] = r],
         UNCHANGED ticket
  PROVE  /\ DOMAIN view' = Managers /\ view'[m] = r
         /\ \A n \in Managers : n # m => view'[n] = view[n]
         /\ \A n \in Managers : n # m => ViewOK(n)'
         /\ ActiveTickets' = ActiveTickets
<1>1. /\ DOMAIN view' = Managers /\ view'[m] = r
      /\ \A n \in Managers : n # m => view'[n] = view[n]
  BY DEF IInv, TypeOK
<1>2. ActiveTickets' = ActiveTickets
  BY DEF ActiveTickets
<1>3. ASSUME NEW n \in Managers, n # m PROVE ViewOK(n)'
  <2>1. ViewOK(n) /\ view'[n] = view[n] /\ ticket' = ticket
    BY <1>1, <1>3 DEF IInv
  <2> QED BY <1>2, <2>1 DEF ViewOK, CursorOK, ReadOK, DoneOK, At
<1> QED BY <1>1, <1>2, <1>3

\* The types of an overview.
Typed(r) ==
  /\ r.pc \in Reading \cup {"idle"}
  /\ r.pc \in Reading =>
       /\ DOMAIN r.docs \subseteq Tickets
       /\ \A t \in DOMAIN r.docs : r.docs[t] \in Document
       /\ r.ever \cup r.always \subseteq Tickets
  /\ r.pc = "read" => r.todo \subseteq Tickets

LEMMA TypeIs ==
  TypeOK <=> /\ ticket \in [Tickets -> Document] /\ changes \in Nat
             /\ DOMAIN view = Managers
             /\ \A m \in Managers : Typed(view[m])
BY DEF TypeOK, Typed, At

LEMMA OneView ==
  ASSUME IInv, NEW m \in Managers, NEW r, view' = [view EXCEPT ![m] = r],
         UNCHANGED <<ticket, changes>>, Typed(r), ViewOK(m)'
  PROVE  IInv'
<1>1. /\ DOMAIN view' = Managers /\ view'[m] = r
      /\ \A n \in Managers : n # m => view'[n] = view[n]
      /\ \A n \in Managers : n # m => ViewOK(n)'
  BY ViewStep
<1>2. \A n \in Managers : Typed(view[n])
  BY TypeIs DEF IInv
<1>3. ticket' \in [Tickets -> Document] /\ changes' \in Nat
  BY DEF IInv, TypeOK
<1>4. \A n \in Managers : Typed(view'[n])
  BY <1>1, <1>2
<1>5. TypeOK'
  BY <1>1, <1>3, <1>4 DEF TypeOK, Typed, At
<1> QED BY <1>1, <1>5 DEF IInv

\* The fields of a cursor.
LEMMA CursorIs ==
  ASSUME NEW todo, NEW docs, NEW ever, NEW always
  PROVE  LET c == Cursor(todo, docs, ever, always)
         IN c.pc = "read" /\ c.todo = todo /\ c.docs = docs /\ c.ever = ever
              /\ c.always = always
BY DEF Cursor

LEMMA AskStep ==
  ASSUME IInv, NEW m \in Managers, Ask(m)
  PROVE  IInv'
<1> DEFINE r == Cursor(Tickets, NoDocs, ActiveTickets, ActiveTickets)
<1>1. view' = [view EXCEPT ![m] = r] /\ UNCHANGED <<ticket, changes>>
  BY DEF Ask, AskWith
<1>2. /\ r.pc = "read" /\ r.todo = Tickets /\ r.docs = NoDocs
      /\ r.ever = ActiveTickets /\ r.always = ActiveTickets
  BY CursorIs
<1>3. DOMAIN NoDocs = {} /\ ActiveTickets \subseteq Tickets
  BY DEF NoDocs, ActiveTickets
<1> HIDE DEF r
<1>4. view'[m] = r /\ ActiveTickets' = ActiveTickets
  BY <1>1, ViewStep
<1>5. Typed(r)
  BY <1>2, <1>3 DEF Typed, Reading
<1>6. CursorOK(m)'
  <2>1. \A t \in ActiveTickets : IsActive(ticket[t])
    BY DEF ActiveTickets
  <2> QED BY <1>1, <1>2, <1>3, <1>4, <2>1 DEF CursorOK
<1>7. ViewOK(m)'
  BY <1>2, <1>4, <1>6 DEF ViewOK, At
<1> QED BY <1>1, <1>5, <1>7, OneView

LEMMA VisitStep ==
  ASSUME IInv, NEW m \in Managers, NEW t \in Tickets, Visit(m, t)
  PROVE  IInv'
<1> DEFINE docs == Found(view[m].docs, t)
           r == Cursor(view[m].todo \ {t}, docs, view[m].ever, view[m].always)
<1>1. /\ At(m, "read") /\ t \in view[m].todo /\ UNCHANGED <<ticket, changes>>
      /\ view' = [view EXCEPT ![m] = r]
  BY DEF Visit, IInv, TypeOK
<1>2. /\ r.pc = "read" /\ r.todo = view[m].todo \ {t} /\ r.docs = docs
      /\ r.ever = view[m].ever /\ r.always = view[m].always
  BY CursorIs
<1>3. CursorOK(m) /\ Typed(view[m])
  BY <1>1, TypeIs DEF IInv, ViewOK
<1>4. ticket[t] \in Document
  BY DEF IInv, TypeOK
<1>5. /\ DOMAIN docs = IF IsActive(ticket[t]) THEN DOMAIN view[m].docs \cup {t}
                       ELSE DOMAIN view[m].docs
      /\ \A u \in DOMAIN docs : docs[u] \in {ticket[t], view[m].docs[u]}
      /\ \A u \in DOMAIN docs : u \notin DOMAIN view[m].docs => docs[u] = ticket[t]
  BY DEF Found
<1> HIDE DEF docs, r
<1>6. view'[m] = r /\ ActiveTickets' = ActiveTickets
  BY <1>1, ViewStep
<1>7. Typed(r)
  <2>1. /\ DOMAIN view[m].docs \subseteq Tickets /\ view[m].todo \subseteq Tickets
        /\ \A u \in DOMAIN view[m].docs : view[m].docs[u] \in Document
        /\ view[m].ever \cup view[m].always \subseteq Tickets
    BY <1>1, <1>3 DEF Typed, At, Reading
  <2>2. \A u \in DOMAIN docs : docs[u] \in Document
    BY <1>4, <1>5, <2>1
  <2>3. DOMAIN docs \subseteq Tickets
    BY <1>5, <2>1
  <2> QED BY <1>2, <2>1, <2>2, <2>3 DEF Typed, Reading
<1>8. CursorOK(m)'
  <2>1. IsActive(ticket[t]) => t \in view[m].ever
    BY <1>3 DEF CursorOK, ActiveTickets
  <2>2. DOMAIN docs \subseteq view[m].ever
    BY <1>3, <1>5, <2>1 DEF CursorOK
  <2>3. view[m].always \subseteq (view[m].todo \ {t}) \cup DOMAIN docs
    BY <1>3, <1>5 DEF CursorOK
  <2> QED BY <1>1, <1>2, <1>3, <1>6, <2>2, <2>3 DEF CursorOK
<1>9. ViewOK(m)'
  BY <1>2, <1>6, <1>8 DEF ViewOK, At
<1> QED BY <1>1, <1>7, <1>9, OneView

\* The cursor is through: what was active all the time is read.
LEMMA ReadThrough ==
  ASSUME IInv, NEW m \in Managers,
         \/ At(m, "read") /\ view[m].todo = {}
         \/ At(m, "ask")
  PROVE  /\ ReadOK(m) /\ DOMAIN view[m].docs \subseteq Tickets
         /\ \A t \in DOMAIN view[m].docs : view[m].docs[t] \in Document
         /\ view[m].ever \cup view[m].always \subseteq Tickets
         /\ IsFiniteSet(DOMAIN view[m].docs)
<1>1. Typed(view[m]) /\ ViewOK(m)
  BY TypeIs DEF IInv
<1>2. /\ DOMAIN view[m].docs \subseteq Tickets
      /\ \A t \in DOMAIN view[m].docs : view[m].docs[t] \in Document
      /\ view[m].ever \cup view[m].always \subseteq Tickets
  BY <1>1 DEF Typed, At, Reading
<1>3. ReadOK(m)
  BY <1>1 DEF ViewOK, CursorOK, ReadOK, At
<1>4. IsFiniteSet(DOMAIN view[m].docs)
  BY <1>2, Constants, FS_Subset
<1> QED BY <1>2, <1>3, <1>4

LEMMA SendStep ==
  ASSUME IInv, NEW m \in Managers, Send(m)
  PROVE  IInv'
<1> DEFINE r == [pc |-> "ask", docs |-> view[m].docs, ever |-> view[m].ever,
                 always |-> view[m].always]
<1>1. /\ At(m, "read") /\ view[m].todo = {} /\ UNCHANGED <<ticket, changes>>
      /\ view' = [view EXCEPT ![m] = r]
  BY DEF Send, IInv, TypeOK
<1>2. /\ r.pc = "ask" /\ r.docs = view[m].docs /\ r.ever = view[m].ever
      /\ r.always = view[m].always
  OBVIOUS
<1> HIDE DEF r
<1>3. /\ ReadOK(m) /\ DOMAIN view[m].docs \subseteq Tickets
      /\ \A t \in DOMAIN view[m].docs : view[m].docs[t] \in Document
      /\ view[m].ever \cup view[m].always \subseteq Tickets
  BY <1>1, ReadThrough
<1>4. view'[m] = r
  BY <1>1, ViewStep
<1>5. Typed(r)
  BY <1>2, <1>3 DEF Typed, Reading
<1>6. ViewOK(m)'
  BY <1>2, <1>3, <1>4 DEF ViewOK, ReadOK, At
<1> QED BY <1>1, <1>5, <1>6, OneView

\* Whoever grouped the tickets, the roll-up of groups that cover them is right.
LEMMA RollUpStep ==
  ASSUME IInv, NEW m \in Managers,
         \/ At(m, "read") /\ view[m].todo = {}
         \/ At(m, "ask"),
         NEW groups, Covers(groups, DOMAIN view[m].docs), NEW source,
         RollUp(m, groups, source), UNCHANGED <<ticket, changes>>
  PROVE  IInv'
<1> DEFINE docs == view[m].docs
<1>1. PICK list \in Sorted({ Incident(G, docs) : G \in Incidents(groups) }) :
        view' = [view EXCEPT ![m] =
          [pc |-> "done", docs |-> @.docs, ever |-> @.ever, always |-> @.always,
           overview |-> Overview(@.docs, list, UNION Incidents(groups), source)]]
  BY DEF RollUp, Answer
<1> DEFINE o == Overview(docs, list, UNION Incidents(groups), source)
           r == [pc |-> "done", docs |-> docs, ever |-> view[m].ever,
                 always |-> view[m].always, overview |-> o]
<1>2. view' = [view EXCEPT ![m] = r]
  BY <1>1 DEF IInv, TypeOK
<1>3. /\ ReadOK(m) /\ DOMAIN docs \subseteq Tickets
      /\ \A t \in DOMAIN docs : docs[t] \in Document
      /\ view[m].ever \cup view[m].always \subseteq Tickets
      /\ IsFiniteSet(DOMAIN docs)
  BY ReadThrough
<1>4. Accounts(docs, o)
  BY <1>3, AccountsHold
<1>5. Ordered(docs, list) /\ o.incidents = list
  <2>1. Ordered(docs, list)
    BY <1>3, OrderHolds
  <2> QED BY <2>1 DEF Overview
<1>6. /\ r.pc = "done" /\ r.docs = view[m].docs /\ r.ever = view[m].ever
      /\ r.always = view[m].always /\ r.overview = o
  OBVIOUS
<1> HIDE DEF r, o
<1>7. view'[m] = r
  BY <1>2, ViewStep
<1>8. Typed(r)
  BY <1>3, <1>6 DEF Typed, Reading
<1>9. ViewOK(m)'
  BY <1>3, <1>4, <1>5, <1>6, <1>7 DEF ViewOK, ReadOK, DoneOK, At
<1> QED BY <1>2, <1>8, <1>9, OneView

LEMMA AnsweredStep ==
  ASSUME IInv, NEW m \in Managers, NothingToGroup(m) \/ Grouped(m) \/ Unanswered(m)
  PROVE  IInv'
<1>1. CASE NothingToGroup(m)
  <2>1. Covers({}, DOMAIN view[m].docs)
    BY <1>1 DEF NothingToGroup, Covers
  <2> QED BY <1>1, <2>1, RollUpStep DEF NothingToGroup
<1>2. CASE Grouped(m)
  <2>1. PICK groups \in Partitions(DOMAIN view[m].docs), s \in {"local", "fallback"} :
          RollUp(m, groups, s)
    BY <1>2 DEF Grouped
  <2>2. Covers(groups, DOMAIN view[m].docs)
    BY PartitionsCover
  <2> QED BY <1>2, <2>1, <2>2, RollUpStep DEF Grouped
<1>3. CASE Unanswered(m)
  <2>1. PICK groups \in LexicalGroups(DOMAIN view[m].docs) : RollUp(m, groups, "fallback")
    BY <1>3 DEF Unanswered
  <2>2. Covers(groups, DOMAIN view[m].docs)
    BY GroupingsCover
  <2> QED BY <1>3, <2>1, <2>2, RollUpStep DEF Unanswered
<1> QED BY <1>1, <1>2, <1>3

----------------------------------------------------------------------------
(* Steps of the desk *)

LEMMA WriteStep ==
  ASSUME IInv, NEW t \in Tickets, NEW doc \in Document, Write(t, doc)
  PROVE  IInv'
<1>1. /\ ticket' \in [Tickets -> Document] /\ ticket'[t] = doc
      /\ \A u \in Tickets : u # t => ticket'[u] = ticket[u]
      /\ changes' \in Nat
  BY Constants DEF Write, IInv, TypeOK
<1>2. DOMAIN view' = Managers /\ \A m \in Managers : view'[m] = Observed(view[m], t, doc)
  BY DEF Write
<1>3. ASSUME NEW m \in Managers PROVE Typed(view'[m]) /\ ViewOK(m)'
  <2>0. Typed(view[m]) /\ ViewOK(m)
    BY TypeIs DEF IInv
  <2>1. CASE ~At(m, "read")
    <3>1. view'[m] = view[m]
      BY <1>2, <2>1 DEF Observed, At
    <3> QED BY <2>0, <2>1, <3>1 DEF ViewOK, ReadOK, DoneOK, At
  <2>2. CASE At(m, "read")
    <3> DEFINE ever == IF IsActive(doc) THEN view[m].ever \cup {t} ELSE view[m].ever
               always == IF doc.status = ticket[t].status THEN view[m].always
                         ELSE view[m].always \ {t}
               r == Cursor(view[m].todo, view[m].docs, ever, always)
    <3>1. view'[m] = r
      BY <1>2, <2>2 DEF Observed, At
    <3>2. /\ r.pc = "read" /\ r.todo = view[m].todo /\ r.docs = view[m].docs
          /\ r.ever = ever /\ r.always = always
      BY CursorIs
    <3> HIDE DEF r
    <3>3. Typed(r)
      <4>1. /\ DOMAIN view[m].docs \subseteq Tickets /\ view[m].todo \subseteq Tickets
            /\ \A u \in DOMAIN view[m].docs : view[m].docs[u] \in Document
            /\ view[m].ever \cup view[m].always \subseteq Tickets
        BY <2>0, <2>2 DEF Typed, At, Reading
      <4>2. ever \subseteq Tickets /\ always \subseteq Tickets
        BY <4>1
      <4> HIDE DEF ever, always
      <4> QED BY <3>2, <4>1, <4>2 DEF Typed, Reading
    <3>4. CursorOK(m)'
      <4>1. CursorOK(m)
        BY <2>0, <2>2 DEF ViewOK
      <4>2. DOMAIN view[m].docs \subseteq ever
        BY <4>1 DEF CursorOK
      <4>3. always \subseteq view[m].todo \cup DOMAIN view[m].docs
        BY <4>1 DEF CursorOK
      <4>4. ASSUME NEW u \in always PROVE IsActive(ticket'[u])
        <5>1. u \in view[m].always /\ u \in Tickets
          BY <2>0, <2>2 DEF Typed, At, Reading
        <5>2. IsActive(ticket[u])
          BY <4>1, <5>1 DEF CursorOK
        <5>3. u = t => doc.status = ticket[t].status
          OBVIOUS
        <5> QED BY <1>1, <5>1, <5>2, <5>3 DEF IsActive
      <4>5. ASSUME NEW u \in ActiveTickets' PROVE u \in ever
        <5>1. u \in Tickets /\ IsActive(ticket'[u])
          BY DEF ActiveTickets
        <5>2. CASE u = t
          BY <1>1, <5>1, <5>2
        <5>3. CASE u # t
          BY <1>1, <4>1, <5>1, <5>3 DEF CursorOK, ActiveTickets
        <5> QED BY <5>2, <5>3
      <4> HIDE DEF ever, always
      <4> QED BY <3>1, <3>2, <4>2, <4>3, <4>4, <4>5 DEF CursorOK
    <3>5. ViewOK(m)'
      BY <3>1, <3>2, <3>4 DEF ViewOK, At
    <3> QED BY <3>1, <3>3, <3>5
  <2> QED BY <2>1, <2>2
<1>4. TypeOK'
  BY <1>1, <1>2, <1>3 DEF TypeOK, Typed, At
<1> QED BY <1>3, <1>4 DEF IInv

LEMMA DeskStep ==
  ASSUME IInv, Desk
  PROVE  IInv'
<1>0. \A t \in Tickets : ticket[t] \in Document
  BY DEF IInv, TypeOK
<1>1. ASSUME NEW t \in Tickets, Create(t) PROVE IInv'
  <2>1. [ticket[t] EXCEPT !.status = "OPEN"] \in Document
    BY <1>0 DEF Document, Statuses, Active
  <2> QED BY <1>1, <2>1, WriteStep DEF Create
<1>2. ASSUME NEW t \in Tickets, NEW s \in Statuses, SetStatus(t, s) PROVE IInv'
  <2>1. [ticket[t] EXCEPT !.status = s] \in Document
    BY <1>0 DEF Document
  <2> QED BY <1>2, <2>1, WriteStep DEF SetStatus
<1>3. ASSUME NEW t \in Tickets, NEW p \in Levels, SetPriority(t, p) PROVE IInv'
  <2>1. [ticket[t] EXCEPT !.priority = p] \in Document
    BY <1>0 DEF Document, Marks
  <2> QED BY <1>3, <2>1, WriteStep DEF SetPriority
<1>4. ASSUME NEW t \in Tickets, NEW p \in Suggestions, Suggest(t, p) PROVE IInv'
  <2>1. [ticket[t] EXCEPT !.suggested = p] \in Document
    BY <1>0 DEF Document, Marks
  <2> QED BY <1>4, <2>1, WriteStep DEF Suggest
<1> QED BY <1>1, <1>2, <1>3, <1>4 DEF Desk

----------------------------------------------------------------------------
(* The invariant *)

LEMMA InitIInv == Init => IInv
<1> SUFFICES ASSUME Init PROVE IInv
  OBVIOUS
<1>1. DOMAIN view = Managers /\ \A m \in Managers : view[m].pc = "idle"
  BY DEF Init, Resting
<1>2. TypeOK
  BY <1>1, Constants DEF Init, TypeOK, At, Reading
<1> QED BY <1>1, <1>2 DEF IInv, ViewOK, At

LEMMA NextIInv == IInv /\ [Next]_vars => IInv'
<1>1. CASE UNCHANGED vars
  BY <1>1 DEF vars, IInv, TypeOK, ViewOK, CursorOK, ReadOK, DoneOK, At, ActiveTickets
<1>2. ASSUME IInv, NEW m \in Managers, Step(m) PROVE IInv'
  BY <1>2, VisitStep, SendStep, AnsweredStep DEF Step
<1> QED BY <1>1, <1>2, AskStep, DeskStep DEF Next

LEMMA Invariance == Spec => []IInv
BY InitIInv, NextIInv, PTL DEF Spec

----------------------------------------------------------------------------
(* What the invariant means *)

\* Every ticket and every overview keeps its type.
THEOREM TypeCorrect == Spec => []TypeOK
<1>1. IInv => TypeOK
  BY DEF IInv
<1> QED BY <1>1, Invariance, PTL

\* An overview accounts for every complaint it read, whoever grouped them.
THEOREM NothingLost == Spec => []OverviewAccounts
<1>1. IInv => OverviewAccounts
  BY DEF IInv, ViewOK, DoneOK, OverviewAccounts
<1> QED BY <1>1, Invariance, PTL

\* An overview is about the tickets of its own time.
THEOREM NothingStale == Spec => []OverviewCurrent
<1>1. IInv => OverviewCurrent
  BY DEF IInv, ViewOK, ReadOK, OverviewCurrent, At
<1> QED BY <1>1, Invariance, PTL

\* The most urgent incident comes first, and of equally urgent ones the larger.
THEOREM UrgentFirst == Spec => []MostUrgentFirst
<1>1. IInv => MostUrgentFirst
  BY DEF IInv, ViewOK, DoneOK, Ordered, MostUrgentFirst
<1> QED BY <1>1, Invariance, PTL
=============================================================================
