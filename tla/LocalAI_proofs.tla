--------------------------- MODULE LocalAI_proofs ---------------------------
(***************************************************************************)
(* Theorems about the local models and the jobs that use them, for every   *)
(* number of jobs, tickets and articles, all similarities and any number   *)
(* of restarts.                                                            *)
(***************************************************************************)
EXTENDS LocalAI, TLAPS, FiniteSetTheorems, WellFoundedInduction

(* Part 1: prepare(), beside whatever jobs run. *)

AllWhole == \A m \in Models : dest[m] = "whole"

\* What each step of prepare has behind it.
Progress ==
  \/ prep = Fresh /\ loaded = {} /\ status \in {"disabled", "unloaded"}
  \/ /\ \E m \in Models : prep = At("file", m) \/ prep = At("fetch", m)
     /\ loaded = {} /\ status = "downloading"
  \/ /\ prep = At("load", "chat") /\ AllWhole
     /\ loaded = {} /\ status = "loading"
  \/ /\ prep = At("load", "embed") /\ AllWhole
     /\ loaded = {"chat"} /\ status = "loading"
  \/ /\ prep = At("publish", "both") /\ AllWhole
     /\ loaded = Models /\ status = "loading"
  \/ /\ prep = Over
     /\ \/ loaded = {} /\ status \in {"disabled", "error"}
        \/ AllWhole /\ loaded = {"chat"} /\ status = "error"
        \/ AllWhole /\ loaded = Models /\ status = "ready"

ModelsInv ==
  /\ ModelsTypeOK
  /\ dest \in [Models -> {"none", "whole"}]
  /\ Progress

USE DEF Models, At

LEMMA ModelsInvInit == ModelsInit => ModelsInv
BY ModelsAssumption
   DEF ModelsInit, ModelsInv, ModelsTypeOK, Progress, Fresh, Over, FirstStatus

LEMMA PrepareInv ==
  ASSUME ModelsInv, Prepare
  PROVE  ModelsInv'
<1> USE DEF ModelsInv, ModelsTypeOK, Progress, Fresh, Over, AllWhole
<1>1. CASE Disabled
  BY <1>1 DEF Disabled
<1>2. CASE Begin
  BY <1>2 DEF Begin
<1>3. CASE Publish
  BY <1>3 DEF Publish
<1>4. CASE PrepareFails
  BY <1>4 DEF PrepareFails
<1>5. ASSUME NEW m \in Models, HaveFile(m) PROVE ModelsInv'
  BY <1>5 DEF HaveFile, FileKnown
<1>6. ASSUME NEW m \in Models, NoFile(m) PROVE ModelsInv'
  BY <1>6 DEF NoFile, FileKnown
<1>7. ASSUME NEW m \in Models, Fetch(m) PROVE ModelsInv'
  BY <1>7 DEF Fetch
<1>8. ASSUME NEW m \in Models, Replace(m) PROVE ModelsInv'
  BY <1>8 DEF Replace, FileKnown
<1>9. ASSUME NEW m \in Models, LoadModel(m) PROVE ModelsInv'
  BY <1>9 DEF LoadModel, Load
<1> QED BY <1>1, <1>2, <1>3, <1>4, <1>5, <1>6, <1>7, <1>8, <1>9 DEF Prepare

LEMMA RestartInv ==
  ASSUME ModelsInv, Restart
  PROVE  ModelsInv'
BY ModelsAssumption
   DEF Restart, ModelsInv, ModelsTypeOK, Progress, Fresh, Over, AllWhole, FirstStatus

LEMMA ModelsUntouched ==
  ASSUME ModelsInv, UNCHANGED modelVars
  PROVE  ModelsInv'
BY DEF modelVars, ModelsInv, ModelsTypeOK, Progress, AllWhole

LEMMA ModelsInvNext == ModelsInv /\ [Next]_vars => ModelsInv'
<1> SUFFICES ASSUME ModelsInv, [Next]_vars PROVE ModelsInv'
  OBVIOUS
<1>1. CASE UNCHANGED modelVars
  BY <1>1, ModelsUntouched
<1>2. CASE Prepare
  BY <1>2, PrepareInv
<1>3. CASE Restart
  BY <1>3, RestartInv
<1>4. UNCHANGED modelVars \/ Prepare \/ Restart
  BY DEF vars, Next, Crash, Arrive, Thread, NoEmbedding, TakeEmbed, EmbedText,
         TextDone, EmbedLast, EmbedRaises, NoChat, TakeChat, ChatWrites, ChatRaises
<1> QED BY <1>1, <1>2, <1>3, <1>4

LEMMA ModelsAlways == Spec => []ModelsInv
<1>1. Init => ModelsInv
  BY ModelsInvInit DEF Init
<1> QED BY <1>1, ModelsInvNext, PTL DEF Spec

\* A model is loaded only from a file that was downloaded to its end, no
\* matter at how many places and how often the service died before.
THEOREM LoadsWholeFiles == Spec => []WholeModels
<1>1. ModelsInv => WholeModels
  BY DEF ModelsInv, ModelsTypeOK, Progress, AllWhole, WholeModels, Fresh, Over
<1> QED BY <1>1, ModelsAlways, PTL

\* /health never promises a model that a job would not find.
THEOREM HealthIsTruthful == Spec => []HealthTruthful
<1>1. ModelsInv => HealthTruthful
  BY DEF ModelsInv, ModelsTypeOK, Progress, HealthTruthful, Fresh, Over
<1> QED BY <1>1, ModelsAlways, PTL

----------------------------------------------------------------------------
(* Part 2: the jobs. *)

Pcs == Embeds \cup {"new", "generate", "done", "lost"}
Scales == {"local", "fallback"}
Asks == [threat : {"none", "ticket", "conversation"}, blank : BOOLEAN,
         offered : SUBSET Tickets]
Fixed == {"keywords", "label", "default", "template", "refusal", "prompt",
          "no_answer", "unresolved", "matches"}
Helpful == {"draft", "label", "default", "resolution"}

Record ==
  [pc : Pcs, kind : JobKinds \cup {"none"}, ask : Asks, left : Nat,
   inside : {"none", "embed", "chat"}, scale : Scales \cup {"none"},
   hits : SUBSET Articles, draft : Drafts,
   text : Fixed \cup {"none", "draft", "article", "resolution", "groups"},
   cites : SUBSET Articles, match : SUBSET Tickets,
   groups : SUBSET (SUBSET Tickets)]

\* The parts of the inductive invariant, each about one job's record.
\* A step has its texts, its kind of job, and at most its own model.
AtStep(r) ==
  /\ r.left > 0 <=> r.pc \in Embeds
  /\ r.pc = "memory" => r.kind \in {"auto_resolve", "assistant", "duplicates"}
  /\ r.pc \in {"articles", "query"} => r.kind \in {"assistant", "copilot"}
  /\ r.pc = "batch" => r.kind = "cluster"
  /\ r.pc = "generate" => r.kind \in {"assistant", "copilot", "classify"}
  /\ r.inside = "embed" => r.pc \in Embeds
  /\ r.inside = "chat" => r.pc = "generate"
  /\ (r.pc = "done") = (r.text # "none")
  /\ r.pc # "done" => r.cites = {}
  /\ r.pc = "new" => r.groups = {}

\* A request with a threat was turned away at the door, except for a
\* comparison of tickets, which has no completion to steer.
Safe(r) ==
  r.ask.threat # "none" =>
    \/ r.pc \in {"memory", "batch"} /\ r.kind \in Comparing
    \/ r.pc = "done" /\ r.text \notin Helpful

\* Grounded and RetrievalComplete, of one record.
Justified(r) ==
  /\ r.text = "draft" => r.draft.sound /\ r.cites # {} /\ r.cites \subseteq r.hits
  /\ r.text = "article" =>
       \E a \in r.hits : /\ r.cites = {a}
                         /\ \A b \in r.hits : Score[r.scale][b] <= Score[r.scale][a]
  /\ r.text = "resolution" =>
       \E t \in r.ask.offered \cap Answered :
         /\ r.match = {t}
         /\ Score[r.scale][t] >= SimilarityBar[r.kind][r.scale]
  /\ r.text \notin {"draft", "article", "resolution"} => r.cites = {}

Complete(r) ==
  r.pc = "generate" /\ r.kind # "classify" =>
    /\ r.scale \in Scales
    /\ \A a \in Articles \ r.hits :
         \/ Score[r.scale][a] < KbMin[r.scale]
         \/ /\ Cardinality(r.hits) = TopK
            /\ \A b \in r.hits : Score[r.scale][a] <= Score[r.scale][b]

\* GroupsSound, of one record.
Similar(x, y, near, bar) == near[{x, y}] >= bar
Cohesive(P, near, bar) ==
  /\ \A C \in P : \A A \in (SUBSET C) \ {{}, C} :
       \E x \in A, y \in C \ A : Similar(x, y, near, bar)
  /\ \A C, D \in P : C # D => \E x \in C, y \in D : ~Similar(x, y, near, bar)
Grouped(r) ==
  r.text = "groups" =>
    Cohesive(r.groups, Alike[r.scale], SimilarityBar["cluster"][r.scale])

Good(r) ==
  /\ r \in Record /\ AtStep(r) /\ Safe(r) /\ Justified(r) /\ Complete(r)
  /\ Grouped(r)

\* A record while the code of a handler runs.
Running(r) ==
  /\ r \in Record /\ r.kind # "none" /\ r.inside = "none"
  /\ r.text = "none" /\ r.cites = {}

USE DEF JobKinds

\* What a handler may make of its record r.
Result(s, r) ==
  /\ Good(s) /\ s.inside = "none" /\ s.kind = r.kind /\ s.ask = r.ask
  /\ s.pc = "query" => cache # {}

LEMMA CandidatesCount ==
  ASSUME NEW k, NEW q \in Asks
  PROVE  Candidates(k, q) \subseteq Tickets /\ Cardinality(Candidates(k, q)) \in Nat
<1>1. Candidates(k, q) \subseteq Tickets
  BY DEF Candidates, Asks
<1>2. IsFiniteSet(Tickets)
  BY AnswersAssumption
<1> QED BY <1>1, <1>2, FS_Subset, FS_CardinalityType

LEMMA ArticlesCount == Cardinality(Articles) \in Nat \ {0}
BY AnswersAssumption, FS_CardinalityType, FS_EmptySet

LEMMA TextsCount ==
  ASSUME NEW k, NEW q \in Asks, NEW at \in Pcs,
         at = "batch" => Candidates(k, q) # {}
  PROVE  /\ Texts(at, k, q) \in Nat
         /\ Texts(at, k, q) > 0 <=> at \in Embeds
<1> DEFINE c == Cardinality(Candidates(k, q))
           d == Cardinality(Articles)
<1>1. c \in Nat /\ d \in Nat \ {0}
  BY CandidatesCount, ArticlesCount
<1>2. at = "batch" => c # 0
  BY CandidatesCount, AnswersAssumption, FS_Subset, FS_EmptySet
<1>3. Texts(at, k, q) = CASE at = "memory" -> 1 + c
                          [] at = "articles" -> d
                          [] at = "query" -> 1
                          [] at = "batch" -> c
                          [] OTHER -> 0
  BY DEF Texts
<1> HIDE DEF c, d
<1> QED BY <1>1, <1>2, <1>3 DEF Pcs, Embeds

LEMMA TopsSubset ==
  ASSUME NEW S, NEW score, NEW n
  PROVE  /\ \A T \in Tops(S, score, n) : T \subseteq S
         /\ Best(S, score) \subseteq S
BY DEF Tops, Best

\* The ends of a handler.
LEMMA EndGood ==
  ASSUME NEW r, Running(r), NEW text, NEW C \in SUBSET Articles,
         NEW M \in SUBSET Tickets,
         text \in Fixed \cup {"draft", "article", "resolution", "groups"},
         r.ask.threat # "none" => text \notin Helpful,
         Justified(End(r, text, C, M)),
         text = "groups" => Grouped(End(r, text, C, M))
  PROVE  Result(End(r, text, C, M), r)
<1> DEFINE e == End(r, text, C, M)
<1>1. e \in Record
  BY DEF Running, Record, End, Pcs
<1>2. /\ e.pc = "done" /\ e.left = 0 /\ e.text = text /\ e.inside = "none"
      /\ e.ask = r.ask /\ e.kind = r.kind
  BY DEF Running, Record, End
<1>3. text # "none"
  BY DEF Fixed
<1> HIDE DEF e
<1>4. AtStep(e)
  BY <1>2, <1>3 DEF AtStep, Embeds
<1>5. Safe(e)
  BY <1>2 DEF Safe
<1>6. Complete(e)
  BY <1>2 DEF Complete
<1>7. text # "groups" => Grouped(e)
  BY <1>2 DEF Grouped
<1> QED BY <1>1, <1>2, <1>4, <1>5, <1>6, <1>7 DEF Result, Good, e

LEMMA EndFixed ==
  ASSUME NEW r, Running(r), NEW text \in Fixed, NEW M \in SUBSET Tickets,
         r.ask.threat # "none" => text \notin Helpful
  PROVE  Result(End(r, text, {}, M), r)
<1>1. End(r, text, {}, M).text = text /\ End(r, text, {}, M).cites = {}
  BY DEF Running, Record, End
<1>2. Justified(End(r, text, {}, M))
  BY <1>1 DEF Justified, Fixed
<1> QED BY <1>2, EndGood DEF Fixed

\* On to a step that embeds.
LEMMA GotoGood ==
  ASSUME NEW r, Running(r), NEW at \in Embeds,
         at = "memory" => r.kind \in {"auto_resolve", "assistant", "duplicates"},
         at \in {"articles", "query"} => r.kind \in {"assistant", "copilot"},
         at = "batch" => r.kind = "cluster" /\ r.ask.offered # {},
         r.ask.threat # "none" => at \in {"memory", "batch"} /\ r.kind \in Comparing
  PROVE  /\ Good(Goto(r, at)) /\ Goto(r, at).pc = at
         /\ Goto(r, at).inside = "none"
         /\ Goto(r, at).kind = r.kind /\ Goto(r, at).ask = r.ask
<1> DEFINE g == Goto(r, at)
<1>1. Texts(at, r.kind, r.ask) \in Nat /\ Texts(at, r.kind, r.ask) > 0
  BY TextsCount DEF Running, Record, Embeds, Pcs, Candidates, Comparing
<1>2. g \in Record
  BY <1>1 DEF Running, Record, Goto, Embeds, Pcs
<1>3. /\ g.pc = at /\ g.left = Texts(at, r.kind, r.ask) /\ g.inside = "none"
      /\ g.text = "none" /\ g.cites = {} /\ g.ask = r.ask /\ g.kind = r.kind
  BY DEF Running, Record, Goto
<1> HIDE DEF g
<1>4. at \in {"memory", "articles", "query", "batch"}
  BY DEF Embeds
<1>5. AtStep(g)
  BY <1>1, <1>3, <1>4 DEF AtStep, Embeds
<1>6. Safe(g)
  BY <1>3 DEF Safe
<1>7. Justified(g) /\ Complete(g) /\ Grouped(g)
  BY <1>3, <1>4 DEF Justified, Complete, Grouped
<1> QED BY <1>2, <1>3, <1>5, <1>6, <1>7 DEF Good, g

\* On to the chat model.
LEMMA GenerateGood ==
  ASSUME NEW r, Running(r), r.kind \in {"assistant", "copilot", "classify"},
         r.ask.threat = "none",
         Complete(Goto(r, "generate"))
  PROVE  Result(Goto(r, "generate"), r)
<1> DEFINE g == Goto(r, "generate")
<1>1. Texts("generate", r.kind, r.ask) = 0 /\ 0 \in Nat
  BY DEF Texts
<1>2. g \in Record
  BY <1>1 DEF Running, Record, Goto, Pcs
<1>3. /\ g.pc = "generate" /\ g.left = 0 /\ g.inside = "none"
      /\ g.text = "none" /\ g.cites = {} /\ g.ask = r.ask /\ g.kind = r.kind
  BY <1>1 DEF Running, Record, Goto
<1> HIDE DEF g
<1>4. AtStep(g)
  BY <1>3 DEF AtStep, Embeds
<1>5. Safe(g)
  BY <1>3 DEF Safe
<1>6. Justified(g) /\ Grouped(g)
  BY <1>3 DEF Justified, Grouped
<1> QED BY <1>2, <1>3, <1>4, <1>5, <1>6 DEF Result, Good, g

LEMMA RetrieveResult ==
  ASSUME NEW r, Running(r), r.kind \in {"assistant", "copilot"},
         r.ask.threat = "none"
  PROVE  Result(Retrieve(r), r)
BY GotoGood DEF Retrieve, Embeds, Result

LEMMA RecallResult ==
  ASSUME NEW r, Running(r), NEW otherwise, Result(otherwise, r),
         r.kind \in {"auto_resolve", "assistant", "duplicates"},
         r.ask.threat # "none" => r.kind = "duplicates"
  PROVE  Result(Recall(r, otherwise), r)
BY GotoGood DEF Recall, Embeds, Result, Comparing

\* The door: what a request becomes when it arrives.
LEMMA OpeningResult ==
  ASSUME NEW r, Running(r), r.groups = {}
  PROVE  Result(Opening(r), r)
<1> USE DEF Helpful, Fixed, Comparing
<1>1. r.kind \in JobKinds
  BY DEF Running, Record
<1>2. r.kind \notin Comparing => (Suspicious(r.kind, r.ask) <=> r.ask.threat # "none")
  BY DEF Suspicious
<1>3. CASE r.kind = "classify"
  <2>1. Result(End(r, "keywords", {}, {}), r)
    BY EndFixed
  <2>2. ASSUME r.ask.threat = "none" PROVE Result(Goto(r, "generate"), r)
    <3>1. Goto(r, "generate").kind = "classify"
      BY <1>3 DEF Goto, Running, Record
    <3>2. Complete(Goto(r, "generate"))
      BY <3>1 DEF Complete
    <3> QED BY <1>3, <2>2, <3>2, GenerateGood
  <2> QED BY <1>2, <1>3, <2>1, <2>2 DEF Opening, Classify, Deflect
<1>4. CASE r.kind = "copilot"
  <2>1. Result(End(r, "template", {}, {}), r)
    BY EndFixed
  <2>2. r.ask.threat = "none" => Result(Retrieve(r), r)
    BY <1>4, RetrieveResult
  <2> QED BY <1>2, <1>4, <2>1, <2>2 DEF Opening, Assist, Deflect
<1>5. CASE r.kind = "assistant"
  <2>1. Result(End(r, "refusal", {}, {}), r) /\ Result(End(r, "prompt", {}, {}), r)
    BY EndFixed
  <2>2. r.ask.threat = "none" => Result(Recall(r, Retrieve(r)), r)
    BY <1>5, RetrieveResult, RecallResult
  <2> QED BY <1>2, <1>5, <2>1, <2>2 DEF Opening, Answer, Deflect
<1>6. CASE r.kind = "auto_resolve"
  <2>1. Result(End(r, "unresolved", {}, {}), r)
    BY EndFixed
  <2>2. r.ask.threat = "none" => Result(Recall(r, End(r, "unresolved", {}, {})), r)
    BY <1>6, <2>1, RecallResult
  <2> QED BY <1>2, <1>6, <2>1, <2>2 DEF Opening, AutoResolve, Deflect
<1>7. CASE r.kind = "duplicates"
  <2>1. Result(End(r, "matches", {}, {}), r)
    BY EndFixed
  <2> QED BY <1>7, <2>1, RecallResult DEF Opening, Find
<1>8. CASE r.kind = "cluster"
  <2>1. Result(End(r, "groups", {}, {}), r)
    <3> DEFINE e == End(r, "groups", {}, {})
    <3>1. e.text = "groups" /\ e.cites = {} /\ e.groups = {}
      BY DEF End, Running, Record
    <3> HIDE DEF e
    <3>2. Justified(e) /\ Grouped(e)
      BY <3>1 DEF Justified, Grouped, Cohesive
    <3> QED BY <3>2, EndGood DEF e
  <2>2. r.ask.offered # {} => Result(Goto(r, "batch"), r)
    BY <1>8, GotoGood DEF Result, Embeds
  <2> QED BY <1>8, <2>1, <2>2 DEF Opening, Cluster
<1> QED BY <1>1, <1>3, <1>4, <1>5, <1>6, <1>7, <1>8

\* The groups of a batch.
LEMMA LeastExists ==
  ASSUME NEW T \in SUBSET Nat, T # {}
  PROVE  \E m \in T : \A n \in T : m <= n
<1>1. IsWellFoundedOn(OpToRel(<, Nat), Nat)
  BY NatLessThanWellFounded
<1>2. PICK m \in T : \A n \in T : ~(<<n, m>> \in OpToRel(<, Nat))
  BY <1>1, WFMin
<1>3. \A n \in T : n < m => <<n, m>> \in OpToRel(<, Nat)
  BY DEF OpToRel
<1>4. \A n \in T : ~(n < m)
  BY <1>2, <1>3, Zenon
<1>5. \A n \in T : n \in Nat
  OBVIOUS
<1>6. \A n \in T : m <= n
  BY <1>4, <1>5
<1> QED BY <1>6

LEMMA GreatestExists ==
  ASSUME NEW T \in SUBSET (0 .. 100), T # {}
  PROVE  \E m \in T : \A n \in T : n <= m
<1> DEFINE U == { 100 - n : n \in T }
<1>1. U \in SUBSET Nat /\ U # {}
  <2>1. \A n \in T : n \in 0 .. 100 /\ 100 - n \in Nat
    OBVIOUS
  <2>2. PICK n \in T : TRUE
    OBVIOUS
  <2>3. 100 - n \in U
    BY <2>2
  <2> QED BY <2>1, <2>3
<1>2. PICK u \in U : \A v \in U : u <= v
  BY <1>1, LeastExists
<1>3. PICK m \in T : u = 100 - m
  BY <1>2
<1>4. \A n \in T : 100 - m <= 100 - n
  BY <1>2, <1>3
<1> QED BY <1>3, <1>4

\* Like is the best similarity to a member.
LEMMA LikeIsBest ==
  ASSUME NEW x \in Tickets, NEW B \in SUBSET Tickets, B # {},
         NEW near \in [SUBSET Tickets -> 0 .. 100]
  PROVE  /\ \E y \in B : Like(x, B, near) = near[{x, y}]
         /\ \A y \in B : near[{x, y}] <= Like(x, B, near)
<1> DEFINE scores == { near[{x, y}] : y \in B }
<1>1. scores \in SUBSET (0 .. 100) /\ scores # {}
  <2>1. \A y \in B : {x, y} \in SUBSET Tickets
    OBVIOUS
  <2> QED BY <2>1
<1>2. \E m \in scores : \A n \in scores : n <= m
  BY <1>1, GreatestExists
<1>3. Like(x, B, near) = CHOOSE m \in scores : \A n \in scores : n <= m
  BY DEF Like
<1>4. Like(x, B, near) \in scores /\ \A n \in scores : n <= Like(x, B, near)
  BY <1>2, <1>3
<1> QED BY <1>4

\* Every set of items has a first one in the order of the request.
LEMMA FirstExists ==
  ASSUME NEW S, NEW at \in Orders(S), NEW C \in SUBSET S, C # {}
  PROVE  \E x \in C : \A y \in C \ {x} : at[x] < at[y]
<1> DEFINE T == { at[y] : y \in C }
<1>1. \A y \in C : at[y] \in Nat
  BY DEF Orders
<1>2. T \in SUBSET Nat /\ T # {}
  BY <1>1
<1>3. PICK m \in T : \A n \in T : m <= n
  BY <1>2, LeastExists
<1>4. PICK x \in C : m = at[x]
  BY <1>3
<1>5. ASSUME NEW y \in C \ {x} PROVE at[x] < at[y]
  <2>1. at[x] <= at[y]
    BY <1>3, <1>4
  <2>2. at[x] # at[y]
    BY DEF Orders
  <2> QED BY <1>1, <2>1, <2>2
<1> QED BY <1>5

\* An item that is not the first of its group is similar to an earlier member.
JoinsSimilar(x, C, at, near, bar) ==
  \A z \in C : at[z] < at[x] =>
    \E y \in C : at[y] < at[x] /\ Similar(x, y, near, bar)

\* The first of a group was unlike all the items before it.
OpensUnlike(x, C, P, at, near, bar) ==
  (\A z \in C : ~(at[z] < at[x])) =>
    \A D \in P : \A y \in D : at[y] < at[x] => ~Similar(x, y, near, bar)

LEMMA PlacedWell ==
  ASSUME NEW S \in SUBSET Tickets, NEW near \in [SUBSET Tickets -> 0 .. 100],
         NEW bar \in Nat, NEW P \in SUBSET (SUBSET S), NEW at \in Orders(S),
         NEW C \in P, NEW x \in C, Placed(x, C, P, at, near, bar)
  PROVE  JoinsSimilar(x, C, at, near, bar) /\ OpensUnlike(x, C, P, at, near, bar)
<1> DEFINE Before(D) == { y \in D : at[y] < at[x] }
           fits == Joinable(x, P, at, near, bar)
<1>1. \A D : D \in fits <=>
        D \in P /\ Before(D) # {} /\ Like(x, Before(D), near) >= bar
  BY DEF Joinable
<1>2. \/ fits = {} /\ Before(C) = {}
      \/ C \in fits
  BY DEF Placed
<1>3. x \in Tickets /\ \A D \in P : Before(D) \in SUBSET Tickets
  OBVIOUS
<1>4. ASSUME NEW D \in P, Before(D) # {}
      PROVE  /\ \E y \in Before(D) : Like(x, Before(D), near) = near[{x, y}]
             /\ \A y \in Before(D) : near[{x, y}] <= Like(x, Before(D), near)
  BY <1>3, <1>4, LikeIsBest
<1>5. \A D \in P : \A y \in Before(D) : near[{x, y}] \in 0 .. 100
  <2>1. \A D \in P : \A y \in Before(D) : {x, y} \in SUBSET Tickets
    BY <1>3
  <2> QED BY <2>1
<1> HIDE DEF fits
<1>6. ASSUME NEW z \in C, at[z] < at[x]
      PROVE  \E y \in C : at[y] < at[x] /\ Similar(x, y, near, bar)
  <2>1. Before(C) # {}
    BY <1>6
  <2>2. Like(x, Before(C), near) >= bar
    BY <1>1, <1>2, <2>1
  <2>3. PICK y \in Before(C) : Like(x, Before(C), near) = near[{x, y}]
    BY <1>4, <2>1
  <2> QED BY <2>2, <2>3 DEF Similar
<1>7. ASSUME \A z \in C : ~(at[z] < at[x]), NEW D \in P, NEW y \in D, at[y] < at[x]
      PROVE  ~Similar(x, y, near, bar)
  <2>1. fits = {}
    BY <1>1, <1>2, <1>7
  <2>2. y \in Before(D)
    BY <1>7
  <2>3. ~(Like(x, Before(D), near) >= bar)
    BY <1>1, <2>1, <2>2
  <2>4. near[{x, y}] <= Like(x, Before(D), near) /\ near[{x, y}] \in 0 .. 100
    BY <1>4, <1>5, <2>2
  <2>5. Like(x, Before(D), near) \in 0 .. 100
    BY <1>4, <1>5, <2>2
  <2> HIDE DEF Before
  <2> QED BY <2>3, <2>4, <2>5 DEF Similar
<1> QED BY <1>6, <1>7 DEF JoinsSimilar, OpensUnlike

LEMMA GroupingsCohesive ==
  ASSUME NEW S \in SUBSET Tickets, NEW near \in [SUBSET Tickets -> 0 .. 100],
         NEW bar \in Nat, NEW P \in Groupings(S, near, bar)
  PROVE  P \in SUBSET (SUBSET S) /\ Cohesive(P, near, bar)
<1>1. /\ P \in SUBSET (SUBSET S) /\ \A C \in P : C # {}
      /\ \A C, D \in P : C = D \/ C \cap D = {}
  BY DEF Groupings
<1>2. PICK at \in Orders(S) :
        \A C \in P : \A x \in C : Placed(x, C, P, at, near, bar)
  BY DEF Groupings
<1>3. ASSUME NEW C \in P, NEW x \in C
      PROVE  /\ JoinsSimilar(x, C, at, near, bar)
             /\ OpensUnlike(x, C, P, at, near, bar)
  <2>1. Placed(x, C, P, at, near, bar)
    BY <1>2
  <2> QED BY <1>1, <2>1, PlacedWell
<1>4. \A x \in S : at[x] \in Nat
  BY DEF Orders
<1>5. \A x, y : Similar(x, y, near, bar) => Similar(y, x, near, bar)
  <2>1. \A x, y : {x, y} = {y, x}
    OBVIOUS
  <2> QED BY <2>1 DEF Similar
<1>6. ASSUME NEW C \in P, NEW A \in (SUBSET C) \ {{}, C}
      PROVE  \E x \in A, y \in C \ A : Similar(x, y, near, bar)
  <2>1. PICK f \in C : \A y \in C \ {f} : at[f] < at[y]
    BY <1>1, FirstExists
  <2> DEFINE U == IF f \in A THEN C \ A ELSE A
  <2>2. U \in SUBSET C /\ U # {} /\ f \notin U
    BY <1>6
  <2>3. (U = A \/ U = C \ A) /\ C \in SUBSET S
    BY <1>1
  <2> HIDE DEF U
  <2>4. PICK x \in U : \A y \in U \ {x} : at[x] < at[y]
    <3>1. U \in SUBSET S
      BY <2>2, <2>3
    <3> QED BY <2>2, <3>1, FirstExists
  <2>5. at[f] < at[x]
    BY <2>1, <2>2, <2>4
  <2>6. PICK y \in C : at[y] < at[x] /\ Similar(x, y, near, bar)
    BY <1>3, <2>2, <2>5 DEF JoinsSimilar
  <2>7. y \notin U
    <3>1. y # x => ~(at[x] < at[y])
      BY <1>1, <1>4, <2>2, <2>6
    <3>2. y # x
      BY <1>1, <1>4, <2>2, <2>6
    <3> QED BY <2>4, <3>1, <3>2
  <2> QED BY <1>5, <2>2, <2>3, <2>6, <2>7
<1>7. ASSUME NEW C \in P, NEW D \in P, C # D
      PROVE  \E x \in C, y \in D : ~Similar(x, y, near, bar)
  <2>1. PICK c \in C : \A y \in C \ {c} : at[c] < at[y]
    BY <1>1, FirstExists
  <2>2. PICK d \in D : \A y \in D \ {d} : at[d] < at[y]
    BY <1>1, FirstExists
  <2>3. at[c] \in Nat /\ at[d] \in Nat /\ at[c] # at[d]
    <3>1. c # d /\ c \in S /\ d \in S
      BY <1>1, <1>7
    <3> QED BY <1>4, <3>1 DEF Orders
  <2>4. CASE at[c] < at[d]
    <3>1. \A z \in D : ~(at[z] < at[d])
      BY <1>1, <1>4, <2>2
    <3> QED BY <1>3, <1>5, <2>4, <3>1 DEF OpensUnlike
  <2>5. CASE at[d] < at[c]
    <3>1. \A z \in C : ~(at[z] < at[c])
      BY <1>1, <1>4, <2>1
    <3> QED BY <1>3, <2>5, <3>1 DEF OpensUnlike
  <2> QED BY <2>3, <2>4, <2>5
<1> QED BY <1>1, <1>6, <1>7 DEF Cohesive

LEMMA ClusteredResult ==
  ASSUME NEW r, Running(r), r.kind = "cluster", r.scale \in Scales,
         NEW s \in Clustered(r)
  PROVE  Result(s, r)
<1> DEFINE near == Alike[r.scale]
           bar == SimilarityBar["cluster"][r.scale]
<1>1. PICK P \in Groupings(r.ask.offered, near, bar) :
        s = End([r EXCEPT !.groups = P], "groups", {}, {})
  BY DEF Clustered, Bar
<1>2. r.ask.offered \in SUBSET Tickets
  BY DEF Running, Record, Asks
<1>3. near \in [SUBSET Tickets -> 0 .. 100]
  BY AnswersAssumption DEF Scales
<1>4. bar \in Nat
  BY DEF SimilarityBar, Scales
<1> HIDE DEF near, bar
<1>5. P \in SUBSET (SUBSET Tickets) /\ Cohesive(P, near, bar)
  BY <1>1, <1>2, <1>3, <1>4, GroupingsCohesive
<1> DEFINE q == [r EXCEPT !.groups = P]
<1>6. Running(q) /\ q.kind = r.kind /\ q.ask = r.ask
  BY <1>5 DEF Running, Record
<1>7. s.text = "groups" /\ s.groups = P /\ s.scale = r.scale /\ s.cites = {}
  BY <1>1 DEF End, Running, Record
<1>8. Justified(s) /\ Grouped(s)
  BY <1>5, <1>7 DEF Justified, Grouped, near, bar
<1>9. s = End(q, "groups", {}, {})
  BY <1>1
<1> HIDE DEF q
<1>10. Result(s, q)
  BY <1>6, <1>8, <1>9, EndGood DEF Helpful
<1> QED BY <1>6, <1>10 DEF Result

\* The answers.
LEMMA ResolutionResult ==
  ASSUME NEW r, Running(r), r.ask.threat = "none",
         r.kind \in {"assistant", "auto_resolve"},
         NEW t \in Candidates(r.kind, r.ask), Reaches(r, t)
  PROVE  Result(End(r, "resolution", {}, {t}), r)
<1> DEFINE e == End(r, "resolution", {}, {t})
<1>1. /\ e.text = "resolution" /\ e.match = {t} /\ e.kind = r.kind
      /\ e.scale = r.scale /\ e.ask = r.ask /\ e.cites = {}
  BY DEF End, Running, Record
<1>2. t \in r.ask.offered \cap Answered /\ t \in Tickets
  BY AnswersAssumption DEF Candidates, Comparing
<1>3. Score[r.scale][t] >= SimilarityBar[r.kind][r.scale]
  BY DEF Reaches, Bar
<1> HIDE DEF e
<1>4. Justified(e)
  BY <1>1, <1>2, <1>3 DEF Justified
<1> QED BY <1>2, <1>4, EndGood DEF e

LEMMA AfterMemoryResult ==
  ASSUME NEW r, Running(r), r.scale \in Scales,
         r.kind \in {"auto_resolve", "assistant", "duplicates"},
         r.ask.threat # "none" => r.kind = "duplicates",
         NEW s \in AfterMemory(r)
  PROVE  Result(s, r)
<1> USE DEF Helpful, Fixed
<1>1. Candidates(r.kind, r.ask) \subseteq Tickets
  BY CandidatesCount DEF Running, Record
<1> DEFINE best == Best(Candidates(r.kind, r.ask), Score[r.scale])
<1>2. best \subseteq Candidates(r.kind, r.ask)
  BY TopsSubset
<1> HIDE DEF best
<1>3. CASE r.kind = "duplicates"
  <2>1. PICK found \in Tops({ t \in r.ask.offered : Reaches(r, t) },
                            Score[r.scale], DuplicateMaxResults) :
          s = End(r, "matches", {}, found)
    BY <1>3 DEF AfterMemory, Ranked
  <2>2. found \in SUBSET Tickets
    <3>1. found \subseteq { t \in r.ask.offered : Reaches(r, t) }
      BY <2>1, TopsSubset
    <3>2. r.ask.offered \subseteq Tickets
      BY DEF Running, Record, Asks
    <3> QED BY <3>1, <3>2
  <2> QED BY <2>1, <2>2, EndFixed
<1>4. CASE r.kind = "assistant"
  <2>1. PICK t \in best : s = FromMemory(r, t)
    BY <1>4 DEF AfterMemory, best
  <2>2. CASE Reaches(r, t)
    BY <1>2, <1>4, <2>1, <2>2, ResolutionResult DEF FromMemory
  <2>3. CASE ~Reaches(r, t)
    BY <1>4, <2>1, <2>3, RetrieveResult DEF FromMemory
  <2> QED BY <2>2, <2>3
<1>5. CASE r.kind = "auto_resolve"
  <2>1. PICK t \in best : s = Repeats(r, t)
    BY <1>5 DEF AfterMemory, best
  <2>2. CASE Reaches(r, t)
    BY <1>2, <1>5, <2>1, <2>2, ResolutionResult DEF Repeats
  <2>3. CASE ~Reaches(r, t)
    BY <1>1, <1>2, <2>1, <2>3, EndFixed DEF Repeats
  <2> QED BY <2>2, <2>3
<1> QED BY <1>3, <1>4, <1>5

\* A retrieval that scores every article misses none.
LEMMA TopIsComplete ==
  ASSUME NEW r, Running(r), r.scale \in Scales,
         NEW top \in Tops({ a \in Articles : Score[r.scale][a] >= KbMin[r.scale] },
                          Score[r.scale], TopK)
  PROVE  Complete(Goto([r EXCEPT !.hits = top], "generate"))
<1> DEFINE g == Goto([r EXCEPT !.hits = top], "generate")
           hits == { a \in Articles : Score[r.scale][a] >= KbMin[r.scale] }
<1>1. g.hits = top /\ g.scale = r.scale
  BY DEF Goto, Running, Record
<1>2. /\ top \subseteq hits /\ Cardinality(top) <= TopK
      /\ top # hits => Cardinality(top) = TopK
      /\ \A x \in top, y \in hits \ top : Score[r.scale][x] >= Score[r.scale][y]
  BY DEF Tops
<1>3. \A a \in Articles : Score[r.scale][a] \in Int /\ KbMin[r.scale] \in Int
  BY AnswersAssumption DEF Scales, KbMin
<1> HIDE DEF g
<1>4. ASSUME NEW a \in Articles \ top, a \notin hits
      PROVE  Score[r.scale][a] < KbMin[r.scale]
  BY <1>3, <1>4
<1>5. ASSUME NEW a \in hits \ top
      PROVE  /\ Cardinality(top) = TopK
             /\ \A b \in top : Score[r.scale][a] <= Score[r.scale][b]
  BY <1>2, <1>3, <1>5
<1> HIDE DEF hits
<1> QED BY <1>1, <1>4, <1>5 DEF Complete, g

LEMMA AfterQueryResult ==
  ASSUME NEW r, Running(r), r.scale \in Scales, r.ask.threat = "none",
         r.kind \in {"assistant", "copilot"},
         r.scale = "local" => cache = Articles,
         NEW s \in AfterQuery(r)
  PROVE  Result(s, r)
<1> DEFINE hits == { a \in Articles : Score[r.scale][a] >= KbMin[r.scale] }
<1>1. AfterQuery(r) =
        IF hits # {}
        THEN { Goto([r EXCEPT !.hits = top], "generate") :
                 top \in Tops(hits, Score[r.scale], TopK) }
        ELSE { IF r.kind = "copilot" THEN Template(r) ELSE NoAnswer(r) }
  BY DEF AfterQuery, Scales
<1>2. CASE hits # {}
  <2>1. PICK top \in Tops(hits, Score[r.scale], TopK) :
          s = Goto([r EXCEPT !.hits = top], "generate")
    BY <1>1, <1>2
  <2> DEFINE q == [r EXCEPT !.hits = top]
  <2>2. top \subseteq Articles
    BY <2>1, TopsSubset
  <2>3. Running(q) /\ q.kind = r.kind /\ q.ask = r.ask
    BY <2>2 DEF Running, Record
  <2>4. Complete(Goto(q, "generate"))
    BY <2>1, TopIsComplete
  <2> HIDE DEF q
  <2>5. Result(Goto(q, "generate"), q)
    BY <2>3, <2>4, GenerateGood
  <2> QED BY <2>1, <2>3, <2>5 DEF q, Result
<1>3. CASE hits = {}
  BY <1>1, <1>3, EndFixed DEF Template, NoAnswer, Helpful, Fixed
<1> QED BY <1>2, <1>3

\* A singleton of the best article.
LEMMA TopArticleResult ==
  ASSUME NEW r, Running(r), r.scale \in Scales, r.ask.threat = "none",
         NEW s \in TopArticle(r)
  PROVE  Result(s, r)
<1>1. PICK a \in Best(r.hits, Score[r.scale]) : s = End(r, "article", {a}, {})
  BY DEF TopArticle
<1>2. PICK T \in Tops(r.hits, Score[r.scale], 1) : a \in T
  BY DEF Best
<1>3. /\ T \subseteq r.hits /\ Cardinality(T) <= 1 /\ r.hits \subseteq Articles
      /\ \A x \in T, y \in r.hits \ T : Score[r.scale][x] >= Score[r.scale][y]
  BY DEF Tops, Running, Record
<1>4. T = {a}
  <2>1. IsFiniteSet(T) /\ Cardinality(T) \in Nat
    BY <1>3, AnswersAssumption, FS_Subset, FS_CardinalityType
  <2>2. Cardinality(T) # 0
    BY <1>2, <2>1, FS_EmptySet
  <2>3. Cardinality(T) = 1
    BY <1>3, <2>1, <2>2
  <2> QED BY <1>2, <2>1, <2>3, FS_Singleton
<1>5. \A b \in r.hits : Score[r.scale][b] \in Int
  BY <1>3, AnswersAssumption DEF Scales
<1>6. a \in r.hits /\ \A b \in r.hits : Score[r.scale][b] <= Score[r.scale][a]
  BY <1>3, <1>4, <1>5
<1>7. s.text = "article" /\ s.cites = {a} /\ s.hits = r.hits /\ s.scale = r.scale
  BY <1>1 DEF End, Running, Record
<1>8. Justified(s)
  BY <1>6, <1>7 DEF Justified
<1>9. {a} \in SUBSET Articles
  BY <1>3, <1>6
<1> QED BY <1>1, <1>8, <1>9, EndGood DEF Helpful

LEMMA WithoutDraftResult ==
  ASSUME NEW r, Running(r), r.ask.threat = "none",
         r.kind \in {"assistant", "copilot", "classify"},
         r.kind # "classify" => r.scale \in Scales,
         NEW s \in WithoutDraft(r)
  PROVE  Result(s, r)
BY EndFixed, TopArticleResult DEF WithoutDraft, Keywords, Template, Helpful, Fixed

LEMMA AfterDraftResult ==
  ASSUME NEW r, Running(r), r.ask.threat = "none",
         r.kind \in {"assistant", "copilot", "classify"},
         r.kind # "classify" => r.scale \in Scales,
         NEW d \in Drafts, NEW s \in AfterDraft(r, d)
  PROVE  Result(s, r)
<1>1. CASE r.kind = "classify"
  BY <1>1, EndFixed DEF AfterDraft, Label, Helpful, Fixed
<1>2. CASE r.kind # "classify" /\ ~Valid(d, r.hits)
  BY <1>2, WithoutDraftResult DEF AfterDraft
<1>3. CASE r.kind # "classify" /\ Valid(d, r.hits)
  <2> DEFINE q == [r EXCEPT !.draft = d]
  <2>1. s = End(q, "draft", d.cites, {}) /\ d.cites \in SUBSET Articles
    BY <1>3 DEF AfterDraft, Draft, Drafts
  <2>2. Running(q) /\ q.ask = r.ask /\ q.kind = r.kind
    BY DEF Running, Record
  <2>3. s.text = "draft" /\ s.draft = d /\ s.cites = d.cites /\ s.hits = r.hits
    BY <2>1 DEF End, Running, Record
  <2>4. Justified(s)
    BY <1>3, <2>3 DEF Justified, Valid
  <2> HIDE DEF q
  <2>5. Result(s, q)
    BY <2>1, <2>2, <2>4, EndGood DEF Helpful
  <2> QED BY <2>2, <2>5 DEF Result
<1> QED BY <1>1, <1>2, <1>3

----------------------------------------------------------------------------
(* Part 3: the threads. *)

JobsInv ==
  /\ job \in [Jobs -> Record]
  /\ \A j \in Jobs : /\ Good(job[j])
                     /\ job[j].kind \in KindsOf[j] \cup {"none"}
                     /\ job[j].ask \in Requests \cup {NoRequest}
                     /\ job[j].pc = "query" => cache = Articles
  /\ cache \in {{}, Articles}
  /\ ModelExclusive

LEMMA JobsInvInit == Init => JobsInv
<1> SUFFICES ASSUME Init PROVE JobsInv
  OBVIOUS
<1>1. NoRequest \in Asks /\ NoDraft \in Drafts
  BY DEF NoRequest, Asks, NoDraft, Drafts
<1> DEFINE r == Nothing("new")
<1>2. r \in Record
  BY <1>1 DEF Nothing, Record, Pcs
<1>3. /\ r.pc = "new" /\ r.kind = "none" /\ r.left = 0 /\ r.inside = "none"
      /\ r.text = "none" /\ r.cites = {} /\ r.ask = NoRequest
      /\ r.groups = {} /\ r.ask.threat = "none"
  BY DEF Nothing, NoRequest
<1>4. \A j \in Jobs : job[j] = r
  BY DEF Init
<1>5. job \in [Jobs -> Record]
  BY <1>2 DEF Init
<1> HIDE DEF r
<1>6. Good(r)
  BY <1>2, <1>3 DEF Good, AtStep, Safe, Justified, Complete, Grouped, Embeds
<1>7. ModelExclusive
  BY <1>3, <1>4 DEF ModelExclusive
<1>8. cache = {}
  BY DEF Init
<1> QED BY <1>3, <1>4, <1>5, <1>6, <1>7, <1>8 DEF JobsInv

\* One job's record changes; what the others rely on stays.
LEMMA JobMoves ==
  ASSUME JobsInv, NEW j \in Jobs, NEW s, Good(s),
         s.kind \in KindsOf[j] \cup {"none"}, s.ask \in Requests \cup {NoRequest},
         s.inside # "none" =>
           s.inside \in loaded /\ \A k \in Jobs \ {j} : job[k].inside # s.inside,
         s.pc = "query" => cache' = Articles,
         cache' = cache \/ cache' = Articles,
         loaded' = loaded, job' = [job EXCEPT ![j] = s]
  PROVE  JobsInv'
<1>1. job' \in [Jobs -> Record] /\ job'[j] = s
  BY DEF JobsInv, Good
<1>2. \A k \in Jobs \ {j} : job'[k] = job[k]
  BY DEF JobsInv
<1>3. cache' \in {{}, Articles}
  BY DEF JobsInv
<1>4. ASSUME NEW k \in Jobs
      PROVE  /\ Good(job'[k])
             /\ job'[k].kind \in KindsOf[k] \cup {"none"}
             /\ job'[k].ask \in Requests \cup {NoRequest}
             /\ job'[k].pc = "query" => cache' = Articles
  BY <1>1, <1>2 DEF JobsInv
<1>5. ModelExclusive'
  BY <1>1, <1>2 DEF JobsInv, ModelExclusive
<1> QED BY <1>1, <1>3, <1>4, <1>5 DEF JobsInv, Good, AtStep, Safe, Justified, Complete, Grouped

LEMMA EmbeddedResult ==
  ASSUME NEW r, Good(r), r.pc \in Embeds, NEW scale \in Scales,
         scale = "local" /\ r.pc = "query" => cache = Articles,
         NEW s \in Embedded(r, scale)
  PROVE  /\ Good(s) /\ s.inside = "none" /\ s.kind = r.kind /\ s.ask = r.ask
         /\ s.pc = "query" =>
              cache # {} \/ (r.pc = "articles" /\ scale = "local")
<1> DEFINE q == [r EXCEPT !.inside = "none", !.left = 0, !.scale = scale]
<1>1. /\ q \in Record /\ q.kind = r.kind /\ q.ask = r.ask /\ q.scale = scale
      /\ q.inside = "none" /\ q.text = r.text /\ q.cites = r.cites
  BY DEF Good, Record, Scales
<1>2. r.pc \in {"memory", "articles", "query", "batch"}
  BY DEF Embeds
<1>3. Running(q)
  BY <1>1, <1>2 DEF Running, Good, AtStep
<1>4. r.ask.threat # "none" => r.pc \in {"memory", "batch"} /\ r.kind \in Comparing
  BY <1>2 DEF Good, Safe
<1>5. s \in (CASE r.pc = "memory" -> AfterMemory(q)
               [] r.pc = "batch" -> Clustered(q)
               [] r.pc = "articles" /\ scale = "local" -> { Goto(q, "query") }
               [] OTHER -> AfterQuery(q))
  BY DEF Embedded
<1> HIDE DEF q
<1>6. CASE r.pc = "memory"
  <2>1. s \in AfterMemory(q)
    BY <1>5, <1>6
  <2>2. Result(s, q)
    BY <1>1, <1>3, <1>4, <1>6, <2>1, AfterMemoryResult DEF Good, AtStep, Comparing
  <2> QED BY <1>1, <2>2 DEF Result
<1>7. CASE r.pc = "articles" /\ scale = "local"
  <2>1. s = Goto(q, "query")
    BY <1>5, <1>7
  <2> QED BY <1>1, <1>3, <1>4, <1>7, <2>1, GotoGood DEF Good, AtStep, Embeds
<1>8. CASE r.pc \in {"articles", "query"} /\ ~(r.pc = "articles" /\ scale = "local")
  <2>1. s \in AfterQuery(q)
    BY <1>5, <1>8
  <2>2. Result(s, q)
    BY <1>1, <1>3, <1>4, <1>8, <2>1, AfterQueryResult DEF Good, AtStep
  <2> QED BY <1>1, <2>2 DEF Result
<1>9. CASE r.pc = "batch"
  <2>1. s \in Clustered(q)
    BY <1>5, <1>9
  <2>2. Result(s, q)
    BY <1>1, <1>3, <1>9, <2>1, ClusteredResult DEF Good, AtStep
  <2> QED BY <1>1, <1>9, <2>2 DEF Result
<1> QED BY <1>2, <1>6, <1>7, <1>8, <1>9

LEMMA AtGenerate ==
  ASSUME NEW r, Good(r), r.pc = "generate"
  PROVE  LET q == [r EXCEPT !.inside = "none"]
         IN  /\ Running(q) /\ q.ask = r.ask /\ q.kind = r.kind
             /\ q.ask.threat = "none"
             /\ q.kind \in {"assistant", "copilot", "classify"}
             /\ q.kind # "classify" => q.scale \in Scales
<1> DEFINE q == [r EXCEPT !.inside = "none"]
<1>1. /\ q \in Record /\ q.kind = r.kind /\ q.ask = r.ask /\ q.scale = r.scale
      /\ q.inside = "none" /\ q.text = r.text /\ q.cites = r.cites
  BY DEF Good, Record
<1> HIDE DEF q
<1>2. /\ r.kind \in {"assistant", "copilot", "classify"} /\ r.text = "none"
      /\ r.cites = {} /\ r.ask.threat = "none"
      /\ r.kind # "classify" => r.scale \in Scales
  BY DEF Good, AtStep, Safe, Complete
<1> QED BY <1>1, <1>2 DEF Running, q

LEMMA ArriveInv ==
  ASSUME JobsInv, NEW j \in Jobs, NEW k \in KindsOf[j], NEW q \in Requests,
         Arrive(j, k, q)
  PROVE  JobsInv'
<1> DEFINE r == [job[j] EXCEPT !.kind = k, !.ask = q]
<1>1. k \in JobKinds /\ q \in Asks
  BY AnswersAssumption DEF Asks
<1>2. job[j] \in Record /\ job[j].inside = "none" /\ job[j].text = "none"
      /\ job[j].cites = {} /\ job[j].groups = {}
  BY DEF JobsInv, Good, Arrive, AtStep, Embeds, Record
<1>3. r \in Record /\ r.kind = k /\ r.ask = q /\ r.inside = "none"
      /\ r.text = "none" /\ r.cites = {} /\ r.groups = {}
  BY <1>1, <1>2 DEF Record
<1>4. job' = [job EXCEPT ![j] = Opening(r)]
  BY DEF Arrive, JobsInv
<1> HIDE DEF r
<1>5. Running(r)
  BY <1>1, <1>3 DEF Running
<1>6. Result(Opening(r), r)
  BY <1>3, <1>5, OpeningResult
<1>7. cache' = cache /\ loaded' = loaded /\ (cache # {} => cache = Articles)
  BY DEF Arrive, modelVars, JobsInv
<1> QED BY <1>3, <1>4, <1>6, <1>7, JobMoves DEF Result

LEMMA NoEmbeddingInv ==
  ASSUME JobsInv, NEW j \in Jobs, NoEmbedding(j)
  PROVE  JobsInv'
<1>1. PICK s \in Embedded(job[j], "fallback") : job' = [job EXCEPT ![j] = s]
  BY DEF NoEmbedding
<1>2. Good(job[j]) /\ job[j].pc \in Embeds
  BY DEF JobsInv, NoEmbedding
<1>3. /\ Good(s) /\ s.inside = "none" /\ s.kind = job[j].kind
      /\ s.ask = job[j].ask /\ (s.pc = "query" => cache # {})
  BY <1>1, <1>2, EmbeddedResult DEF Scales
<1>4. cache' = cache /\ loaded' = loaded /\ (cache # {} => cache = Articles)
  BY DEF NoEmbedding, modelVars, JobsInv
<1> QED BY <1>1, <1>3, <1>4, JobMoves DEF JobsInv

LEMMA EmbedRaisesInv ==
  ASSUME JobsInv, NEW j \in Jobs, EmbedRaises(j)
  PROVE  JobsInv'
<1>1. PICK s \in Embedded(job[j], "fallback") : job' = [job EXCEPT ![j] = s]
  BY DEF EmbedRaises
<1>2. Good(job[j]) /\ job[j].pc \in Embeds
  BY DEF JobsInv, EmbedRaises, Good, AtStep
<1>3. /\ Good(s) /\ s.inside = "none" /\ s.kind = job[j].kind
      /\ s.ask = job[j].ask /\ (s.pc = "query" => cache # {})
  BY <1>1, <1>2, EmbeddedResult DEF Scales
<1>4. cache' = cache /\ loaded' = loaded /\ (cache # {} => cache = Articles)
  BY DEF EmbedRaises, modelVars, JobsInv
<1> QED BY <1>1, <1>3, <1>4, JobMoves DEF JobsInv

LEMMA EmbedLastInv ==
  ASSUME JobsInv, NEW j \in Jobs, EmbedLast(j)
  PROVE  JobsInv'
<1>1. PICK s \in Embedded(job[j], "local") : job' = [job EXCEPT ![j] = s]
  BY DEF EmbedLast
<1>2. /\ Good(job[j]) /\ job[j].pc \in Embeds
      /\ job[j].pc = "query" => cache = Articles
  BY DEF JobsInv, EmbedLast, Good, AtStep
<1>3. /\ Good(s) /\ s.inside = "none" /\ s.kind = job[j].kind
      /\ s.ask = job[j].ask
      /\ s.pc = "query" => cache # {} \/ job[j].pc = "articles"
  BY <1>1, <1>2, EmbeddedResult DEF Scales
<1>4. /\ loaded' = loaded /\ (cache # {} => cache = Articles)
      /\ cache' = IF job[j].pc = "articles" THEN Articles ELSE cache
  BY DEF EmbedLast, modelVars, JobsInv
<1>5. s.pc = "query" => cache' = Articles
  BY <1>3, <1>4
<1>6. cache' = cache \/ cache' = Articles
  BY <1>4
<1> QED BY <1>1, <1>3, <1>4, <1>5, <1>6, JobMoves DEF JobsInv

\* Taking and giving back a model changes nothing the handler looks at.
Holding(r, m, n) == [r EXCEPT !.inside = m, !.left = n]

LEMMA SameHandler ==
  ASSUME NEW r, Good(r), NEW m \in {"none", "embed", "chat"}, NEW n \in Nat,
         n > 0 <=> r.pc \in Embeds,
         m = "embed" => r.pc \in Embeds, m = "chat" => r.pc = "generate"
  PROVE  /\ Good(Holding(r, m, n)) /\ Holding(r, m, n).inside = m
         /\ Holding(r, m, n).pc = r.pc
         /\ Holding(r, m, n).kind = r.kind /\ Holding(r, m, n).ask = r.ask
<1> DEFINE s == Holding(r, m, n)
<1>1. s \in Record
  BY DEF Good, Record, Holding
<1>2. /\ s.inside = m /\ s.left = n /\ s.pc = r.pc /\ s.kind = r.kind
      /\ s.ask = r.ask /\ s.text = r.text /\ s.cites = r.cites
      /\ s.draft = r.draft /\ s.hits = r.hits /\ s.scale = r.scale
      /\ s.match = r.match /\ s.groups = r.groups
  BY DEF Good, Record, Holding
<1> HIDE DEF s
<1>3. AtStep(s)
  BY <1>2 DEF Good, AtStep
<1>4. Safe(s)
  BY <1>2 DEF Good, Safe
<1>5. Justified(s)
  BY <1>2 DEF Good, Justified
<1>6. Complete(s) /\ Grouped(s)
  BY <1>2 DEF Good, Complete, Grouped
<1> QED BY <1>1, <1>2, <1>3, <1>4, <1>5, <1>6 DEF Good, s

LEMMA TakeEmbedInv ==
  ASSUME JobsInv, NEW j \in Jobs, TakeEmbed(j)
  PROVE  JobsInv'
<1> DEFINE r == job[j]
           s == Holding(r, "embed", r.left)
<1>1. Good(r) /\ r \in Record /\ r.pc \in Embeds
  BY DEF JobsInv, TakeEmbed
<1>2. r.left \in Nat /\ (r.left > 0 <=> r.pc \in Embeds)
  BY <1>1 DEF Good, AtStep, Record
<1>3. /\ Good(s) /\ s.inside = "embed" /\ s.pc = r.pc
      /\ s.kind = r.kind /\ s.ask = r.ask
  BY <1>1, <1>2, SameHandler
<1>4. job' = [job EXCEPT ![j] = s]
  <2>1. s = [r EXCEPT !.inside = "embed"]
    BY <1>1 DEF Record, Holding
  <2> QED BY <2>1 DEF TakeEmbed
<1>5. /\ cache' = cache /\ loaded' = loaded
      /\ \A k \in Jobs : job[k].inside # "embed"
      /\ "embed" \in loaded
  BY DEF TakeEmbed, modelVars, Unlocked
<1> HIDE DEF s
<1> QED BY <1>3, <1>4, <1>5, JobMoves DEF JobsInv

LEMMA TakeChatInv ==
  ASSUME JobsInv, NEW j \in Jobs, TakeChat(j)
  PROVE  JobsInv'
<1> DEFINE r == job[j]
           s == Holding(r, "chat", r.left)
<1>1. Good(r) /\ r \in Record /\ r.pc = "generate"
  BY DEF JobsInv, TakeChat
<1>2. r.left \in Nat /\ (r.left > 0 <=> r.pc \in Embeds)
  BY <1>1 DEF Good, AtStep, Record
<1>3. /\ Good(s) /\ s.inside = "chat" /\ s.pc = r.pc
      /\ s.kind = r.kind /\ s.ask = r.ask
  BY <1>1, <1>2, SameHandler
<1>4. job' = [job EXCEPT ![j] = s]
  <2>1. s = [r EXCEPT !.inside = "chat"]
    BY <1>1 DEF Record, Holding
  <2> QED BY <2>1 DEF TakeChat
<1>5. /\ cache' = cache /\ loaded' = loaded
      /\ \A k \in Jobs : job[k].inside # "chat"
      /\ "chat" \in loaded
  BY DEF TakeChat, modelVars, Unlocked
<1> HIDE DEF s
<1> QED BY <1>1, <1>3, <1>4, <1>5, JobMoves DEF JobsInv

LEMMA EmbedTextInv ==
  ASSUME JobsInv, NEW j \in Jobs, EmbedText(j)
  PROVE  JobsInv'
<1> DEFINE r == job[j]
           s == Holding(r, "none", r.left - 1)
<1>1. Good(r) /\ r \in Record /\ r.left > 1
  BY DEF JobsInv, EmbedText, TextDone
<1>2. r.left - 1 \in Nat /\ r.left - 1 > 0 /\ r.pc \in Embeds
  BY <1>1 DEF Good, AtStep, Record
<1>3. /\ Good(s) /\ s.inside = "none" /\ s.pc = r.pc
      /\ s.kind = r.kind /\ s.ask = r.ask
  BY <1>1, <1>2, SameHandler
<1>4. job' = [job EXCEPT ![j] = s]
  BY DEF EmbedText, TextDone, Holding
<1>5. cache' = cache /\ loaded' = loaded
  BY DEF EmbedText, TextDone, modelVars
<1> HIDE DEF s
<1> QED BY <1>3, <1>4, <1>5, JobMoves DEF JobsInv

LEMMA NoChatInv ==
  ASSUME JobsInv, NEW j \in Jobs, NoChat(j)
  PROVE  JobsInv'
<1>1. PICK s \in WithoutDraft(job[j]) : job' = [job EXCEPT ![j] = s]
  BY DEF NoChat
<1>2. /\ Good(job[j]) /\ job[j].pc = "generate" /\ job[j].inside = "none"
      /\ job[j] \in Record
  BY DEF JobsInv, NoChat
<1>3. job[j] = [job[j] EXCEPT !.inside = "none"]
  BY <1>2 DEF Record
<1>4. Result(s, job[j])
  BY <1>1, <1>2, <1>3, AtGenerate, WithoutDraftResult
<1>5. cache' = cache /\ loaded' = loaded /\ (cache # {} => cache = Articles)
  BY DEF NoChat, modelVars, JobsInv
<1> QED BY <1>1, <1>4, <1>5, JobMoves DEF JobsInv, Result

LEMMA ChatRaisesInv ==
  ASSUME JobsInv, NEW j \in Jobs, ChatRaises(j)
  PROVE  JobsInv'
<1> DEFINE q == [job[j] EXCEPT !.inside = "none"]
<1>1. PICK s \in WithoutDraft(q) : job' = [job EXCEPT ![j] = s]
  BY DEF ChatRaises
<1>2. Good(job[j]) /\ job[j].pc = "generate"
  BY DEF JobsInv, ChatRaises, Good, AtStep
<1>3. Result(s, q) /\ q.kind = job[j].kind /\ q.ask = job[j].ask
  BY <1>1, <1>2, AtGenerate, WithoutDraftResult
<1>4. cache' = cache /\ loaded' = loaded /\ (cache # {} => cache = Articles)
  BY DEF ChatRaises, modelVars, JobsInv
<1> HIDE DEF q
<1> QED BY <1>1, <1>3, <1>4, JobMoves DEF JobsInv, Result

LEMMA ChatWritesInv ==
  ASSUME JobsInv, NEW j \in Jobs, NEW d \in Drafts, ChatWrites(j, d)
  PROVE  JobsInv'
<1> DEFINE q == [job[j] EXCEPT !.inside = "none"]
<1>1. PICK s \in AfterDraft(q, d) : job' = [job EXCEPT ![j] = s]
  BY DEF ChatWrites
<1>2. Good(job[j]) /\ job[j].pc = "generate"
  BY DEF JobsInv, ChatWrites, Good, AtStep
<1>3. Result(s, q) /\ q.kind = job[j].kind /\ q.ask = job[j].ask
  BY <1>1, <1>2, AtGenerate, AfterDraftResult
<1>4. cache' = cache /\ loaded' = loaded /\ (cache # {} => cache = Articles)
  BY DEF ChatWrites, modelVars, JobsInv
<1> HIDE DEF q
<1> QED BY <1>1, <1>3, <1>4, JobMoves DEF JobsInv, Result


LEMMA ThreadInv ==
  ASSUME JobsInv, NEW j \in Jobs, Thread(j)
  PROVE  JobsInv'
BY NoEmbeddingInv, TakeEmbedInv, EmbedTextInv, EmbedLastInv, EmbedRaisesInv,
   NoChatInv, TakeChatInv, ChatRaisesInv, ChatWritesInv DEF Thread

LEMMA CrashInv ==
  ASSUME JobsInv, Crash
  PROVE  JobsInv'
<1> DEFINE lost == Nothing("lost")
<1>1. NoRequest \in Asks /\ NoDraft \in Drafts
  BY DEF NoRequest, Asks, NoDraft, Drafts
<1>2. lost \in Record
  BY <1>1 DEF Nothing, Record, Pcs
<1>3. /\ lost.pc = "lost" /\ lost.kind = "none" /\ lost.left = 0
      /\ lost.inside = "none" /\ lost.text = "none" /\ lost.cites = {}
      /\ lost.ask = NoRequest /\ lost.ask.threat = "none"
  BY DEF Nothing, NoRequest
<1>4. /\ cache' = {}
      /\ job' = [j \in Jobs |-> IF job[j].pc \in {"new", "done"} THEN job[j] ELSE lost]
  BY DEF Crash
<1> HIDE DEF lost
<1>5. Good(lost)
  BY <1>2, <1>3 DEF Good, AtStep, Safe, Justified, Complete, Grouped, Embeds
<1>6. ASSUME NEW j \in Jobs
      PROVE  /\ Good(job'[j]) /\ job'[j].inside = "none" /\ job'[j].pc # "query"
             /\ job'[j].kind \in KindsOf[j] \cup {"none"}
             /\ job'[j].ask \in Requests \cup {NoRequest}
  <2>1. CASE job[j].pc \in {"new", "done"}
    <3>1. job'[j] = job[j]
      BY <1>4, <2>1
    <3>2. Good(job[j]) /\ job[j].inside = "none"
      BY <2>1 DEF JobsInv, Good, AtStep, Embeds, Record
    <3> QED BY <2>1, <3>1, <3>2 DEF JobsInv
  <2>2. CASE job[j].pc \notin {"new", "done"}
    <3>1. job'[j] = lost
      BY <1>4, <2>2
    <3> QED BY <1>3, <1>5, <3>1
  <2> QED BY <2>1, <2>2
<1>7. job' \in [Jobs -> Record]
  BY <1>2, <1>4 DEF JobsInv
<1>8. ModelExclusive'
  BY <1>6 DEF ModelExclusive
<1> QED BY <1>4, <1>6, <1>7, <1>8
        DEF JobsInv, Good, AtStep, Safe, Justified, Complete, Grouped

\* prepare() only adds models, so a job keeps the one it is inside.
LEMMA PrepareLeavesJobs ==
  ASSUME JobsInv, Prepare, UNCHANGED <<job, cache>>
  PROVE  JobsInv'
<1>1. loaded \subseteq loaded'
  BY DEF Prepare, Disabled, Begin, Publish, PrepareFails, HaveFile, NoFile,
         Fetch, Replace, LoadModel, Load
<1>2. ModelExclusive'
  BY <1>1 DEF JobsInv, ModelExclusive
<1> QED BY <1>2 DEF JobsInv, Good, AtStep, Safe, Justified, Complete, Grouped

LEMMA JobsUntouched ==
  ASSUME JobsInv, UNCHANGED vars
  PROVE  JobsInv'
BY DEF vars, modelVars, JobsInv, ModelExclusive, Good, AtStep, Safe, Justified,
       Complete, Grouped

LEMMA JobsInvNext == JobsInv /\ [Next]_vars => JobsInv'
BY ArriveInv, ThreadInv, CrashInv, PrepareLeavesJobs, JobsUntouched DEF Next

IInv == ModelsInv /\ JobsInv

LEMMA Inductive == Spec => []IInv
<1>1. Init => IInv
  BY ModelsInvInit, JobsInvInit DEF Init, IInv
<1>2. IInv /\ [Next]_vars => IInv'
  BY ModelsInvNext, JobsInvNext DEF IInv
<1> QED BY <1>1, <1>2, PTL DEF Spec

----------------------------------------------------------------------------
(* The theorems about jobs. *)

\* Every thread is at a step of its handler with what the step needs, through
\* all interleavings of jobs, of prepare() and of restarts.
THEOREM TypeCorrect == Spec => []TypeOK
<1>1. ASSUME IInv PROVE TypeOK
  <2>1. ModelsTypeOK /\ cache \subseteq Articles
    BY <1>1 DEF IInv, ModelsInv, JobsInv
  <2>2. ASSUME NEW j \in Jobs
        PROVE  /\ job[j] \in Record /\ AtStep(job[j])
               /\ job[j].kind \in KindsOf[j] \cup {"none"}
               /\ job[j].ask \in Requests \cup {NoRequest}
    BY <1>1 DEF IInv, JobsInv, Good
  <2>3. ASSUME NEW j \in Jobs
        PROVE  job[j].inside \in {"none"} \cup
                 (CASE job[j].pc \in Embeds -> {"embed"}
                    [] job[j].pc = "generate" -> {"chat"}
                    [] OTHER -> {})
    BY <2>2 DEF Record, AtStep, Embeds
  <2> QED BY <2>1, <2>2, <2>3 DEF TypeOK, Record, AtStep, Pcs
<1> QED BY <1>1, Inductive, PTL

\* The two locks of llm_local.py keep every model instance to one thread, and
\* the model is there as long as the thread is inside.
THEOREM LocksExclude == Spec => []ModelExclusive
<1>1. IInv => ModelExclusive
  BY DEF IInv, JobsInv
<1> QED BY <1>1, Inductive, PTL

\* No path of a handler leads a request with a threat to the chat model or
\* to an answer made for somebody else.
THEOREM ThreatsNeverAnswered == Spec => []ThreatsStayOut
<1>1. ASSUME IInv PROVE ThreatsStayOut
  <2>1. \A j \in Jobs : AtStep(job[j]) /\ Safe(job[j])
    BY <1>1 DEF IInv, JobsInv, Good
  <2> QED BY <2>1 DEF ThreatsStayOut, AtStep, Safe, Helpful
<1> QED BY <1>1, Inductive, PTL

\* Nothing is shown that the retrieved articles, or a past resolution over its
\* bar, do not justify, whatever the models write.
THEOREM AnswersGrounded == Spec => []Grounded
<1>1. ASSUME IInv PROVE Grounded
  <2>1. \A j \in Jobs : Justified(job[j])
    BY <1>1 DEF IInv, JobsInv, Good
  <2> QED BY <2>1 DEF Grounded, Justified
<1> QED BY <1>1, Inductive, PTL

\* Whoever fills the cache and whenever embedding fails, a completion works
\* from the best articles of the whole knowledge base.
THEOREM RetrievalIsComplete == Spec => []RetrievalComplete
<1>1. ASSUME IInv PROVE RetrievalComplete
  <2>1. \A j \in Jobs : Complete(job[j])
    BY <1>1 DEF IInv, JobsInv, Good
  <2> QED BY <2>1 DEF RetrievalComplete, Complete
<1> QED BY <1>1, Inductive, PTL

\* Whatever their order, the reports of an incident hang together by similar
\* ones, and no two incidents are similar throughout.
THEOREM IncidentsCohesive == Spec => []GroupsSound
<1>1. ASSUME IInv PROVE GroupsSound
  <2>1. \A j \in Jobs : Grouped(job[j])
    BY <1>1 DEF IInv, JobsInv, Good
  <2> QED BY <2>1 DEF GroupsSound, Grouped, Cohesive, Similar
<1> QED BY <1>1, Inductive, PTL

----------------------------------------------------------------------------
(* Part 4: how far each job is, and that it never goes back. *)

Stage(r) ==
  CASE r.pc = "new" -> 5
    [] r.pc \in {"memory", "batch"} -> 4
    [] r.pc = "articles" -> 3
    [] r.pc = "query" -> 2
    [] r.pc = "generate" -> 1
    [] OTHER -> 0

\* From r to s a job reaches a later stage, has one text less to embed, or
\* has taken the lock of the model it needs.
Ahead(r, s) ==
  \/ Stage(s) < Stage(r)
  \/ s.pc = r.pc /\ s.left < r.left
  \/ s.pc = r.pc /\ s.left = r.left /\ r.inside = "none" /\ s.inside # "none"

\* Every step of a thread takes its job forward, and no step of anybody puts
\* a job back: a failing model or an empty cache never starts a stage again.
JobsAdvance ==
  [][\A j \in Jobs : /\ Thread(j) => Ahead(job[j], job'[j])
                     /\ job'[j] # job[j] => Ahead(job[j], job'[j])]_vars

LEMMA StageRange == \A r : Stage(r) \in 0 .. 5
BY DEF Stage

LEMMA WhereTo ==
  ASSUME NEW r \in Record
  PROVE  /\ \A at : Goto(r, at).pc = at
         /\ \A text, C, M : End(r, text, C, M).pc = "done"
BY DEF Goto, End, Record

LEMMA OpeningStage ==
  ASSUME NEW r \in Record, r.kind # "none"
  PROVE  Stage(Opening(r)) < 5 /\ Opening(r).pc # "lost"
<1> DEFINE Ended == {"new", "lost"}
<1>1. r.kind \in JobKinds
  BY DEF Record
<1>2. Retrieve(r).pc \in {"articles", "query"}
  BY WhereTo DEF Retrieve
<1>3. \A o : o.pc \notin Ended => Recall(r, o).pc \notin Ended
  BY WhereTo DEF Recall
<1>4. \A text, o : o.pc \notin Ended => Deflect(r, text, o).pc \notin Ended
  BY WhereTo DEF Deflect
<1>5. Opening(r).pc \notin Ended
  <2>1. CASE r.kind = "classify"
    BY <1>4, <2>1, WhereTo DEF Opening, Classify
  <2>2. CASE r.kind = "copilot"
    BY <1>2, <1>4, <2>2 DEF Opening, Assist
  <2>3. CASE r.kind = "assistant"
    <3>1. Recall(r, Retrieve(r)).pc \notin Ended
      BY <1>2, <1>3
    <3> QED BY <1>4, <2>3, <3>1, WhereTo DEF Opening, Answer
  <2>4. CASE r.kind = "auto_resolve"
    <3>1. Recall(r, End(r, "unresolved", {}, {})).pc \notin Ended
      BY <1>3, WhereTo
    <3> QED BY <1>4, <2>4, <3>1 DEF Opening, AutoResolve
  <2>5. CASE r.kind = "duplicates"
    BY <1>3, <2>5, WhereTo DEF Opening, Find
  <2>6. CASE r.kind = "cluster"
    BY <2>6, WhereTo DEF Opening, Cluster
  <2> QED BY <1>1, <2>1, <2>2, <2>3, <2>4, <2>5, <2>6
<1> QED BY <1>5 DEF Stage

LEMMA MemoryStage ==
  ASSUME NEW r \in Record, r.kind \in {"auto_resolve", "assistant", "duplicates"},
         NEW s \in AfterMemory(r)
  PROVE  s.pc \in {"articles", "query", "done"}
<1>1. Retrieve(r).pc \in {"articles", "query"}
  BY WhereTo DEF Retrieve
<1>2. \A t : /\ FromMemory(r, t).pc \in {"articles", "query", "done"}
             /\ Repeats(r, t).pc = "done"
  BY <1>1, WhereTo DEF FromMemory, Repeats
<1>3. ASSUME NEW x \in Ranked(r) PROVE x.pc = "done"
  <2>1. \E found : x = End(r, "matches", {}, found)
    BY DEF Ranked
  <2> QED BY <2>1, WhereTo
<1> QED BY <1>2, <1>3 DEF AfterMemory

LEMMA QueryStage ==
  ASSUME NEW r \in Record, NEW s \in AfterQuery(r)
  PROVE  s.pc \in {"generate", "done"}
<1> DEFINE known == IF r.scale = "local" THEN cache ELSE Articles
           hits == { a \in known : Score[r.scale][a] >= KbMin[r.scale] }
<1>1. s \in (IF hits # {}
             THEN { Goto([r EXCEPT !.hits = top], "generate") :
                      top \in Tops(hits, Score[r.scale], TopK) }
             ELSE { IF r.kind = "copilot" THEN Template(r) ELSE NoAnswer(r) })
  BY DEF AfterQuery
<1>2. Template(r).pc = "done" /\ NoAnswer(r).pc = "done"
  BY WhereTo DEF Template, NoAnswer
<1>3. \A top : Goto([r EXCEPT !.hits = top], "generate").pc = "generate"
  BY DEF Goto, Record
<1> HIDE DEF hits
<1> QED BY <1>1, <1>2, <1>3

LEMMA DraftStage ==
  ASSUME NEW r \in Record, r.kind \in {"assistant", "copilot", "classify"}
  PROVE  /\ \A s \in WithoutDraft(r) : s.pc = "done"
         /\ \A d : \A s \in AfterDraft(r, d) : s.pc = "done"
<1>1. ASSUME NEW s \in WithoutDraft(r) PROVE s.pc = "done"
  <2>1. \E text, C : s = End(r, text, C, {})
    BY DEF WithoutDraft, Keywords, Template, TopArticle
  <2> QED BY <2>1, WhereTo
<1>2. \A d : Label(r, d).pc = "done" /\ Draft(r, d).pc = "done"
  BY WhereTo DEF Label, Draft, End, Record
<1> QED BY <1>1, <1>2 DEF AfterDraft

LEMMA EmbeddedStage ==
  ASSUME NEW r, Good(r), r.pc \in Embeds, NEW scale \in Scales,
         NEW s \in Embedded(r, scale)
  PROVE  Stage(s) < Stage(r) /\ s.pc # "lost"
<1> DEFINE q == [r EXCEPT !.inside = "none", !.left = 0, !.scale = scale]
<1>1. q \in Record /\ q.kind = r.kind
  BY DEF Good, Record, Scales
<1>2. s \in (CASE r.pc = "memory" -> AfterMemory(q)
               [] r.pc = "batch" -> Clustered(q)
               [] r.pc = "articles" /\ scale = "local" -> { Goto(q, "query") }
               [] OTHER -> AfterQuery(q))
  BY DEF Embedded
<1> HIDE DEF q
<1>3. CASE r.pc = "memory"
  <2>1. s.pc \in {"articles", "query", "done"}
    BY <1>1, <1>2, <1>3, MemoryStage DEF Good, AtStep
  <2> QED BY <1>3, <2>1 DEF Stage
<1>4. CASE r.pc = "batch"
  <2>1. s \in Clustered(q)
    BY <1>2, <1>4
  <2>2. s.pc = "done"
    BY <1>1, <2>1 DEF Clustered, End, Record
  <2> QED BY <1>4, <2>2 DEF Stage
<1>5. CASE r.pc = "articles" /\ scale = "local"
  <2>1. s.pc = "query"
    BY <1>1, <1>2, <1>5, WhereTo
  <2> QED BY <1>5, <2>1 DEF Stage
<1>6. CASE r.pc \in {"articles", "query"} /\ ~(r.pc = "articles" /\ scale = "local")
  <2>1. s.pc \in {"generate", "done"}
    BY <1>1, <1>2, <1>6, QueryStage
  <2> QED BY <1>6, <2>1 DEF Stage
<1> QED BY <1>3, <1>4, <1>5, <1>6 DEF Embeds

LEMMA ThreadAdvances ==
  ASSUME JobsInv, NEW j \in Jobs, Thread(j)
  PROVE  /\ Ahead(job[j], job'[j]) /\ job'[j].pc # "lost"
         /\ \A k \in Jobs \ {j} : job'[k] = job[k]
<1> DEFINE r == job[j]
<1>1. /\ job \in [Jobs -> Record] /\ Good(r) /\ r \in Record
      /\ r.left \in Nat /\ AtStep(r)
  BY DEF JobsInv, Good, Record
<1>2. ASSUME NEW s, job' = [job EXCEPT ![j] = s], Ahead(r, s), s.pc # "lost"
      PROVE  /\ Ahead(job[j], job'[j]) /\ job'[j].pc # "lost"
             /\ \A k \in Jobs \ {j} : job'[k] = job[k]
  BY <1>1, <1>2
<1>3. ASSUME r.pc \in Embeds, NEW scale \in Scales, NEW s \in Embedded(r, scale)
      PROVE  Ahead(r, s) /\ s.pc # "lost"
  BY <1>1, <1>3, EmbeddedStage DEF Ahead
<1>4. CASE NoEmbedding(j) \/ EmbedRaises(j) \/ EmbedLast(j)
  <2>1. r.pc \in Embeds
    BY <1>1, <1>4 DEF NoEmbedding, EmbedRaises, EmbedLast, AtStep
  <2>2. PICK scale \in Scales :
          \E s \in Embedded(r, scale) : job' = [job EXCEPT ![j] = s]
    BY <1>4 DEF NoEmbedding, EmbedRaises, EmbedLast, Scales
  <2> QED BY <1>2, <1>3, <2>1, <2>2
<1>5. CASE TakeEmbed(j) \/ TakeChat(j)
  <2>1. PICK m \in {"embed", "chat"} : job' = [job EXCEPT ![j].inside = m]
    BY <1>5 DEF TakeEmbed, TakeChat
  <2>2. r.inside = "none" /\ r.pc # "lost"
    BY <1>5 DEF TakeEmbed, TakeChat, Embeds
  <2> DEFINE s == [r EXCEPT !.inside = m]
  <2>3. s.pc = r.pc /\ s.left = r.left /\ s.inside = m
    BY <1>1 DEF Record
  <2>4. job' = [job EXCEPT ![j] = s]
    BY <2>1
  <2> HIDE DEF s
  <2>5. Ahead(r, s)
    BY <2>2, <2>3 DEF Ahead
  <2> QED BY <1>2, <2>2, <2>3, <2>4, <2>5
<1>6. CASE EmbedText(j)
  <2> DEFINE s == [r EXCEPT !.inside = "none", !.left = @ - 1]
  <2>1. s.pc = r.pc /\ s.left = r.left - 1 /\ r.pc # "lost"
    BY <1>1, <1>6 DEF Record, EmbedText, TextDone, AtStep, Embeds
  <2>2. job' = [job EXCEPT ![j] = s]
    BY <1>6 DEF EmbedText, TextDone
  <2> HIDE DEF s
  <2>3. Ahead(r, s)
    BY <1>1, <2>1 DEF Ahead
  <2> QED BY <1>2, <2>1, <2>2, <2>3
<1>7. CASE NoChat(j) \/ ChatRaises(j) \/ \E d \in Drafts : ChatWrites(j, d)
  <2> DEFINE q == [r EXCEPT !.inside = "none"]
  <2>1. r.pc = "generate" /\ r.kind \in {"assistant", "copilot", "classify"}
    BY <1>1, <1>7 DEF NoChat, ChatRaises, ChatWrites, AtStep
  <2>2. q \in Record /\ q.kind = r.kind
    BY <1>1 DEF Record
  <2>3. \E s : /\ job' = [job EXCEPT ![j] = s]
               /\ \/ s \in WithoutDraft(r) \/ s \in WithoutDraft(q)
                  \/ \E d : s \in AfterDraft(q, d)
    BY <1>7 DEF NoChat, ChatRaises, ChatWrites
  <2> HIDE DEF q
  <2>4. PICK s : job' = [job EXCEPT ![j] = s] /\ s.pc = "done"
    BY <1>1, <2>1, <2>2, <2>3, DraftStage
  <2>5. Ahead(r, s)
    BY <2>1, <2>4 DEF Ahead, Stage
  <2> QED BY <1>2, <2>4, <2>5
<1> QED BY <1>4, <1>5, <1>6, <1>7 DEF Thread

LEMMA ArriveAdvances ==
  ASSUME JobsInv, NEW j \in Jobs, NEW k \in KindsOf[j], NEW q \in Requests,
         Arrive(j, k, q)
  PROVE  /\ Ahead(job[j], job'[j]) /\ job'[j].pc # "lost"
         /\ \A i \in Jobs \ {j} : job'[i] = job[i]
<1> DEFINE r == [job[j] EXCEPT !.kind = k, !.ask = q]
<1>1. k \in JobKinds /\ q \in Asks
  BY AnswersAssumption DEF Asks
<1>2. job \in [Jobs -> Record] /\ job[j].pc = "new" /\ job[j] \in Record
  BY DEF JobsInv, Arrive
<1>3. r \in Record /\ r.kind = k
  BY <1>1, <1>2 DEF Record
<1>4. job' = [job EXCEPT ![j] = Opening(r)]
  BY DEF Arrive
<1> HIDE DEF r
<1>5. Stage(Opening(r)) < 5 /\ Opening(r).pc # "lost"
  BY <1>1, <1>3, OpeningStage
<1>6. job'[j] = Opening(r) /\ \A i \in Jobs \ {j} : job'[i] = job[i]
  BY <1>2, <1>4
<1>7. Stage(job[j]) = 5
  BY <1>2 DEF Stage
<1> QED BY <1>5, <1>6, <1>7 DEF Ahead

\* A crash takes what runs to its end; what it lost before stays lost.
LostAsIs == \A j \in Jobs : job[j].pc = "lost" => job[j] = Nothing("lost")

LEMMA CrashAdvances ==
  ASSUME JobsInv, LostAsIs, Crash, NEW j \in Jobs
  PROVE  job'[j] = job[j] \/ Ahead(job[j], job'[j])
<1>1. job'[j] = IF job[j].pc \in {"new", "done"} THEN job[j] ELSE Nothing("lost")
  BY DEF Crash
<1>2. CASE job[j].pc \in {"new", "done", "lost"}
  BY <1>1, <1>2 DEF LostAsIs
<1>3. CASE job[j].pc \notin {"new", "done", "lost"}
  <2>1. job'[j].pc = "lost"
    BY <1>1, <1>3 DEF Nothing
  <2>2. job[j].pc \in {"memory", "batch", "articles", "query", "generate"}
    BY <1>3 DEF JobsInv, Good, Record, Pcs, Embeds
  <2> QED BY <2>1, <2>2 DEF Ahead, Stage
<1> QED BY <1>2, <1>3

LEMMA NextAdvances ==
  ASSUME JobsInv, LostAsIs, Next, NEW j \in Jobs
  PROVE  job'[j] = job[j] \/ Ahead(job[j], job'[j])
BY ThreadAdvances, ArriveAdvances, CrashAdvances DEF Next

\* Nobody but a crash loses a job, and nothing happens to a lost one.
LEMMA LostNext ==
  ASSUME JobsInv, LostAsIs, [Next]_vars
  PROVE  LostAsIs'
<1>1. CASE UNCHANGED vars
  BY <1>1 DEF vars, LostAsIs
<1>2. CASE Crash
  BY <1>2 DEF Crash, LostAsIs
<1>3. CASE Next /\ ~Crash
  <2>1. ASSUME NEW j \in Jobs
        PROVE  job'[j] = job[j] \/ job'[j].pc # "lost"
    BY <1>3, ThreadAdvances, ArriveAdvances DEF Next
  <2> QED BY <2>1 DEF LostAsIs
<1> QED BY <1>1, <1>2, <1>3

\* Whatever the models do, however the cache is filled and whenever the
\* service restarts, a job has a bounded number of steps: there is no step
\* that takes it back or repeats what it has done.
THEOREM JobsTerminate == Spec => JobsAdvance
<1>1. Init => LostAsIs
  BY DEF Init, LostAsIs, Nothing
<1>2. IInv /\ LostAsIs /\ [Next]_vars => LostAsIs'
  BY LostNext DEF IInv
<1>3. Spec => []LostAsIs
  BY <1>1, <1>2, Inductive, PTL DEF Spec
<1>4. ASSUME IInv, LostAsIs, Next, NEW j \in Jobs
      PROVE  /\ Thread(j) => Ahead(job[j], job'[j])
             /\ job'[j] # job[j] => Ahead(job[j], job'[j])
  BY <1>4, ThreadAdvances, NextAdvances DEF IInv
<1> DEFINE Moves == \A j \in Jobs : /\ Thread(j) => Ahead(job[j], job'[j])
                                    /\ job'[j] # job[j] => Ahead(job[j], job'[j])
<1>5. IInv /\ LostAsIs /\ [Next]_vars => [Moves]_vars
  BY <1>4
<1> QED BY <1>3, <1>5, Inductive, PTL DEF Spec, JobsAdvance

----------------------------------------------------------------------------
(* Part 5: whatever the models do, the handler knows how to go on. *)

LEMMA MostExists ==
  ASSUME NEW n \in Nat, NEW T \in SUBSET (0 .. n), T # {}
  PROVE  \E m \in T : \A k \in T : k <= m
<1> DEFINE U == { n - k : k \in T }
<1>1. \A k \in T : k \in 0 .. n /\ n - k \in Nat
  OBVIOUS
<1>2. U \in SUBSET Nat /\ U # {}
  BY <1>1
<1>3. PICK u \in U : \A v \in U : u <= v
  BY <1>2, LeastExists
<1>4. PICK m \in T : u = n - m
  BY <1>3
<1>5. \A k \in T : n - m <= n - k
  BY <1>3, <1>4
<1> QED BY <1>1, <1>4, <1>5

\* A list can always be sorted and cut.
LEMMA TopsExist ==
  ASSUME NEW S, IsFiniteSet(S), NEW score, \A x \in S : score[x] \in 0 .. 100,
         NEW n \in Nat
  PROVE  Tops(S, score, n) # {}
<1> DEFINE Leads(T) == /\ T \in SUBSET S /\ Cardinality(T) <= n
                       /\ \A x \in T, y \in S \ T : score[x] >= score[y]
           sizes == { k \in 0 .. n : \E T : Leads(T) /\ Cardinality(T) = k }
<1>1. \A T \in SUBSET S : IsFiniteSet(T) /\ Cardinality(T) \in Nat
  BY FS_Subset, FS_CardinalityType
<1>2. 0 \in sizes
  <2>1. Leads({}) /\ Cardinality({}) = 0
    BY FS_EmptySet
  <2> QED BY <2>1
<1>3. PICK m \in sizes : \A k \in sizes : k <= m
  <2>1. sizes \in SUBSET (0 .. n) /\ sizes # {}
    BY <1>2
  <2> HIDE DEF sizes
  <2> QED BY <2>1, MostExists
<1>4. PICK T : Leads(T) /\ Cardinality(T) = m
  BY <1>3
<1>5. ASSUME T # S, m # n PROVE FALSE
  <2>1. m \in 0 .. n - 1 /\ T \in SUBSET S /\ S \ T # {}
    BY <1>3, <1>4, <1>5
  <2> DEFINE rest == { score[y] : y \in S \ T }
  <2>2. rest \in SUBSET (0 .. 100) /\ rest # {}
    BY <2>1
  <2>3. PICK s \in rest : \A v \in rest : v <= s
    <3> HIDE DEF rest
    <3> QED BY <2>2, GreatestExists
  <2>4. PICK y \in S \ T : score[y] = s
    BY <2>3
  <2>5. \A z \in S \ T : score[z] <= score[y]
    BY <2>3, <2>4
  <2> DEFINE U == T \cup {y}
  <2>6. Cardinality(U) = m + 1
    BY <1>1, <1>4, <2>1, <2>4, FS_AddElement
  <2>7. \A x \in U, z \in S \ U : score[x] >= score[z]
    BY <1>4, <2>5
  <2>8. Leads(U)
    BY <2>1, <2>4, <2>6, <2>7
  <2>9. m + 1 \in sizes
    BY <2>1, <2>6, <2>8
  <2> QED BY <1>3, <2>1, <2>9
<1>6. T \in Tops(S, score, n)
  BY <1>4, <1>5 DEF Tops
<1> QED BY <1>6

LEMMA TopNotEmpty ==
  ASSUME NEW S, S # {}, NEW score, NEW n \in Nat \ {0},
         NEW T \in Tops(S, score, n)
  PROVE  T # {}
BY FS_EmptySet DEF Tops

LEMMA BestExists ==
  ASSUME NEW S, IsFiniteSet(S), S # {}, NEW score,
         \A x \in S : score[x] \in 0 .. 100
  PROVE  Best(S, score) # {}
<1>1. PICK T : T \in Tops(S, score, 1)
  BY TopsExist
<1>2. T # {}
  BY <1>1, TopNotEmpty
<1> QED BY <1>1, <1>2 DEF Best

\* Single linkage always ends with a grouping.  First, the parts of Placed.
Before(D, at, x) == { y \in D : at[y] < at[x] }
OpenedEarlier(D, C, at) == \E y \in D : \A z \in C : at[y] < at[z]
Pull(x, D, at, near) == Like(x, Before(D, at, x), near)

LEMMA JoinableIs ==
  ASSUME NEW x, NEW P, NEW at, NEW near, NEW bar, NEW D
  PROVE  D \in Joinable(x, P, at, near, bar) <=>
           D \in P /\ Before(D, at, x) # {} /\ Pull(x, D, at, near) >= bar
BY DEF Joinable, Before, Pull

LEMMA PlacedIs ==
  ASSUME NEW x, NEW C, NEW P, NEW at, NEW near, NEW bar
  PROVE  Placed(x, C, P, at, near, bar) <=>
           \/ Joinable(x, P, at, near, bar) = {} /\ Before(C, at, x) = {}
           \/ /\ C \in Joinable(x, P, at, near, bar)
              /\ \A D \in Joinable(x, P, at, near, bar) \ {C} :
                   \/ Pull(x, D, at, near) < Pull(x, C, at, near)
                   \/ /\ Pull(x, D, at, near) = Pull(x, C, at, near)
                      /\ OpenedEarlier(D, C, at)
BY DEF Placed, Before, Pull, OpenedEarlier

LEMMA OrderExists ==
  ASSUME NEW S, IsFiniteSet(S)
  PROVE  Orders(S) # {}
<1>1. PICK n \in Nat : ExistsBijection(1 .. n, S)
  BY FS_NatBijection
<1>2. Cardinality(S) = n
  BY <1>1, FS_CountingElements
<1>3. PICK f : f \in Bijection(1 .. n, S)
  BY <1>1 DEF ExistsBijection
<1> DEFINE at == [x \in S |-> CHOOSE i \in 1 .. n : f[i] = x]
<1>4. \A x \in S : at[x] \in 1 .. n /\ f[at[x]] = x
  BY <1>3 DEF Bijection, Surjection
<1>5. at \in [S -> 1 .. n]
  BY <1>4
<1> HIDE DEF at
<1>6. at \in Orders(S)
  BY <1>2, <1>4, <1>5 DEF Orders
<1> QED BY <1>6

\* The groups made of the first k items.
Grown(P, k, S, at, near, bar) ==
  /\ P \in SUBSET ((SUBSET S) \ {{}})
  /\ UNION P = { x \in S : at[x] <= k }
  /\ \A C, D \in P : C = D \/ C \cap D = {}
  /\ \A C \in P : \A x \in C : Placed(x, C, P, at, near, bar)

\* Of the groups an item may join, one wins: the most alike, and of those
\* the one opened last.
Wins(x, C, F, at, near) ==
  \A D \in F \ {C} :
    \/ Like(x, D, near) < Like(x, C, near)
    \/ /\ Like(x, D, near) = Like(x, C, near)
       /\ OpenedEarlier(D, C, at)
Parts(S, F) == /\ F \in SUBSET ((SUBSET S) \ {{}})
               /\ \A C, D \in F : C = D \/ C \cap D = {}

LEMMA WinnerExists ==
  ASSUME NEW S \in SUBSET Tickets, NEW near \in [SUBSET Tickets -> 0 .. 100],
         NEW at \in Orders(S), IsFiniteSet(S), NEW x \in S,
         NEW F, F # {}, Parts(S, F)
  PROVE  \E C \in F : Wins(x, C, F, at, near)
<1>0. /\ F \in SUBSET ((SUBSET S) \ {{}})
      /\ \A C, D \in F : C = D \/ C \cap D = {}
  BY DEF Parts
<1>1. \A D \in F : Like(x, D, near) \in 0 .. 100
  <2>1. ASSUME NEW D \in F PROVE Like(x, D, near) \in 0 .. 100
    <3>1. D \in SUBSET Tickets /\ D # {} /\ x \in Tickets
      BY <1>0
    <3>2. \E y \in D : Like(x, D, near) = near[{x, y}]
      BY ONLY <3>1, near \in [SUBSET Tickets -> 0 .. 100], LikeIsBest
    <3>3. \A y \in D : {x, y} \in SUBSET Tickets
      BY <3>1
    <3> QED BY <3>2, <3>3
  <2> QED BY <2>1
<1> DEFINE pulls == { Like(x, D, near) : D \in F }
<1>2. PICK p \in pulls : \A q \in pulls : q <= p
  <2>1. pulls \in SUBSET (0 .. 100) /\ pulls # {}
    BY <1>1
  <2> HIDE DEF pulls
  <2> QED BY <2>1, GreatestExists
<1> DEFINE G == { D \in F : Like(x, D, near) = p }
<1>3. G # {} /\ \A D \in F \ G : Like(x, D, near) < p
  BY <1>1, <1>2
<1> HIDE DEF pulls
<1>4. \A y \in S : at[y] \in 1 .. Cardinality(S)
  BY DEF Orders
<1>5. Cardinality(S) \in Nat
  BY FS_CardinalityType
<1>6. \A D \in F : \E f \in D : \A y \in D \ {f} : at[f] < at[y]
  BY <1>0, FirstExists
<1> DEFINE First(D) == CHOOSE f \in D : \A y \in D \ {f} : at[f] < at[y]
<1>7. \A D \in F : First(D) \in D /\ \A y \in D \ {First(D)} : at[First(D)] < at[y]
  BY <1>6
<1> HIDE DEF First
<1> DEFINE opened == { at[First(D)] : D \in G }
<1>8. PICK m \in opened : \A k \in opened : k <= m
  <2>1. \A D \in G : at[First(D)] \in 0 .. Cardinality(S)
    BY <1>0, <1>4, <1>5, <1>7
  <2>2. opened \in SUBSET (0 .. Cardinality(S)) /\ opened # {}
    BY <1>3, <2>1
  <2> HIDE DEF opened, G
  <2> QED BY <1>5, <2>2, MostExists
<1>9. PICK C \in G : m = at[First(C)]
  BY <1>8
<1>10. ASSUME NEW D \in G \ {C} PROVE OpenedEarlier(D, C, at)
  <2>1. First(D) \in D /\ First(C) \in C /\ D \cap C = {}
    BY <1>0, <1>7
  <2>2. at[First(D)] # at[First(C)]
    <3>1. First(D) \in S /\ First(C) \in S /\ First(D) # First(C)
      BY <1>0, <2>1
    <3> QED BY <3>1 DEF Orders
  <2>3. at[First(D)] <= at[First(C)]
    BY <1>8, <1>9
  <2>4. \A z \in C : at[z] \in Nat /\ at[First(C)] <= at[z]
    BY <1>0, <1>4, <1>7
  <2>5. at[First(D)] \in Nat /\ at[First(C)] \in Nat
    BY <1>0, <1>4, <2>1
  <2>6. \A z \in C : at[First(D)] < at[z]
    BY <2>2, <2>3, <2>4, <2>5
  <2> QED BY <2>1, <2>6 DEF OpenedEarlier
<1>11. ASSUME NEW D \in F \ {C}
       PROVE  \/ Like(x, D, near) < Like(x, C, near)
              \/ /\ Like(x, D, near) = Like(x, C, near)
                 /\ OpenedEarlier(D, C, at)
  BY <1>3, <1>10
<1> QED BY <1>11 DEF Wins

LEMMA GrowByOne ==
  ASSUME NEW S \in SUBSET Tickets, NEW near \in [SUBSET Tickets -> 0 .. 100],
         NEW bar, NEW at \in Orders(S), IsFiniteSet(S),
         NEW k \in Nat, NEW P, Grown(P, k, S, at, near, bar)
  PROVE  \E Q : Grown(Q, k + 1, S, at, near, bar)
<1>1. \A y \in S : at[y] \in Nat
  BY DEF Orders
<1>2. /\ P \in SUBSET ((SUBSET S) \ {{}})
      /\ UNION P = { y \in S : at[y] <= k }
      /\ \A C, D \in P : C = D \/ C \cap D = {}
      /\ \A C \in P : \A y \in C : Placed(y, C, P, at, near, bar)
  BY DEF Grown
<1>3. CASE \A y \in S : at[y] # k + 1
  <2>1. { y \in S : at[y] <= k + 1 } = { y \in S : at[y] <= k }
    BY <1>1, <1>3
  <2> QED BY <2>1 DEF Grown
<1>4. ASSUME NEW x \in S, at[x] = k + 1
      PROVE  \E Q : Grown(Q, k + 1, S, at, near, bar)
  <2>1. { y \in S : at[y] <= k + 1 } = { y \in S : at[y] <= k } \cup {x}
    BY <1>1, <1>4 DEF Orders
  <2>2. \A D \in P : \A y \in D : y \in S /\ at[y] < at[x] /\ ~(at[x] < at[y])
    BY <1>1, <1>2, <1>4
  <2>3. \A D \in P : D # {} /\ Before(D, at, x) = D /\ x \notin D
    BY <1>2, <2>2 DEF Before
  <2>4. ~(at[x] < at[x])
    BY <1>1
  <2> DEFINE fits == { D \in P : Like(x, D, near) >= bar }
  <2>5. CASE fits = {}
    <3> DEFINE Q == P \cup {{x}}
    <3>2. ASSUME NEW D \in P, NEW y \in D
          PROVE  Placed(y, D, Q, at, near, bar)
      <4>1. Before({x}, at, y) = {}
        BY <2>2 DEF Before
      <4>2. \A E : E \in Joinable(y, Q, at, near, bar)
                    <=> E \in Joinable(y, P, at, near, bar)
        <5>1. \A E : E \in Q <=> E \in P \/ E = {x}
          OBVIOUS
        <5> HIDE DEF Q
        <5> QED BY <4>1, <5>1, JoinableIs
      <4>3. Placed(y, D, P, at, near, bar)
        BY <1>2
      <4> HIDE DEF Q
      <4>4. Joinable(y, Q, at, near, bar) = Joinable(y, P, at, near, bar)
        BY <4>2
      <4> QED BY <4>3, <4>4, PlacedIs
    <3>3. Placed(x, {x}, Q, at, near, bar)
      <4>1. Before({x}, at, x) = {}
        BY <2>4 DEF Before
      <4>2. \A D \in P : ~(Pull(x, D, at, near) >= bar)
        BY <2>3, <2>5 DEF Pull
      <4>3. \A E : E \notin Joinable(x, Q, at, near, bar)
        <5>1. \A E : E \in Q <=> E \in P \/ E = {x}
          OBVIOUS
        <5> HIDE DEF Q
        <5>2. \A E \in Q : Before(E, at, x) = {} \/ ~(Pull(x, E, at, near) >= bar)
          BY <4>1, <4>2, <5>1
        <5> QED BY <5>2, JoinableIs
      <4> HIDE DEF Q
      <4> QED BY <4>1, <4>3, PlacedIs
    <3>4. Q \in SUBSET ((SUBSET S) \ {{}}) /\ UNION Q = (UNION P) \cup {x}
      <4>1. {x} \in (SUBSET S) \ {{}}
        OBVIOUS
      <4>2. UNION Q = (UNION P) \cup {x}
        OBVIOUS
      <4> QED BY <1>2, <4>1, <4>2
    <3>5. \A C, D \in Q : C = D \/ C \cap D = {}
      <4>1. \A D \in P : D \cap {x} = {} /\ {x} \cap D = {}
        BY <2>3
      <4> QED BY <1>2, <4>1
    <3>6. \A C \in Q : \A y \in C : Placed(y, C, Q, at, near, bar)
      <4>1. ASSUME NEW C \in Q, NEW y \in C
            PROVE  Placed(y, C, Q, at, near, bar)
        <5>1. C \in P \/ (C = {x} /\ y = x)
          OBVIOUS
        <5> HIDE DEF Q
        <5> QED BY <3>2, <3>3, <5>1
      <4> QED BY <4>1
    <3>7. UNION Q = { y \in S : at[y] <= k + 1 }
      BY <1>2, <2>1, <3>4
    <3> HIDE DEF Q
    <3> QED BY <3>4, <3>5, <3>6, <3>7 DEF Grown
  <2>6. CASE fits # {}
    <3>1. PICK C \in fits : Wins(x, C, fits, at, near)
      <4>1. Parts(S, fits)
        BY <1>2 DEF Parts
      <4> HIDE DEF fits
      <4> QED BY <2>6, <4>1, WinnerExists
    <3> DEFINE Grow(D) == IF D = C THEN C \cup {x} ELSE D
               Q == { Grow(D) : D \in P }
    <3>2. C \in P /\ Like(x, C, near) >= bar
      BY <3>1
    <3>3. \A D \in P : \A y \in Grow(D) : y \in D \/ (y = x /\ D = C)
      OBVIOUS
    <3>4. \A D \in P : D \subseteq Grow(D) /\ Grow(D) \subseteq D \cup {x}
      OBVIOUS
    <3>5. \A D, E \in P : Grow(D) = Grow(E) => D = E
      BY <2>3, <3>2
    <3>6. ASSUME NEW D \in P, NEW E \in P, OpenedEarlier(D, E, at)
          PROVE  OpenedEarlier(Grow(D), Grow(E), at)
      <4>1. PICK y \in D : \A z \in E : at[y] < at[z]
        BY <3>6 DEF OpenedEarlier
      <4>2. \A z \in Grow(E) : at[y] < at[z]
        BY <2>2, <3>4, <4>1
      <4> HIDE DEF Grow
      <4> QED BY <3>4, <4>1, <4>2 DEF OpenedEarlier
    <3>7. ASSUME NEW y \in S, at[y] <= at[x], NEW D \in P
          PROVE  /\ Before(Grow(D), at, y) = Before(D, at, y)
                 /\ Pull(y, Grow(D), at, near) = Pull(y, D, at, near)
      <4>1. Before(Grow(D), at, y) = Before(D, at, y)
        BY <1>1, <3>4, <3>7 DEF Before
      <4> HIDE DEF Grow
      <4> QED BY <4>1 DEF Pull
    <3>8. ASSUME NEW y \in S, at[y] <= at[x]
          PROVE  Joinable(y, Q, at, near, bar) =
                   { Grow(D) : D \in Joinable(y, P, at, near, bar) }
      <4>1. ASSUME NEW D \in P
            PROVE  Grow(D) \in Joinable(y, Q, at, near, bar) <=>
                     D \in Joinable(y, P, at, near, bar)
        <5>1. Grow(D) \in Q
          OBVIOUS
        <5> HIDE DEF Grow, Q
        <5> QED BY <3>7, <3>8, <5>1, JoinableIs
      <4>2. \A E \in Joinable(y, Q, at, near, bar) : E \in Q
        BY JoinableIs
      <4>3. \A D \in Joinable(y, P, at, near, bar) : D \in P
        BY JoinableIs
      <4>4. \A E \in Q : \E D \in P : E = Grow(D)
        OBVIOUS
      <4> HIDE DEF Grow, Q
      <4> QED BY <4>1, <4>2, <4>3, <4>4
    <3> HIDE DEF Grow
    <3>9. ASSUME NEW D \in P, NEW y \in S, at[y] <= at[x],
                 \/ Joinable(y, P, at, near, bar) = {} /\ Before(D, at, y) = {}
                 \/ /\ D \in Joinable(y, P, at, near, bar)
                    /\ \A E \in Joinable(y, P, at, near, bar) \ {D} :
                         \/ Pull(y, E, at, near) < Pull(y, D, at, near)
                         \/ /\ Pull(y, E, at, near) = Pull(y, D, at, near)
                            /\ OpenedEarlier(E, D, at)
          PROVE  Placed(y, Grow(D), Q, at, near, bar)
      <4> DEFINE J == Joinable(y, P, at, near, bar)
                 K == Joinable(y, Q, at, near, bar)
      <4>1. K = { Grow(E) : E \in J }
        BY <3>8, <3>9
      <4>2. \A E \in J : E \in P
        BY JoinableIs
      <4>3. CASE J = {} /\ Before(D, at, y) = {}
        <5>1. K = {} /\ Before(Grow(D), at, y) = {}
          BY <3>7, <3>9, <4>1, <4>3
        <5> HIDE DEF Q
        <5> QED BY <5>1, PlacedIs
      <4>4. CASE /\ D \in J
                 /\ \A E \in J \ {D} :
                      \/ Pull(y, E, at, near) < Pull(y, D, at, near)
                      \/ /\ Pull(y, E, at, near) = Pull(y, D, at, near)
                         /\ OpenedEarlier(E, D, at)
        <5>1. Grow(D) \in K
          BY <4>1, <4>4
        <5>2. ASSUME NEW G \in K \ {Grow(D)}
              PROVE  \/ Pull(y, G, at, near) < Pull(y, Grow(D), at, near)
                     \/ /\ Pull(y, G, at, near) = Pull(y, Grow(D), at, near)
                        /\ OpenedEarlier(G, Grow(D), at)
          <6>1. PICK E \in J : G = Grow(E)
            BY <4>1, <5>2
          <6>2. E # D /\ E \in P
            BY <4>2, <5>2, <6>1
          <6> HIDE DEF J, K
          <6> QED BY <3>6, <3>7, <3>9, <4>4, <6>1, <6>2
        <5> HIDE DEF Q
        <5> QED BY <5>1, <5>2, PlacedIs
      <4> QED BY <3>9, <4>3, <4>4
    <3>10. ASSUME NEW D \in P, NEW y \in D
           PROVE  Placed(y, Grow(D), Q, at, near, bar)
      <4>1. y \in S /\ at[y] <= at[x]
        BY <1>1, <2>2
      <4>2. Placed(y, D, P, at, near, bar)
        BY <1>2
      <4> HIDE DEF Q
      <4> QED BY <3>9, <4>1, <4>2, PlacedIs
    <3>11. Placed(x, Grow(C), Q, at, near, bar)
      <4>1. \A D \in P : Pull(x, D, at, near) = Like(x, D, near)
        BY <2>3 DEF Pull
      <4>2. Joinable(x, P, at, near, bar) = fits
        BY <2>3, <4>1, JoinableIs
      <4>3. at[x] <= at[x]
        BY <1>1
      <4>4. \A D \in fits : D \in P
        OBVIOUS
      <4> HIDE DEF Q, fits
      <4> QED BY <3>1, <3>2, <3>9, <4>1, <4>2, <4>3, <4>4 DEF Wins
    <3>12. \A D \in Q : \A y \in D : Placed(y, D, Q, at, near, bar)
      <4>1. ASSUME NEW D \in P, NEW y \in Grow(D)
            PROVE  Placed(y, Grow(D), Q, at, near, bar)
        <5>1. y \in D \/ (y = x /\ D = C)
          BY <3>3
        <5> HIDE DEF Q
        <5> QED BY <3>10, <3>11, <5>1
      <4> QED BY <4>1
    <3>13. Q \in SUBSET ((SUBSET S) \ {{}})
      BY <1>2, <2>3, <3>4
    <3>14. UNION Q = (UNION P) \cup {x}
      <4>1. Grow(C) = C \cup {x}
        BY DEF Grow
      <4> QED BY <3>2, <3>4, <4>1
    <3>15. \A D, E \in Q : D = E \/ D \cap E = {}
      <4>1. ASSUME NEW D \in P, NEW E \in P, D # E
            PROVE  Grow(D) \cap Grow(E) = {}
        <5>1. D \cap E = {} /\ x \notin D /\ x \notin E
          BY <1>2, <2>3, <4>1
        <5> QED BY <3>3, <4>1, <5>1
      <4> QED BY <4>1
    <3> HIDE DEF Q
    <3> QED BY <1>2, <2>1, <3>12, <3>13, <3>14, <3>15 DEF Grown
  <2> QED BY <2>5, <2>6
<1> QED BY <1>3, <1>4

LEMMA GroupingsExist ==
  ASSUME NEW S \in SUBSET Tickets, NEW near \in [SUBSET Tickets -> 0 .. 100],
         NEW bar
  PROVE  Groupings(S, near, bar) # {}
<1>1. IsFiniteSet(S)
  BY AnswersAssumption, FS_Subset
<1>2. PICK at : at \in Orders(S)
  BY <1>1, OrderExists
<1>3. \A x \in S : at[x] \in 1 .. Cardinality(S)
  BY <1>2 DEF Orders
<1>4. Cardinality(S) \in Nat
  BY <1>1, FS_CardinalityType
<1> DEFINE Reached(k) == \E P : Grown(P, k, S, at, near, bar)
           stuck == { k \in Nat : ~Reached(k) }
<1>5. Reached(0)
  <2>1. { x \in S : at[x] <= 0 } = {}
    BY <1>3
  <2>2. Grown({}, 0, S, at, near, bar)
    BY <2>1 DEF Grown
  <2> QED BY <2>2
<1>6. \A k \in Nat : Reached(k) => Reached(k + 1)
  BY <1>1, <1>2, GrowByOne
<1>7. ASSUME stuck # {} PROVE FALSE
  <2>1. PICK m \in stuck : \A n \in stuck : m <= n
    BY <1>7, LeastExists
  <2>2. m \in Nat /\ ~Reached(m)
    BY <2>1
  <2> HIDE DEF Reached
  <2>3. m # 0
    BY <1>5, <2>2
  <2>4. m - 1 \in Nat /\ m - 1 \notin stuck /\ (m - 1) + 1 = m
    BY <2>1, <2>2, <2>3
  <2> QED BY <1>6, <2>2, <2>4
<1>8. PICK P : Grown(P, Cardinality(S), S, at, near, bar)
  BY <1>4, <1>7
<1>9. { x \in S : at[x] <= Cardinality(S) } = S
  BY <1>3, <1>4
<1>10. P \in Groupings(S, near, bar)
  BY <1>2, <1>8, <1>9 DEF Grown, Groupings
<1> QED BY <1>10

\* What the next step of a handler works with is there.
Equipped(r) ==
  /\ r.pc = "memory" => Candidates(r.kind, r.ask) # {}
  /\ r.pc = "generate" /\ r.kind # "classify" => r.hits # {}

\* Whatever a model does - answers, raises, is missing - a job that waits for
\* it can go on: no handler takes the best of an empty list, and single
\* linkage makes a grouping of any set of reports.
GoesOn(r) ==
  /\ r.pc \in Embeds => \A scale \in Scales : Embedded(r, scale) # {}
  /\ r.pc = "generate" =>
       WithoutDraft(r) # {} /\ \A d \in Drafts : AfterDraft(r, d) # {}
HandlersTotal == \A j \in Jobs : GoesOn(job[j])

LEMMA ScoresRange ==
  ASSUME NEW scale \in Scales, NEW x \in Tickets \cup Articles
  PROVE  Score[scale][x] \in 0 .. 100
BY AnswersAssumption DEF Scales

LEMMA MemoryGoesOn ==
  ASSUME NEW r \in Record, r.scale \in Scales,
         r.kind \in {"auto_resolve", "assistant", "duplicates"},
         Candidates(r.kind, r.ask) # {}
  PROVE  AfterMemory(r) # {}
<1>1. r.ask \in Asks /\ r.ask.offered \subseteq Tickets
  BY DEF Record, Asks
<1> DEFINE C == Candidates(r.kind, r.ask)
           reaching == { t \in r.ask.offered : Reaches(r, t) }
<1>2. IsFiniteSet(C) /\ C \subseteq Tickets /\ IsFiniteSet(reaching)
  BY <1>1, CandidatesCount, AnswersAssumption, FS_Subset
<1>3. CASE r.kind = "duplicates"
  <2>1. \A t \in reaching : Score[r.scale][t] \in 0 .. 100
    BY <1>1, ScoresRange
  <2>2. DuplicateMaxResults \in Nat
    BY DEF DuplicateMaxResults
  <2>3. Tops(reaching, Score[r.scale], DuplicateMaxResults) # {}
    <3> HIDE DEF reaching
    <3> QED BY <1>2, <2>1, <2>2, TopsExist
  <2> QED BY <1>3, <2>3 DEF AfterMemory, Ranked
<1>4. CASE r.kind \in {"assistant", "auto_resolve"}
  <2>1. \A t \in C : Score[r.scale][t] \in 0 .. 100
    BY <1>2, ScoresRange
  <2>2. Best(C, Score[r.scale]) # {}
    <3> HIDE DEF C
    <3> QED BY <1>2, <2>1, BestExists DEF C
  <2> QED BY <1>4, <2>2 DEF AfterMemory
<1> QED BY <1>3, <1>4

LEMMA QueryGoesOn ==
  ASSUME NEW r \in Record, r.scale \in Scales, cache \subseteq Articles
  PROVE  /\ AfterQuery(r) # {}
         /\ \A s \in AfterQuery(r) : s.pc = "generate" => s.hits # {}
<1> DEFINE known == IF r.scale = "local" THEN cache ELSE Articles
           hits == { a \in known : Score[r.scale][a] >= KbMin[r.scale] }
           tops == Tops(hits, Score[r.scale], TopK)
<1>1. AfterQuery(r) =
        IF hits # {}
        THEN { Goto([r EXCEPT !.hits = top], "generate") : top \in tops }
        ELSE { IF r.kind = "copilot" THEN Template(r) ELSE NoAnswer(r) }
  BY DEF AfterQuery
<1>2. hits \subseteq Articles /\ IsFiniteSet(hits)
  BY AnswersAssumption, FS_Subset
<1>3. \A a \in hits : Score[r.scale][a] \in 0 .. 100
  BY <1>2, ScoresRange
<1>4. TopK \in Nat \ {0}
  BY AnswersAssumption
<1> HIDE DEF hits
<1>5. tops # {}
  BY <1>2, <1>3, <1>4, TopsExist
<1>6. hits # {} => \A top \in tops : top # {}
  BY <1>4, TopNotEmpty
<1>7. \A top : Goto([r EXCEPT !.hits = top], "generate").hits = top
  BY DEF Goto, Record
<1>8. Template(r).pc = "done" /\ NoAnswer(r).pc = "done"
  BY WhereTo DEF Template, NoAnswer
<1> HIDE DEF tops
<1>9. CASE hits # {}
  <2>1. AfterQuery(r) = { Goto([r EXCEPT !.hits = top], "generate") : top \in tops }
    BY <1>1, <1>9
  <2>2. ASSUME NEW s \in AfterQuery(r) PROVE s.hits # {}
    BY <1>6, <1>7, <1>9, <2>1
  <2> QED BY <1>5, <2>1, <2>2
<1>10. CASE hits = {}
  BY <1>1, <1>8, <1>10
<1> QED BY <1>9, <1>10

LEMMA EmbeddedGoesOn ==
  ASSUME NEW r, Good(r), Equipped(r), r.pc \in Embeds, NEW scale \in Scales,
         cache \subseteq Articles
  PROVE  /\ Embedded(r, scale) # {}
         /\ \A s \in Embedded(r, scale) : Equipped(s)
<1> DEFINE q == [r EXCEPT !.inside = "none", !.left = 0, !.scale = scale]
<1>1. /\ q \in Record /\ q.kind = r.kind /\ q.ask = r.ask
      /\ q.scale = scale
  BY DEF Good, Record, Scales
<1>2. Embedded(r, scale) =
        CASE r.pc = "memory" -> AfterMemory(q)
          [] r.pc = "batch" -> Clustered(q)
          [] r.pc = "articles" /\ scale = "local" -> { Goto(q, "query") }
          [] OTHER -> AfterQuery(q)
  BY DEF Embedded
<1> HIDE DEF q
<1>3. CASE r.pc = "memory"
  <2>1. q.kind \in {"auto_resolve", "assistant", "duplicates"}
    BY <1>1, <1>3 DEF Good, AtStep
  <2>2. AfterMemory(q) # {}
    BY <1>1, <1>3, <2>1, MemoryGoesOn DEF Equipped
  <2>3. \A s \in AfterMemory(q) : s.pc \in {"articles", "query", "done"}
    BY <1>1, <2>1, MemoryStage
  <2> QED BY <1>2, <1>3, <2>2, <2>3 DEF Equipped
<1>4. CASE r.pc = "batch"
  <2>1. q.ask.offered \in SUBSET Tickets
    BY <1>1 DEF Record, Asks
  <2>2. Alike[q.scale] \in [SUBSET Tickets -> 0 .. 100]
    BY <1>1, AnswersAssumption DEF Scales
  <2>3. Clustered(q) # {}
    BY <2>1, <2>2, GroupingsExist DEF Clustered
  <2>4. \A s \in Clustered(q) : s.pc = "done"
    BY <1>1 DEF Clustered, End, Record
  <2> QED BY <1>2, <1>4, <2>3, <2>4 DEF Equipped
<1>5. CASE r.pc = "articles" /\ scale = "local"
  BY <1>1, <1>2, <1>5, WhereTo DEF Equipped
<1>6. CASE r.pc \in {"articles", "query"} /\ ~(r.pc = "articles" /\ scale = "local")
  <2>1. /\ AfterQuery(q) # {}
        /\ \A s \in AfterQuery(q) : s.pc = "generate" => s.hits # {}
    BY <1>1, QueryGoesOn
  <2>2. \A s \in AfterQuery(q) : s.pc \in {"generate", "done"}
    BY <1>1, QueryStage
  <2> QED BY <1>2, <1>6, <2>1, <2>2 DEF Equipped
<1> QED BY <1>3, <1>4, <1>5, <1>6 DEF Embeds

LEMMA DraftGoesOn ==
  ASSUME NEW r, Good(r), Equipped(r), r.pc = "generate"
  PROVE  /\ WithoutDraft(r) # {}
         /\ \A d \in Drafts : AfterDraft(r, d) # {}
<1>1. r \in Record /\ r.kind \in {"assistant", "copilot", "classify"}
  BY DEF Good, AtStep
<1>2. CASE r.kind = "assistant"
  <2>1. r.hits \subseteq Articles /\ r.hits # {} /\ r.scale \in Scales
    BY <1>1, <1>2 DEF Record, Equipped, Good, Complete
  <2>2. IsFiniteSet(r.hits)
    BY <2>1, AnswersAssumption, FS_Subset
  <2>3. \A a \in r.hits : Score[r.scale][a] \in 0 .. 100
    BY <2>1, ScoresRange
  <2>4. Best(r.hits, Score[r.scale]) # {}
    BY <2>1, <2>2, <2>3, BestExists
  <2>5. TopArticle(r) # {}
    BY <2>4 DEF TopArticle
  <2> QED BY <1>2, <2>5 DEF WithoutDraft, AfterDraft
<1>3. CASE r.kind \in {"copilot", "classify"}
  BY <1>3 DEF WithoutDraft, AfterDraft
<1> QED BY <1>1, <1>2, <1>3

LEMMA OpeningEquipped ==
  ASSUME NEW r \in Record, r.kind # "none"
  PROVE  Equipped(Opening(r))
<1>1. r.kind \in JobKinds
  BY DEF Record
<1> DEFINE Ready(s) == /\ s.kind = r.kind /\ s.ask = r.ask
                       /\ \/ s.pc \in {"articles", "query", "batch", "done"}
                          \/ s.pc = "memory" /\ Candidates(r.kind, r.ask) # {}
                          \/ s.pc = "generate" /\ r.kind = "classify"
<1>2. \A text, C, M : Ready(End(r, text, C, M))
  BY DEF End, Record
<1>3. \A at : /\ Goto(r, at).kind = r.kind /\ Goto(r, at).ask = r.ask
              /\ Goto(r, at).pc = at
  BY DEF Goto, Record
<1>4. Ready(Retrieve(r)) /\ Ready(Goto(r, "batch"))
  BY <1>3 DEF Retrieve
<1>5. r.kind = "classify" => Ready(Goto(r, "generate"))
  BY <1>3
<1>6. \A o : Ready(o) => Ready(Recall(r, o))
  BY <1>3 DEF Recall
<1>7. \A text, o : Ready(o) => Ready(Deflect(r, text, o))
  BY <1>2 DEF Deflect
<1>8. \A s : Ready(s) => Equipped(s)
  BY DEF Equipped
<1> HIDE DEF Ready
<1>9. Ready(Opening(r))
  <2>1. CASE r.kind = "classify"
    BY <1>5, <1>7, <2>1 DEF Opening, Classify
  <2>2. CASE r.kind = "copilot"
    BY <1>4, <1>7, <2>2 DEF Opening, Assist
  <2>3. CASE r.kind = "assistant"
    <3>1. Ready(Recall(r, Retrieve(r)))
      BY <1>4, <1>6
    <3> QED BY <1>2, <1>7, <2>3, <3>1 DEF Opening, Answer
  <2>4. CASE r.kind = "auto_resolve"
    <3>1. Ready(Recall(r, End(r, "unresolved", {}, {})))
      BY <1>2, <1>6
    <3> QED BY <1>7, <2>4, <3>1 DEF Opening, AutoResolve
  <2>5. CASE r.kind = "duplicates"
    BY <1>2, <1>6, <2>5 DEF Opening, Find
  <2>6. CASE r.kind = "cluster"
    BY <1>2, <1>4, <2>6 DEF Opening, Cluster
  <2> QED BY <1>1, <2>1, <2>2, <2>3, <2>4, <2>5, <2>6
<1> QED BY <1>8, <1>9

AllEquipped == \A j \in Jobs : Equipped(job[j])

LEMMA ThreadEquipped ==
  ASSUME JobsInv, AllEquipped, NEW j \in Jobs, Thread(j)
  PROVE  AllEquipped'
<1> DEFINE r == job[j]
<1>1. /\ job \in [Jobs -> Record] /\ Good(r) /\ r \in Record /\ AtStep(r)
      /\ cache \subseteq Articles /\ Equipped(r)
  BY DEF JobsInv, Good, AllEquipped
<1>2. ASSUME NEW s, job' = [job EXCEPT ![j] = s], Equipped(s)
      PROVE  AllEquipped'
  BY <1>1, <1>2 DEF AllEquipped, Equipped, Candidates
<1>3. ASSUME NEW s, s.pc = r.pc, s.kind = r.kind, s.ask = r.ask, s.hits = r.hits
      PROVE  Equipped(s)
  BY <1>1, <1>3 DEF Equipped
<1>4. CASE NoEmbedding(j) \/ EmbedRaises(j) \/ EmbedLast(j)
  <2>1. r.pc \in Embeds
    BY <1>1, <1>4 DEF NoEmbedding, EmbedRaises, EmbedLast, AtStep
  <2>2. PICK scale \in Scales :
          \E s \in Embedded(r, scale) : job' = [job EXCEPT ![j] = s]
    BY <1>4 DEF NoEmbedding, EmbedRaises, EmbedLast, Scales
  <2>3. \A s \in Embedded(r, scale) : Equipped(s)
    BY <1>1, <2>1, EmbeddedGoesOn
  <2> QED BY <1>2, <2>2, <2>3
<1>5. CASE TakeEmbed(j) \/ TakeChat(j)
  <2>1. PICK m : job' = [job EXCEPT ![j].inside = m]
    BY <1>5 DEF TakeEmbed, TakeChat
  <2> DEFINE s == [r EXCEPT !.inside = m]
  <2>2. s.pc = r.pc /\ s.kind = r.kind /\ s.ask = r.ask /\ s.hits = r.hits
    BY <1>1 DEF Record
  <2>3. job' = [job EXCEPT ![j] = s]
    BY <2>1
  <2> HIDE DEF s
  <2>4. Equipped(s)
    BY <1>3, <2>2
  <2> QED BY <1>2, <2>3, <2>4
<1>6. CASE EmbedText(j)
  <2> DEFINE s == [r EXCEPT !.inside = "none", !.left = @ - 1]
  <2>1. s.pc = r.pc /\ s.kind = r.kind /\ s.ask = r.ask /\ s.hits = r.hits
    BY <1>1 DEF Record
  <2>2. job' = [job EXCEPT ![j] = s]
    BY <1>6 DEF EmbedText, TextDone
  <2> HIDE DEF s
  <2>3. Equipped(s)
    BY <1>3, <2>1
  <2> QED BY <1>2, <2>2, <2>3
<1>7. CASE NoChat(j) \/ ChatRaises(j) \/ \E d \in Drafts : ChatWrites(j, d)
  <2> DEFINE q == [r EXCEPT !.inside = "none"]
  <2>1. r.pc = "generate" /\ r.kind \in {"assistant", "copilot", "classify"}
    BY <1>1, <1>7 DEF NoChat, ChatRaises, ChatWrites, AtStep
  <2>2. q \in Record /\ q.kind = r.kind
    BY <1>1 DEF Record
  <2>3. \E s : /\ job' = [job EXCEPT ![j] = s]
               /\ \/ s \in WithoutDraft(r) \/ s \in WithoutDraft(q)
                  \/ \E d : s \in AfterDraft(q, d)
    BY <1>7 DEF NoChat, ChatRaises, ChatWrites
  <2> HIDE DEF q
  <2>4. PICK s : job' = [job EXCEPT ![j] = s] /\ s.pc = "done"
    BY <1>1, <2>1, <2>2, <2>3, DraftStage
  <2>5. Equipped(s)
    BY <2>4 DEF Equipped
  <2> QED BY <1>2, <2>4, <2>5
<1> QED BY <1>4, <1>5, <1>6, <1>7 DEF Thread

LEMMA EquippedNext ==
  ASSUME JobsInv, AllEquipped, [Next]_vars
  PROVE  AllEquipped'
<1>1. ASSUME UNCHANGED job PROVE AllEquipped'
  BY <1>1 DEF AllEquipped, Equipped, Candidates
<1>2. ASSUME NEW j \in Jobs, NEW k \in KindsOf[j], NEW q \in Requests, Arrive(j, k, q)
      PROVE  AllEquipped'
  <2> DEFINE r == [job[j] EXCEPT !.kind = k, !.ask = q]
  <2>1. k \in JobKinds /\ q \in Asks
    BY AnswersAssumption DEF Asks
  <2>2. job \in [Jobs -> Record] /\ job[j] \in Record
    BY DEF JobsInv
  <2>3. r \in Record /\ r.kind = k
    BY <2>1, <2>2 DEF Record
  <2>4. job' = [job EXCEPT ![j] = Opening(r)]
    BY <1>2 DEF Arrive
  <2> HIDE DEF r
  <2>5. Equipped(Opening(r))
    BY <2>1, <2>3, OpeningEquipped
  <2> DEFINE s == Opening(r)
  <2> HIDE DEF s
  <2>6. Equipped(s) /\ job' = [job EXCEPT ![j] = s]
    BY <2>4, <2>5 DEF s
  <2> QED BY <2>2, <2>6 DEF AllEquipped, Equipped, Candidates
<1>3. CASE Crash
  BY <1>3 DEF Crash, AllEquipped, Equipped, Nothing, Candidates
<1> QED BY <1>1, <1>2, <1>3, ThreadEquipped DEF Next, vars

\* Past tickets without a resolution, an article that was dropped, a model
\* that fails between two texts: a job never comes to a step it cannot take.
THEOREM JobsNeverStuck == Spec => []HandlersTotal
<1>1. Init => AllEquipped
  BY DEF Init, AllEquipped, Equipped, Nothing
<1>2. IInv /\ AllEquipped /\ [Next]_vars => AllEquipped'
  BY EquippedNext DEF IInv
<1>3. Spec => []AllEquipped
  BY <1>1, <1>2, Inductive, PTL DEF Spec
<1>4. ASSUME IInv, AllEquipped PROVE HandlersTotal
  <2>1. ASSUME NEW j \in Jobs PROVE GoesOn(job[j])
    <3>1. Good(job[j]) /\ Equipped(job[j]) /\ cache \subseteq Articles
      BY <1>4 DEF IInv, JobsInv, AllEquipped
    <3> QED BY <3>1, EmbeddedGoesOn, DraftGoesOn DEF GoesOn
  <2> QED BY <2>1 DEF HandlersTotal
<1>5. IInv /\ AllEquipped => HandlersTotal
  BY <1>4
<1> QED BY <1>3, <1>5, Inductive, PTL

----------------------------------------------------------------------------
(* Part 6: what the search for duplicates finds. *)

\* The matches are the best five of the candidates that reach the bar of the
\* scale they were compared on: nothing below the bar is shown, and what is
\* left out is below it or does not fit better than any of five.
Found(r) ==
  r.text = "matches" =>
    /\ r.match \subseteq r.ask.offered
    /\ Cardinality(r.match) <= DuplicateMaxResults
    /\ \A t \in r.match :
         Score[r.scale][t] >= SimilarityBar["duplicates"][r.scale]
    /\ \A t \in r.ask.offered \ r.match :
         \/ ~(Score[r.scale][t] >= SimilarityBar["duplicates"][r.scale])
         \/ /\ Cardinality(r.match) = DuplicateMaxResults
            /\ \A u \in r.match : Score[r.scale][u] >= Score[r.scale][t]
MatchesAreBest == \A j \in Jobs : Found(job[j])

LEMMA NotMatches ==
  ASSUME NEW r \in Record
  PROVE  /\ \A text, C, M : text # "matches" => Found(End(r, text, C, M))
         /\ \A at : r.text = "none" => Found(Goto(r, at))
BY DEF Found, End, Goto, Record

LEMMA RankedFound ==
  ASSUME NEW r \in Record, r.kind = "duplicates", NEW s \in Ranked(r)
  PROVE  Found(s)
<1> DEFINE reaching == { t \in r.ask.offered : Reaches(r, t) }
<1>1. PICK found \in Tops(reaching, Score[r.scale], DuplicateMaxResults) :
        s = End(r, "matches", {}, found)
  BY DEF Ranked
<1>2. s.match = found /\ s.scale = r.scale /\ s.ask = r.ask
  BY <1>1 DEF End, Record
<1>3. /\ found \subseteq reaching /\ Cardinality(found) <= DuplicateMaxResults
      /\ found # reaching => Cardinality(found) = DuplicateMaxResults
      /\ \A x \in found, y \in reaching \ found : Score[r.scale][x] >= Score[r.scale][y]
  BY <1>1 DEF Tops
<1>4. \A t \in r.ask.offered :
        t \in reaching <=> Score[r.scale][t] >= SimilarityBar["duplicates"][r.scale]
  BY DEF Reaches, Bar
<1>5. reaching \subseteq r.ask.offered
  OBVIOUS
<1> HIDE DEF reaching
<1> QED BY <1>2, <1>3, <1>4, <1>5 DEF Found

LEMMA MemoryFound ==
  ASSUME NEW r \in Record, r.text = "none",
         r.kind \in {"auto_resolve", "assistant", "duplicates"},
         NEW s \in AfterMemory(r)
  PROVE  Found(s)
<1>1. Found(Retrieve(r))
  BY NotMatches DEF Retrieve
<1>2. \A t : Found(FromMemory(r, t)) /\ Found(Repeats(r, t))
  BY <1>1, NotMatches DEF FromMemory, Repeats
<1> QED BY <1>2, RankedFound DEF AfterMemory

LEMMA QueryFound ==
  ASSUME NEW r \in Record, r.text = "none", NEW s \in AfterQuery(r)
  PROVE  Found(s)
<1> DEFINE known == IF r.scale = "local" THEN cache ELSE Articles
           hits == { a \in known : Score[r.scale][a] >= KbMin[r.scale] }
<1>1. s \in (IF hits # {}
             THEN { Goto([r EXCEPT !.hits = top], "generate") :
                      top \in Tops(hits, Score[r.scale], TopK) }
             ELSE { IF r.kind = "copilot" THEN Template(r) ELSE NoAnswer(r) })
  BY DEF AfterQuery
<1>2. Found(Template(r)) /\ Found(NoAnswer(r))
  BY NotMatches DEF Template, NoAnswer
<1>3. \A top : Goto([r EXCEPT !.hits = top], "generate").text = "none"
  BY DEF Goto, Record
<1>4. \A top : Found(Goto([r EXCEPT !.hits = top], "generate"))
  BY <1>3 DEF Found
<1> HIDE DEF hits
<1> QED BY <1>1, <1>2, <1>4

LEMMA DraftFound ==
  ASSUME NEW r \in Record, r.kind \in {"assistant", "copilot", "classify"}
  PROVE  /\ \A s \in WithoutDraft(r) : Found(s)
         /\ \A d : \A s \in AfterDraft(r, d) : Found(s)
<1>1. ASSUME NEW s \in WithoutDraft(r) PROVE Found(s)
  <2>1. \E text \in {"keywords", "template", "article"} :
          \E C : s = End(r, text, C, {})
    BY DEF WithoutDraft, Keywords, Template, TopArticle
  <2> QED BY <2>1, NotMatches
<1>2. \A d : Label(r, d).text \in {"label", "default"} /\ Draft(r, d).text = "draft"
  BY DEF Label, Draft, End, Record
<1>3. \A d : Found(Label(r, d)) /\ Found(Draft(r, d))
  BY <1>2 DEF Found
<1> QED BY <1>1, <1>3 DEF AfterDraft

LEMMA ClusteredFound ==
  ASSUME NEW r \in Record, NEW s \in Clustered(r)
  PROVE  Found(s)
<1>1. s.text = "groups"
  BY DEF Clustered, End, Record
<1> QED BY <1>1 DEF Found

LEMMA EmbeddedFound ==
  ASSUME NEW r, Good(r), r.pc \in Embeds, NEW scale \in Scales,
         NEW s \in Embedded(r, scale)
  PROVE  Found(s)
<1> DEFINE q == [r EXCEPT !.inside = "none", !.left = 0, !.scale = scale]
<1>1. q \in Record /\ q.kind = r.kind /\ q.text = "none"
  BY DEF Good, AtStep, Record, Scales, Embeds
<1>2. s \in (CASE r.pc = "memory" -> AfterMemory(q)
               [] r.pc = "batch" -> Clustered(q)
               [] r.pc = "articles" /\ scale = "local" -> { Goto(q, "query") }
               [] OTHER -> AfterQuery(q))
  BY DEF Embedded
<1> HIDE DEF q
<1>3. CASE r.pc = "memory"
  BY <1>1, <1>2, <1>3, MemoryFound DEF Good, AtStep
<1>4. CASE r.pc = "batch"
  BY <1>1, <1>2, <1>4, ClusteredFound
<1>5. CASE r.pc = "articles" /\ scale = "local"
  BY <1>1, <1>2, <1>5, NotMatches
<1>6. CASE r.pc \in {"articles", "query"} /\ ~(r.pc = "articles" /\ scale = "local")
  BY <1>1, <1>2, <1>6, QueryFound
<1> QED BY <1>3, <1>4, <1>5, <1>6 DEF Embeds

LEMMA OpeningFound ==
  ASSUME NEW r \in Record, r.kind # "none", r.text = "none"
  PROVE  Found(Opening(r))
<1>1. r.kind \in JobKinds
  BY DEF Record
<1>2. \A at : Found(Goto(r, at))
  BY NotMatches
<1>3. Found(Retrieve(r))
  BY <1>2 DEF Retrieve
<1>4. \A o : Found(o) => Found(Recall(r, o))
  BY <1>2 DEF Recall
<1>5. \A text, o : text # "matches" /\ Found(o) => Found(Deflect(r, text, o))
  BY NotMatches DEF Deflect
<1>6. CASE r.kind = "classify"
  BY <1>2, <1>5, <1>6 DEF Opening, Classify
<1>7. CASE r.kind = "copilot"
  BY <1>3, <1>5, <1>7 DEF Opening, Assist
<1>8. CASE r.kind = "assistant"
  <2>1. Found(Recall(r, Retrieve(r))) /\ Found(End(r, "prompt", {}, {}))
    BY <1>3, <1>4, NotMatches
  <2> QED BY <1>5, <1>8, <2>1 DEF Opening, Answer
<1>9. CASE r.kind = "auto_resolve"
  <2>1. Found(Recall(r, End(r, "unresolved", {}, {})))
    BY <1>4, NotMatches
  <2> QED BY <1>5, <1>9, <2>1 DEF Opening, AutoResolve
<1>10. CASE r.kind = "duplicates"
  <2>1. CASE r.ask.offered = {}
    <3> DEFINE e == End(r, "matches", {}, {})
    <3>1. e.match = {} /\ e.ask = r.ask
      BY DEF End, Record
    <3>2. 0 <= DuplicateMaxResults
      BY DEF DuplicateMaxResults
    <3> HIDE DEF e
    <3>3. Found(e)
      BY <2>1, <3>1, <3>2, FS_EmptySet DEF Found
    <3> QED BY <1>4, <1>10, <3>3 DEF Opening, Find, e
  <2>2. CASE r.ask.offered # {}
    BY <1>2, <1>10, <2>2 DEF Opening, Find, Recall, Candidates, Comparing
  <2> QED BY <2>1, <2>2
<1>11. CASE r.kind = "cluster"
  BY <1>2, <1>11, NotMatches DEF Opening, Cluster
<1> QED BY <1>1, <1>6, <1>7, <1>8, <1>9, <1>10, <1>11

LEMMA ThreadFound ==
  ASSUME JobsInv, MatchesAreBest, NEW j \in Jobs, Thread(j)
  PROVE  MatchesAreBest'
<1> DEFINE r == job[j]
<1>1. /\ job \in [Jobs -> Record] /\ Good(r) /\ r \in Record /\ AtStep(r)
  BY DEF JobsInv, Good
<1>2. ASSUME NEW s, job' = [job EXCEPT ![j] = s], Found(s)
      PROVE  MatchesAreBest'
  BY <1>1, <1>2 DEF MatchesAreBest, Found
<1>3. CASE NoEmbedding(j) \/ EmbedRaises(j) \/ EmbedLast(j)
  <2>1. r.pc \in Embeds
    BY <1>1, <1>3 DEF NoEmbedding, EmbedRaises, EmbedLast, AtStep
  <2>2. PICK scale \in Scales :
          \E s \in Embedded(r, scale) : job' = [job EXCEPT ![j] = s]
    BY <1>3 DEF NoEmbedding, EmbedRaises, EmbedLast, Scales
  <2>3. \A s \in Embedded(r, scale) : Found(s)
    BY <1>1, <2>1, EmbeddedFound
  <2> QED BY <1>2, <2>2, <2>3
<1>4. CASE TakeEmbed(j) \/ TakeChat(j) \/ EmbedText(j)
  <2>1. r.pc \in Embeds \cup {"generate"}
    BY <1>1, <1>4 DEF TakeEmbed, TakeChat, EmbedText, TextDone, AtStep
  <2>2. r.text = "none"
    BY <1>1, <2>1 DEF AtStep, Embeds
  <2>3. PICK m, n : job' = [job EXCEPT ![j] = [r EXCEPT !.inside = m, !.left = n]]
    <3>1. [r EXCEPT !.left = r.left] = r
      BY <1>1 DEF Record
    <3>2. \A m : [r EXCEPT !.inside = m, !.left = r.left] = [r EXCEPT !.inside = m]
      BY <1>1 DEF Record
    <3>3. CASE TakeEmbed(j)
      <4>1. job' = [job EXCEPT ![j] = [r EXCEPT !.inside = "embed"]]
        BY <3>3 DEF TakeEmbed
      <4> QED BY <3>2, <4>1
    <3>4. CASE TakeChat(j)
      <4>1. job' = [job EXCEPT ![j] = [r EXCEPT !.inside = "chat"]]
        BY <3>4 DEF TakeChat
      <4> QED BY <3>2, <4>1
    <3>5. CASE EmbedText(j)
      BY <3>5 DEF EmbedText, TextDone
    <3> QED BY <1>4, <3>3, <3>4, <3>5
  <2> DEFINE s == [r EXCEPT !.inside = m, !.left = n]
  <2>4. s.text = "none"
    BY <1>1, <2>2 DEF Record
  <2> HIDE DEF s
  <2>5. Found(s)
    BY <2>4 DEF Found
  <2> QED BY <1>2, <2>3, <2>5 DEF s
<1>5. CASE NoChat(j) \/ ChatRaises(j) \/ \E d \in Drafts : ChatWrites(j, d)
  <2> DEFINE q == [r EXCEPT !.inside = "none"]
  <2>1. r.kind \in {"assistant", "copilot", "classify"}
    BY <1>1, <1>5 DEF NoChat, ChatRaises, ChatWrites, AtStep
  <2>2. q \in Record /\ q.kind = r.kind
    BY <1>1 DEF Record
  <2>3. \E s : /\ job' = [job EXCEPT ![j] = s]
               /\ \/ s \in WithoutDraft(r) \/ s \in WithoutDraft(q)
                  \/ \E d : s \in AfterDraft(q, d)
    BY <1>5 DEF NoChat, ChatRaises, ChatWrites
  <2> HIDE DEF q
  <2>4. PICK s : job' = [job EXCEPT ![j] = s] /\ Found(s)
    BY <1>1, <2>1, <2>2, <2>3, DraftFound
  <2> QED BY <1>2, <2>4
<1> QED BY <1>3, <1>4, <1>5 DEF Thread

LEMMA FoundNext ==
  ASSUME JobsInv, MatchesAreBest, [Next]_vars
  PROVE  MatchesAreBest'
<1>1. ASSUME UNCHANGED job PROVE MatchesAreBest'
  BY <1>1 DEF MatchesAreBest, Found
<1>2. ASSUME NEW j \in Jobs, NEW k \in KindsOf[j], NEW q \in Requests, Arrive(j, k, q)
      PROVE  MatchesAreBest'
  <2> DEFINE r == [job[j] EXCEPT !.kind = k, !.ask = q]
  <2>1. k \in JobKinds /\ q \in Asks
    BY AnswersAssumption DEF Asks
  <2>2. /\ job \in [Jobs -> Record] /\ job[j] \in Record
        /\ job[j].text = "none"
    BY <1>2 DEF JobsInv, Arrive, Good, AtStep
  <2>3. r \in Record /\ r.kind = k /\ r.text = "none"
    BY <2>1, <2>2 DEF Record
  <2>4. job' = [job EXCEPT ![j] = Opening(r)]
    BY <1>2 DEF Arrive
  <2> HIDE DEF r
  <2> DEFINE s == Opening(r)
  <2>5. Found(s)
    BY <2>1, <2>3, OpeningFound
  <2>6. job' = [job EXCEPT ![j] = s]
    BY <2>4
  <2> HIDE DEF s
  <2> QED BY <2>2, <2>5, <2>6 DEF MatchesAreBest, Found
<1>3. CASE Crash
  BY <1>3 DEF Crash, MatchesAreBest, Found, Nothing
<1> QED BY <1>1, <1>2, <1>3, ThreadFound DEF Next, vars

\* Whether the tickets were compared by vectors or by words, no duplicate
\* that is shown misses the bar of that comparison, and no better one is left
\* out.
THEOREM DuplicatesAreBest == Spec => []MatchesAreBest
<1>1. Init => MatchesAreBest
  BY DEF Init, MatchesAreBest, Found, Nothing
<1>2. IInv /\ MatchesAreBest /\ [Next]_vars => MatchesAreBest'
  BY FoundNext DEF IInv
<1> QED BY <1>1, <1>2, Inductive, PTL DEF Spec
=============================================================================
