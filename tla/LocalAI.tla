------------------------------ MODULE LocalAI ------------------------------
(***************************************************************************)
(* The answers of the ai-service: jobs that run in the scheduler's threads *)
(* (assistant, copilot, memory, duplicates, classifier, clustering) beside *)
(* each other and beside the thread that prepares the models.  They share  *)
(* the models, each behind its lock, and the cache of article embeddings   *)
(* (kb.py).                                                                *)
(*                                                                         *)
(* An action is what a thread does between two accesses to shared state.   *)
(* Texts are left out; how similar two of them are is a constant on each   *)
(* of two scales: cosine of embeddings ("local"), token overlap            *)
(* ("fallback").                                                           *)
(***************************************************************************)
EXTENDS LocalModels, Clustering

CONSTANTS Jobs, KindsOf,     \* the jobs, and the kinds each may be of
          Requests,          \* what may be asked: threat, blank, offered
          Tickets, Articles, \* past tickets, the knowledge base
          Answered,          \* the tickets whose resolution is not blank
          Score,             \* scale -> ticket or article -> 0 .. 100
          Alike,             \* scale -> two tickets -> 0 .. 100
          TopK               \* settings.kb_top_k

JobKinds == {"auto_resolve", "assistant", "copilot", "duplicates", "classify",
             "cluster"}

ASSUME AnswersAssumption ==
  /\ KindsOf \in [Jobs -> SUBSET JobKinds]
  /\ Articles # {} /\ IsFiniteSet(Articles) /\ IsFiniteSet(Tickets)
  /\ Answered \subseteq Tickets /\ TopK \in Nat \ {0}
  /\ Requests \subseteq [threat : {"none", "ticket", "conversation"},
                         blank : BOOLEAN, offered : SUBSET Tickets]
  /\ Score \in [{"local", "fallback"} -> [Tickets \cup Articles -> 0 .. 100]]
  /\ Alike \in [{"local", "fallback"} -> [SUBSET Tickets -> 0 .. 100]]

\* Settings: how similar a text must be, in percent, per scale.
KbMin == [local |-> 40, fallback |-> 10]
SimilarityBar == [auto_resolve |-> [local |-> 95, fallback |-> 90],
                  assistant |-> [local |-> 80, fallback |-> 60],
                  duplicates |-> [local |-> 55, fallback |-> 30],
                  cluster |-> [local |-> 45, fallback |-> 12]]
DuplicateMaxResults == 5

VARIABLES job,      \* the local state of each job
          cache     \* kb._embeddings: the articles in it, {} for None

vars == <<modelVars, job, cache>>

Drafts == [sound : BOOLEAN, cites : SUBSET Articles]
NoDraft == [sound |-> FALSE, cites |-> {}]
NoRequest == [threat |-> "none", blank |-> TRUE, offered |-> {}]

Nothing(pc) ==
  [pc |-> pc, kind |-> "none", ask |-> NoRequest, left |-> 0,
   inside |-> "none", scale |-> "none", hits |-> {}, draft |-> NoDraft,
   text |-> "none", cites |-> {}, match |-> {}, groups |-> {}]

Init ==
  /\ ModelsInit /\ cache = {}
  /\ job = [j \in Jobs |-> Nothing("new")]

----------------------------------------------------------------------------
(* Guards on the text: threat_flags looks at all that goes to the model. *)

Comparing == {"duplicates", "cluster"}
Suspicious_TicketOnly(k, q) == k \notin Comparing /\ q.threat = "ticket"
Suspicious(k, q) == k \notin Comparing /\ q.threat # "none"

\* validate_copilot_output.  A draft is sound when it is neither empty nor
\* too long, and has no link and no commitment the articles do not have.
Valid_AnyCitation(d, hits) == d.sound /\ d.cites # {}
Valid(d, hits) == d.sound /\ d.cites # {} /\ d.cites \subseteq hits

\* Only candidates that carry an answer can resolve anything.
Candidates(k, q) == IF k \in Comparing THEN q.offered
                                       ELSE q.offered \cap Answered

\* The first of a list sorted by score, cut to n; equals in any order.
Tops(S, score, n) ==
  { T \in SUBSET S : /\ Cardinality(T) <= n
                     /\ T # S => Cardinality(T) = n
                     /\ \A x \in T, y \in S \ T : score[x] >= score[y] }
Best(S, score) == UNION Tops(S, score, 1)

----------------------------------------------------------------------------
(* Where a job goes next: to another step, or to its end with a text. *)

Texts(at, k, q) == CASE at = "memory" -> 1 + Cardinality(Candidates(k, q))
                     [] at = "articles" -> Cardinality(Articles)
                     [] at = "query" -> 1
                     [] at = "batch" -> Cardinality(Candidates(k, q))
                     [] OTHER -> 0

Goto(r, at) == [r EXCEPT !.pc = at, !.left = Texts(at, r.kind, r.ask)]
End(r, text, cites, match) ==
  [r EXCEPT !.pc = "done", !.left = 0, !.text = text, !.cites = cites,
            !.match = match]

\* retrieve begins with the cache; without one the articles are embedded.
Retrieve(r) == Goto(r, IF cache = {} THEN "articles" ELSE "query")

\* The two scales are not comparable: each has its own bar.
Bar_Lexical(k, scale) == SimilarityBar[k]["fallback"]
Bar(k, scale) == SimilarityBar[k][scale]
Reaches(r, t) == Score[r.scale][t] >= Bar(r.kind, r.scale)

----------------------------------------------------------------------------
(* The handlers: how each begins, and what it makes of similarities (the   *)
(* best candidate t, or all that were found) and of a completion (a draft  *)
(* d, or none: no model, no JSON, an exception).                           *)

Deflect(r, text, otherwise) ==
  IF Suspicious(r.kind, r.ask) THEN End(r, text, {}, {}) ELSE otherwise

\* Memory is asked only when somebody left an answer there.
Recall(r, otherwise) ==
  IF Candidates(r.kind, r.ask) # {} THEN Goto(r, "memory") ELSE otherwise

\* classifier: keywords, or the model's label if it is on the whitelist.
Classify(r) == Deflect(r, "keywords", Goto(r, "generate"))
Keywords(r) == End(r, "keywords", {}, {})
Label(r, d) == End(r, IF d.sound THEN "label" ELSE "default", {}, {})

\* copilot: a draft from the articles, or a template.
Assist(r) == Deflect(r, "template", Retrieve(r))
Template(r) == End(r, "template", {}, {})
Draft(r, d) == End([r EXCEPT !.draft = d], "draft", d.cites, {})

\* assistant: memory, then the knowledge base, then an honest no.
Answer(r) ==
  Deflect(r, "refusal",
    IF r.ask.blank THEN End(r, "prompt", {}, {}) ELSE Recall(r, Retrieve(r)))
FromMemory(r, t) ==
  IF Reaches(r, t) THEN End(r, "resolution", {}, {t}) ELSE Retrieve(r)
TopArticle(r) == { End(r, "article", {a}, {}) : a \in Best(r.hits, Score[r.scale]) }
NoAnswer(r) == End(r, "no_answer", {}, {})

\* memory: answers a repeated ticket, or leaves it to a human.
AutoResolve(r) ==
  Deflect(r, "unresolved", Recall(r, End(r, "unresolved", {}, {})))
Repeats(r, t) ==
  End(r, IF Reaches(r, t) THEN "resolution" ELSE "unresolved", {}, {t})

\* duplicates: the candidates that reach the bar.
Find(r) == Recall(r, End(r, "matches", {}, {}))
Ranked(r) ==
  { End(r, "matches", {}, found) : found \in
      Tops({ t \in r.ask.offered : Reaches(r, t) }, Score[r.scale],
           DuplicateMaxResults) }

\* clustering: groups of tickets that look like one incident (Groupings).
Cluster(r) ==
  IF r.ask.offered = {} THEN End(r, "groups", {}, {}) ELSE Goto(r, "batch")
Clustered_TokenOverlap(r) ==
  { End([r EXCEPT !.groups = P], "groups", {}, {}) :
      P \in Groupings(r.ask.offered, Alike["fallback"], Bar("cluster", r.scale)) }
Clustered(r) ==
  { End([r EXCEPT !.groups = P], "groups", {}, {}) :
      P \in Groupings(r.ask.offered, Alike[r.scale], Bar("cluster", r.scale)) }

Opening(r) ==
  CASE r.kind = "classify" -> Classify(r)
    [] r.kind = "copilot" -> Assist(r)
    [] r.kind = "assistant" -> Answer(r)
    [] r.kind = "auto_resolve" -> AutoResolve(r)
    [] r.kind = "duplicates" -> Find(r)
    [] r.kind = "cluster" -> Cluster(r)

AfterMemory(r) ==
  LET best == Best(Candidates(r.kind, r.ask), Score[r.scale])
  IN CASE r.kind = "duplicates" -> Ranked(r)
       [] r.kind = "assistant" -> { FromMemory(r, t) : t \in best }
       [] r.kind = "auto_resolve" -> { Repeats(r, t) : t \in best }

\* retrieve has scored the articles, those in the cache on the local scale.
\* Without a hit there is nothing to generate from.
AfterQuery(r) ==
  LET known == IF r.scale = "local" THEN cache ELSE Articles
      hits == { a \in known : Score[r.scale][a] >= KbMin[r.scale] }
  IN IF hits # {}
     THEN { Goto([r EXCEPT !.hits = top], "generate") :
              top \in Tops(hits, Score[r.scale], TopK) }
     ELSE { IF r.kind = "copilot" THEN Template(r) ELSE NoAnswer(r) }

WithoutDraft(r) ==
  CASE r.kind = "classify" -> { Keywords(r) }
    [] r.kind = "copilot" -> { Template(r) }
    [] r.kind = "assistant" -> TopArticle(r)

AfterDraft(r, d) ==
  IF r.kind = "classify" THEN { Label(r, d) }
  ELSE IF Valid(d, r.hits) THEN { Draft(r, d) }
  ELSE WithoutDraft(r)

----------------------------------------------------------------------------
(* Steps of a thread *)

\* Only copilot and assistant are sent a conversation, and tickets to compare
\* with only go to those who compare.
Askable(k, q) ==
  /\ q.threat = "conversation" => k \in {"copilot", "assistant"}
  /\ k \in {"copilot", "classify"} => q.offered = {}
  /\ q.blank => k = "assistant"

Arrive(j, k, q) ==
  /\ job[j].pc = "new" /\ Askable(k, q)
  /\ job' = [job EXCEPT ![j] = Opening([@ EXCEPT !.kind = k, !.ask = q])]
  /\ UNCHANGED <<modelVars, cache>>

Embeds == {"memory", "articles", "query", "batch"}

\* llm_local.embed returned vectors ("local") or None ("fallback").
Embedded(r, scale) ==
  LET s == [r EXCEPT !.inside = "none", !.left = 0, !.scale = scale]
  IN CASE r.pc = "memory" -> AfterMemory(s)
       [] r.pc = "batch" -> Clustered(s)
       [] r.pc = "articles" /\ scale = "local" -> { Goto(s, "query") }
       [] OTHER -> AfterQuery(s)

\* The model is read once, before the first text.
NoEmbedding(j) ==
  /\ job[j].pc \in Embeds /\ job[j].inside = "none" /\ "embed" \notin loaded
  /\ \E r \in Embedded(job[j], "fallback") : job' = [job EXCEPT ![j] = r]
  /\ UNCHANGED <<modelVars, cache>>

Unlocked_Never(m) == TRUE
Unlocked(m) == \A j \in Jobs : job[j].inside # m

\* A text at a time goes to the model, under the lock; whoever comes next
\* may be another job, or the same again.
TakeEmbed(j) ==
  /\ job[j].pc \in Embeds /\ job[j].inside = "none" /\ "embed" \in loaded
  /\ Unlocked("embed")
  /\ job' = [job EXCEPT ![j].inside = "embed"]
  /\ UNCHANGED <<modelVars, cache>>

TextDone(j, more, filled) ==
  /\ job[j].inside = "embed" /\ more
  /\ job' = [job EXCEPT ![j].inside = "none", ![j].left = @ - 1]
  /\ cache' = filled
  /\ UNCHANGED modelVars

EmbedText_FillsCache(j) ==
  \E a \in Articles : TextDone(j, job[j].left > 1,
    IF job[j].pc = "articles" THEN cache \cup {a} ELSE cache)
EmbedText(j) == TextDone(j, job[j].left > 1, cache)

\* The last text.  Only now the articles' vectors become the cache.
EmbedLast(j) ==
  /\ job[j].inside = "embed" /\ job[j].left = 1
  /\ cache' = IF job[j].pc = "articles" THEN Articles ELSE cache
  /\ \E r \in Embedded(job[j], "local") : job' = [job EXCEPT ![j] = r]
  /\ UNCHANGED modelVars

\* model.embed raises: the lock is released, the vectors are dropped.
EmbedRaises_KeepsLock(j) ==
  /\ job[j].inside = "embed"
  /\ \E r \in Embedded(job[j], "fallback") :
       job' = [job EXCEPT ![j] = [r EXCEPT !.inside = "embed"]]
  /\ UNCHANGED <<modelVars, cache>>
EmbedRaises(j) ==
  /\ job[j].inside = "embed"
  /\ \E r \in Embedded(job[j], "fallback") : job' = [job EXCEPT ![j] = r]
  /\ UNCHANGED <<modelVars, cache>>

NoChat(j) ==
  /\ job[j].pc = "generate" /\ job[j].inside = "none" /\ "chat" \notin loaded
  /\ \E r \in WithoutDraft(job[j]) : job' = [job EXCEPT ![j] = r]
  /\ UNCHANGED <<modelVars, cache>>

TakeChat(j) ==
  /\ job[j].pc = "generate" /\ job[j].inside = "none" /\ "chat" \in loaded
  /\ Unlocked("chat")
  /\ job' = [job EXCEPT ![j].inside = "chat"]
  /\ UNCHANGED <<modelVars, cache>>

\* The model writes a draft, whatever its grammar promises.
ChatWrites(j, d) ==
  /\ job[j].inside = "chat"
  /\ \E r \in AfterDraft([job[j] EXCEPT !.inside = "none"], d) :
       job' = [job EXCEPT ![j] = r]
  /\ UNCHANGED <<modelVars, cache>>

\* The model raises, or its output ends before the JSON does.
ChatRaises(j) ==
  /\ job[j].inside = "chat"
  /\ \E r \in WithoutDraft([job[j] EXCEPT !.inside = "none"]) :
       job' = [job EXCEPT ![j] = r]
  /\ UNCHANGED <<modelVars, cache>>

Thread(j) ==
  \/ NoEmbedding(j) \/ TakeEmbed(j) \/ EmbedText(j) \/ EmbedLast(j)
  \/ EmbedRaises(j) \/ NoChat(j) \/ TakeChat(j) \/ ChatRaises(j)
  \/ \E d \in Drafts : ChatWrites(j, d)

\* The process dies, with its jobs and its cache.
Crash ==
  /\ Restart /\ cache' = {}
  /\ job' = [j \in Jobs |->
       IF job[j].pc \in {"new", "done"} THEN job[j] ELSE Nothing("lost")]

Next ==
  \/ Prepare /\ UNCHANGED <<job, cache>>
  \/ \E j \in Jobs : \E k \in KindsOf[j] : \E q \in Requests : Arrive(j, k, q)
  \/ \E j \in Jobs : Thread(j)
  \/ Crash

Spec == Init /\ [][Next]_vars

\* Every thread runs, and a call of a model returns or raises.
FairSpec == Spec /\ \A j \in Jobs : WF_vars(Thread(j))

----------------------------------------------------------------------------
(* Properties *)

\* Every thread is at a step of its handler, with what the step needs, and
\* the cache has no article the knowledge base lacks.
TypeOK ==
  /\ ModelsTypeOK /\ cache \subseteq Articles
  /\ \A j \in Jobs : LET r == job[j] IN
       /\ r.pc \in Embeds \cup {"new", "generate", "done", "lost"}
       /\ r.kind \in KindsOf[j] \cup {"none"} /\ r.ask \in Requests \cup {NoRequest}
       /\ r.left \in Nat /\ (r.left > 0 <=> r.pc \in Embeds)
       /\ r.inside \in {"none"} \cup (CASE r.pc \in Embeds -> {"embed"}
                                        [] r.pc = "generate" -> {"chat"}
                                        [] OTHER -> {})
       /\ r.hits \subseteq Articles /\ r.draft \in Drafts
       /\ (r.pc = "done") = (r.text # "none")

\* llama.cpp instances are not safe for concurrent calls: however jobs with
\* batches of texts, lookups and completions interleave, an instance has one
\* thread inside, and the thread has its answer to wait for.
ModelExclusive ==
  \A j, k \in Jobs :
    /\ job[j].inside # "none" /\ job[k].inside = job[j].inside => j = k
    /\ job[j].inside # "none" => job[j].inside \in loaded

\* Text that tries to steer the assistant never reaches the chat model,
\* wherever in the request it stands, and gets no answer from memory.
ThreatsStayOut ==
  \A j \in Jobs : job[j].ask.threat # "none" =>
    /\ job[j].inside # "chat"
    /\ job[j].text \notin {"draft", "label", "default", "resolution"}

\* Whatever the models write and whenever they appear, an answer is a fixed
\* text, an article that fits best of those retrieved, a draft that cites
\* only retrieved articles and passed the guard, or the resolution somebody
\* wrote for a ticket that reaches the bar on the scale it was measured on.
Grounded ==
  \A j \in Jobs : LET r == job[j] IN
    CASE r.text = "draft" ->
           r.draft.sound /\ r.cites # {} /\ r.cites \subseteq r.hits
      [] r.text = "article" ->
           \E a \in r.hits : /\ r.cites = {a}
                             /\ \A b \in r.hits : Score[r.scale][b] <= Score[r.scale][a]
      [] r.text = "resolution" ->
           \E t \in r.ask.offered \cap Answered :
             /\ r.match = {t}
             /\ Score[r.scale][t] >= SimilarityBar[r.kind][r.scale]
      [] OTHER -> r.cites = {}

\* Nothing relevant is overlooked: on the scale the job used, no article of
\* the whole knowledge base fits better than one it works from, and none is
\* dropped while there is room for it - though other threads fill the cache
\* and the model may fail between the articles and the question.
RetrievalComplete ==
  \A j \in Jobs : LET r == job[j] IN
    r.pc = "generate" /\ r.kind # "classify" =>
      \A a \in Articles \ r.hits :
        \/ Score[r.scale][a] < KbMin[r.scale]
        \/ /\ Cardinality(r.hits) = TopK
           /\ \A b \in r.hits : Score[r.scale][a] <= Score[r.scale][b]

\* Whatever the order of the reports, the incidents of the overview hang
\* together by similar reports, and no two are so alike that every report of
\* one is similar to every report of the other.
GroupsSound ==
  \A j \in Jobs : LET r == job[j] IN
    r.text = "groups" =>
      LET Similar(x, y) ==
            Alike[r.scale][{x, y}] >= SimilarityBar["cluster"][r.scale]
      IN /\ \A C \in r.groups : \A A \in (SUBSET C) \ {{}, C} :
              \E x \in A, y \in C \ A : Similar(x, y)
         /\ \A C, D \in r.groups : C # D => \E x \in C, y \in D : ~Similar(x, y)

\* A job that began is answered, with the models or without: a lock is
\* given back also when a model raises.
JobAnswered ==
  \A j \in Jobs : (job[j].pc # "new") ~> (job[j].pc \in {"done", "lost"})
============================================================================
