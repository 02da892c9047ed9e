# SmartDesk in TLA+

A verification development for SmartDesk, the support desk made of three
FastAPI services: **api-service** (tickets, queue, auto-resolution, rate
limits, the only public one), **ai-service** (local language models behind a
priority scheduler) and **forum-service** (a forum behind a proxy of the
api-service). The state lives in MongoDB; the services are asyncio processes.

The modules here model the parts whose correctness depends on the order of
events: handlers that read, await and write; background tasks; a worker pool
with timeouts; a limiter that forgets; a proxy that gives up; a file and its record in
two stores; an overview of tickets that change while it is made. TLC checks them
on small instances, TLAPS proves the main results for all instances.

## 1. The system

| Component | State it keeps | Operations | Talks to |
|---|---|---|---|
| Ticket desk (`routers/tickets.py`, `comments.py`, `admin.py`) | collections `tickets`, `comments`, `users`, `activity_log` | create, PATCH, assign, comment, change a role | starts a background task per new ticket |
| Auto-resolution and memory (`services/memory.py`) | `resolution`, `autoResolved` of a ticket | candidates, take from the queue, reply, log | the ai-service, the desk's collections |
| Smart queue (`services/queueing.py`) | none of its own: ranks `tickets` | `get_queue`, `claim_next` | the desk's tickets |
| AI scheduler (`ai-service/services/scheduler.py`) | priority queue, worker pool, futures, counters | `submit`, workers, timeout, `stop` | threads that run the models |
| Rate limiter (`rate_limit.py`) | deque of hits per key, time of the last sweep | `client_key`, `_check`, `_sweep` | in front of every metered endpoint |
| Forum (`forum-service/routers/forum.py`) | collections `boards`, `threads`, `posts` | create thread, reply, moderate, delete a post | trusts the token only, no accounts |
| Forum proxy (`routers/forums.py`) | none | forward with a timeout | forum-service |
| Model manager, local model, knowledge base (ai-service) | `_state`, two models, cache of embeddings | `prepare`, completions, embeddings | threads |
| AI answers (ai-service `memory`, `assistant`, `copilot`, `duplicates`, `classifier`, `guardrails`) | none | model call, check, fallback | scheduler, models |
| Incident clustering (`ai-service/services/clustering.py`) | none | group reports | scheduler |
| Incident overview (`api-service/services/incidents.py`) | none | `overview` of the active tickets | the desk's tickets, the ai-service |
| Uploads (`routers/uploads.py`) | files on disk, collection `uploads` | `upload`, `serve`, `upload_exists` | comments refer to what is stored |
| Body limit (`middleware.py`) | bytes seen per request | count, refuse | in front of everything |
| Accounts, bootstrap (`auth.py`, `bootstrap.py`) | collection `users` | register, log in, first admin | |

What is hard in it:

* **No transactions.** A handler makes three to five database operations, each
  an await; other requests run in between, and a failure leaves a prefix.
  Only `find_one_and_update` (claiming, auto-resolution) decides atomically.
* **Stale reads.** PATCH checks the status machine on a document read several
  awaits before it writes; `claim_next` ranks once and then walks; a comment
  remembers whether the ticket was done when it was read.
* **Two stores.** An upload is a file and a document; either can be there without
  the other after a failure or a restart.
* **Work without an owner.** The background task lives in memory only; a job of
  the scheduler goes on when its caller gave up; the forum executes what the
  proxy has already answered with 503.
* **Time.** Timeouts race with late results; a sliding window is kept by two
  mechanisms (popping, sweeping) that must agree.

What makes each component correct, in a sentence: a ticket goes to one agent at
most, and humans win over the AI; the memory offers only what staff told
customers; every ticket is classified; the queue hands out the best ticket and
starves nobody; every caller of the scheduler gets one answer in time and work
begins in order; no client gets more than its budget or less on account of another, and
one that obeys Retry-After is served; a thread's counters agree with its posts; what the
database knows of an upload is on disk, whole, and its URL keeps its answer; an incident
overview accounts for every complaint of its time and lists the most urgent first.

## 2. Modules

```
TicketDesk                      (desk, memory, background task, claims)
ClaimQueue ── TicketPool        (scores, the walk down a stale ranking; the pool it implements)
   Priorities                   (effective priority, also of Incidents)
Scheduler  ── AskOnce           (submit, worker pool, timeouts, stop; the contract it implements)
RateLimit                       (key of a request, deques, sweep, Retry-After)
Forum                           (forum-service behind the proxy)
LocalModels ── LocalAI          (prepare and /health; the jobs that use the models)
   Clustering                   (groups of reports, also of Incidents)
Incidents                       (the overview beside the changing tickets)
BodyLimit  ── Uploads           (counted bodies; files, records and comments that refer to them)
```

A component `M` that is run on its own has a module `MCM` with what its `.cfg` needs, and the
theorems about it are in `M_proofs` (there are eight of each: TicketDesk, ClaimQueue, Scheduler,
RateLimit, Forum, LocalAI, Incidents, Uploads). `Incidents` and `LocalAI` share `Clustering`
because the fallback of the api-service is the same loop over the same words.

`TicketDesk` composes the handlers of tickets, comments, queue, roles and the
background task over one set of collections, since their interaction is the
point. `ClaimQueue` looks at the claim alone, with the scores that
`TicketDesk` leaves out (there a claim may take any ticket it has read), and
sees the rest of the desk as arbitrary writes to tickets.

### TicketDesk

| Variable | Code |
|---|---|
| `role` | `users.role`; `get_current_user` reads it once per request into `req[p].staff` |
| `ticket` | documents of `tickets`: creator, status, agent, resolution, `autoResolved` (`auto`), `aiSuggested` (`ai`) |
| `comments` | `comments` of a ticket in the order of insertion |
| `log` | the set of actions in `activity_log` per ticket |
| `req` | a request in flight per slot: the await it is at, and its local variables |
| `bg` | the background task of a ticket: `_process_new_ticket` |
| `claimed` | history: how often `claim_next` returned the ticket |

*Granularity.* The service is one asyncio process, so code between two awaits
runs undisturbed and every await is one database operation or one call of the
ai-service. An action is one operation with the code around it. `PATCH` has up
to six: arrival, `PatchRead`, `PatchLog`, `PatchReplies` and `PatchRoles` (the
two queries of `latest_staff_reply`), `PatchReject`, `PatchWrite`; the branch
after the log entry is `AfterStatusLog`. The background task goes through
`check`, `recall`, `ask`, `reply`, `log`, `classify`.

*Abstractions.* A text is its provenance (ticket, author, whether the author
was staff then, how it was written) or `Blank`. Comments are only appended, so
the number of comments stands for the list a handler read; their order of
insertion stands for `createdAt`. The ai-service is a choice among the offered
candidates or none. The limit of 300 candidates and their order by `updatedAt`,
and title, description, category, priority and department are left out. Tickets in
`History` come from an earlier life of the service.

*Failures.* `RequestFault`: an operation of a request raises, the client gets
a 500 and the written prefix stays. `BackgroundFault`: the same in the
background task, whose `try_auto_resolve` swallows it and classifies.
`Crash`: the process dies and forgets `req` and `bg`.

### ClaimQueue and TicketPool

`Score`, `Breached`, `EffectivePriority` are `priority_score` and its helpers;
constants have the names of the module's (`SLA_BREACH_BONUS` is
`SlaBreachBonus`). `RankQueue` is `get_queue` at a moment, `ClaimTop`,
`SkipTop`, `ClaimNothing` the loop of `claim_next`. `Create`, `SetPriority`,
`Suggest`, `Resolve`, `Reopen`, `Assign`, `Tick` are what goes on meanwhile.
`gone` is a history: tickets seen out of the queue since the ranking was read.

`TicketPool` has no scores and no ranking: an agent who asks gets a waiting ticket in one
step, or nothing. The refinement mapping takes the tickets that match the
filter as `waiting`, `assignedAgent` as `holder`, and the agents in the loop as
`asking`. Since only `Take` and `GoWithout` end a question, a claim of a ticket
that was resolved or assigned meanwhile would not be a step of the pool.

### Scheduler and AskOnce

An action is what a coroutine does between two awaits. `Submit`, `Reject`,
`Resume`, `TimeOut` are the four ways through `submit`; `Skip`, `Begin`, `End`
are `_worker`. That a settled future and the caller that resumes on it are two
steps is Python's `asyncio.wait_for`, which may lose a result to the timeout
(3.12). `Stop` is `stop` with its `finally` blocks; the server calls it when
requests have been drained, so no caller waits; a cancelled worker's thread may run
on unseen. The averages and counts per kind in `stats` are left out.

`AskOnce` promises that the work of a call begins at most once, that a call is
answered once and keeps its answer, that a rejected call is never worked on,
and that a result comes from ended work.

### RateLimit

A deque is kept as the list of everything admitted for the key and the position of its
first element, so what `popleft` and the sweep drop stays visible to the properties.
`Key` is the key of a request: the bucket, and the subject of its token or, without a token,
the address, which is the first hop of X-Forwarded-For when the proxy is trusted. `served` is a
history: the requests of a user admitted per bucket, whatever key they were metered under.
`Admit` and `Reject` are `_check` with its call of `_sweep`, one step each,
since they contain no await. Time is in ticks, `Grain` to the second.

### Forum

Written like TicketDesk. `told` is what the client hears of a creation: `ok`,
`refused` (4xx) or `unknown` (a 500, or the 503 of the proxy); `ProxyTimeout`
leaves the request running. `lastPostAt` is represented by the post at whose
creation the time was taken. `FailHalfway` is a failure between a post and its
counter, `failed` counts them. A crash of the service is a failure of every
request in flight. Tokens carry the role, and one account may hold several.

### LocalModels and LocalAI

| Variable | Code |
|---|---|
| `settings` | `local_ai_enabled`, `auto_download_models` of the deployment |
| `dest`, `part` | the file of each model and the `.part` file beside it |
| `prep` | the step of `prepare()` its background thread is at |
| `status`, `loaded` | `_state["status"]`; `_chat_model`, `_embed_model` |
| `cache` | `kb._embeddings`: the articles whose vectors are kept |
| `job[j]` | the locals of a job's thread: the step (`pc`), the request, texts `left` to embed, the model it is `inside`, the `scale` of its similarities, the retrieved articles (`hits`), the draft, the answer (`text`, `cites`, `match`, `groups`) |

`LocalModels` is `model_manager.py`; `LocalAI` extends it by the six kinds of
jobs (`Classify`, `Assist`, `Answer`, `AutoResolve`, `Find`, `Cluster`) that the scheduler's
workers run in threads, so `prepare` and the jobs interleave. The handlers are
operators on a job's record; the steps (`TakeEmbed`, `EmbedText`, `ChatWrites`, ...) say
when they run.

*Granularity.* These are threads, so an action is what a thread does between
two accesses to shared state: the globals of the models, the locks
`_chat_lock` and `_embed_lock`, the cache. That the model is read and its lock taken
is one step: a model that is there stays until the process dies. `embed` takes the lock anew
for every text, and fails as a whole if one fails.

*Abstractions.* Texts, prompts and patterns are left out. A request carries
a threat in the ticket, in the conversation, or none. A completion is sound
or not, with any citations: whatever the grammar promises, `validate_copilot_output`
decides. Similarity is a constant per scale (cosines with the model, shared tokens
without), ties come in any order. `auto_resolve_enabled` is taken as on.

### Clustering

`Groupings` says of `_single_linkage` what it returns rather than how it loops:
the partitions in which, for some order of the items, each stands where the loop
would have put it (`Placed`). `MCLocalAI` holds the loop itself (`Greedy`) and compares the two
for all similarities of three items.

### Incidents

| Variable | Code |
|---|---|
| `ticket` | status, priority and suggested priority of the documents of `tickets` |
| `view[m]` | the locals of one `overview`: what the cursor has still to pass (`todo`), the documents read (`docs`), the answer; and two histories, the tickets active at some moment since the question (`ever`) and those active ever since in the status they had (`always`) |

`Ask`, `Visit`, `Send`, then `Grouped` or `Unanswered` are `overview` from its query to its
answer; `RollUp` is what it makes of groups (`Severity`, `Precedes`, the minimum, the noise).
The ai-service may answer any partition of the tickets it was sent, since its models and
fallback are not in this service's hands; without an answer the groups are some of
`Groupings`. `Create`, `SetStatus`, `SetPriority`, `Suggest` are the desk.

*Abstractions.* The cursor passes every ticket once, at some moment: a ticket that MongoDB
returns twice because it moved along the index while the cursor ran is not modelled. Labels,
samples, `first_report` and `customers_est` (50 per report) are read off a group and left out.

### Uploads and BodyLimit

| Variable | Code |
|---|---|
| `file`, `record` | the file of an id in `uploads_dir`; its document in `uploads` |
| `linked` | ids that comments refer to |
| `req` | a request in flight per slot: `upload`, `serve` or `add_comment` |
| `body` | what the middleware knows of a request's body: sent, declared, received, handed on |
| `sent`, `shown`, `lost` | histories: the bytes a client sent under an id; what GET answered for it; the uploads a crash or a failing insert cut off |

`UploadOpen`, `UploadChunk`, `UploadTooLarge`, `UploadComplete`, `UploadInsert` are `upload`
from await to await, with `UploadFails` and `UploadInsertFails` for an operation that raises;
a failing insert may have stored the document or not. `ServeLookup` and `ServeFile` are two
steps, and so are the lookup of each URL of a comment and its insert. `BodyLimit` counts:
`Declare` compares a declared length, `Receive` counts a message before it hands it over.

`Crash` is the death of the process. Any prefix of a file being written may be on disk, and
an insert under way may have reached the database. A loss of power is another matter: no file is
flushed to disk before its record is inserted (`uploads.py:116`), and nothing is claimed
about it. The copy that Starlette makes of a multipart body before the handler runs
is not modelled. What the magic bytes say is a choice: a kind or none.

## 3. What the runs check

| Run | Instance | Properties |
|---|---|---|
| `desk_races` | 2 tickets (one old, one new), customer and agent, 2 requests at a time, 3 in all, 1 crash, fair event loop | `TypeOK`, `ClaimedOnce`, `HumanWins`, `EventuallyClassified`, `AnswerDelivered` |
| `desk_memory` | the same with comments and notes, an agent may be demoted, 1 failing operation | `MemoryTrusted`, `AIReplyJustified`, `LogExplainsTicket` |
| `queue` | 2 tickets, 1 agent, hours 0, 48, 73, priorities none, LOW, URGENT | `NothingMeansGone`, `BestFirst`, `BreachedFirst`, `PoolSpec` |
| `scheduler` | 3 calls of two priorities, one job never returns, 2 workers, queue of 2, 1 stop and restart | `StatsAccount`, `NoInversion`, `ContractSpec`, `CallerAnswered`, `QueueDrains` |
| `rate_limit` | a user with both budgets (2 and 1) and a visitor behind one address, a window of 3 half-second ticks, a sweep every 2, 4 ticks in all | `WindowBound`, `OwnBudget`, `RetryAfterSuffices` |
| `local_ai` | a copilot job beside one of another kind, 3 past tickets, the best 2 of 3 articles, 3 configurations, 1 crash | `ModelExclusive`, `WholeModels`, `HealthTruthful`, `ThreatsStayOut`, `Grounded`, `RetrievalComplete`, `GroupsSound`, `JobAnswered` |
| `forum` | 1 thread, 3 posts, 2 requests at a time, 1 failure halfway | `CountAccurate`, `AnswersTrue`, `LockHolds`, `ModerationOnly` |
| `incidents` | 4 tickets, 1 manager, 2 changes by the desk, incidents of 2 and more | `OverviewAccounts`, `OverviewCurrent`, `MostUrgentFirst`, `OverviewAnswered` |
| `uploads` | 2 ids, 2 requests at a time, kinds with caps 2 and 3, files of 1 and 3, bodies of 0, 2 and 3 under a limit of 2, declared truly, falsely or not at all, 1 failing operation, 1 crash | `MediaServed`, `ServedForever`, `Tidy`, `InputBounded` |

The type invariants of the other modules are proved (section 4), so no run repeats them.

Each property is stated in words above its definition. Every passing run's
property is also broken by a plausible bug: operators with a suffix
(`ClaimTry_NoRecheck`, `Before_PriorityOnly`, ...) are such mutations of the
operator they precede, and TLC finds the property violated when they replace it.

*Bounds, and why they suffice.* The desk's races are between two handlers, or a handler
and the background task, on one ticket; a third request sets the scene (create,
reopen). The second ticket gives the memory something to offer, and MemoryTrusted
a chain of reuse. At hours 0, 48 and 73 a MEDIUM ticket is
just past its deadline, an URGENT one past its own but too young to overtake, and a
LOW one still in time, so each comparison of scores at the boundary occurs. Two tickets
suffice for the order of the walk, which compares two at a time; the theorems
have no such bound. Of three calls, two have equal priority, and while the stuck one
keeps a worker the others wait behind it or find the queue full. A window of three ticks and a
sweep every two let a hit leave the window between sweeps and at one. Three
posts are a thread's first and two concurrent replies. In `local_ai` the two scales
rank articles differently, a ticket reaches the bar on one scale only, and the most similar
ticket has no resolution, so a mixed-up scale or candidate is seen; of three tickets to
group, the two scales link different ones, and one links two that are unlike;
a crash meets `prepare` at every step. In `incidents` four tickets make two incidents, which have
an order, or one and noise; the minimum is 2 instead of the code's 3 so that four tickets
suffice. In `uploads` a file of three chunks passes one cap and crosses the other in its last chunk,
and a body of three bytes crosses the limit in its last message.

*Fairness.* `desk_races` assumes weak fairness of each request and background
task: the event loop resumes a coroutine whose operation has ended, and every
operation ends, since the driver and the AI client have timeouts. Its liveness exempts
behaviours with a crash (the background task is lost for good, see below), and the run has
no failing operation (a failed last write is not retried). `scheduler` assumes weak
fairness of a caller (its result or its timeout comes) and of a worker; a stuck
job gives its worker nothing to do for ever, so answers do not depend on it.
`local_ai` assumes weak fairness of a job's thread: it is scheduled, and a call of a
model returns or raises. `prepare` needs none, as a job never waits for it.
`incidents` assumes weak fairness of an overview: the event loop resumes it,
and the call of the ai-service ends, if only by its timeout; the desk's changes are finite.
No strong fairness is used: in `local_ai` a batch is finite, so whoever
holds a lock between texts eventually stops asking for it.

### Where the code and its documents differ

These runs expect a violation; TLC prints the shortest trace.

What makes the first two true is proved (section 4): no other write between the check of a
PATCH and its own, and no failure. The third has no such condition: every agent may
resolve without a reply.

| Run | Said | Done |
|---|---|---|
| `desk_status` | `models/enums.py:18`: the table is the single source of truth for the status machine | `update_ticket` checks the ticket it read, awaits, and writes by `_id`: two PATCHes take the stored status along an edge that is not in the table |
| `desk_failure` | `services/memory.py:20`: any failure leaves the ticket in the queue for a human | after `find_one_and_update` the ticket is resolved; if inserting the comment raises, the customer has no answer and the ticket is out of the queue |
| `desk_rejected` | `README.md:159`: whatever the agent resolves a reopened ticket with replaces the remembered answer | resolved again without a public reply, it keeps the rejected answer and offers it to the next customer |

Seen while modelling, without a run of their own:

* A crash loses the background task, and `aiSuggested` stays `pending`.
* A PATCH that read the ticket before the AI resolved it puts an answered ticket back in work
  without `reopened_at`.
* A reply that read the ticket before it was resolved and is inserted after the snapshot
  is remembered by neither handler. The other way round, a public staff comment on a ticket that
  was done when it was read overwrites a newer resolution.
* A comment of a customer who is promoted later counts as a staff reply. By
  `CustomersAreNotQuoted` (section 4) a promotion of its author is the only way in.
* A POST that the proxy answers with 503 may still be executed, so a client that sends it again
  may post twice. No document says otherwise: for `AnswersTrue` a 503 leaves both outcomes open.
* A reply in flight lands in a thread locked meanwhile (`LockHolds` is about replies sent after
  the lock), and `lastPostAt` may go backwards when two replies overtake each other.
* The "hard cap on a job's queue wait + run time" of `config.py:50` caps what the caller waits,
  while the thread runs on and keeps its worker.
* `llm_local.py:13` says that a batch cannot starve a lookup, but a `threading.Lock` is
  not fair, so a batch may take it again for every one of its texts.
* `clustering.py:4` speaks of single-linkage agglomerative clustering, but an item joins one
  group only and groups are never merged, so the incidents depend on the order of the reports
  (`GroupsSound` holds for every order).
* A limit of zero makes `_check` read `hits[0]` of an empty deque (`rate_limit.py:81`): the
  model takes limits to be positive, as the configured ones are.
* An admin may demote the last admin, itself included (`admin.py:28`); a restart with a
  configured account repairs it.
* The file of an upload whose insert failed, or that was cut off by a crash, stays on disk: nothing
  refers to it and nothing removes it (`Tidy` names just these cases).

## 4. What is proved

`TicketDesk_proofs` proves every safety property of the desk, from `DeskAssumption` and
`NullAssumption` (any number of tickets, accounts, slots, requests, failures and crashes):

* `TypeCorrect`: `Spec => []TypeOK`, and `NoDoubleClaim`: `Spec => []ClaimedOnce`;
* `LogIsComplete`: `Spec => []LogExplainsTicket`, and `TheHumanWins`: `Spec => HumanWins`;
* `MemoryIsTrusted`: `NobodyPromoted /\ Spec => []MemoryTrusted`, and `AIRepliesJustified`:
  `NobodyPromoted /\ Spec => []AIReplyJustified`.

Neither of the first two is inductive. The type of a step depends on what the request has in
its slot: `PatchWrite` writes the `target` it was sent, which is a status only if it is
not `None`; `AutoReply` posts `answer`, which is a text only at `reply`. And
`ClaimedOnce` needs that no step puts an agent back to `None` or removes a
document. So the inductive invariant

    IInv == TypeOK /\ ClaimedOnce
              /\ (\A p : req[p] fits its pc, and what it refers to exists)
              /\ (\A t : bg[t] fits its pc, and its ticket exists)

has a part per slot (`Fits`, `Seen`) and per task (`Working`), which a step of another
slot preserves because documents never disappear. There is a lemma per
action (`PatchReadInv`, `ClaimTryInv`, ...), on top of helper lemmas for the four ways a
request changes (`ArriveStep`, `MoveStep`, `GotoStep`, `FinishStep`) and for the background task;
`NextIInv` puts them together and `Inductive` closes the induction with PTL.

The heart of `NoDoubleClaim` is `ClaimTry`: the ticket is claimed only where
`InQueue` holds at that moment, so it has no agent, so it was never claimed.

The next two need `Course`, which follows one ticket: how far its background task is, from its
audit trail and the AI's replies (`Stage`: no trail before the task takes the ticket, a trail
and no reply yet at `reply`); that one request only starts the task, and only once (`Starts`);
and that what a handler is about to write has been logged (`Logged`). A step is `Calm` for every ticket
the AI neither takes nor answers: it may move the status and mark the rejection as far as that
was logged, and touches neither the trail nor the replies. `StepCalm` shows it action by action, and `TakeStep`
and `ReplyStep` are the two that are left. At `TakeStep` the ticket has no agent, so by
`ClaimedOnce` nobody ever claimed it.

The last two need `Trust`: every text on its way from comment to snapshot to candidate
to reply may be reused once the handler that carries it has checked it (`Honest` for a request,
`HonestComment` for what is stored, `HonestTask` for the AI). Where a text in a given
place comes from is said once, whatever is then claimed of texts: `RequestFlow`
(request to request), `CommentFlow` (request or AI to comment), `MemoryFlow` (comment to ticket),
`TaskFlow` (ticket to candidate to answer). A reusable text was no internal note, which
needs no assumption (`NotesStayInternal`), and, where `NobodyPromoted`, was written by staff. That
means that no role change makes staff of a customer: `latest_staff_reply` looks at the roles of
now, so what a customer wrote counts as a staff reply after a promotion (section 3), and the run
has only demotions for the same reason.

Beyond what the runs check it proves:

* `RequestsTerminate`, `TasksTerminate`: each step of a handler lowers `StepsLeft` or strikes a
  candidate off, each step of a task lowers `TaskLeft`. `Resting` (an idle slot is empty) and `Moves`
  (the table of steps) are behind it. With the fairness of `desk_races` this is why a handler ends;
  that last step is left to TLC.
* `TasksDeliver`: a task that ended has classified its ticket, and answered it if it took it and
  nothing failed (`Outcome`, which follows what a task has behind it). `OnlyFailuresStrand` is the claim of
  `memory.py` that `desk_failure` refutes, true up to the first failure (`Unfailed`).
* `StatusMachineIfSerial`: what `desk_status` refutes is true with `OnePatchAtATime`, that is, as long
  as between the check of a PATCH and its write there is no other PATCH of the ticket and no
  answer the AI may still give. `Checked`: the status a PATCH read is still the one it writes over. The
  hypothesis restricts the behaviours, as the code has no lock to ensure it, and
  `~CloseOnAuto` leaves out the setting under which the AI closes what it answers, off the table.
* `CustomersAreNotQuoted`, about the promotions that `NobodyPromoted` leaves out: the words of an
  account that is never staff are in no ticket's memory, among no task's candidates and in no answer of the
  AI, however the roles of all others change in both directions. The hypothesis is about this one account,
  `[]~IsStaff(u)`; the invariant is `Apart(u)`, which the same flow lemmas preserve.
* `AtMostOneAnswer`, `ForeignTextsMarked` (`Origins`: what a request carries and what a comment
  says was written on its own ticket) and `NothingIsForgotten`, an action property.

`LocalAI_proofs` proves, from `ModelsAssumption` and `AnswersAssumption` alone (any number
of jobs, tickets, articles and restarts, all similarities, any `TopK`), every safety property of
`local_ai`: `LoadsWholeFiles`, `HealthIsTruthful`, `TypeCorrect`,
`LocksExclude`, `ThreatsNeverAnswered`, `AnswersGrounded`, `RetrievalIsComplete`,
`IncidentsCohesive`.
Its inductive invariant has two halves that meet in `loaded` only:

* `ModelsInv`, about `prepare`: what each of its steps has behind it (`Progress`: no
  model is loaded before both files are whole, and the status follows), with no torn
  file at a final path, which `WholeModels` and `HealthTruthful` do not say for
  models not yet loaded;
* `JobsInv`, about each job's record: `AtStep` (a job has texts left just when it embeds, is
  inside the model of its step, and only the kinds that have the step are there), `Safe` (a
  request with a threat never gets past the door), `Justified`, `Complete`; and about the
  cache, which is empty or holds all articles, and all of them when a job at `query`
  relies on it. `RetrievalComplete` would not be inductive without that: a scan of a
  partly filled cache would miss articles.

The proof goes bottom-up: what `Goto` and `End` make of a running handler
(`GotoGood`, `EndGood`), then each handler's continuation (`OpeningResult`,
`AfterMemoryResult`, `AfterQueryResult`, ...), then one lemma per thread step on top
of `JobMoves`, which says what the other jobs need from a step. `TopArticleResult` and
`TopIsComplete` are about sorting and cutting: a list cut to n drops nothing better
than what it keeps. `GroupingsCohesive` takes the first item of the part of a group that lacks the group's
first: it joined something similar on the other side; and of two groups the first
item of the later one, which was unlike all that stood before it.

Three theorems go beyond the run. `JobsTerminate`: a step lowers `Stage`, or the texts left at the
same stage, or takes the lock; nobody's step takes a job back. `JobsNeverStuck`: a handler has a
continuation for whatever a model does. It needs `Equipped` (at `memory` there are candidates, at
`generate` there are hits), `TopsExist` (every finite list can be sorted and cut: a longest leading part is
whole or full) and `GroupingsExist`: the groups of the first k items grow by one item (`GrowByOne`),
as of the groups it may join one wins (`WinnerExists`). That is an induction over k, done by the least
counterexample. So the theorems about answers and groups are not about empty sets of results.
`JobsAdvance` and `HandlersTotal` are two of the three things that `JobAnswered` rests on; the third, that a lock
comes free for everyone, is fairness and stays with TLC. `DuplicatesAreBest`: `Grounded` for the matches.

`ClaimQueue_proofs` proves every property of `queue` and the type invariant, from the module's
assumptions (any number of tickets and agents, any hours): `EmptyHandedForAReason`,
`BestIsFirst`, `NoTicketStarves`, `ImplementsPool`.
The inductive invariant adds to `TypeOK` what a walk knows: `SeenWaits` (a ticket that was passed
and is not known to have left still waits), `Untried` (the walk drops only tickets that have
left) and `Unborn`. `BreachOutranks` is arithmetic: priorities are worth at most 45 hours of
waiting, and the bonus outweighs every other difference. The refinement goes action by action: a walk
is an agent asking, and a successful claim is the pool's `Take` as the ticket is tested
again at that moment.
Also proved: `OvertakingIsBounded` (first come first served within a priority, and a week at
most between any two; `Past`: nothing read is younger than the clock, and the arithmetic of
`ScoreOrder`, `LevelOrder` and `WeekAtMost`) and `WalksTerminate` (the candidates left only become fewer).

`Scheduler_proofs` proves `StatsCorrect`, `InOrder`, `ImplementsAskOnce` and the type
invariant for any number of calls and workers and any queue. `StatsAccount` equates counters
with cardinalities, so each step says which set gains or loses which call. It rests on
`CallOK` (how far a call may be, from where its job is), `PoolOK` (no two workers have one job),
`Numbered` (sequence numbers are unique, so the queue is totally ordered) and `NotStarted`.
`Alive` adds that a started pool has no worker down (`Staffed`) and that an unsettled future is pursued
(`Pursued`), which gives `NoLostJob` and, with the least rank of a nonempty queue (`SomeFirst`),
`NeverIdle`. `CallsTerminate`, `PoolBounded` and `KindsInOrder` complete what `CallerAnswered` and
`QueueDrains` rest on without fairness.

`RateLimit_proofs` proves `NoOverrun`, `TurnedAwayForOwn`, `WaitingSuffices` and the type invariant
for any users, addresses, limits, window and sweep. The invariant: what was popped or swept
is out of the window (`PoppedExpired`), the bound holds per key (`KeyBound`) and a user has one
key per bucket (`Metered`), which takes it from keys to users. `ToldEnough` compares Retry-After with
the one hit that has to leave; `RoundedUp` is the division behind it. `ChecksAreDecided`: the pop loop stops at
one position only, as the hits are sorted. With it `ImplementsLog` maps each check to a step of
a limiter that only looks at the log of admitted requests (`LogSpec`), and pops and sweeps to nothing:
the deque holds all the log has within the window. `Held` bounds each deque and
gives `IdleKeysAreSwept`; `WaitsAreBounded` is the same division read the other way.

`Uploads_proofs` proves `RecordedIsOnDisk`, `Immutable`, `NothingLeftBehind`, `Bounded` and the type
invariants of `Uploads` and `BodyLimit` for any ids, requests, caps and sizes. An upload
in progress owns its id (`UploadOK`, `Exclusive`): nobody was told of it and nobody
else writes the file, so a step of one slot leaves the others' as they are. `IdOK` says that a record
describes the whole file, and `linked` is within `InDatabase`, the ids recorded. `BodyOK` is the count.

`Forum_proofs` proves `CounterBounded`, `AnswersAreTrue`, `LockIsKept`, `OnlyModeratorsModerate` and the
type invariant for any number of threads, posts, tokens, requests and failures. `CountAccurate`
is inductive only with what is in flight: the posts of a thread, the requests that
stored and have not counted and the failures are finite sets whose cardinalities balance
(`Balanced`). `SlotOK` and `PostOK` tie a request to the documents it works with, `Exclusive` says that
no two requests create the same post, and `BarredOK` that a reply sent after the lock never gets past it.

`Incidents_proofs` proves `NothingLost`, `NothingStale`, `UrgentFirst` and the type invariant
for any tickets, managers, groupings and minimum. While the cursor moves, what was active
all the time is read or still to be passed (`CursorOK`), and what was read was active at some
moment. That the incidents partition what they report (`Covers`) follows from the groups being disjoint, and
from `ListedOnce`: the sorted list has as many entries as there are incidents and names them all, so it names
none twice.

Every safety property of the passing runs is proved. Only model-checked: the three violations (two of them are
proved under the condition that the code lacks), and all liveness (`EventuallyClassified`, `AnswerDelivered`, `CallerAnswered`,
`QueueDrains`, `JobAnswered`, `OverviewAnswered`). Out of the reach of the proofs
for good are liveness under fairness, statements about ENABLED, and inductions over
data (recursive definitions); over a number, the least counterexample does, as for `GroupingsExist`.
Statements that are theorems only, and no property of a run, were tried with TLC on the instances of the runs first.

## 5. Plan

What is left, most important first.

1. A property that a newer resolution is not replaced by an older comment. The code does
   not keep it (section 3); it needs an order of the writes in `TicketDesk`.
2. `Accounts`: registration under the unique index, the first admin, the last admin.

## 6. Not modelled

* **Accounts and bootstrap**: one insert under a unique index, and one upsert at start before any
  request is served. Role changes are steps of `TicketDesk`; hashing and tokens are libraries.
* **Gateway to the ai-service**: stateless calls that pass an answer on, or `None` after an error or a
  timeout. That outcome is a choice in `TicketDesk` and `Incidents`; the refusals and timeouts
  behind it are in `Scheduler`.
* **Read-only endpoints, serializers, schemas, names, configuration**: no state and no decisions.
* **Web client**: it renders; its requests are the clients of the models.
* **Demo data, scripts, deployment**: not part of the running system.

Of the modelled parts, what is left out is named with each module in section 2.
