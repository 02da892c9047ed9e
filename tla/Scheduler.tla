------------------------------ MODULE Scheduler ------------------------------
(***************************************************************************)
(* The priority scheduler of the ai-service (services/scheduler.py): calls *)
(* of submit put jobs on a bounded priority queue, a pool of workers runs  *)
(* them in threads, and each caller waits for its future with a timeout.   *)
(*                                                                         *)
(* Everything but the job itself runs on one event loop, so an action is   *)
(* what a coroutine does between two awaits.  A future that is settled and *)
(* the caller that resumes on it are two steps: the timeout may fall in    *)
(* between, and then the result is lost.                                   *)
(***************************************************************************)
EXTENDS Integers, FiniteSets

CONSTANTS Calls,      \* the calls of submit
          Workers,    \* the pool, settings.ai_workers of them
          Free, Down, \* a worker waiting in queue.get(), one not running
          QueueMax,   \* settings.ai_queue_max
          KindOf,     \* call -> kind of job
          LevelOf,    \* call -> priority of the ticket, or "NONE"
          Stuck,      \* the calls whose job never returns
          MaxStops    \* bound: stops of the scheduler

ASSUME SchedulerAssumption ==
  /\ QueueMax \in Nat \ {0}
  /\ Workers # {} /\ IsFiniteSet(Workers) /\ IsFiniteSet(Calls)
  /\ Free \notin Calls /\ Down \notin Calls /\ Free # Down
  /\ Stuck \subseteq Calls /\ MaxStops \in Nat

----------------------------------------------------------------------------
(* Priorities: the smaller number is served first *)

KindBase == [copilot |-> 0, assistant |-> 0, auto_resolve |-> 0,
             duplicates |-> 10, classify |-> 20, cluster |-> 30]
TicketPriority == [URGENT |-> 0, HIGH |-> 1, MEDIUM |-> 2, LOW |-> 3]

\* An unknown kind counts as background work, an unknown level as MEDIUM.
PriorityFor(kind, level) ==
  (IF kind \in DOMAIN KindBase THEN KindBase[kind] ELSE 20)
    + TicketPriority[IF level \in DOMAIN TicketPriority THEN level
                                                        ELSE "MEDIUM"]

Priority(c) == PriorityFor(KindOf[c], LevelOf[c])

VARIABLES started,   \* the queue and the pool exist
          queue,     \* the jobs in the PriorityQueue
          seq,       \* call -> its sequence number
          future,    \* call -> state of its future
          caller,    \* call -> what its caller knows
          worker,    \* worker -> Down, Free, or the job it runs
          \* the counters of stats()
          nextSeq, running, completed, rejected, timedOut, failed,
          \* history: how far the work of each call got, and the jobs that
          \* left the queue without being run
          work, skipped, stops

stats == <<running, completed, rejected, timedOut, failed>>
vars == <<started, queue, seq, future, caller, worker, nextSeq, stats, work,
          skipped, stops>>

Init ==
  /\ started = FALSE /\ queue = {}
  /\ seq = [c \in Calls |-> 0]
  /\ future = [c \in Calls |-> "none"]
  /\ caller = [c \in Calls |-> "new"]
  /\ worker = [w \in Workers |-> Down]
  /\ nextSeq = 0 /\ running = 0 /\ completed = 0
  /\ rejected = 0 /\ timedOut = 0 /\ failed = 0
  /\ work = [c \in Calls |-> "none"] /\ skipped = 0 /\ stops = 0

\* _Job's order: by priority, then by arrival.
Before_PriorityOnly(c, d) == Priority(c) < Priority(d)
Before(c, d) ==
  \/ Priority(c) < Priority(d)
  \/ Priority(c) = Priority(d) /\ seq[c] < seq[d]

Settled(c) == future[c] \notin {"none", "pending"}

----------------------------------------------------------------------------
(* submit *)

\* _ensure_started: the first call, and the first after a stop, starts the
\* queue and the pool.
EnsureStarted ==
  /\ started' = TRUE
  /\ worker' = IF started THEN worker ELSE [w \in Workers |-> Free]

\* put_nowait on a queue with room.
Submit(c) ==
  /\ caller[c] = "new" /\ Cardinality(queue) < QueueMax
  /\ EnsureStarted
  /\ seq' = [seq EXCEPT ![c] = nextSeq] /\ nextSeq' = nextSeq + 1
  /\ queue' = queue \cup {c}
  /\ future' = [future EXCEPT ![c] = "pending"]
  /\ caller' = [caller EXCEPT ![c] = "waiting"]
  /\ UNCHANGED <<stats, work, skipped, stops>>

\* QueueFull: the caller gets Overloaded at once.  Jobs whose callers have
\* given up still count.
Refuse(c, jobs) ==
  /\ caller[c] = "new" /\ started /\ Cardinality(queue) >= QueueMax
  /\ seq' = [seq EXCEPT ![c] = nextSeq] /\ nextSeq' = nextSeq + 1
  /\ queue' = jobs
  /\ caller' = [caller EXCEPT ![c] = "overloaded"]
  /\ rejected' = rejected + 1
  /\ UNCHANGED <<started, future, worker, running, completed, timedOut,
                 failed, work, skipped, stops>>

Reject_KeepsJob(c) == Refuse(c, queue \cup {c})
Reject(c) == Refuse(c, queue)

\* The caller resumes on its settled future.
Resume(c) ==
  /\ caller[c] = "waiting" /\ future[c] \in {"result", "error"}
  /\ caller' = [caller EXCEPT ![c] = future[c]]
  /\ UNCHANGED <<started, queue, seq, future, worker, nextSeq, stats, work,
                 skipped, stops>>

\* wait_for's timeout: cancels the future unless it is settled already, and
\* raises TimeoutError either way.  The job stays where it is.
GiveUp(c, when) ==
  /\ caller[c] = "waiting" /\ when
  /\ future' = [future EXCEPT ![c] = IF @ = "pending" THEN "cancelled" ELSE @]
  /\ caller' = [caller EXCEPT ![c] = "timeout"]
  /\ timedOut' = timedOut + 1
  /\ UNCHANGED <<started, queue, seq, worker, nextSeq, running, completed,
                 rejected, failed, work, skipped, stops>>

TimeOut_OnlyIfQueued(c) == GiveUp(c, c \in queue)
TimeOut(c) == GiveUp(c, TRUE)

----------------------------------------------------------------------------
(* _worker *)

First(c) == c \in queue /\ \A d \in queue : ~Before(d, c)

\* The caller of the job gave up while it was queued: task_done, and on.
Skip(w, c) ==
  /\ worker[w] = Free /\ First(c) /\ Settled(c)
  /\ queue' = queue \ {c}
  /\ skipped' = skipped + 1
  /\ UNCHANGED <<started, seq, future, caller, worker, nextSeq, stats, work,
                 stops>>

\* The job goes to a thread.
Begin(w, c) ==
  /\ worker[w] = Free /\ First(c) /\ ~Settled(c)
  /\ queue' = queue \ {c}
  /\ worker' = [worker EXCEPT ![w] = c]
  /\ running' = running + 1
  /\ work' = [work EXCEPT ![c] = "begun"]
  /\ UNCHANGED <<started, seq, future, caller, nextSeq, completed, rejected,
                 timedOut, failed, skipped, stops>>

\* The thread ends, with a result or an exception, and the future is settled
\* unless the caller cancelled it meanwhile.  next is what becomes of the
\* worker, done is the counter completed.
Finish(w, ok, next, done) ==
  /\ worker[w] \in Calls \ Stuck
  /\ LET c == worker[w]
     IN /\ future' = [future EXCEPT ![c] =
             IF @ # "pending" THEN @ ELSE IF ok THEN "result" ELSE "error"]
        /\ work' = [work EXCEPT ![c] = "ended"]
  /\ failed' = IF ok THEN failed ELSE failed + 1
  /\ running' = running - 1 /\ completed' = done
  /\ worker' = [worker EXCEPT ![w] = next]
  /\ UNCHANGED <<started, queue, seq, caller, nextSeq, rejected, timedOut,
                 skipped, stops>>

End_SkipsFailed(w, ok) ==
  Finish(w, ok, Free, IF ok THEN completed + 1 ELSE completed)
End_WorkerDies(w, ok) ==
  Finish(w, ok, IF ok THEN Free ELSE Down, completed + 1)
End(w, ok) == Finish(w, ok, Free, completed + 1)

----------------------------------------------------------------------------
(* stop.  The server calls it when every request has been answered: what is *)
(* left are jobs whose callers gave up.  Cancelling a worker runs its       *)
(* finally blocks, which count the job as completed; its thread may run on, *)
(* unseen by the scheduler.                                                 *)

Busy == { w \in Workers : worker[w] \in Calls }

Stop ==
  /\ started /\ stops < MaxStops
  /\ \A c \in Calls : caller[c] # "waiting"
  /\ started' = FALSE /\ stops' = stops + 1
  /\ skipped' = skipped + Cardinality(queue) /\ queue' = {}
  /\ worker' = [w \in Workers |-> Down]
  /\ running' = running - Cardinality(Busy)
  /\ completed' = completed + Cardinality(Busy)
  /\ work' = [c \in Calls |-> IF work[c] = "begun" THEN "ended" ELSE work[c]]
  /\ UNCHANGED <<seq, future, caller, nextSeq, rejected, timedOut, failed>>

----------------------------------------------------------------------------

Working(w) ==
  \/ \E c \in Calls : Skip(w, c) \/ Begin(w, c)
  \/ \E ok \in BOOLEAN : End(w, ok)

Next ==
  \/ \E c \in Calls : Submit(c) \/ Reject(c) \/ Resume(c) \/ TimeOut(c)
  \/ \E w \in Workers : Working(w)
  \/ Stop

Spec == Init /\ [][Next]_vars

\* The loop runs whatever is ready, time passes, and a job that is not stuck
\* ends.
FairSpec ==
  /\ Spec
  /\ \A c \in Calls : WF_vars(Resume(c) \/ TimeOut(c))
  /\ \A w \in Workers : WF_vars(Working(w))

----------------------------------------------------------------------------
(* Properties *)

\* The state of every call, worker and counter is one the code can write.
TypeOK ==
  /\ started \in BOOLEAN /\ queue \subseteq Calls
  /\ seq \in [Calls -> Nat]
  /\ future \in [Calls -> {"none", "pending", "result", "error", "cancelled"}]
  /\ caller \in [Calls -> {"new", "waiting", "result", "error", "overloaded",
                           "timeout"}]
  /\ worker \in [Workers -> Calls \cup {Free, Down}]
  /\ {nextSeq, running, completed, rejected, timedOut, failed} \subseteq Nat
  /\ work \in [Calls -> {"none", "begun", "ended"}]
  /\ skipped \in Nat /\ stops \in Nat

\* stats() accounts for every call: whatever times out, fails or is skipped,
\* no call is counted twice or forgotten.
StatsAccount ==
  /\ nextSeq = rejected + Cardinality(queue) + running + completed + skipped
  /\ running = Cardinality(Busy)
  /\ timedOut = Cardinality({ c \in Calls : caller[c] = "timeout" })
  /\ failed <= completed

\* A caller gets one answer, from work that was begun once and ended.
Contract == INSTANCE AskOnce
  WITH answer <- [c \in Calls |-> IF caller[c] \in {"new", "waiting"}
                                  THEN "none" ELSE caller[c]]
ContractSpec == Contract!Spec

\* No job begins while a waiting caller's earlier or more urgent job stays in
\* the queue: interactive work beats batch work, and equals are served in
\* order of arrival.
NoInversion ==
  [][\A c, d \in Calls :
       c \in queue /\ c \in queue' /\ ~Settled(c)
         /\ work[d] = "none" /\ work'[d] = "begun"
       => \/ Priority(d) < Priority(c)
          \/ Priority(d) = Priority(c) /\ seq[d] < seq[c]]_vars

\* No caller hangs, even when jobs never return.
CallerAnswered ==
  \A c \in Calls : (caller[c] = "waiting") ~> (caller[c] # "waiting")

\* When jobs do return, the pool drains the queue.
QueueDrains == \A c \in Calls : (c \in queue) ~> (c \notin queue)
============================================================================
