--------------------------- MODULE Scheduler_proofs ---------------------------
(***************************************************************************)
(* Proofs about Scheduler: its type invariant, the accounting of stats(),  *)
(* the order of service, that it implements AskOnce, and that no job is    *)
(* lost, no worker is lost and no call goes back.                          *)
(***************************************************************************)
EXTENDS Scheduler, FiniteSetTheorems, WellFoundedInduction, TLAPS

----------------------------------------------------------------------------
(* The inductive invariant *)

\* How far a call may be, from where its job is.
CallOK(c) ==
  /\ caller[c] \in {"new", "overloaded"} =>
       future[c] = "none" /\ work[c] = "none" /\ c \notin queue
  /\ c \in queue => work[c] = "none"
  /\ future[c] \in {"result", "error"} => work[c] = "ended"
  /\ caller[c] \in {"result", "error"} => future[c] = caller[c]

\* A worker runs a job that has begun, and no two run the same.
Running(w) == worker[w] \in Calls
PoolOK ==
  /\ \A w \in Workers : Running(w) => work[worker[w]] = "begun"
  /\ \A v, w \in Workers : Running(v) /\ worker[v] = worker[w] => v = w

\* Every job that was put on the queue has a number of its own.
Numbered ==
  /\ \A c \in queue : seq[c] < nextSeq
  /\ \A c, d \in queue : seq[c] = seq[d] => c = d

\* Without a queue there are no jobs, and nobody runs one.
NotStarted == ~started => queue = {} /\ \A w \in Workers : ~Running(w)

CallsOK == \A c \in Calls : CallOK(c)

IInv == TypeOK /\ CallsOK /\ PoolOK /\ Numbered /\ NotStarted /\ StatsAccount

----------------------------------------------------------------------------
(* Counting *)

LEMMA Finite ==
  ASSUME TypeOK
  PROVE  /\ IsFiniteSet(queue) /\ IsFiniteSet(Busy) /\ Cardinality(queue) \in Nat
         /\ Cardinality(Busy) \in Nat
         /\ \A S \in SUBSET Calls : IsFiniteSet(S)
         /\ \A S \in SUBSET Workers : IsFiniteSet(S)
<1>1. IsFiniteSet(Calls) /\ IsFiniteSet(Workers)
  BY SchedulerAssumption DEF SchedulerAssumption
<1>2. \A S \in SUBSET Calls : IsFiniteSet(S)
  BY <1>1, FS_Subset
<1>3. \A S \in SUBSET Workers : IsFiniteSet(S)
  BY <1>1, FS_Subset
<1>4. IsFiniteSet(queue) /\ IsFiniteSet(Busy)
  BY <1>2, <1>3 DEF TypeOK, Busy
<1> QED BY <1>2, <1>3, <1>4, FS_CardinalityType

LEMMA CountUp ==
  ASSUME NEW S, IsFiniteSet(S), NEW x, x \notin S
  PROVE  Cardinality(S \cup {x}) = Cardinality(S) + 1
BY FS_AddElement

LEMMA CountDown ==
  ASSUME NEW S, IsFiniteSet(S), NEW x \in S
  PROVE  /\ Cardinality(S \ {x}) = Cardinality(S) - 1
         /\ Cardinality(S) \in Nat /\ Cardinality(S) > 0
<1>1. Cardinality(S \ {x}) = Cardinality(S) - 1
  BY FS_RemoveElement
<1>2. Cardinality(S) \in Nat
  BY FS_CardinalityType
<1>3. Cardinality(S) # 0
  BY FS_EmptySet
<1> QED BY <1>1, <1>2, <1>3

\* The callers that gave up, and those that did not.
GaveUp == { c \in Calls : caller[c] = "timeout" }

LEMMA SameBusy ==
  ASSUME worker' = worker
  PROVE  Busy' = Busy
BY DEF Busy

----------------------------------------------------------------------------
(* Types: one lemma per action *)

LEMMA InitIInv == ASSUME Init PROVE IInv
<1>1. TypeOK
  <2>1. /\ {nextSeq, running, completed, rejected, timedOut, failed} \subseteq Nat
        /\ skipped \in Nat /\ stops \in Nat
    BY DEF Init
  <2>2. /\ started \in BOOLEAN /\ queue \subseteq Calls /\ seq \in [Calls -> Nat]
        /\ worker \in [Workers -> Calls \cup {Free, Down}]
    BY DEF Init
  <2>3. /\ future \in [Calls -> {"none", "pending", "result", "error", "cancelled"}]
        /\ work \in [Calls -> {"none", "begun", "ended"}]
    BY DEF Init
  <2>4. caller \in [Calls -> {"new", "waiting", "result", "error", "overloaded",
                             "timeout"}]
    BY DEF Init
  <2> QED BY <2>1, <2>2, <2>3, <2>4 DEF TypeOK
<1>2. queue = {} /\ Busy = {} /\ GaveUp = {}
  BY SchedulerAssumption DEF Init, Busy, GaveUp, SchedulerAssumption
<1>3. StatsAccount
  BY <1>2, FS_EmptySet DEF Init, StatsAccount, GaveUp
<1>4. CallsOK /\ PoolOK /\ Numbered /\ NotStarted
  BY SchedulerAssumption
     DEF Init, CallsOK, CallOK, PoolOK, Numbered, NotStarted, Running,
         SchedulerAssumption
<1> QED BY <1>1, <1>3, <1>4 DEF IInv

LEMMA SubmitStep ==
  ASSUME IInv, NEW c \in Calls, Submit(c)
  PROVE  IInv'
<1>1. /\ caller[c] = "new" /\ future[c] = "none" /\ work[c] = "none" /\ c \notin queue
      /\ queue' = queue \cup {c} /\ nextSeq' = nextSeq + 1
      /\ UNCHANGED <<running, completed, rejected, timedOut, failed, work, skipped, stops>>
  BY DEF Submit, IInv, CallsOK, CallOK, stats
<1>2. /\ seq' \in [Calls -> Nat] /\ seq'[c] = nextSeq
      /\ future' \in [Calls -> {"none", "pending", "result", "error", "cancelled"}]
      /\ future'[c] = "pending"
      /\ caller' \in [Calls -> {"new", "waiting", "result", "error", "overloaded",
                                "timeout"}]
      /\ caller'[c] = "waiting"
      /\ \A d \in Calls : d # c => /\ seq'[d] = seq[d] /\ future'[d] = future[d]
                                   /\ caller'[d] = caller[d]
  BY DEF Submit, IInv, TypeOK
<1>3. /\ started' = TRUE /\ worker' \in [Workers -> Calls \cup {Free, Down}]
      /\ \A w \in Workers : /\ Running(w)' <=> Running(w)
                            /\ Running(w) => worker'[w] = worker[w]
  BY SchedulerAssumption
     DEF Submit, EnsureStarted, IInv, TypeOK, NotStarted, Running, SchedulerAssumption
<1>4. TypeOK'
  <2>1. {nextSeq, running, completed, rejected, timedOut, failed}' \subseteq Nat
    BY <1>1 DEF IInv, TypeOK
  <2> QED BY <1>1, <1>2, <1>3, <2>1 DEF IInv, TypeOK
<1>5. CallsOK'
  <2>1. ASSUME NEW d \in Calls PROVE CallOK(d)'
    <3>1. CASE d = c
      BY <1>1, <1>2, <3>1 DEF CallOK
    <3>2. CASE d # c
      BY <1>1, <1>2, <3>2 DEF IInv, CallsOK, CallOK
    <3> QED BY <3>1, <3>2
  <2> QED BY <2>1 DEF CallsOK
<1>6. PoolOK'
  BY <1>1, <1>3 DEF IInv, PoolOK, Running
<1>7. Numbered'
  <2>1. \A d \in queue : d \in Calls /\ d # c /\ seq'[d] = seq[d] /\ seq[d] < nextSeq
    BY <1>1, <1>2 DEF IInv, Numbered, TypeOK
  <2>2. nextSeq \in Nat /\ \A d \in Calls : seq[d] \in Nat
    BY DEF IInv, TypeOK
  <2> QED BY <1>1, <1>2, <2>1, <2>2 DEF IInv, Numbered, TypeOK
<1>8. NotStarted'
  BY <1>3 DEF NotStarted
<1>9. StatsAccount'
  <2>1. Cardinality(queue') = Cardinality(queue) + 1 /\ Cardinality(queue) \in Nat
    BY <1>1, Finite, CountUp DEF IInv
  <2>2. Busy' = Busy
    BY <1>3 DEF Busy, Running
  <2>3. GaveUp' = GaveUp
    BY <1>1, <1>2 DEF GaveUp
  <2> QED BY <1>1, <2>1, <2>2, <2>3 DEF IInv, TypeOK, StatsAccount, GaveUp
<1> QED BY <1>4, <1>5, <1>6, <1>7, <1>8, <1>9 DEF IInv

LEMMA RejectStep ==
  ASSUME IInv, NEW c \in Calls, Reject(c)
  PROVE  IInv'
<1>1. /\ caller[c] = "new" /\ future[c] = "none" /\ work[c] = "none" /\ c \notin queue
      /\ queue' = queue /\ nextSeq' = nextSeq + 1 /\ rejected' = rejected + 1
      /\ UNCHANGED <<started, future, worker, running, completed, timedOut,
                     failed, work, skipped, stops>>
  BY DEF Reject, Refuse, IInv, CallsOK, CallOK
<1>2. /\ seq' \in [Calls -> Nat]
      /\ caller' \in [Calls -> {"new", "waiting", "result", "error", "overloaded",
                                "timeout"}]
      /\ caller'[c] = "overloaded"
      /\ \A d \in Calls : d # c => seq'[d] = seq[d] /\ caller'[d] = caller[d]
  BY DEF Reject, Refuse, IInv, TypeOK
<1>3. TypeOK'
  <2>1. {nextSeq, running, completed, rejected, timedOut, failed}' \subseteq Nat
    BY <1>1 DEF IInv, TypeOK
  <2> QED BY <1>1, <1>2, <2>1 DEF IInv, TypeOK
<1>4. CallsOK'
  <2>1. ASSUME NEW d \in Calls PROVE CallOK(d)'
    <3>1. CASE d = c
      BY <1>1, <1>2, <3>1 DEF CallOK
    <3>2. CASE d # c
      BY <1>1, <1>2, <3>2 DEF IInv, CallsOK, CallOK
    <3> QED BY <3>1, <3>2
  <2> QED BY <2>1 DEF CallsOK
<1>5. PoolOK' /\ NotStarted'
  BY <1>1 DEF IInv, PoolOK, Running, NotStarted
<1>6. Numbered'
  <2>1. \A d \in queue : d \in Calls /\ d # c /\ seq'[d] = seq[d] /\ seq[d] < nextSeq
    BY <1>1, <1>2 DEF IInv, Numbered, TypeOK
  <2>2. nextSeq \in Nat /\ \A d \in Calls : seq[d] \in Nat
    BY DEF IInv, TypeOK
  <2> QED BY <1>1, <2>1, <2>2 DEF IInv, Numbered
<1>7. StatsAccount'
  <2>1. Busy' = Busy
    BY <1>1, SameBusy
  <2>2. GaveUp' = GaveUp
    BY <1>1, <1>2 DEF GaveUp
  <2>3. Cardinality(queue) \in Nat
    BY Finite DEF IInv
  <2> QED BY <1>1, <2>1, <2>2, <2>3 DEF IInv, TypeOK, StatsAccount, GaveUp
<1> QED BY <1>3, <1>4, <1>5, <1>6, <1>7 DEF IInv

LEMMA ResumeStep ==
  ASSUME IInv, NEW c \in Calls, Resume(c)
  PROVE  IInv'
<1>1. /\ caller[c] = "waiting" /\ future[c] \in {"result", "error"}
      /\ UNCHANGED <<started, queue, seq, future, worker, nextSeq, running,
           completed, rejected, timedOut, failed, work, skipped, stops>>
  BY DEF Resume, stats
<1>2. /\ caller' \in [Calls -> {"new", "waiting", "result", "error", "overloaded",
                                "timeout"}]
      /\ caller'[c] = future[c]
      /\ \A d \in Calls : d # c => caller'[d] = caller[d]
  BY <1>1 DEF Resume, IInv, TypeOK
<1>3. TypeOK'
  BY <1>1, <1>2 DEF IInv, TypeOK
<1>4. CallsOK'
  <2>1. ASSUME NEW d \in Calls PROVE CallOK(d)'
    <3>1. CASE d = c
      BY <1>1, <1>2, <3>1 DEF IInv, CallsOK, CallOK
    <3>2. CASE d # c
      BY <1>1, <1>2, <3>2 DEF IInv, CallsOK, CallOK
    <3> QED BY <3>1, <3>2
  <2> QED BY <2>1 DEF CallsOK
<1>5. PoolOK' /\ NotStarted' /\ Numbered'
  BY <1>1 DEF IInv, PoolOK, Running, NotStarted, Numbered
<1>6. StatsAccount'
  <2>1. Busy' = Busy
    BY <1>1, SameBusy
  <2>2. GaveUp' = GaveUp
    BY <1>1, <1>2 DEF GaveUp
  <2> QED BY <1>1, <2>1, <2>2 DEF IInv, StatsAccount, GaveUp
<1> QED BY <1>3, <1>4, <1>5, <1>6 DEF IInv

LEMMA TimeOutStep ==
  ASSUME IInv, NEW c \in Calls, TimeOut(c)
  PROVE  IInv'
<1>1. /\ caller[c] = "waiting" /\ timedOut' = timedOut + 1
      /\ UNCHANGED <<started, queue, seq, worker, nextSeq, running, completed,
                     rejected, failed, work, skipped, stops>>
  BY DEF TimeOut, GiveUp
<1>2. /\ caller' \in [Calls -> {"new", "waiting", "result", "error", "overloaded",
                                "timeout"}]
      /\ caller'[c] = "timeout"
      /\ \A d \in Calls : d # c => caller'[d] = caller[d]
  BY DEF TimeOut, GiveUp, IInv, TypeOK
<1>3. /\ future' \in [Calls -> {"none", "pending", "result", "error", "cancelled"}]
      /\ future'[c] \in {future[c], "cancelled"}
      /\ \A d \in Calls : d # c => future'[d] = future[d]
  BY DEF TimeOut, GiveUp, IInv, TypeOK
<1>4. TypeOK'
  <2>1. {nextSeq, running, completed, rejected, timedOut, failed}' \subseteq Nat
    BY <1>1 DEF IInv, TypeOK
  <2> QED BY <1>1, <1>2, <1>3, <2>1 DEF IInv, TypeOK
<1>5. CallsOK'
  <2>1. ASSUME NEW d \in Calls PROVE CallOK(d)'
    <3>1. CASE d = c
      BY <1>1, <1>2, <1>3, <3>1 DEF IInv, CallsOK, CallOK
    <3>2. CASE d # c
      BY <1>1, <1>2, <1>3, <3>2 DEF IInv, CallsOK, CallOK
    <3> QED BY <3>1, <3>2
  <2> QED BY <2>1 DEF CallsOK
<1>6. PoolOK' /\ NotStarted' /\ Numbered'
  BY <1>1 DEF IInv, PoolOK, Running, NotStarted, Numbered
<1>7. StatsAccount'
  <2>1. Busy' = Busy
    BY <1>1, SameBusy
  <2>2. GaveUp' = GaveUp \cup {c} /\ c \notin GaveUp /\ GaveUp \subseteq Calls
    BY <1>1, <1>2 DEF GaveUp
  <2>3. Cardinality(GaveUp') = Cardinality(GaveUp) + 1
    BY <2>2, Finite, CountUp DEF IInv
  <2> QED BY <1>1, <2>1, <2>3 DEF IInv, StatsAccount, GaveUp
<1> QED BY <1>4, <1>5, <1>6, <1>7 DEF IInv

LEMMA SkipStep ==
  ASSUME IInv, NEW w \in Workers, NEW c \in Calls, Skip(w, c)
  PROVE  IInv'
<1>1. /\ c \in queue /\ queue' = queue \ {c} /\ skipped' = skipped + 1
      /\ UNCHANGED <<started, seq, future, caller, worker, nextSeq, running,
           completed, rejected, timedOut, failed, work, stops>>
  BY DEF Skip, First, stats
<1>2. TypeOK'
  BY <1>1 DEF IInv, TypeOK
<1>3. CallsOK' /\ PoolOK' /\ NotStarted' /\ Numbered'
  BY <1>1 DEF IInv, CallsOK, CallOK, PoolOK, Running, NotStarted, Numbered
<1>4. StatsAccount'
  <2>1. Busy' = Busy
    BY <1>1, SameBusy
  <2>2. Cardinality(queue') = Cardinality(queue) - 1 /\ Cardinality(queue) \in Nat
    BY <1>1, Finite, CountDown DEF IInv
  <2> QED BY <1>1, <2>1, <2>2 DEF IInv, TypeOK, StatsAccount
<1> QED BY <1>2, <1>3, <1>4 DEF IInv

LEMMA BeginStep ==
  ASSUME IInv, NEW w \in Workers, NEW c \in Calls, Begin(w, c)
  PROVE  IInv'
<1>1. /\ worker[w] = Free /\ c \in queue /\ queue' = queue \ {c}
      /\ running' = running + 1 /\ future[c] \in {"none", "pending"}
      /\ work[c] = "none" /\ started
      /\ UNCHANGED <<started, seq, future, caller, nextSeq, completed, rejected,
                     timedOut, failed, skipped, stops>>
  BY DEF Begin, First, Settled, IInv, CallsOK, CallOK, NotStarted
<1>2. /\ worker' \in [Workers -> Calls \cup {Free, Down}] /\ worker'[w] = c
      /\ \A v \in Workers : v # w => worker'[v] = worker[v]
      /\ work' \in [Calls -> {"none", "begun", "ended"}] /\ work'[c] = "begun"
      /\ \A d \in Calls : d # c => work'[d] = work[d]
  BY DEF Begin, IInv, TypeOK
<1>3. TypeOK'
  <2>1. {nextSeq, running, completed, rejected, timedOut, failed}' \subseteq Nat
    BY <1>1 DEF IInv, TypeOK
  <2> QED BY <1>1, <1>2, <2>1 DEF IInv, TypeOK
<1>4. CallsOK'
  <2>1. ASSUME NEW d \in Calls PROVE CallOK(d)'
    <3>1. CASE d = c
      BY <1>1, <1>2, <3>1 DEF IInv, CallsOK, CallOK
    <3>2. CASE d # c
      BY <1>1, <1>2, <3>2 DEF IInv, CallsOK, CallOK
    <3> QED BY <3>1, <3>2
  <2> QED BY <2>1 DEF CallsOK
<1>5. PoolOK'
  <2>1. \A v \in Workers : Running(v) => worker[v] # c
    BY <1>1 DEF IInv, PoolOK
  <2> QED BY <1>2, <2>1 DEF IInv, PoolOK, Running
<1>6. NotStarted' /\ Numbered'
  BY <1>1 DEF IInv, NotStarted, Numbered
<1>7. StatsAccount'
  <2>1. Busy' = Busy \cup {w} /\ w \notin Busy
    BY <1>1, <1>2, SchedulerAssumption DEF Busy, SchedulerAssumption
  <2>2. Cardinality(Busy') = Cardinality(Busy) + 1
    BY <2>1, Finite, CountUp DEF IInv
  <2>3. Cardinality(queue') = Cardinality(queue) - 1 /\ Cardinality(queue) \in Nat
    BY <1>1, Finite, CountDown DEF IInv
  <2> QED BY <1>1, <2>2, <2>3 DEF IInv, TypeOK, StatsAccount
<1> QED BY <1>3, <1>4, <1>5, <1>6, <1>7 DEF IInv

LEMMA EndStep ==
  ASSUME IInv, NEW w \in Workers, NEW ok \in BOOLEAN, End(w, ok)
  PROVE  IInv'
<1>1. PICK c \in Calls : c = worker[w]
  BY DEF End, Finish
<1>2. /\ Running(w) /\ work[c] = "begun" /\ started
      /\ \A v \in Workers : v # w => worker[v] # c
  BY <1>1 DEF Running, IInv, PoolOK, NotStarted
<1>3. /\ running' = running - 1 /\ completed' = completed + 1
      /\ failed' \in {failed, failed + 1}
      /\ UNCHANGED <<started, queue, seq, caller, nextSeq, rejected, timedOut,
                     skipped, stops>>
  BY DEF End, Finish
<1>4. /\ worker' \in [Workers -> Calls \cup {Free, Down}] /\ worker'[w] = Free
      /\ \A v \in Workers : v # w => worker'[v] = worker[v]
  BY DEF End, Finish, IInv, TypeOK
<1>5. /\ work' \in [Calls -> {"none", "begun", "ended"}] /\ work'[c] = "ended"
      /\ \A d \in Calls : d # c => work'[d] = work[d]
  BY <1>1 DEF End, Finish, IInv, TypeOK
<1>6. /\ future' \in [Calls -> {"none", "pending", "result", "error", "cancelled"}]
      /\ future[c] # "pending" => future'[c] = future[c]
      /\ \A d \in Calls : d # c => future'[d] = future[d]
  <2>1. future' = [future EXCEPT ![c] =
           IF @ # "pending" THEN @ ELSE IF ok THEN "result" ELSE "error"]
    BY <1>1 DEF End, Finish
  <2> QED BY <2>1 DEF IInv, TypeOK
<1>7. w \in Busy /\ Busy' = Busy \ {w}
  BY <1>1, <1>4, SchedulerAssumption DEF Busy, SchedulerAssumption
<1>8. Cardinality(Busy') = Cardinality(Busy) - 1 /\ Cardinality(Busy) > 0
  BY <1>7, Finite, CountDown DEF IInv
<1>9. running \in Nat /\ running > 0 /\ running' \in Nat
  BY <1>3, <1>8 DEF IInv, TypeOK, StatsAccount
<1>10. TypeOK'
  <2>1. {nextSeq, running, completed, rejected, timedOut, failed}' \subseteq Nat
    BY <1>3, <1>9 DEF IInv, TypeOK
  <2> QED BY <1>3, <1>4, <1>5, <1>6, <2>1 DEF IInv, TypeOK
<1>11. CallsOK'
  <2>1. ASSUME NEW d \in Calls PROVE CallOK(d)'
    <3>1. CASE d = c
      <4>1. caller[c] \notin {"new", "overloaded"} /\ c \notin queue
        BY <1>2 DEF IInv, CallsOK, CallOK
      <4>2. caller[c] \in {"result", "error"} => future[c] = caller[c]
        BY DEF IInv, CallsOK, CallOK
      <4> QED BY <1>3, <1>5, <1>6, <3>1, <4>1, <4>2 DEF CallOK
    <3>2. CASE d # c
      BY <1>3, <1>5, <1>6, <3>2 DEF IInv, CallsOK, CallOK
    <3> QED BY <3>1, <3>2
  <2> QED BY <2>1 DEF CallsOK
<1>12. PoolOK'
  BY <1>2, <1>4, <1>5, SchedulerAssumption
     DEF IInv, PoolOK, Running, SchedulerAssumption
<1>13. NotStarted' /\ Numbered'
  BY <1>2, <1>3 DEF IInv, NotStarted, Numbered
<1>14. StatsAccount'
  <2>1. Cardinality(queue) \in Nat
    BY Finite DEF IInv
  <2>2. failed' <= completed'
    BY <1>3 DEF IInv, TypeOK, StatsAccount
  <2> QED BY <1>3, <1>8, <2>1, <2>2 DEF IInv, TypeOK, StatsAccount
<1> QED BY <1>10, <1>11, <1>12, <1>13, <1>14 DEF IInv

LEMMA StopStep ==
  ASSUME IInv, Stop
  PROVE  IInv'
<1> DEFINE q == Cardinality(queue)
           b == Cardinality(Busy)
<1>1. /\ started' = FALSE /\ queue' = {} /\ worker' = [w \in Workers |-> Down]
      /\ stops' = stops + 1 /\ skipped' = skipped + q
      /\ running' = running - b /\ completed' = completed + b
      /\ UNCHANGED <<seq, future, caller, nextSeq, rejected, timedOut, failed>>
  BY DEF Stop
<1>2. /\ work' \in [Calls -> {"none", "begun", "ended"}]
      /\ \A c \in Calls : work'[c] = (IF work[c] = "begun" THEN "ended" ELSE work[c])
  BY DEF Stop, IInv, TypeOK
<1>3. q \in Nat /\ b \in Nat /\ running = b
  BY Finite DEF IInv, StatsAccount
<1>4. \A w \in Workers : worker'[w] = Down /\ ~Running(w)'
  BY <1>1, SchedulerAssumption DEF Running, SchedulerAssumption
<1>5. Busy' = {} /\ Cardinality(Busy') = 0 /\ Cardinality(queue') = 0
  BY <1>1, <1>4, FS_EmptySet DEF Busy, Running
<1> HIDE DEF q, b
<1>6. TypeOK'
  <2>1. {nextSeq, running, completed, rejected, timedOut, failed}' \subseteq Nat
    BY <1>1, <1>3 DEF IInv, TypeOK
  <2>2. skipped' \in Nat /\ stops' \in Nat
    BY <1>1, <1>3 DEF IInv, TypeOK
  <2> QED BY <1>1, <1>2, <2>1, <2>2 DEF IInv, TypeOK
<1>7. CallsOK'
  BY <1>1, <1>2 DEF IInv, CallsOK, CallOK
<1>8. PoolOK' /\ NotStarted' /\ Numbered'
  BY <1>1, <1>4 DEF PoolOK, NotStarted, Numbered
<1>9. StatsAccount'
  <2>1. nextSeq = rejected + q + running + completed + skipped
    BY DEF IInv, StatsAccount, q
  <2>2. failed' <= completed'
    BY <1>1, <1>3 DEF IInv, TypeOK, StatsAccount
  <2>3. GaveUp' = GaveUp
    BY <1>1 DEF GaveUp
  <2> QED BY <1>1, <1>3, <1>5, <2>1, <2>2, <2>3
          DEF IInv, TypeOK, StatsAccount, GaveUp
<1> QED BY <1>6, <1>7, <1>8, <1>9 DEF IInv

LEMMA NextIInv == ASSUME IInv, [Next]_vars PROVE IInv'
<1>1. CASE UNCHANGED vars
  <2>1. Busy' = Busy /\ GaveUp' = GaveUp
    BY <1>1 DEF vars, Busy, GaveUp
  <2>2. StatsAccount'
    BY <1>1, <2>1 DEF vars, stats, IInv, StatsAccount, GaveUp
  <2> QED BY <1>1, <2>2 DEF vars, stats, IInv, TypeOK, CallsOK, CallOK, PoolOK, Running,
                            Numbered, NotStarted
<1>2. CASE Next
  BY <1>2, SubmitStep, RejectStep, ResumeStep, TimeOutStep, SkipStep, BeginStep,
     EndStep, StopStep DEF Next, Working
<1> QED BY <1>1, <1>2

----------------------------------------------------------------------------
(* The order of service *)

LEMMA PriorityType == ASSUME NEW c \in Calls PROVE Priority(c) \in Nat
<1>1. ASSUME NEW kind, kind \in DOMAIN KindBase PROVE KindBase[kind] \in Nat
  BY <1>1 DEF KindBase
<1>2. ASSUME NEW level, level \in DOMAIN TicketPriority
      PROVE  TicketPriority[level] \in Nat
  BY <1>2 DEF TicketPriority
<1>3. "MEDIUM" \in DOMAIN TicketPriority
  BY DEF TicketPriority
<1>4. PriorityFor(KindOf[c], LevelOf[c]) \in Nat
  BY <1>1, <1>2, <1>3 DEF PriorityFor
<1> QED BY <1>4 DEF Priority

\* The only step that begins a job.
LEMMA BeginsOnly ==
  ASSUME IInv, [Next]_vars, NEW d \in Calls, work[d] = "none", work'[d] = "begun"
  PROVE  \E w \in Workers : Begin(w, d)
<1>1. ASSUME NEW w \in Workers, NEW c \in Calls, Begin(w, c) PROVE c = d
  BY <1>1 DEF Begin, IInv, TypeOK
<1>2. ASSUME NEW w \in Workers, NEW ok \in BOOLEAN, End(w, ok) PROVE FALSE
  BY <1>2 DEF End, Finish, IInv, TypeOK
<1>3. ~Stop
  BY DEF Stop, IInv, TypeOK
<1>4. work' # work
  OBVIOUS
<1> QED BY <1>1, <1>2, <1>3, <1>4
        DEF Next, Working, Submit, Reject, Refuse, Resume, TimeOut, GiveUp, Skip, vars

\* No job begins while an earlier or more urgent one of a waiting caller stays
\* in the queue.
THEOREM InOrder == Spec => NoInversion
<1> DEFINE Order == \A c, d \in Calls :
              c \in queue /\ c \in queue' /\ ~Settled(c)
                /\ work[d] = "none" /\ work'[d] = "begun"
              => \/ Priority(d) < Priority(c)
                 \/ Priority(d) = Priority(c) /\ seq[d] < seq[c]
<1>1. ASSUME IInv, [Next]_vars PROVE Order
  <2>1. ASSUME NEW c \in Calls, NEW d \in Calls, c \in queue, c \in queue',
               work[d] = "none", work'[d] = "begun"
        PROVE  \/ Priority(d) < Priority(c)
               \/ Priority(d) = Priority(c) /\ seq[d] < seq[c]
    <3>1. PICK w \in Workers : Begin(w, d)
      BY <1>1, <2>1, BeginsOnly
    <3>2. d \in queue /\ c # d /\ ~Before(c, d)
      BY <2>1, <3>1 DEF Begin, First
    <3>3. seq[c] # seq[d] /\ seq[c] \in Nat /\ seq[d] \in Nat
      BY <1>1, <2>1, <3>2 DEF IInv, Numbered, TypeOK
    <3>4. Priority(c) \in Nat /\ Priority(d) \in Nat
      BY PriorityType
    <3> QED BY <3>2, <3>3, <3>4 DEF Before
  <2> QED BY <2>1
<1>2. IInv /\ [Next]_vars => [Order]_vars
  BY <1>1
<1> HIDE DEF Order
<1>3. Spec => [][Order]_vars
  BY <1>2, InitIInv, NextIInv, PTL DEF Spec
<1> QED BY <1>3 DEF NoInversion, Order

----------------------------------------------------------------------------
(* Types and counters *)

\* Calls, workers and counters keep their types in every behaviour.
THEOREM TypeCorrect == Spec => []TypeOK
<1>1. IInv => TypeOK
  BY DEF IInv
<1> QED BY <1>1, InitIInv, NextIInv, PTL DEF Spec

\* stats() accounts for every call, for every pool, bound of the queue and mix
\* of calls.
THEOREM StatsCorrect == Spec => []StatsAccount
<1>1. IInv => StatsAccount
  BY DEF IInv
<1> QED BY <1>1, InitIInv, NextIInv, PTL DEF Spec

----------------------------------------------------------------------------
(* The contract *)

AnswerOf == [c \in Calls |-> IF caller[c] \in {"new", "waiting"}
                             THEN "none" ELSE caller[c]]

LEMMA ContractInit == ASSUME Init PROVE Contract!Init
BY DEF Init, Contract!Init

LEMMA ContractStep == ASSUME IInv, [Next]_vars PROVE [Contract!Next]_(Contract!vars)
<1>0. /\ work \in [Calls -> {"none", "begun", "ended"}]
      /\ caller \in [Calls -> {"new", "waiting", "result", "error", "overloaded",
                               "timeout"}]
  BY DEF IInv, TypeOK
\* A caller that gets its answer.
<1>a. ASSUME NEW c \in Calls, NEW a \in {"result", "error", "overloaded", "timeout"},
             caller[c] \in {"new", "waiting"}, caller' = [caller EXCEPT ![c] = a],
             work' = work, a = "overloaded" => work[c] = "none",
             a \in {"result", "error"} => work[c] = "ended"
      PROVE  [Contract!Next]_(Contract!vars)
  <2>1. AnswerOf[c] = "none" /\ AnswerOf' = [AnswerOf EXCEPT ![c] = a]
    BY <1>0, <1>a DEF AnswerOf
  <2>2. Contract!Reply(c, a)
    BY <1>a, <2>1 DEF Contract!Reply, AnswerOf
  <2> QED BY <1>a, <2>2 DEF Contract!Next
<1>1. CASE UNCHANGED vars
  BY <1>1 DEF vars, Contract!vars
<1>2. ASSUME NEW c \in Calls, Submit(c) PROVE [Contract!Next]_(Contract!vars)
  <2>1. AnswerOf' = AnswerOf /\ work' = work
    BY <1>0, <1>2 DEF Submit, AnswerOf
  <2> QED BY <2>1 DEF Contract!vars, AnswerOf
<1>3. ASSUME NEW c \in Calls, Reject(c) PROVE [Contract!Next]_(Contract!vars)
  <2>1. caller[c] = "new" /\ caller' = [caller EXCEPT ![c] = "overloaded"] /\ work' = work
    BY <1>3 DEF Reject, Refuse
  <2>2. work[c] = "none"
    BY <2>1 DEF IInv, CallsOK, CallOK
  <2> QED BY <1>a, <2>1, <2>2
<1>4. ASSUME NEW c \in Calls, Resume(c) PROVE [Contract!Next]_(Contract!vars)
  <2>1. /\ caller[c] = "waiting" /\ future[c] \in {"result", "error"}
        /\ caller' = [caller EXCEPT ![c] = future[c]] /\ work' = work
    BY <1>4 DEF Resume
  <2>2. work[c] = "ended"
    BY <2>1 DEF IInv, CallsOK, CallOK
  <2> QED BY <1>a, <2>1, <2>2
<1>5. ASSUME NEW c \in Calls, TimeOut(c) PROVE [Contract!Next]_(Contract!vars)
  <2>1. /\ caller[c] = "waiting" /\ caller' = [caller EXCEPT ![c] = "timeout"]
        /\ work' = work
    BY <1>5 DEF TimeOut, GiveUp
  <2> QED BY <1>a, <2>1
<1>6. ASSUME NEW w \in Workers, NEW c \in Calls, Skip(w, c)
      PROVE  [Contract!Next]_(Contract!vars)
  BY <1>6 DEF Skip, Contract!vars
<1>7. ASSUME NEW w \in Workers, NEW c \in Calls, Begin(w, c)
      PROVE  [Contract!Next]_(Contract!vars)
  <2>1. /\ c \in queue /\ work' = [work EXCEPT ![c] = "begun"] /\ caller' = caller
    BY <1>7 DEF Begin, First
  <2>2. work[c] = "none" /\ caller[c] # "overloaded"
    BY <2>1 DEF IInv, CallsOK, CallOK
  <2>3. Contract!Begin(c)
    BY <2>1, <2>2 DEF Contract!Begin
  <2> QED BY <2>3 DEF Contract!Next
<1>8. ASSUME NEW w \in Workers, NEW ok \in BOOLEAN, End(w, ok)
      PROVE  [Contract!Next]_(Contract!vars)
  <2>1. PICK c \in Calls : c = worker[w]
    BY <1>8 DEF End, Finish
  <2>2. work[c] = "begun" /\ work' = [work EXCEPT ![c] = "ended"] /\ caller' = caller
    BY <1>8, <2>1 DEF End, Finish, IInv, PoolOK, Running
  <2>3. Contract!End(c)
    BY <2>2 DEF Contract!End
  <2> QED BY <2>3 DEF Contract!Next
<1>9. CASE Stop
  <2>1. Contract!Halt
    BY <1>9 DEF Stop, Contract!Halt
  <2> QED BY <2>1 DEF Contract!Next
<1> QED BY <1>1, <1>2, <1>3, <1>4, <1>5, <1>6, <1>7, <1>8, <1>9 DEF Next, Working

\* Each call gets one answer, its work is begun once at most, and a result or
\* an error comes from work that ended.
THEOREM ImplementsAskOnce == Spec => ContractSpec
<1>1. Spec => []IInv
  BY InitIInv, NextIInv, PTL DEF Spec
<1> QED BY <1>1, ContractInit, ContractStep, PTL DEF Spec, ContractSpec, Contract!Spec

----------------------------------------------------------------------------
(* Nothing is lost and nothing is stuck *)

\* A set of numbers has a least one.
LEMMA Least ==
  ASSUME NEW T, T \subseteq Nat, T # {}
  PROVE  \E x \in T : \A y \in T : x <= y
<1> DEFINE R == OpToRel(<, Nat)
<1>1. \A x, y \in Nat : <<y, x>> \notin R => x <= y
  BY DEF OpToRel
<1>2. IsWellFoundedOn(R, Nat)
  BY NatLessThanWellFounded
<1> HIDE DEF R
<1>3. PICK x \in T : \A y \in T : <<y, x>> \notin R
  BY <1>2, WFMin
<1> QED BY <1>1, <1>3

\* A queue with jobs has one that is served next.
LEMMA SomeFirst ==
  ASSUME TypeOK, queue # {}
  PROVE  \E c \in queue : First(c)
<1>1. queue \subseteq Calls /\ \A c \in queue : seq[c] \in Nat /\ Priority(c) \in Nat
  BY PriorityType DEF TypeOK
<1>2. PICK p \in { Priority(c) : c \in queue } :
        \A q \in { Priority(c) : c \in queue } : p <= q
  BY <1>1, Least
<1> DEFINE Urgent == { c \in queue : Priority(c) = p }
<1>3. PICK n \in { seq[c] : c \in Urgent } : \A m \in { seq[c] : c \in Urgent } : n <= m
  BY <1>1, <1>2, Least
<1>4. PICK c \in Urgent : seq[c] = n
  BY <1>3
<1>5. \A d \in queue : p <= Priority(d)
  BY <1>2
<1>6. ASSUME NEW d \in queue PROVE ~Before(d, c)
  <2>1. Priority(c) = p /\ Priority(d) \in Nat /\ p \in Nat /\ p <= Priority(d)
    BY <1>1, <1>4, <1>5
  <2>2. Priority(d) = p => n <= seq[d]
    BY <1>3
  <2>3. seq[c] = n /\ n \in Nat /\ seq[d] \in Nat
    BY <1>1, <1>4
  <2> QED BY <2>1, <2>2, <2>3 DEF Before
<1> QED BY <1>4, <1>6 DEF First

\* Every worker of a pool that was started takes jobs.
Staffed == started => \A w \in Workers : worker[w] # Down

\* A future that is not settled has a caller that waits for it, and its job is
\* queued or runs.
Holds(w, c) == worker[w] = c
Pursued(c) ==
  future[c] = "pending" =>
    caller[c] = "waiting" /\ (c \in queue \/ \E w \in Workers : Holds(w, c))
Alive == Staffed /\ \A c \in Calls : Pursued(c)

\* The queue keeps its bound and running never exceeds the pool.
Bounded == Cardinality(queue) <= QueueMax /\ running <= Cardinality(Workers)

LEMMA InitAlive == ASSUME Init PROVE Alive
BY DEF Init, Alive, Staffed, Pursued

LEMMA NextStaffed == ASSUME IInv, Staffed, [Next]_vars PROVE Staffed'
<1>0. worker \in [Workers -> Calls \cup {Free, Down}]
  BY DEF IInv, TypeOK
<1>1. ASSUME NEW c \in Calls, Submit(c) PROVE Staffed'
  BY <1>0, <1>1, SchedulerAssumption
     DEF Submit, EnsureStarted, Staffed, SchedulerAssumption
<1>2. ASSUME NEW w \in Workers, NEW c \in Calls, Begin(w, c) PROVE Staffed'
  BY <1>0, <1>2, SchedulerAssumption DEF Begin, Staffed, SchedulerAssumption
<1>3. ASSUME NEW w \in Workers, NEW ok \in BOOLEAN, End(w, ok) PROVE Staffed'
  BY <1>0, <1>3, SchedulerAssumption DEF End, Finish, Staffed, SchedulerAssumption
<1>4. ASSUME NEW c \in Calls, NEW w \in Workers,
             Reject(c) \/ Resume(c) \/ TimeOut(c) \/ Skip(w, c)
      PROVE  Staffed'
  BY <1>4 DEF Reject, Refuse, Resume, TimeOut, GiveUp, Skip, Staffed
<1>5. ASSUME NEW c \in Calls, Reject(c) \/ Resume(c) \/ TimeOut(c) PROVE Staffed'
  BY <1>5 DEF Reject, Refuse, Resume, TimeOut, GiveUp, Staffed
<1>6. CASE Stop
  BY <1>6 DEF Stop, Staffed
<1>7. CASE UNCHANGED vars
  BY <1>7 DEF vars, Staffed
<1> QED BY <1>1, <1>2, <1>3, <1>4, <1>5, <1>6, <1>7 DEF Next, Working

LEMMA NextPursued ==
  ASSUME IInv, [Next]_vars, NEW c \in Calls, Pursued(c)
  PROVE  Pursued(c)'
<1>0. /\ worker \in [Workers -> Calls \cup {Free, Down}]
      /\ future \in [Calls -> {"none", "pending", "result", "error", "cancelled"}]
      /\ caller \in [Calls -> {"new", "waiting", "result", "error", "overloaded",
                               "timeout"}]
  BY DEF IInv, TypeOK
<1>1. ASSUME NEW d \in Calls, Submit(d) PROVE Pursued(c)'
  <2>1. /\ queue' = queue \cup {d} /\ future'[d] = "pending" /\ caller'[d] = "waiting"
        /\ \A e \in Calls : e # d => future'[e] = future[e] /\ caller'[e] = caller[e]
    BY <1>0, <1>1 DEF Submit
  <2>2. \A w \in Workers : Holds(w, c) => Holds(w, c)'
    <3>1. CASE started
      BY <1>1, <3>1 DEF Submit, EnsureStarted, Holds
    <3>2. CASE ~started
      BY <3>2 DEF IInv, NotStarted, Running, Holds
    <3> QED BY <3>1, <3>2
  <2> QED BY <2>1, <2>2 DEF Pursued
<1>2. ASSUME NEW d \in Calls, Reject(d) PROVE Pursued(c)'
  <2>1. /\ queue' = queue /\ future' = future /\ worker' = worker
        /\ caller[d] = "new" /\ caller' = [caller EXCEPT ![d] = "overloaded"]
    BY <1>2 DEF Reject, Refuse
  <2> QED BY <1>0, <2>1 DEF Pursued, Holds
<1>3. ASSUME NEW d \in Calls, Resume(d) PROVE Pursued(c)'
  <2>1. /\ queue' = queue /\ future' = future /\ worker' = worker
        /\ future[d] # "pending" /\ caller' = [caller EXCEPT ![d] = future[d]]
    BY <1>3 DEF Resume
  <2> QED BY <1>0, <2>1 DEF Pursued, Holds
<1>4. ASSUME NEW d \in Calls, TimeOut(d) PROVE Pursued(c)'
  <2>1. /\ queue' = queue /\ worker' = worker /\ future'[d] # "pending"
        /\ \A e \in Calls : e # d => future'[e] = future[e] /\ caller'[e] = caller[e]
    BY <1>0, <1>4 DEF TimeOut, GiveUp
  <2> QED BY <2>1 DEF Pursued, Holds
<1>5. ASSUME NEW w \in Workers, NEW d \in Calls, Skip(w, d) PROVE Pursued(c)'
  <2>1. /\ queue' = queue \ {d} /\ future' = future /\ worker' = worker
        /\ caller' = caller /\ future[d] # "pending"
    BY <1>5 DEF Skip, Settled
  <2> QED BY <2>1 DEF Pursued, Holds
<1>6. ASSUME NEW w \in Workers, NEW d \in Calls, Begin(w, d) PROVE Pursued(c)'
  <2>1. /\ queue' = queue \ {d} /\ future' = future /\ caller' = caller
        /\ worker[w] = Free /\ worker'[w] = d
        /\ \A v \in Workers : v # w => worker'[v] = worker[v]
    BY <1>0, <1>6 DEF Begin
  <2>2. \A v \in Workers : Holds(v, c) => v # w
    BY <2>1, SchedulerAssumption DEF Holds, SchedulerAssumption
  <2> QED BY <2>1, <2>2 DEF Pursued, Holds
<1>7. ASSUME NEW w \in Workers, NEW ok \in BOOLEAN, End(w, ok) PROVE Pursued(c)'
  <2>1. PICK d \in Calls : d = worker[w]
    BY <1>7 DEF End, Finish
  <2>2. /\ queue' = queue /\ caller' = caller
        /\ \A v \in Workers : v # w => worker'[v] = worker[v]
    BY <1>7 DEF End, Finish
  <2>3. future'[d] # "pending" /\ \A e \in Calls : e # d => future'[e] = future[e]
    <3>1. future' = [future EXCEPT ![d] =
             IF @ # "pending" THEN @ ELSE IF ok THEN "result" ELSE "error"]
      BY <1>7, <2>1 DEF End, Finish
    <3> QED BY <1>0, <3>1
  <2>4. \A v \in Workers : Holds(v, c) /\ c # d => v # w
    BY <2>1 DEF Holds
  <2> QED BY <2>2, <2>3, <2>4 DEF Pursued, Holds
<1>8. CASE Stop
  BY <1>8 DEF Stop, Pursued
<1>9. CASE UNCHANGED vars
  BY <1>9 DEF vars, Pursued, Holds
<1> QED BY <1>1, <1>2, <1>3, <1>4, <1>5, <1>6, <1>7, <1>8, <1>9 DEF Next, Working

LEMMA AliveInductive == Spec => [](IInv /\ Alive)
<1>1. IInv /\ Alive /\ [Next]_vars => Alive'
  <2>1. ASSUME IInv, Alive, [Next]_vars PROVE Alive'
    BY <2>1, NextStaffed, NextPursued DEF Alive
  <2> QED BY <2>1
<1> QED BY <1>1, InitIInv, NextIInv, InitAlive, PTL DEF Spec

\* No job is lost: while a future is not settled its caller waits for it and
\* its job is on the queue or with a worker, through stops and restarts of the
\* scheduler too.
THEOREM NoLostJob == Spec => [](\A c \in Calls : Pursued(c))
<1>1. IInv /\ Alive => \A c \in Calls : Pursued(c)
  BY DEF Alive
<1> QED BY <1>1, AliveInductive, PTL

\* While jobs are queued the pool is up, no worker has died, and one of the
\* jobs is next: the loop of the first worker that comes free can go on.
QueueServed ==
  queue # {} => /\ started /\ \A w \in Workers : worker[w] # Down
                /\ \E c \in queue : First(c)

THEOREM NeverIdle == Spec => []QueueServed
<1>1. IInv /\ Alive => QueueServed
  BY SomeFirst DEF IInv, NotStarted, Alive, Staffed, QueueServed
<1> QED BY <1>1, AliveInductive, PTL

LEMMA BoundedStep ==
  ASSUME IInv, Bounded, [Next]_vars
  PROVE  Cardinality(queue') <= QueueMax
<1>0. Cardinality(queue) <= QueueMax /\ Cardinality(queue) \in Nat /\ QueueMax \in Nat
  BY Finite, SchedulerAssumption DEF Bounded, IInv, SchedulerAssumption
<1>1. ASSUME NEW c \in Calls, Submit(c) PROVE Cardinality(queue') <= QueueMax
  <2>1. /\ Cardinality(queue) < QueueMax /\ queue' = queue \cup {c} /\ c \notin queue
        /\ IsFiniteSet(queue)
    BY <1>1, Finite DEF Submit, IInv, CallsOK, CallOK
  <2>2. Cardinality(queue') = Cardinality(queue) + 1
    BY <2>1, CountUp
  <2> QED BY <1>0, <2>1, <2>2
<1>2. ASSUME NEW c \in Calls, Reject(c) \/ Resume(c) \/ TimeOut(c) PROVE queue' = queue
  BY <1>2 DEF Reject, Refuse, Resume, TimeOut, GiveUp
<1>3. ASSUME NEW c \in queue, queue' = queue \ {c}
      PROVE  Cardinality(queue') <= QueueMax
  <2>1. Cardinality(queue') = Cardinality(queue) - 1
    BY <1>3, Finite, CountDown DEF IInv
  <2> QED BY <1>0, <2>1
<1>4. ASSUME NEW w \in Workers, NEW c \in Calls, Skip(w, c) \/ Begin(w, c)
      PROVE  Cardinality(queue') <= QueueMax
  BY <1>3, <1>4 DEF Skip, Begin, First
<1>5. ASSUME NEW w \in Workers, NEW ok \in BOOLEAN, End(w, ok) PROVE queue' = queue
  BY <1>5 DEF End, Finish
<1>6. CASE Stop
  <2>1. Cardinality(queue') = 0
    BY <1>6, FS_EmptySet DEF Stop
  <2> QED BY <1>0, <2>1
<1>7. CASE UNCHANGED vars
  BY <1>0, <1>7 DEF vars
<1> QED BY <1>0, <1>1, <1>2, <1>4, <1>5, <1>6, <1>7 DEF Next, Working

LEMMA RunningBounded == ASSUME IInv PROVE running <= Cardinality(Workers)
<1>1. Busy \subseteq Workers /\ IsFiniteSet(Workers)
  BY SchedulerAssumption DEF Busy, SchedulerAssumption
<1>2. running = Cardinality(Busy)
  BY DEF IInv, StatsAccount
<1> QED BY <1>1, <1>2, FS_Subset

\* The queue never holds more than ai_queue_max jobs, and stats() never reports
\* more jobs running than the pool has workers, although a stop settles the
\* counter of the workers it cancels in their finally blocks.  A thread such a
\* stop left running is not counted by the code, and not here.
THEOREM PoolBounded == Spec => []Bounded
<1>1. Init => Bounded
  <2>1. ASSUME Init PROVE Bounded
    <3>1. Cardinality(queue) = 0
      BY <2>1, FS_EmptySet DEF Init
    <3>2. running <= Cardinality(Workers)
      BY <2>1, InitIInv, RunningBounded
    <3> QED BY <3>1, <3>2, SchedulerAssumption DEF Bounded, SchedulerAssumption
  <2> QED BY <2>1
<1>2. IInv /\ Bounded /\ [Next]_vars => Cardinality(queue') <= QueueMax
  BY BoundedStep
<1>3. ASSUME IInv' PROVE running' <= Cardinality(Workers)
  <2>1. Busy' \subseteq Workers /\ IsFiniteSet(Workers)
    BY SchedulerAssumption DEF Busy, SchedulerAssumption
  <2>2. running' = Cardinality(Busy')
    BY <1>3 DEF IInv, StatsAccount
  <2> QED BY <2>1, <2>2, FS_Subset
<1>4. IInv /\ IInv' /\ Bounded /\ [Next]_vars => Bounded'
  BY <1>2, <1>3 DEF Bounded
<1> QED BY <1>1, <1>4, InitIInv, NextIInv, PTL DEF Spec

----------------------------------------------------------------------------
(* Calls only go forward *)

\* What is left to do for a call: the answer to its caller, and its job.
CallerLeft(c) ==
  IF caller[c] = "new" THEN 2 ELSE IF caller[c] = "waiting" THEN 1 ELSE 0
JobLeft(c) ==
  IF caller[c] = "new" THEN 3 ELSE IF c \in queue THEN 2
  ELSE IF work[c] = "begun" THEN 1 ELSE 0

\* c does not go back; c goes forward.
Kept(c) == CallerLeft(c)' <= CallerLeft(c) /\ JobLeft(c)' <= JobLeft(c)
Forward(c) == Kept(c) /\ \/ CallerLeft(c)' < CallerLeft(c)
                         \/ JobLeft(c)' < JobLeft(c)
Advances == /\ \A c \in Calls : Kept(c)
            /\ Stop \/ \E c \in Calls : Forward(c)

\* A step that moves c and leaves the others alone.
LEMMA OneMoves ==
  ASSUME NEW c \in Calls, Forward(c),
         \A d \in Calls : d # c => /\ caller'[d] = caller[d] /\ work'[d] = work[d]
                                   /\ d \in queue' <=> d \in queue
  PROVE  Advances
<1>1. ASSUME NEW d \in Calls, d # c PROVE Kept(d)
  <2>1. CallerLeft(d)' = CallerLeft(d) /\ JobLeft(d)' = JobLeft(d)
    BY <1>1 DEF CallerLeft, JobLeft
  <2>2. CallerLeft(d) \in Int /\ JobLeft(d) \in Int
    BY DEF CallerLeft, JobLeft
  <2> QED BY <2>1, <2>2 DEF Kept
<1> QED BY <1>1 DEF Advances, Forward

LEMMA NextAdvances == ASSUME IInv, Next PROVE Advances
<1>0. /\ work \in [Calls -> {"none", "begun", "ended"}]
      /\ caller \in [Calls -> {"new", "waiting", "result", "error", "overloaded",
                               "timeout"}]
  BY DEF IInv, TypeOK
<1>1. ASSUME NEW c \in Calls, Submit(c) PROVE Advances
  <2>1. /\ caller[c] = "new" /\ queue' = queue \cup {c} /\ work' = work
        /\ caller' = [caller EXCEPT ![c] = "waiting"]
    BY <1>1 DEF Submit
  <2>2. Forward(c)
    BY <1>0, <2>1 DEF Forward, Kept, CallerLeft, JobLeft
  <2> QED BY <1>0, <2>1, <2>2, OneMoves
<1>2. ASSUME NEW c \in Calls, Reject(c) PROVE Advances
  <2>1. /\ caller[c] = "new" /\ queue' = queue /\ work' = work
        /\ caller' = [caller EXCEPT ![c] = "overloaded"]
    BY <1>2 DEF Reject, Refuse
  <2>2. Forward(c)
    BY <1>0, <2>1 DEF Forward, Kept, CallerLeft, JobLeft
  <2> QED BY <1>0, <2>1, <2>2, OneMoves
<1>3. ASSUME NEW c \in Calls, Resume(c) \/ TimeOut(c) PROVE Advances
  <2>1. PICK a \in {"result", "error", "timeout"} :
               caller' = [caller EXCEPT ![c] = a]
    BY <1>3 DEF Resume, TimeOut, GiveUp
  <2>2. caller[c] = "waiting" /\ queue' = queue /\ work' = work
    BY <1>3 DEF Resume, TimeOut, GiveUp
  <2>3. Forward(c)
    BY <1>0, <2>1, <2>2 DEF Forward, Kept, CallerLeft, JobLeft
  <2> QED BY <1>0, <2>1, <2>2, <2>3, OneMoves
<1>4. ASSUME NEW w \in Workers, NEW c \in Calls, Skip(w, c) PROVE Advances
  <2>1. c \in queue /\ queue' = queue \ {c} /\ work' = work /\ caller' = caller
    BY <1>4 DEF Skip, First
  <2>2. work[c] = "none" /\ caller[c] # "new"
    BY <2>1 DEF IInv, CallsOK, CallOK
  <2>3. Forward(c)
    BY <1>0, <2>1, <2>2 DEF Forward, Kept, CallerLeft, JobLeft
  <2> QED BY <1>0, <2>1, <2>3, OneMoves
<1>5. ASSUME NEW w \in Workers, NEW c \in Calls, Begin(w, c) PROVE Advances
  <2>1. /\ c \in queue /\ queue' = queue \ {c} /\ caller' = caller
        /\ work' = [work EXCEPT ![c] = "begun"]
    BY <1>5 DEF Begin, First
  <2>2. caller[c] # "new"
    BY <2>1 DEF IInv, CallsOK, CallOK
  <2>3. Forward(c)
    BY <1>0, <2>1, <2>2 DEF Forward, Kept, CallerLeft, JobLeft
  <2> QED BY <1>0, <2>1, <2>3, OneMoves
<1>6. ASSUME NEW w \in Workers, NEW ok \in BOOLEAN, End(w, ok) PROVE Advances
  <2>1. PICK c \in Calls : c = worker[w]
    BY <1>6 DEF End, Finish
  <2>2. /\ work[c] = "begun" /\ work' = [work EXCEPT ![c] = "ended"]
        /\ queue' = queue /\ caller' = caller
    BY <1>6, <2>1 DEF End, Finish, IInv, PoolOK, Running
  <2>3. c \notin queue /\ caller[c] # "new"
    BY <2>2 DEF IInv, CallsOK, CallOK
  <2>4. Forward(c)
    BY <1>0, <2>2, <2>3 DEF Forward, Kept, CallerLeft, JobLeft
  <2> QED BY <1>0, <2>2, <2>4, OneMoves
<1>7. CASE Stop
  <2>1. ASSUME NEW c \in Calls PROVE Kept(c)
    <3>1. /\ caller' = caller /\ queue' = {}
          /\ work'[c] = (IF work[c] = "begun" THEN "ended" ELSE work[c])
      BY <1>7 DEF Stop
    <3>2. CallerLeft(c)' = CallerLeft(c) /\ CallerLeft(c) \in Int
      BY <3>1 DEF CallerLeft
    <3>3. JobLeft(c)' <= JobLeft(c)
      BY <3>1 DEF JobLeft
    <3> QED BY <3>2, <3>3 DEF Kept
  <2> QED BY <1>7, <2>1 DEF Advances
<1> QED BY <1>1, <1>2, <1>3, <1>4, <1>5, <1>6, <1>7 DEF Next, Working

\* Every step of the scheduler but a stop takes some call further, to its
\* answer or through the queue and the pool, and none takes a call back: no
\* job is queued, begun or answered a second time, and a call
\* takes five steps at most.
CallsAdvance == [][Advances]_vars

THEOREM CallsTerminate == Spec => CallsAdvance
<1>1. IInv /\ [Next]_vars => [Advances]_vars
  BY NextAdvances
<1> QED BY <1>1, InitIInv, NextIInv, PTL DEF Spec, CallsAdvance

----------------------------------------------------------------------------
(* The kinds of work *)

Base(c) == IF KindOf[c] \in DOMAIN KindBase THEN KindBase[KindOf[c]] ELSE 20

LEMMA LevelBound ==
  ASSUME NEW c \in Calls
  PROVE  /\ Base(c) \in {0, 10, 20, 30}
         /\ \E l \in 0..3 : Priority(c) = Base(c) + l
<1>1. ASSUME NEW kind, kind \in DOMAIN KindBase PROVE KindBase[kind] \in {0, 10, 20, 30}
  BY <1>1 DEF KindBase
<1>2. ASSUME NEW level, level \in DOMAIN TicketPriority
      PROVE  TicketPriority[level] \in 0..3
  BY <1>2 DEF TicketPriority
<1>3. "MEDIUM" \in DOMAIN TicketPriority
  BY DEF TicketPriority
<1>4. Base(c) \in {0, 10, 20, 30}
  BY <1>1 DEF Base
<1> DEFINE l == TicketPriority[IF LevelOf[c] \in DOMAIN TicketPriority THEN LevelOf[c]
                               ELSE "MEDIUM"]
<1>5. l \in 0..3 /\ Priority(c) = Base(c) + l
  BY <1>2, <1>3 DEF Priority, PriorityFor, Base
<1> QED BY <1>4, <1>5

\* No level lifts a kind above a more urgent kind: interactive work (copilot,
\* assistant, auto_resolve) is never overtaken by a search for duplicates, that
\* never by a classification, and that never by a clustering of incidents,
\* whatever the priorities of the tickets.
KindsApart ==
  [][\A c, d \in Calls :
       c \in queue /\ c \in queue' /\ ~Settled(c)
         /\ work[d] = "none" /\ work'[d] = "begun"
       => Base(d) <= Base(c)]_vars

THEOREM KindsInOrder == Spec => KindsApart
<1> DEFINE Ordered == \A c, d \in Calls :
              c \in queue /\ c \in queue' /\ ~Settled(c)
                /\ work[d] = "none" /\ work'[d] = "begun"
              => \/ Priority(d) < Priority(c)
                 \/ Priority(d) = Priority(c) /\ seq[d] < seq[c]
           Apart == \A c, d \in Calls :
              c \in queue /\ c \in queue' /\ ~Settled(c)
                /\ work[d] = "none" /\ work'[d] = "begun"
              => Base(d) <= Base(c)
<1>1. ASSUME NEW c \in Calls, NEW d \in Calls, Priority(d) <= Priority(c)
      PROVE  Base(d) <= Base(c)
  BY <1>1, LevelBound
<1>2. \A c \in Calls : Priority(c) \in Int
  BY PriorityType
<1>3. [Ordered]_vars => [Apart]_vars
  BY <1>1, <1>2
<1> HIDE DEF Ordered, Apart
<1>4. [][Ordered]_vars => [][Apart]_vars
  BY <1>3, PTL
<1>5. Spec => [][Ordered]_vars
  BY InOrder DEF NoInversion, Ordered
<1> QED BY <1>4, <1>5 DEF KindsApart, Apart
=============================================================================
