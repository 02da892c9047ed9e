---------------------------- MODULE Forum_proofs ----------------------------
(***************************************************************************)
(* Proofs about Forum: its type invariant, the counter of posts, what the  *)
(* client is told, the lock, and that only moderation changes a flag.      *)
(***************************************************************************)
EXTENDS Forum, FiniteSetTheorems, TLAPS

----------------------------------------------------------------------------
(* The inductive invariant *)

Creates(s) == req[s].pc \in Creating
Opening(s) == req[s].pc \in {"thread.board", "thread.insert"}
Halfway == {"thread.post", "reply.count"}

\* What a request works with, and what it knows of the stores.
SlotOK(s) ==
  /\ Creates(s) => /\ req[s].token \in Tokens /\ req[s].thread \in Threads
                   /\ req[s].post \in Posts
                   /\ told[req[s].post] \in {"none", "unknown"}
  /\ Creates(s) /\ req[s].pc # "reply.count" => posts[req[s].post] = None
  /\ req[s].pc = "reply.count" => posts[req[s].post] # None
  /\ Opening(s) => thread[req[s].thread] = None
  /\ req[s].pc \in {"thread.post", "reply.insert", "reply.count",
                    "moderate.write", "moderate.answer"}
       => req[s].thread \in Threads /\ thread[req[s].thread] # None
  /\ req[s].pc = "moderate.read" => req[s].thread \in Threads
  /\ req[s].pc \in {"delete.read", "delete.write"} => req[s].post \in Posts
  /\ req[s].pc = "delete.write" => posts[req[s].post] # None

\* A stored post is in a thread, and was answered or is about to be counted.
PostOK(p) ==
  /\ posts[p] # None =>
       /\ thread[posts[p].on] # None
       /\ told[p] # "none" \/ \E s \in Slots : req[s].pc = "reply.count"
                                              /\ req[s].post = p
  /\ told[p] = "refused" => posts[p] = None
  /\ told[p] = "ok" => posts[p] # None

\* A reply to a locked thread is not stored, and will not get past the lock.
BarredOK(t) ==
  \A p \in barred[t] :
    /\ posts[p] = None /\ thread[t] # None /\ thread[t].locked
    /\ \A s \in Slots : Creates(s) /\ req[s].post = p
                          => req[s].pc = "reply.read" /\ req[s].thread = t
    /\ told[p] # "none" \/ \E s \in Slots : Creates(s) /\ req[s].post = p

\* No two requests create the same post or the same thread.
Exclusive ==
  \A s, q \in Slots :
    /\ Creates(s) /\ Creates(q) /\ req[s].post = req[q].post => s = q
    /\ Opening(s) /\ Opening(q) /\ req[s].thread = req[q].thread => s = q

SlotsOK == \A s \in Slots : SlotOK(s)
PostsOK == \A p \in Posts : PostOK(p)
BarredsOK == \A t \in Threads : BarredOK(t)

IInv == TypeOK /\ SlotsOK /\ PostsOK /\ BarredsOK /\ Exclusive /\ CountAccurate

----------------------------------------------------------------------------
(* Types *)

LEMMA Constants ==
  /\ StaffTokens \subseteq Tokens /\ MaxFailures \in Nat
  /\ None \notin Threads /\ None \notin Posts /\ None \notin Tokens
  /\ None \notin BOOLEAN /\ None \notin ThreadDoc /\ None \notin PostDoc
  /\ IsFiniteSet(Posts) /\ IsFiniteSet(Slots)
BY ForumAssumption, NullDocAssumption DEF ForumAssumption, NullDocAssumption

LEMMA RequestMaker ==
  ASSUME NEW pc \in Pcs, NEW k \in Tokens \cup {None}, NEW t \in Threads \cup {None},
         NEW p \in Posts \cup {None}, NEW locked \in BOOLEAN \cup {None},
         NEW pinned \in BOOLEAN \cup {None}
  PROVE  /\ Wants(k, pc, t, p, locked, pinned) \in Request
         /\ Wants(k, pc, t, p, locked, pinned).pc = pc
         /\ Wants(k, pc, t, p, locked, pinned).token = k
         /\ Wants(k, pc, t, p, locked, pinned).thread = t
         /\ Wants(k, pc, t, p, locked, pinned).post = p
BY DEF Wants, Request

LEMMA IdleTypes ==
  Idle \in Request /\ Idle.pc = "idle" /\ Idle.post = None /\ Idle.thread = None
BY RequestMaker DEF Idle, Pcs

LEMMA DocMaker ==
  ASSUME NEW p \in Posts, NEW n \in Nat, NEW locked \in BOOLEAN, NEW pinned \in BOOLEAN
  PROVE  /\ Doc(p, n, locked, pinned) \in ThreadDoc
         /\ Doc(p, n, locked, pinned).postCount = n
         /\ Doc(p, n, locked, pinned).locked = locked
         /\ Doc(p, n, locked, pinned).pinned = pinned
BY DEF Doc, ThreadDoc

\* Creating requests are no others.
LEMMA Steps ==
  /\ "idle" \notin Creating /\ "moderate.read" \notin Creating
  /\ "moderate.write" \notin Creating /\ "moderate.answer" \notin Creating
  /\ "delete.read" \notin Creating /\ "delete.write" \notin Creating
  /\ Halfway \subseteq Creating
  /\ {"thread.board", "thread.insert", "reply.read", "reply.insert"} \subseteq Creating
  /\ Creating \subseteq Pcs
BY DEF Creating, Halfway, Pcs

LEMMA RequestStep ==
  ASSUME TypeOK, NEW s \in Slots, NEW r \in Request, req' = [req EXCEPT ![s] = r]
  PROVE  /\ req' \in [Slots -> Request] /\ req'[s] = r
         /\ \A q \in Slots : q # s => req'[q] = req[q]
BY DEF TypeOK

LEMMA GotoStep ==
  ASSUME TypeOK, NEW s \in Slots, NEW pc \in Pcs, Goto(s, pc)
  PROVE  /\ req' \in [Slots -> Request] /\ req'[s].pc = pc
         /\ req'[s].token = req[s].token /\ req'[s].thread = req[s].thread
         /\ req'[s].post = req[s].post
         /\ \A q \in Slots : q # s => req'[q] = req[q]
<1> DEFINE r == [req[s] EXCEPT !.pc = pc]
<1>1. req[s] \in Request
  BY DEF TypeOK
<1>2. /\ r \in Request /\ r.pc = pc /\ r.token = req[s].token
      /\ r.thread = req[s].thread /\ r.post = req[s].post
  BY <1>1 DEF Request
<1>3. req' = [req EXCEPT ![s] = r]
  BY DEF Goto, TypeOK
<1> HIDE DEF r
<1> QED BY <1>2, <1>3, RequestStep

LEMMA AnswerStep ==
  ASSUME TypeOK, NEW p \in Posts, NEW what \in {"ok", "refused", "unknown"},
         Answer(p, what)
  PROVE  /\ told' \in [Posts -> {"none", "ok", "refused", "unknown"}]
         /\ told[p] = "none" => told'[p] = what
         /\ told[p] # "none" => told'[p] = told[p]
         /\ \A x \in Posts : x # p => told'[x] = told[x]
BY DEF Answer, TypeOK

----------------------------------------------------------------------------
(* Counting *)

LEMMA Finite ==
  ASSUME TypeOK, NEW t \in Threads
  PROVE  /\ IsFiniteSet(PostsOn(t)) /\ IsFiniteSet(Short(t)) /\ IsFiniteSet(Ahead(t))
         /\ Cardinality(PostsOn(t)) \in Nat /\ Cardinality(Short(t)) \in Nat
         /\ Cardinality(Ahead(t)) \in Nat /\ failed[t] \in Nat
<1>1. PostsOn(t) \subseteq Posts /\ Short(t) \subseteq Slots /\ Ahead(t) \subseteq Slots
  BY DEF PostsOn, Short, Ahead
<1>2. IsFiniteSet(PostsOn(t)) /\ IsFiniteSet(Short(t)) /\ IsFiniteSet(Ahead(t))
  BY <1>1, Constants, FS_Subset
<1> QED BY <1>2, FS_CardinalityType DEF TypeOK

LEMMA CountUp ==
  ASSUME NEW S, IsFiniteSet(S), NEW x, x \notin S
  PROVE  Cardinality(S \cup {x}) = Cardinality(S) + 1
BY FS_AddElement

LEMMA CountDown ==
  ASSUME NEW S, IsFiniteSet(S), NEW x \in S
  PROVE  Cardinality(S \ {x}) = Cardinality(S) - 1
BY FS_RemoveElement

\* How far the counter of a thread is off, n posts shown.
Balanced(n, short, on, ahead, f) ==
  LET off == (n + Cardinality(short)) - (Cardinality(on) + Cardinality(ahead))
  IN -f <= off /\ off <= f

LEMMA CountIs ==
  CountAccurate <=>
    \A t \in Threads : thread[t] # None =>
      Balanced(thread[t].postCount, Short(t), PostsOn(t), Ahead(t), failed[t])
BY DEF CountAccurate, Balanced

\* A thread nobody has inserted has no posts and no creations past its insertion.
LEMMA NothingYet ==
  ASSUME TypeOK, SlotsOK, PostsOK, NEW t \in Threads, thread[t] = None
  PROVE  PostsOn(t) = {} /\ Short(t) = {} /\ Ahead(t) = {}
BY DEF SlotsOK, SlotOK, PostsOK, PostOK, PostsOn, Short, Ahead, At

\* What does not touch counters, stored posts and halfway creations.
LEMMA CountQuiet ==
  ASSUME CountAccurate, failed' = failed,
         \A t \in Threads : thread'[t] # None =>
           /\ thread[t] # None /\ thread'[t].postCount = thread[t].postCount
           /\ Short(t)' = Short(t) /\ PostsOn(t)' = PostsOn(t) /\ Ahead(t)' = Ahead(t)
  PROVE  CountAccurate'
BY DEF CountAccurate

\* Who is halfway with a creation, after a step of one request.
LEMMA HalfwayStep ==
  ASSUME TypeOK, NEW s \in Slots, \A q \in Slots : q # s => req'[q] = req[q]
  PROVE  /\ req[s].pc \notin Halfway /\ req'[s].pc \notin Halfway
              => \A t \in Threads : Short(t)' = Short(t) /\ Ahead(t)' = Ahead(t)
         /\ \A t \in Threads :
              t # req[s].thread /\ (t = req'[s].thread => req'[s].pc \notin Halfway)
                => Short(t)' = Short(t) /\ Ahead(t)' = Ahead(t)
BY DEF Short, Ahead, At, Halfway

----------------------------------------------------------------------------
(* Requests that are sent *)

LEMMA SendStep ==
  ASSUME IInv, NEW s \in Slots, NEW r \in Request, Send(s, r),
         UNCHANGED <<thread, posts, told, failed>>,
         barred' \in [Threads -> SUBSET Posts],
         r.pc \notin Halfway, SlotOK(s)',
         Creates(s)' => Fresh(r.post),
         Opening(s)' => FreshThread(r.thread),
         \A t \in Threads : \A p \in barred'[t] \ barred[t] :
           /\ Creates(s)' /\ r.pc = "reply.read" /\ r.post = p /\ r.thread = t
           /\ thread[t] # None /\ thread[t].locked
  PROVE  IInv'
<1>1. /\ req' \in [Slots -> Request] /\ req'[s] = r /\ req[s] = Idle
      /\ \A q \in Slots : q # s => req'[q] = req[q]
  BY RequestStep DEF Send, IInv
<1>2. req[s].pc = "idle" /\ ~Creates(s) /\ ~Opening(s) /\ req[s].pc \notin Halfway
  BY <1>1, IdleTypes, Steps DEF Creates, Opening, Halfway
<1>3. TypeOK'
  BY <1>1 DEF IInv, TypeOK
<1>4. SlotsOK'
  <2>1. ASSUME NEW q \in Slots, q # s PROVE SlotOK(q)'
    <3>1. SlotOK(q)
      BY DEF IInv, SlotsOK
    <3> QED BY <1>1, <2>1, <3>1 DEF SlotOK, Creates, Opening
  <2> QED BY <2>1 DEF SlotsOK
<1>5. PostsOK'
  <2>1. ASSUME NEW p \in Posts PROVE PostOK(p)'
    <3>1. PostOK(p)
      BY DEF IInv, PostsOK
    <3> QED BY <1>1, <1>2, <3>1 DEF PostOK
  <2> QED BY <2>1 DEF PostsOK
<1>6. \A p \in Posts : Fresh(p) => /\ told[p] = "none"
                                   /\ \A q \in Slots : req[q].post # p
  BY DEF Fresh
<1>7. \A t \in Threads : FreshThread(t) =>
        \A q \in Slots : Opening(q) => req[q].thread # t
  BY DEF FreshThread, Opening
<1>8. Creates(s)' => r.post \in Posts
  BY <1>1 DEF SlotOK
<1>8a. Opening(s)' => r.thread \in Threads
  BY <1>1, Steps DEF SlotOK, Opening, Creates
<1>9. Exclusive'
  <2>1. ASSUME NEW x \in Slots, NEW y \in Slots
        PROVE  /\ Creates(x)' /\ Creates(y)' /\ req'[x].post = req'[y].post => x = y
               /\ Opening(x)' /\ Opening(y)' /\ req'[x].thread = req'[y].thread => x = y
    BY <1>1, <1>6, <1>7, <1>8, <1>8a DEF IInv, Exclusive, Creates, Opening
  <2> QED BY <2>1 DEF Exclusive
<1>10. BarredsOK'
  <2>1. ASSUME NEW t \in Threads, NEW p \in barred'[t], p \in barred[t]
        PROVE  /\ posts[p] = None /\ thread[t] # None /\ thread[t].locked
               /\ \A q \in Slots : Creates(q)' /\ req'[q].post = p
                                     => req'[q].pc = "reply.read" /\ req'[q].thread = t
               /\ told[p] # "none" \/ \E q \in Slots : Creates(q)' /\ req'[q].post = p
    <3>1. p \in Posts
      BY <2>1 DEF IInv, TypeOK
    <3>2. /\ posts[p] = None /\ thread[t] # None /\ thread[t].locked
          /\ \A q \in Slots : Creates(q) /\ req[q].post = p
                                => req[q].pc = "reply.read" /\ req[q].thread = t
          /\ told[p] # "none" \/ \E q \in Slots : Creates(q) /\ req[q].post = p
      BY <2>1 DEF IInv, BarredsOK, BarredOK
    <3>3. Creates(s)' => r.post # p
      BY <1>6, <1>8, <3>2
    <3> QED BY <1>1, <1>2, <3>2, <3>3 DEF Creates
  <2>2. ASSUME NEW t \in Threads, NEW p \in barred'[t], p \notin barred[t]
        PROVE  /\ posts[p] = None /\ thread[t] # None /\ thread[t].locked
               /\ \A q \in Slots : Creates(q)' /\ req'[q].post = p
                                     => req'[q].pc = "reply.read" /\ req'[q].thread = t
               /\ told[p] # "none" \/ \E q \in Slots : Creates(q)' /\ req'[q].post = p
    <3>1. /\ Creates(s)' /\ r.pc = "reply.read" /\ r.post = p /\ r.thread = t
          /\ thread[t] # None /\ thread[t].locked
      BY <2>2
    <3>2. posts[p] = None
      BY <1>1, <3>1 DEF SlotOK
    <3>3. \A q \in Slots : q # s => req'[q].post # p
      BY <1>1, <1>6, <1>8, <3>1
    <3> QED BY <1>1, <3>1, <3>2, <3>3
  <2>3. posts' = posts /\ thread' = thread /\ told' = told
    OBVIOUS
  <2> QED BY <2>1, <2>2, <2>3 DEF BarredsOK, BarredOK
<1>11. CountAccurate'
  <2>1. \A t \in Threads : Short(t)' = Short(t) /\ Ahead(t)' = Ahead(t)
    BY <1>1, <1>2, HalfwayStep DEF IInv
  <2>2. \A t \in Threads : PostsOn(t)' = PostsOn(t)
    BY DEF PostsOn
  <2> QED BY <2>1, <2>2, CountQuiet DEF IInv
<1> QED BY <1>3, <1>4, <1>5, <1>9, <1>10, <1>11 DEF IInv

LEMMA SendThreadStep ==
  ASSUME IInv, NEW s \in Slots, NEW k \in Tokens, NEW t \in Threads, NEW p \in Posts,
         SendThread(s, k, t, p)
  PROVE  IInv'
<1> DEFINE r == Wants(k, "thread.board", t, p, None, None)
<1>1. /\ r \in Request /\ r.pc = "thread.board" /\ r.token = k /\ r.thread = t
      /\ r.post = p
  BY RequestMaker, Steps
<1>2. /\ Fresh(p) /\ FreshThread(t) /\ Send(s, r)
      /\ UNCHANGED <<thread, posts, told, barred, failed>>
  BY DEF SendThread
<1> HIDE DEF r
<1>3. req'[s] = r
  BY <1>1, <1>2, RequestStep DEF Send, IInv
<1>4. posts[p] = None
  BY <1>2 DEF Fresh, IInv, PostsOK, PostOK
<1>5. SlotOK(s)'
  <2>1. told[p] = "none" /\ thread[t] = None
    BY <1>2 DEF Fresh, FreshThread
  <2> QED BY <1>1, <1>2, <1>3, <1>4, <2>1 DEF SlotOK, Creates, Opening
<1>6. r.pc \notin Halfway /\ barred' \in [Threads -> SUBSET Posts]
  BY <1>1, <1>2 DEF Halfway, IInv, TypeOK
<1>7. \A x \in Threads : barred'[x] \ barred[x] = {}
  BY <1>2
<1> QED BY <1>1, <1>2, <1>3, <1>5, <1>6, <1>7, SendStep

LEMMA SendReplyStep ==
  ASSUME IInv, NEW s \in Slots, NEW k \in Tokens, NEW t \in Threads, NEW p \in Posts,
         SendReply(s, k, t, p)
  PROVE  IInv'
<1> DEFINE r == Wants(k, "reply.read", t, p, None, None)
<1>1. /\ r \in Request /\ r.pc = "reply.read" /\ r.token = k /\ r.thread = t
      /\ r.post = p
  BY RequestMaker, Steps
<1>2. /\ Fresh(p) /\ Send(s, r) /\ UNCHANGED <<thread, posts, told, failed>>
      /\ barred' = [barred EXCEPT ![t] =
           IF thread[t] # None /\ thread[t].locked THEN @ \cup {p} ELSE @]
  BY DEF SendReply
<1> HIDE DEF r
<1>3. req'[s] = r
  BY <1>1, <1>2, RequestStep DEF Send, IInv
<1>4. posts[p] = None
  BY <1>2 DEF Fresh, IInv, PostsOK, PostOK
<1>5. Creates(s)' /\ ~Opening(s)'
  BY <1>1, <1>3, Steps DEF Creates, Opening
<1>6. SlotOK(s)'
  <2>1. told[p] = "none"
    BY <1>2 DEF Fresh
  <2> QED BY <1>1, <1>2, <1>3, <1>4, <1>5, <2>1 DEF SlotOK
<1>7. r.pc \notin Halfway /\ barred' \in [Threads -> SUBSET Posts]
  BY <1>1, <1>2 DEF Halfway, IInv, TypeOK
<1>8. \A x \in Threads : \A y \in barred'[x] \ barred[x] :
        x = t /\ y = p /\ thread[t] # None /\ thread[t].locked
  BY <1>2 DEF IInv, TypeOK
<1> QED BY <1>1, <1>2, <1>3, <1>5, <1>6, <1>7, <1>8, SendStep

LEMMA SendOtherStep ==
  ASSUME IInv, NEW s \in Slots, NEW k \in Tokens,
         \/ \E t \in Threads, locked, pinned \in BOOLEAN \cup {None} :
              SendModeration(s, k, t, locked, pinned)
         \/ \E p \in Posts : SendDeletion(s, k, p)
  PROVE  IInv'
<1>1. ASSUME NEW r \in Request, Send(s, r),
             UNCHANGED <<thread, posts, told, barred, failed>>,
             \/ r.pc = "moderate.read" /\ r.thread \in Threads
             \/ r.pc = "delete.read" /\ r.post \in Posts
      PROVE  IInv'
  <2>1. req'[s] = r
    BY <1>1, RequestStep DEF Send, IInv
  <2>2. ~Creates(s)' /\ ~Opening(s)' /\ r.pc \notin Halfway
    BY <1>1, <2>1, Steps DEF Creates, Opening, Halfway
  <2>3. SlotOK(s)'
    BY <1>1, <2>1, <2>2 DEF SlotOK
  <2>4. barred' \in [Threads -> SUBSET Posts] /\ \A t \in Threads : barred'[t] \ barred[t] = {}
    BY <1>1 DEF IInv, TypeOK
  <2> QED BY <1>1, <2>1, <2>2, <2>3, <2>4, SendStep
<1>2. ASSUME NEW t \in Threads, NEW locked \in BOOLEAN \cup {None},
             NEW pinned \in BOOLEAN \cup {None}, SendModeration(s, k, t, locked, pinned)
      PROVE  IInv'
  <2> DEFINE r == Wants(k, "moderate.read", t, None, locked, pinned)
  <2>1. "moderate.read" \in Pcs
    BY DEF Pcs
  <2>2. r \in Request /\ r.pc = "moderate.read" /\ r.thread = t
    BY <2>1, RequestMaker
  <2>3. Send(s, r) /\ UNCHANGED <<thread, posts, told, barred, failed>>
    BY <1>2 DEF SendModeration
  <2> HIDE DEF r
  <2> QED BY <1>1, <2>2, <2>3
<1>3. ASSUME NEW p \in Posts, SendDeletion(s, k, p)
      PROVE  IInv'
  <2> DEFINE r == Wants(k, "delete.read", None, p, None, None)
  <2>1. "delete.read" \in Pcs
    BY DEF Pcs
  <2>2. r \in Request /\ r.pc = "delete.read" /\ r.post = p
    BY <2>1, RequestMaker
  <2>3. Send(s, r) /\ UNCHANGED <<thread, posts, told, barred, failed>>
    BY <1>3 DEF SendDeletion
  <2> HIDE DEF r
  <2> QED BY <1>1, <2>2, <2>3
<1> QED BY <1>2, <1>3

----------------------------------------------------------------------------
(* Requests that go on, and requests that end *)

\* A step that only looks: the request goes from one step to another, and gets
\* past the lock only when it is not barred.
LEMMA MoveStep ==
  ASSUME IInv, NEW s \in Slots, NEW pc \in Pcs, Goto(s, pc),
         UNCHANGED <<thread, posts, told, barred, failed>>,
         req[s].pc \notin Halfway, pc \notin Halfway,
         req[s].pc \in Creating <=> pc \in Creating,
         Opening(s) <=> Opening(s)', SlotOK(s)',
         Creates(s) /\ pc # "reply.read" => \A t \in Threads : req[s].post \notin barred[t]
  PROVE  IInv'
<1>1. /\ req' \in [Slots -> Request] /\ req'[s].pc = pc
      /\ req'[s].thread = req[s].thread /\ req'[s].post = req[s].post
      /\ \A q \in Slots : q # s => req'[q] = req[q]
  BY GotoStep DEF IInv
<1>2. \A q \in Slots : /\ Creates(q)' <=> Creates(q)
                       /\ Opening(q)' <=> Opening(q)
                       /\ req'[q].thread = req[q].thread /\ req'[q].post = req[q].post
  BY <1>1 DEF Creates, Opening
<1>3. TypeOK'
  BY <1>1 DEF IInv, TypeOK
<1>4. SlotsOK'
  <2>1. ASSUME NEW q \in Slots, q # s PROVE SlotOK(q)'
    <3>1. SlotOK(q)
      BY DEF IInv, SlotsOK
    <3> QED BY <1>1, <2>1, <3>1 DEF SlotOK, Creates, Opening
  <2> QED BY <2>1 DEF SlotsOK
<1>5. PostsOK'
  <2>1. ASSUME NEW p \in Posts PROVE PostOK(p)'
    <3>1. PostOK(p)
      BY DEF IInv, PostsOK
    <3> QED BY <1>1, <3>1 DEF PostOK, Halfway
  <2> QED BY <2>1 DEF PostsOK
<1>6. Exclusive'
  BY <1>2 DEF IInv, Exclusive
<1>7. BarredsOK'
  <2>1. ASSUME NEW t \in Threads, NEW p \in barred[t]
        PROVE  /\ posts[p] = None /\ thread[t] # None /\ thread[t].locked
               /\ \A q \in Slots : Creates(q)' /\ req'[q].post = p
                                     => req'[q].pc = "reply.read" /\ req'[q].thread = t
               /\ told[p] # "none" \/ \E q \in Slots : Creates(q)' /\ req'[q].post = p
    <3>1. /\ posts[p] = None /\ thread[t] # None /\ thread[t].locked
          /\ \A q \in Slots : Creates(q) /\ req[q].post = p
                                => req[q].pc = "reply.read" /\ req[q].thread = t
          /\ told[p] # "none" \/ \E q \in Slots : Creates(q) /\ req[q].post = p
      BY DEF IInv, BarredsOK, BarredOK
    <3> QED BY <1>1, <1>2, <3>1
  <2> QED BY <2>1 DEF BarredsOK, BarredOK
<1>8. CountAccurate'
  <2>1. \A t \in Threads : Short(t)' = Short(t) /\ Ahead(t)' = Ahead(t)
    BY <1>1, HalfwayStep DEF IInv
  <2>2. \A t \in Threads : PostsOn(t)' = PostsOn(t)
    BY DEF PostsOn
  <2> QED BY <2>1, <2>2, CountQuiet DEF IInv
<1> QED BY <1>3, <1>4, <1>5, <1>6, <1>7, <1>8 DEF IInv

\* A request that ends and writes nothing; a creation ends refused or failed,
\* and is counted when it was halfway.
LEMMA EndStep ==
  ASSUME IInv, NEW s \in Slots, Finish(s), UNCHANGED <<thread, posts, barred>>,
         told' \in [Posts -> {"none", "ok", "refused", "unknown"}],
         failed' \in [Threads -> 0 .. MaxFailures],
         \A p \in Posts : ~(Creates(s) /\ p = req[s].post) => told'[p] = told[p],
         Creates(s) => /\ told'[req[s].post] \in {"refused", "unknown"}
                       /\ req[s].pc = "reply.count" => told'[req[s].post] # "refused",
         \A t \in Threads :
           failed'[t] = IF req[s].pc \in Halfway /\ t = req[s].thread
                        THEN failed[t] + 1 ELSE failed[t]
  PROVE  IInv'
<1>1. /\ req' \in [Slots -> Request] /\ req'[s] = Idle
      /\ \A q \in Slots : q # s => req'[q] = req[q]
  BY IdleTypes, RequestStep DEF Finish, IInv
<1>2. /\ req'[s].pc = "idle" /\ ~Creates(s)' /\ ~Opening(s)' /\ req'[s].pc \notin Halfway
  BY <1>1, IdleTypes, Steps DEF Creates, Opening, Halfway
<1>3. Creates(s) => req[s].post \in Posts
  BY DEF IInv, SlotsOK, SlotOK
<1>4. TypeOK'
  BY <1>1 DEF IInv, TypeOK
<1>5. SlotsOK'
  <2>1. ASSUME NEW q \in Slots PROVE SlotOK(q)'
    <3>1. CASE q = s
      BY <1>2, <3>1 DEF SlotOK
    <3>2. CASE q # s
      <4>1. SlotOK(q) /\ req'[q] = req[q]
        BY <1>1, <3>2 DEF IInv, SlotsOK
      <4>2. Creates(q) => told'[req[q].post] = told[req[q].post]
        BY <1>3, <3>2, <4>1 DEF IInv, Exclusive, SlotOK
      <4> QED BY <4>1, <4>2 DEF SlotOK, Creates, Opening
    <3> QED BY <3>1, <3>2
  <2> QED BY <2>1 DEF SlotsOK
<1>6. PostsOK'
  <2>1. ASSUME NEW p \in Posts PROVE PostOK(p)'
    <3>1. PostOK(p)
      BY DEF IInv, PostsOK
    <3>2. CASE Creates(s) /\ p = req[s].post
      <4>1. /\ req[s].pc # "reply.count" => posts[p] = None
            /\ req[s].pc = "reply.count" => posts[p] # None
        BY <3>2 DEF IInv, SlotsOK, SlotOK
      <4>2. told'[p] # "none" /\ told'[p] # "ok"
        BY <3>2
      <4>3. told'[p] = "refused" => posts[p] = None
        BY <3>2, <4>1
      <4> QED BY <3>1, <4>2, <4>3 DEF PostOK
    <3>3. CASE ~(Creates(s) /\ p = req[s].post)
      <4>1. told'[p] = told[p]
        BY <3>3
      <4>2. \A q \in Slots : req[q].pc = "reply.count" /\ req[q].post = p
                              => req'[q].pc = "reply.count" /\ req'[q].post = p
        BY <1>1, <3>3, Steps DEF Creates, Halfway
      <4> QED BY <3>1, <4>1, <4>2 DEF PostOK
    <3> QED BY <3>2, <3>3
  <2> QED BY <2>1 DEF PostsOK
<1>7. Exclusive'
  BY <1>1, <1>2 DEF IInv, Exclusive, Creates, Opening
<1>8. BarredsOK'
  <2>1. ASSUME NEW t \in Threads, NEW p \in barred[t]
        PROVE  /\ posts[p] = None /\ thread[t] # None /\ thread[t].locked
               /\ \A q \in Slots : Creates(q)' /\ req'[q].post = p
                                     => req'[q].pc = "reply.read" /\ req'[q].thread = t
               /\ told'[p] # "none" \/ \E q \in Slots : Creates(q)' /\ req'[q].post = p
    <3>0. p \in Posts
      BY DEF IInv, TypeOK
    <3>1. /\ posts[p] = None /\ thread[t] # None /\ thread[t].locked
          /\ \A q \in Slots : Creates(q) /\ req[q].post = p
                                => req[q].pc = "reply.read" /\ req[q].thread = t
          /\ told[p] # "none" \/ \E q \in Slots : Creates(q) /\ req[q].post = p
      BY DEF IInv, BarredsOK, BarredOK
    <3>2. \A q \in Slots : Creates(q)' => q # s /\ req'[q] = req[q] /\ Creates(q)
      BY <1>1, <1>2 DEF Creates
    <3>3. CASE Creates(s) /\ p = req[s].post
      BY <3>1, <3>2, <3>3
    <3>4. CASE ~(Creates(s) /\ p = req[s].post)
      <4>1. told'[p] = told[p]
        BY <3>0, <3>4
      <4>2. \A q \in Slots : Creates(q) /\ req[q].post = p
                              => Creates(q)' /\ req'[q].post = p
        BY <1>1, <3>4 DEF Creates
      <4> QED BY <3>1, <3>2, <4>1, <4>2
    <3> QED BY <3>3, <3>4
  <2> QED BY <2>1 DEF BarredsOK, BarredOK
<1>9. CountAccurate'
  <2>1. ASSUME NEW t \in Threads, thread[t] # None
        PROVE  Balanced(thread[t].postCount, Short(t)', PostsOn(t)', Ahead(t)', failed'[t])
    <3>1. Balanced(thread[t].postCount, Short(t), PostsOn(t), Ahead(t), failed[t])
      BY <2>1, CountIs DEF IInv
    <3>2. /\ IsFiniteSet(Short(t)) /\ IsFiniteSet(Ahead(t))
          /\ Cardinality(PostsOn(t)) \in Nat /\ Cardinality(Short(t)) \in Nat
          /\ Cardinality(Ahead(t)) \in Nat /\ failed[t] \in Nat
      BY Finite DEF IInv
    <3>3. PostsOn(t)' = PostsOn(t)
      BY DEF PostsOn
    <3>4. thread[t].postCount \in Nat
      BY <2>1 DEF IInv, TypeOK, ThreadDoc
    <3>5. CASE req[s].pc \in Halfway /\ t = req[s].thread
      <4>1. failed'[t] = failed[t] + 1
        BY <3>5
      <4>2. CASE req[s].pc = "reply.count"
        <5>1. s \in Short(t) /\ Short(t)' = Short(t) \ {s} /\ Ahead(t)' = Ahead(t)
          BY <1>1, <1>2, <3>5, <4>2 DEF Short, Ahead, At, Halfway
        <5>2. Cardinality(Short(t)') = Cardinality(Short(t)) - 1
          BY <3>2, <5>1, CountDown
        <5> QED BY <3>1, <3>2, <3>3, <3>4, <4>1, <5>1, <5>2 DEF Balanced
      <4>3. CASE req[s].pc = "thread.post"
        <5>1. s \in Ahead(t) /\ Ahead(t)' = Ahead(t) \ {s} /\ Short(t)' = Short(t)
          BY <1>1, <1>2, <3>5, <4>3 DEF Short, Ahead, At, Halfway
        <5>2. Cardinality(Ahead(t)') = Cardinality(Ahead(t)) - 1
          BY <3>2, <5>1, CountDown
        <5> QED BY <3>1, <3>2, <3>3, <3>4, <4>1, <5>1, <5>2 DEF Balanced
      <4> QED BY <3>5, <4>2, <4>3 DEF Halfway
    <3>6. CASE ~(req[s].pc \in Halfway /\ t = req[s].thread)
      <4>1. failed'[t] = failed[t]
        BY <3>6
      <4>2. Short(t)' = Short(t) /\ Ahead(t)' = Ahead(t)
        BY <1>1, <1>2, <3>6 DEF Short, Ahead, At, Halfway
      <4> QED BY <3>1, <3>3, <4>1, <4>2
    <3> QED BY <3>5, <3>6
  <2> QED BY <2>1 DEF CountAccurate, Balanced
<1> QED BY <1>4, <1>5, <1>6, <1>7, <1>8, <1>9 DEF IInv

\* A creation that ends without a post, before or after its half.
LEMMA CreationEnds ==
  ASSUME IInv, NEW s \in Slots, Creates(s), Finish(s),
         NEW what \in {"refused", "unknown"}, Answer(req[s].post, what),
         req[s].pc = "reply.count" => what = "unknown",
         UNCHANGED <<thread, posts, barred>>,
         failed' \in [Threads -> 0 .. MaxFailures],
         \A t \in Threads :
           failed'[t] = IF req[s].pc \in Halfway /\ t = req[s].thread
                        THEN failed[t] + 1 ELSE failed[t]
  PROVE  IInv'
<1>1. req[s].post \in Posts /\ told[req[s].post] \in {"none", "unknown"}
  BY DEF IInv, SlotsOK, SlotOK
<1>2. /\ told' \in [Posts -> {"none", "ok", "refused", "unknown"}]
      /\ told'[req[s].post] \in {what, "unknown"}
      /\ \A x \in Posts : x # req[s].post => told'[x] = told[x]
  BY <1>1, AnswerStep DEF IInv
<1> QED BY <1>1, <1>2, EndStep

\* No creation is in this step: nothing is answered or counted.
LEMMA OtherEnds ==
  ASSUME IInv, NEW s \in Slots, ~Creates(s), Finish(s),
         UNCHANGED <<thread, posts, told, barred, failed>>
  PROVE  IInv'
<1>1. req[s].pc \notin Halfway
  BY Steps DEF Creates
<1> QED BY <1>1, EndStep DEF IInv, TypeOK

LEMMA ThreadBoardStep ==
  ASSUME IInv, NEW s \in Slots, ThreadBoard(s)
  PROVE  IInv'
<1>1. /\ req[s].pc = "thread.board" /\ Creates(s) /\ Opening(s) /\ req[s].pc \notin Halfway
      /\ UNCHANGED <<thread, posts, barred, failed>>
  BY Steps DEF ThreadBoard, At, Creates, Opening, Halfway
<1>2. CASE Goto(s, "thread.insert") /\ UNCHANGED told
  <2>1. "thread.insert" \in Pcs /\ "thread.insert" \in Creating /\ "thread.insert" \notin Halfway
    BY Steps DEF Halfway
  <2>2. /\ req'[s].pc = "thread.insert" /\ req'[s].thread = req[s].thread
        /\ req'[s].post = req[s].post /\ req'[s].token = req[s].token
    BY <1>2, <2>1, GotoStep DEF IInv
  <2>3. Opening(s)' /\ Creates(s)'
    BY <2>1, <2>2 DEF Opening, Creates
  <2>4. SlotOK(s)'
    <3>1. SlotOK(s)
      BY DEF IInv, SlotsOK
    <3> QED BY <1>1, <1>2, <2>2, <2>3, <3>1 DEF SlotOK
  <2>5. \A t \in Threads : req[s].post \notin barred[t]
    BY <1>1 DEF IInv, BarredsOK, BarredOK
  <2> QED BY <1>1, <1>2, <2>1, <2>3, <2>4, <2>5, MoveStep DEF Creates
<1>3. CASE Finish(s) /\ Answer(req[s].post, "refused")
  BY <1>1, <1>3, CreationEnds DEF IInv, TypeOK
<1> QED BY <1>2, <1>3 DEF ThreadBoard

LEMMA ReplyReadStep ==
  ASSUME IInv, NEW s \in Slots, ReplyRead(s)
  PROVE  IInv'
<1>1. /\ req[s].pc = "reply.read" /\ Creates(s) /\ ~Opening(s) /\ req[s].pc \notin Halfway
      /\ UNCHANGED <<thread, posts, barred, failed>>
  BY Steps DEF ReplyRead, At, Creates, Opening, Halfway
<1>2. CASE ReplyRefused(req[s].thread)
  <2>1. Finish(s) /\ Answer(req[s].post, "refused")
    BY <1>2 DEF ReplyRead
  <2> QED BY <1>1, <2>1, CreationEnds DEF IInv, TypeOK
<1>3. CASE ~ReplyRefused(req[s].thread)
  <2>0. Goto(s, "reply.insert") /\ UNCHANGED told
    BY <1>3 DEF ReplyRead
  <2>1. "reply.insert" \in Pcs /\ "reply.insert" \in Creating /\ "reply.insert" \notin Halfway
    BY Steps DEF Halfway
  <2>2. /\ req'[s].pc = "reply.insert" /\ req'[s].thread = req[s].thread
        /\ req'[s].post = req[s].post /\ req'[s].token = req[s].token
    BY <2>0, <2>1, GotoStep DEF IInv
  <2>3. ~Opening(s)' /\ Creates(s)'
    BY <2>1, <2>2 DEF Opening, Creates
  <2>4. SlotOK(s)'
    <3>1. SlotOK(s)
      BY DEF IInv, SlotsOK
    <3> QED BY <1>1, <1>3, <2>0, <2>2, <2>3, <3>1 DEF SlotOK, ReplyRefused
  <2>5. \A t \in Threads : req[s].post \notin barred[t]
    BY <1>1, <1>3 DEF IInv, BarredsOK, BarredOK, ReplyRefused
  <2> QED BY <1>1, <2>0, <2>1, <2>3, <2>4, <2>5, MoveStep DEF Creates
<1> QED BY <1>2, <1>3

\* Moderation and deletion: the reads.
LEMMA OtherMoves ==
  ASSUME IInv, NEW s \in Slots, ~Creates(s),
         NEW pc \in {"moderate.write", "moderate.answer", "delete.write"}, Goto(s, pc),
         UNCHANGED <<thread, posts, told, barred, failed>>,
         pc = "delete.write" => req[s].post \in Posts /\ posts[req[s].post] # None,
         pc # "delete.write" => req[s].thread \in Threads /\ thread[req[s].thread] # None
  PROVE  IInv'
<1>1. pc \in Pcs /\ pc \notin Creating /\ pc \notin Halfway /\ req[s].pc \notin Halfway
  BY Steps DEF Pcs, Halfway, Creates
<1>2. /\ req'[s].pc = pc /\ req'[s].thread = req[s].thread /\ req'[s].post = req[s].post
  BY <1>1, GotoStep DEF IInv
<1>3. ~Opening(s) /\ ~Opening(s)' /\ ~Creates(s)'
  BY <1>1, <1>2, Steps DEF Opening, Creates
<1>4. SlotOK(s)'
  BY <1>2, <1>3 DEF SlotOK
<1> QED BY <1>1, <1>3, <1>4, MoveStep DEF Creates

LEMMA ModerateReadStep ==
  ASSUME IInv, NEW s \in Slots, ModerateRead(s)
  PROVE  IInv'
<1>1. /\ req[s].pc = "moderate.read" /\ ~Creates(s)
      /\ UNCHANGED <<thread, posts, told, barred, failed>>
  BY Steps DEF ModerateRead, At, Creates
<1>2. req[s].thread \in Threads
  BY <1>1 DEF IInv, SlotsOK, SlotOK
<1> QED BY <1>1, <1>2, OtherEnds, OtherMoves DEF ModerateRead

LEMMA DeleteReadStep ==
  ASSUME IInv, NEW s \in Slots, DeleteRead(s)
  PROVE  IInv'
<1>1. /\ req[s].pc = "delete.read" /\ ~Creates(s)
      /\ UNCHANGED <<thread, posts, told, barred, failed>>
  BY Steps DEF DeleteRead, At, Creates
<1>2. req[s].post \in Posts
  BY <1>1 DEF IInv, SlotsOK, SlotOK
<1> QED BY <1>1, <1>2, OtherEnds, OtherMoves DEF DeleteRead

LEMMA ModerateAnswerStep ==
  ASSUME IInv, NEW s \in Slots, ModerateAnswer(s)
  PROVE  IInv'
BY OtherEnds, Steps DEF ModerateAnswer, At, Creates

LEMMA FailStep ==
  ASSUME IInv, NEW s \in Slots, FailEarly(s) \/ FailHalfway(s) \/ FailOther(s)
  PROVE  IInv'
<1>1. CASE FailEarly(s)
  <2>1. /\ Creates(s) /\ req[s].pc \notin Halfway /\ Finish(s)
        /\ Answer(req[s].post, "unknown") /\ UNCHANGED <<thread, posts, barred, failed>>
    BY <1>1 DEF FailEarly, Creates, Halfway
  <2> QED BY <2>1, CreationEnds DEF IInv, TypeOK
<1>2. CASE FailHalfway(s)
  <2>1. /\ req[s].pc \in Halfway /\ Creates(s) /\ Finish(s)
        /\ Answer(req[s].post, "unknown") /\ UNCHANGED <<thread, posts, barred>>
        /\ failed[req[s].thread] < MaxFailures
        /\ failed' = [failed EXCEPT ![req[s].thread] = @ + 1]
    BY <1>2, Steps DEF FailHalfway, Creates, Halfway
  <2>2. failed \in [Threads -> 0 .. MaxFailures] /\ MaxFailures \in Nat
    BY Constants DEF IInv, TypeOK
  <2>3. failed' \in [Threads -> 0 .. MaxFailures]
    <3>1. failed[req[s].thread] + 1 \in 0 .. MaxFailures
      <4>1. req[s].thread \in Threads
        BY <2>1 DEF IInv, SlotsOK, SlotOK
      <4> QED BY <2>1, <2>2, <4>1
    <3> QED BY <2>1, <2>2, <3>1
  <2>4. \A t \in Threads :
          failed'[t] = IF req[s].pc \in Halfway /\ t = req[s].thread
                       THEN failed[t] + 1 ELSE failed[t]
    BY <2>1, <2>2
  <2> QED BY <2>1, <2>3, <2>4, CreationEnds
<1>3. CASE FailOther(s)
  BY <1>3, OtherEnds DEF FailOther, Creates
<1> QED BY <1>1, <1>2, <1>3

\* The proxy gives up: only what the client is told changes.
LEMMA ProxyTimeoutStep ==
  ASSUME IInv, NEW s \in Slots, ProxyTimeout(s)
  PROVE  IInv'
<1>1. Creates(s) /\ told[req[s].post] = "none" /\ UNCHANGED <<thread, posts, req, barred, failed>>
  BY DEF ProxyTimeout, Creates
<1>2. PICK p \in Posts : p = req[s].post
  BY <1>1 DEF IInv, SlotsOK, SlotOK
<1>3. /\ told' \in [Posts -> {"none", "ok", "refused", "unknown"}]
      /\ told'[p] = "unknown" /\ told[p] = "none"
      /\ \A x \in Posts : x # p => told'[x] = told[x]
  BY <1>1, <1>2, AnswerStep DEF ProxyTimeout, IInv
<1>4. TypeOK'
  BY <1>1, <1>3 DEF IInv, TypeOK
<1>5. SlotsOK'
  <2>1. ASSUME NEW q \in Slots PROVE SlotOK(q)'
    <3>1. SlotOK(q)
      BY DEF IInv, SlotsOK
    <3> QED BY <1>1, <1>3, <3>1 DEF SlotOK, Creates, Opening
  <2> QED BY <2>1 DEF SlotsOK
<1>6. PostsOK'
  <2>1. ASSUME NEW x \in Posts PROVE PostOK(x)'
    <3>1. PostOK(x)
      BY DEF IInv, PostsOK
    <3> QED BY <1>1, <1>3, <3>1 DEF PostOK
  <2> QED BY <2>1 DEF PostsOK
<1>7. Exclusive'
  BY <1>1 DEF IInv, Exclusive, Creates, Opening
<1>8. BarredsOK'
  <2>1. \A x \in Posts : told[x] # "none" => told'[x] # "none"
    BY <1>3
  <2>2. \A t \in Threads : barred[t] \subseteq Posts
    BY DEF IInv, TypeOK
  <2> QED BY <1>1, <2>1, <2>2 DEF IInv, BarredsOK, BarredOK, Creates
<1>9. CountAccurate'
  <2>1. \A t \in Threads : /\ Short(t)' = Short(t) /\ Ahead(t)' = Ahead(t)
                           /\ PostsOn(t)' = PostsOn(t)
    BY <1>1 DEF Short, Ahead, At, PostsOn
  <2> QED BY <1>1, <2>1, CountQuiet DEF IInv
<1> QED BY <1>4, <1>5, <1>6, <1>7, <1>8, <1>9 DEF IInv

----------------------------------------------------------------------------
(* Steps that write a thread or a post *)

\* Of the counts only those of one thread change.
LEMMA CountOne ==
  ASSUME CountAccurate, NEW t0 \in Threads,
         \A t \in Threads : t # t0 =>
           /\ thread'[t] = thread[t] /\ failed'[t] = failed[t]
           /\ Short(t)' = Short(t) /\ PostsOn(t)' = PostsOn(t) /\ Ahead(t)' = Ahead(t),
         thread'[t0] # None =>
           Balanced(thread'[t0].postCount, Short(t0)', PostsOn(t0)', Ahead(t0)', failed'[t0])
  PROVE  CountAccurate'
<1>1. ASSUME NEW t \in Threads, thread'[t] # None
      PROVE  Balanced(thread'[t].postCount, Short(t)', PostsOn(t)', Ahead(t)', failed'[t])
  <2>1. CASE t = t0
    BY <1>1, <2>1
  <2>2. CASE t # t0
    BY <1>1, <2>2, CountIs
  <2> QED BY <2>1, <2>2
<1> QED BY <1>1 DEF CountAccurate, Balanced

LEMMA ThreadInsertStep ==
  ASSUME IInv, NEW s \in Slots, ThreadInsert(s)
  PROVE  IInv'
<1>1. /\ req[s].pc = "thread.insert" /\ Creates(s) /\ Opening(s) /\ req[s].pc \notin Halfway
      /\ UNCHANGED <<posts, told, barred, failed>> /\ Goto(s, "thread.post")
  BY Steps DEF ThreadInsert, At, Creates, Opening, Halfway
<1>2. PICK t \in Threads : t = req[s].thread
  BY <1>1 DEF IInv, SlotsOK, SlotOK
<1>3. PICK p \in Posts : p = req[s].post
  BY <1>1 DEF IInv, SlotsOK, SlotOK
<1>4. SlotOK(s) /\ posts[p] = None /\ thread[t] = None /\ told[p] \in {"none", "unknown"}
  BY <1>1, <1>2, <1>3 DEF IInv, SlotsOK, SlotOK
<1>5. "thread.post" \in Pcs /\ "thread.post" \in Creating /\ "thread.post" \in Halfway
  BY Steps DEF Halfway
<1>6. /\ req' \in [Slots -> Request] /\ req'[s].pc = "thread.post"
      /\ req'[s].token = req[s].token /\ req'[s].thread = t /\ req'[s].post = p
      /\ \A q \in Slots : q # s => req'[q] = req[q]
  BY <1>1, <1>2, <1>3, <1>5, GotoStep DEF IInv
<1> DEFINE d == Doc(p, 1, FALSE, FALSE)
<1>7. d \in ThreadDoc /\ d # None /\ d.postCount = 1
  <2>1. 1 \in Nat /\ FALSE \in BOOLEAN
    OBVIOUS
  <2>2. d \in ThreadDoc /\ d.postCount = 1
    BY <2>1, DocMaker
  <2> QED BY <2>2, Constants
<1>8. thread' = [thread EXCEPT ![t] = d]
  BY <1>2, <1>3 DEF ThreadInsert
<1> HIDE DEF d
<1>9. /\ thread' \in [Threads -> ThreadDoc \cup {None}] /\ thread'[t] = d
      /\ \A u \in Threads : u # t => thread'[u] = thread[u]
  BY <1>7, <1>8 DEF IInv, TypeOK
<1>10. \A u \in Threads : thread[u] # None => thread'[u] = thread[u]
  BY <1>4, <1>9
<1>11. Creates(s)' /\ ~Opening(s)'
  BY <1>5, <1>6 DEF Creates, Opening
<1>12. TypeOK'
  BY <1>1, <1>6, <1>9 DEF IInv, TypeOK
<1>13. SlotsOK'
  <2>1. ASSUME NEW q \in Slots PROVE SlotOK(q)'
    <3>1. CASE q = s
      BY <1>1, <1>4, <1>6, <1>7, <1>9, <1>11, <3>1 DEF SlotOK
    <3>2. CASE q # s
      <4>1. SlotOK(q) /\ req'[q] = req[q]
        BY <1>6, <3>2 DEF IInv, SlotsOK
      <4>2. Opening(q) => thread'[req[q].thread] = None
        <5>1. Opening(q) => req[q].thread \in Threads /\ req[q].thread # t
          BY <1>1, <1>2, <3>2, <4>1, Steps DEF IInv, Exclusive, SlotOK, Opening, Creates
        <5> QED BY <1>9, <4>1, <5>1 DEF SlotOK
      <4>3. req[q].thread \in Threads /\ thread[req[q].thread] # None
              => thread'[req[q].thread] # None
        BY <1>10
      <4> QED BY <1>1, <4>1, <4>2, <4>3 DEF SlotOK, Creates, Opening
    <3> QED BY <3>1, <3>2
  <2> QED BY <2>1 DEF SlotsOK
<1>14. PostsOK'
  <2>1. ASSUME NEW x \in Posts PROVE PostOK(x)'
    <3>1. PostOK(x)
      BY DEF IInv, PostsOK
    <3>2. posts[x] # None => thread'[posts[x].on] # None
      <4>1. posts[x] # None => posts[x].on \in Threads
        BY DEF IInv, TypeOK, PostDoc
      <4> QED BY <1>10, <3>1, <4>1 DEF PostOK
    <3>3. \A q \in Slots : req[q].pc = "reply.count" => req'[q] = req[q]
      BY <1>1, <1>6
    <3> QED BY <1>1, <3>1, <3>2, <3>3 DEF PostOK
  <2> QED BY <2>1 DEF PostsOK
<1>15. Exclusive'
  BY <1>1, <1>3, <1>6, <1>11 DEF IInv, Exclusive, Creates, Opening
<1>16. BarredsOK'
  <2>1. ASSUME NEW u \in Threads, NEW x \in barred[u]
        PROVE  /\ posts[x] = None /\ thread'[u] # None /\ thread'[u].locked
               /\ \A q \in Slots : Creates(q)' /\ req'[q].post = x
                                     => req'[q].pc = "reply.read" /\ req'[q].thread = u
               /\ told[x] # "none" \/ \E q \in Slots : Creates(q)' /\ req'[q].post = x
    <3>1. /\ posts[x] = None /\ thread[u] # None /\ thread[u].locked
          /\ \A q \in Slots : Creates(q) /\ req[q].post = x
                                => req[q].pc = "reply.read" /\ req[q].thread = u
          /\ told[x] # "none" \/ \E q \in Slots : Creates(q) /\ req[q].post = x
      BY DEF IInv, BarredsOK, BarredOK
    <3>2. thread'[u] = thread[u] /\ x # p
      BY <1>1, <1>3, <1>10, <3>1
    <3>3. \A q \in Slots : Creates(q)' /\ req'[q].post = x
                            <=> Creates(q) /\ req[q].post = x
      BY <1>3, <1>6, <3>2 DEF Creates
    <3>4. \A q \in Slots : Creates(q)' /\ req'[q].post = x => req'[q] = req[q]
      BY <1>6, <3>2
    <3> QED BY <3>1, <3>2, <3>3, <3>4
  <2> QED BY <1>1, <2>1 DEF BarredsOK, BarredOK
<1>17. CountAccurate'
  <2>1. \A u \in Threads : PostsOn(u)' = PostsOn(u)
    BY <1>1 DEF PostsOn
  <2>2. \A u \in Threads : u # t => Short(u)' = Short(u) /\ Ahead(u)' = Ahead(u)
    BY <1>2, <1>6, HalfwayStep DEF IInv
  <2>3. PostsOn(t) = {} /\ Short(t) = {} /\ Ahead(t) = {}
    BY <1>4, NothingYet DEF IInv
  <2>4. Short(t)' = {} /\ Ahead(t)' = {s}
    BY <1>6, <2>3 DEF Short, Ahead, At
  <2>5. Balanced(1, {}, {}, {s}, failed[t])
    <3>1. Cardinality({}) = 0 /\ Cardinality({s}) = 1
      BY FS_EmptySet, FS_Singleton
    <3>2. failed[t] \in Nat
      BY Finite DEF IInv
    <3> QED BY <3>1, <3>2 DEF Balanced
  <2>6. /\ thread'[t].postCount = 1 /\ PostsOn(t)' = {} /\ failed'[t] = failed[t]
    BY <1>1, <1>7, <1>9, <2>1, <2>3
  <2>7. Balanced(thread'[t].postCount, Short(t)', PostsOn(t)', Ahead(t)', failed'[t])
    BY <2>4, <2>5, <2>6
  <2>8. \A u \in Threads : u # t => thread'[u] = thread[u] /\ failed'[u] = failed[u]
    BY <1>1, <1>9
  <2> QED BY <2>1, <2>2, <2>7, <2>8, CountOne DEF IInv
<1> QED BY <1>12, <1>13, <1>14, <1>15, <1>16, <1>17 DEF IInv

\* What every step does that stores the post of a creation: nothing is said of
\* the counts.
LEMMA StoreStep ==
  ASSUME IInv, NEW s \in Slots, NEW t \in Threads, NEW p \in Posts, Creates(s),
         ~Opening(s), thread[t] # None,
         t = req[s].thread, p = req[s].post, posts[p] = None,
         req[s].pc # "reply.read", \A u \in Threads : p \notin barred[u],
         posts' = [posts EXCEPT ![p] = Post(s)], UNCHANGED <<thread, barred, failed>>,
         req' \in [Slots -> Request], \A q \in Slots : q # s => req'[q] = req[q],
         told' \in [Posts -> {"none", "ok", "refused", "unknown"}],
         \A x \in Posts : x # p => told'[x] = told[x],
         told'[p] # "refused",
         told'[p] # "none" \/ (req'[s].pc = "reply.count" /\ req'[s].post = p),
         ~Opening(s)', Creates(s)' => req'[s].post = p, SlotOK(s)'
  PROVE  /\ TypeOK' /\ SlotsOK' /\ PostsOK' /\ BarredsOK' /\ Exclusive'
         /\ PostsOn(t)' = PostsOn(t) \cup {p} /\ p \notin PostsOn(t)
         /\ \A u \in Threads : u # t => PostsOn(u)' = PostsOn(u)
<1>0. Post(s) \in PostDoc /\ Post(s) # None /\ Post(s).on = t
  <2>1. req[s].token \in Tokens
    BY DEF IInv, SlotsOK, SlotOK
  <2>2. AccountOf[req[s].token] \in Account
    BY <2>1 DEF Account
  <2>3. Post(s) \in PostDoc /\ Post(s).on = t
    BY <2>2 DEF Post, PostDoc
  <2> QED BY <2>3, Constants
<1>1. /\ posts' \in [Posts -> PostDoc \cup {None}] /\ posts'[p] = Post(s)
      /\ \A x \in Posts : x # p => posts'[x] = posts[x]
  BY <1>0 DEF IInv, TypeOK
<1>2. TypeOK'
  BY <1>1 DEF IInv, TypeOK
<1>3. SlotsOK'
  <2>1. ASSUME NEW q \in Slots, q # s PROVE SlotOK(q)'
    <3>1. SlotOK(q) /\ req'[q] = req[q]
      BY <2>1 DEF IInv, SlotsOK
    <3>2. Creates(q) => req[q].post \in Posts /\ req[q].post # p
      BY <2>1, <3>1 DEF IInv, Exclusive, SlotOK
    <3>3. req[q].pc = "reply.count" => Creates(q)
      BY Steps DEF Creates, Halfway
    <3>4. \A x \in Posts : posts[x] # None => posts'[x] # None
      BY <1>0, <1>1
    <3> QED BY <1>1, <3>1, <3>2, <3>3, <3>4 DEF SlotOK, Creates, Opening
  <2> QED BY <2>1 DEF SlotsOK
<1>4. PostsOK'
  <2>1. ASSUME NEW x \in Posts PROVE PostOK(x)'
    <3>1. CASE x = p
      BY <1>0, <1>1, <3>1 DEF PostOK
    <3>2. CASE x # p
      <4>1. PostOK(x) /\ posts'[x] = posts[x] /\ told'[x] = told[x]
        BY <1>1, <3>2 DEF IInv, PostsOK
      <4>2. \A q \in Slots : req[q].pc = "reply.count" /\ req[q].post = x
                              => req'[q].pc = "reply.count" /\ req'[q].post = x
        BY <3>2
      <4> QED BY <4>1, <4>2 DEF PostOK
    <3> QED BY <3>1, <3>2
  <2> QED BY <2>1 DEF PostsOK
<1>5. Exclusive'
  BY DEF IInv, Exclusive, Creates, Opening
<1>6. BarredsOK'
  <2>1. ASSUME NEW u \in Threads, NEW x \in barred[u]
        PROVE  /\ posts'[x] = None /\ thread[u] # None /\ thread[u].locked
               /\ \A q \in Slots : Creates(q)' /\ req'[q].post = x
                                     => req'[q].pc = "reply.read" /\ req'[q].thread = u
               /\ told'[x] # "none" \/ \E q \in Slots : Creates(q)' /\ req'[q].post = x
    <3>0. x \in Posts /\ x # p
      BY DEF IInv, TypeOK
    <3>1. /\ posts[x] = None /\ thread[u] # None /\ thread[u].locked
          /\ \A q \in Slots : Creates(q) /\ req[q].post = x
                                => req[q].pc = "reply.read" /\ req[q].thread = u
          /\ told[x] # "none" \/ \E q \in Slots : Creates(q) /\ req[q].post = x
      BY DEF IInv, BarredsOK, BarredOK
    <3>2. \A q \in Slots : Creates(q)' /\ req'[q].post = x
                            <=> Creates(q) /\ req[q].post = x
      BY <3>0 DEF Creates
    <3>3. \A q \in Slots : Creates(q)' /\ req'[q].post = x => req'[q] = req[q]
      BY <3>0
    <3>4. posts'[x] = posts[x] /\ told'[x] = told[x]
      BY <1>1, <3>0
    <3> QED BY <3>1, <3>2, <3>3, <3>4
  <2> QED BY <2>1 DEF BarredsOK, BarredOK
<1>7. PostsOn(t)' = PostsOn(t) \cup {p} /\ p \notin PostsOn(t)
  BY <1>0, <1>1 DEF PostsOn
<1>8. \A u \in Threads : u # t => PostsOn(u)' = PostsOn(u)
  BY <1>0, <1>1 DEF PostsOn
<1> QED BY <1>2, <1>3, <1>4, <1>5, <1>6, <1>7, <1>8

LEMMA ThreadPostStep ==
  ASSUME IInv, NEW s \in Slots, ThreadPost(s)
  PROVE  IInv'
<1>1. /\ req[s].pc = "thread.post" /\ Creates(s) /\ ~Opening(s)
      /\ UNCHANGED <<thread, barred, failed>> /\ Finish(s)
      /\ Answer(req[s].post, "ok")
  BY Steps DEF ThreadPost, At, Creates, Opening, Halfway
<1>2. PICK t \in Threads : t = req[s].thread
  BY <1>1 DEF IInv, SlotsOK, SlotOK
<1>3. PICK p \in Posts : p = req[s].post
  BY <1>1 DEF IInv, SlotsOK, SlotOK
<1>4. posts[p] = None /\ thread[t] # None /\ told[p] \in {"none", "unknown"}
  BY <1>1, <1>2, <1>3 DEF IInv, SlotsOK, SlotOK
<1>5. /\ req' \in [Slots -> Request] /\ req'[s].pc = "idle"
      /\ \A q \in Slots : q # s => req'[q] = req[q]
  BY <1>1, IdleTypes, RequestStep DEF Finish, IInv
<1>6. /\ told' \in [Posts -> {"none", "ok", "refused", "unknown"}]
      /\ told'[p] \in {"ok", "unknown"}
      /\ \A x \in Posts : x # p => told'[x] = told[x]
  BY <1>1, <1>3, <1>4, AnswerStep DEF IInv
<1>7. ~Creates(s)' /\ ~Opening(s)' /\ SlotOK(s)'
  <2>1. ~Creates(s)' /\ ~Opening(s)'
    BY <1>5, Steps DEF Creates, Opening
  <2> QED BY <1>5, <2>1 DEF SlotOK
<1>8. \A u \in Threads : p \notin barred[u]
  BY <1>1, <1>3 DEF IInv, BarredsOK, BarredOK
<1>9. posts' = [posts EXCEPT ![p] = Post(s)]
  BY <1>3 DEF ThreadPost
<1>10. /\ TypeOK' /\ SlotsOK' /\ PostsOK' /\ BarredsOK' /\ Exclusive'
       /\ PostsOn(t)' = PostsOn(t) \cup {p} /\ p \notin PostsOn(t)
       /\ \A u \in Threads : u # t => PostsOn(u)' = PostsOn(u)
  <2>1. ~Opening(s)' /\ (Creates(s)' => req'[s].post = p) /\ SlotOK(s)'
    BY <1>7
  <2>2. /\ told'[p] # "refused"
        /\ told'[p] # "none" \/ (req'[s].pc = "reply.count" /\ req'[s].post = p)
    BY <1>6
  <2>3. req[s].pc # "reply.read" /\ UNCHANGED <<thread, barred, failed>>
    BY <1>1
  <2> QED
    BY <1>1, <1>2, <1>3, <1>4, <1>5, <1>6, <1>8, <1>9, <2>1, <2>2, <2>3, StoreStep
<1>11. CountAccurate'
  <2>1. \A u \in Threads : u # t => Short(u)' = Short(u) /\ Ahead(u)' = Ahead(u)
    BY <1>2, <1>5, HalfwayStep DEF IInv, Halfway
  <2>2. Short(t)' = Short(t) /\ Ahead(t)' = Ahead(t) \ {s} /\ s \in Ahead(t)
    BY <1>1, <1>2, <1>5 DEF Short, Ahead, At
  <2>3. /\ Cardinality(Ahead(t)') = Cardinality(Ahead(t)) - 1
        /\ Cardinality(PostsOn(t)') = Cardinality(PostsOn(t)) + 1
    BY <1>10, <2>2, Finite, CountDown, CountUp DEF IInv
  <2>4. Balanced(thread[t].postCount, Short(t), PostsOn(t), Ahead(t), failed[t])
    BY <1>4, CountIs DEF IInv
  <2>5. /\ Cardinality(PostsOn(t)) \in Nat /\ Cardinality(Short(t)) \in Nat
        /\ Cardinality(Ahead(t)) \in Nat /\ failed[t] \in Nat
    BY Finite DEF IInv
  <2>6. thread[t].postCount \in Nat
    BY <1>4 DEF IInv, TypeOK, ThreadDoc
  <2>7. Balanced(thread[t].postCount, Short(t)', PostsOn(t)', Ahead(t)', failed[t])
    BY <2>2, <2>3, <2>4, <2>5, <2>6 DEF Balanced
  <2>8. thread' = thread /\ failed' = failed
    BY <1>1
  <2> QED BY <1>10, <2>1, <2>7, <2>8, CountOne DEF IInv
<1> QED BY <1>10, <1>11 DEF IInv

LEMMA ReplyInsertStep ==
  ASSUME IInv, NEW s \in Slots, ReplyInsert(s)
  PROVE  IInv'
<1>1. /\ req[s].pc = "reply.insert" /\ Creates(s) /\ ~Opening(s)
      /\ req[s].pc \notin Halfway
      /\ UNCHANGED <<thread, told, barred, failed>> /\ Goto(s, "reply.count")
  BY Steps DEF ReplyInsert, At, Creates, Opening, Halfway
<1>2. PICK t \in Threads : t = req[s].thread
  BY <1>1 DEF IInv, SlotsOK, SlotOK
<1>3. PICK p \in Posts : p = req[s].post
  BY <1>1 DEF IInv, SlotsOK, SlotOK
<1>4. /\ posts[p] = None /\ thread[t] # None /\ told[p] \in {"none", "unknown"}
      /\ SlotOK(s)
  BY <1>1, <1>2, <1>3 DEF IInv, SlotsOK, SlotOK
<1>5. /\ req' \in [Slots -> Request] /\ req'[s].pc = "reply.count"
      /\ req'[s].token = req[s].token /\ req'[s].thread = t /\ req'[s].post = p
      /\ \A q \in Slots : q # s => req'[q] = req[q]
  <2>1. "reply.count" \in Pcs
    BY Steps DEF Halfway
  <2> QED BY <1>1, <1>2, <1>3, <2>1, GotoStep DEF IInv
<1>6. posts' = [posts EXCEPT ![p] = Post(s)]
  BY <1>3 DEF ReplyInsert
<1>7. Creates(s)' /\ ~Opening(s)' /\ SlotOK(s)'
  <2>1. Creates(s)' /\ ~Opening(s)'
    BY <1>5, Steps DEF Creates, Opening, Halfway
  <2>2. posts'[p] # None
    <3>1. Post(s) \in PostDoc
      <4>1. AccountOf[req[s].token] \in Account
        BY <1>1, <1>4 DEF Account, SlotOK
      <4> QED BY <1>2, <4>1 DEF Post, PostDoc
    <3>2. posts'[p] = Post(s)
      BY <1>6 DEF IInv, TypeOK
    <3> QED BY <3>1, <3>2, Constants
  <2>3. told' = told /\ thread' = thread
    BY <1>1
  <2>4. req[s].token \in Tokens
    BY <1>1, <1>4 DEF SlotOK
  <2> QED BY <1>4, <1>5, <2>1, <2>2, <2>3, <2>4 DEF SlotOK
<1>8. \A u \in Threads : p \notin barred[u]
  BY <1>1, <1>3 DEF IInv, BarredsOK, BarredOK
<1>9. /\ told' \in [Posts -> {"none", "ok", "refused", "unknown"}]
      /\ told' = told /\ told'[p] # "refused"
  BY <1>1, <1>4 DEF IInv, TypeOK
<1>10. /\ TypeOK' /\ SlotsOK' /\ PostsOK' /\ BarredsOK' /\ Exclusive'
       /\ PostsOn(t)' = PostsOn(t) \cup {p} /\ p \notin PostsOn(t)
       /\ \A u \in Threads : u # t => PostsOn(u)' = PostsOn(u)
  BY <1>1, <1>2, <1>3, <1>4, <1>5, <1>6, <1>7, <1>8, <1>9, StoreStep
<1>11. CountAccurate'
  <2>1. \A u \in Threads : u # t => Short(u)' = Short(u) /\ Ahead(u)' = Ahead(u)
    BY <1>2, <1>5, HalfwayStep DEF IInv
  <2>2. Ahead(t)' = Ahead(t) /\ Short(t)' = Short(t) \cup {s} /\ s \notin Short(t)
    BY <1>1, <1>2, <1>5 DEF Short, Ahead, At
  <2>3. /\ Cardinality(Short(t)') = Cardinality(Short(t)) + 1
        /\ Cardinality(PostsOn(t)') = Cardinality(PostsOn(t)) + 1
    BY <1>10, <2>2, Finite, CountUp DEF IInv
  <2>4. Balanced(thread[t].postCount, Short(t), PostsOn(t), Ahead(t), failed[t])
    BY <1>4, CountIs DEF IInv
  <2>5. /\ Cardinality(PostsOn(t)) \in Nat /\ Cardinality(Short(t)) \in Nat
        /\ Cardinality(Ahead(t)) \in Nat /\ failed[t] \in Nat
    BY Finite DEF IInv
  <2>6. thread[t].postCount \in Nat
    BY <1>4 DEF IInv, TypeOK, ThreadDoc
  <2>7. Balanced(thread[t].postCount, Short(t)', PostsOn(t)', Ahead(t)', failed[t])
    BY <2>2, <2>3, <2>4, <2>5, <2>6 DEF Balanced
  <2>8. thread' = thread /\ failed' = failed
    BY <1>1
  <2> QED BY <1>10, <2>1, <2>7, <2>8, CountOne DEF IInv
<1> QED BY <1>10, <1>11 DEF IInv

\* A thread that exists is written again; who was at work with it finds it still
\* there, and a lock that bars someone is kept.
LEMMA RewriteStep ==
  ASSUME IInv, NEW t \in Threads, thread[t] # None, NEW d \in ThreadDoc,
         thread' = [thread EXCEPT ![t] = d]
  PROVE  /\ thread' \in [Threads -> ThreadDoc \cup {None}] /\ thread'[t] = d
         /\ \A u \in Threads : u # t => thread'[u] = thread[u]
         /\ \A u \in Threads : thread'[u] = None <=> thread[u] = None
BY Constants DEF IInv, TypeOK

LEMMA ReplyCountStep ==
  ASSUME IInv, NEW s \in Slots, ReplyCount(s)
  PROVE  IInv'
<1>1. /\ req[s].pc = "reply.count" /\ Creates(s) /\ ~Opening(s)
      /\ UNCHANGED <<posts, barred, failed>> /\ Finish(s)
      /\ Answer(req[s].post, "ok")
  BY Steps DEF ReplyCount, CountReply, At, Creates, Opening, Halfway
<1>2. PICK t \in Threads : t = req[s].thread
  BY <1>1 DEF IInv, SlotsOK, SlotOK
<1>3. PICK p \in Posts : p = req[s].post
  BY <1>1 DEF IInv, SlotsOK, SlotOK
<1>4. posts[p] # None /\ thread[t] # None /\ told[p] \in {"none", "unknown"}
  BY <1>1, <1>2, <1>3 DEF IInv, SlotsOK, SlotOK
<1>5. /\ req' \in [Slots -> Request] /\ req'[s].pc = "idle"
      /\ \A q \in Slots : q # s => req'[q] = req[q]
  BY <1>1, IdleTypes, RequestStep DEF Finish, IInv
<1>6. /\ told' \in [Posts -> {"none", "ok", "refused", "unknown"}]
      /\ told'[p] \in {"ok", "unknown"}
      /\ \A x \in Posts : x # p => told'[x] = told[x]
  BY <1>1, <1>3, <1>4, AnswerStep DEF IInv
<1>7. ~Creates(s)' /\ ~Opening(s)'
  BY <1>5, Steps DEF Creates, Opening
<1> DEFINE d == Doc(p, thread[t].postCount + 1, thread[t].locked, thread[t].pinned)
<1>8. d \in ThreadDoc /\ d.postCount = thread[t].postCount + 1 /\ d.locked = thread[t].locked
  <2>1. /\ thread[t].postCount + 1 \in Nat /\ thread[t].locked \in BOOLEAN
        /\ thread[t].pinned \in BOOLEAN
    BY <1>4 DEF IInv, TypeOK, ThreadDoc
  <2> QED BY <2>1, DocMaker
<1>9. thread' = [thread EXCEPT ![t] = d]
  BY <1>2, <1>3 DEF ReplyCount, CountReply, IInv, TypeOK
<1> HIDE DEF d
<1>10. /\ thread' \in [Threads -> ThreadDoc \cup {None}] /\ thread'[t] = d
       /\ \A u \in Threads : u # t => thread'[u] = thread[u]
       /\ \A u \in Threads : thread'[u] = None <=> thread[u] = None
  BY <1>4, <1>8, <1>9, RewriteStep
<1>11. TypeOK'
  BY <1>1, <1>5, <1>6, <1>10 DEF IInv, TypeOK
<1>12. SlotsOK'
  <2>1. ASSUME NEW q \in Slots PROVE SlotOK(q)'
    <3>1. CASE q = s
      BY <1>5, <1>7, <3>1 DEF SlotOK
    <3>2. CASE q # s
      <4>1. SlotOK(q) /\ req'[q] = req[q]
        BY <1>5, <3>2 DEF IInv, SlotsOK
      <4>2. Creates(q) => req[q].post \in Posts /\ req[q].post # p
        BY <1>1, <1>3, <3>2, <4>1 DEF IInv, Exclusive, SlotOK
      <4>3. Creates(q) => told'[req[q].post] = told[req[q].post]
        BY <1>6, <4>2
      <4>4. Opening(q) => req[q].thread \in Threads
        BY <4>1, Steps DEF SlotOK, Opening, Creates
      <4> QED BY <1>1, <1>10, <4>1, <4>3, <4>4 DEF SlotOK, Creates, Opening
    <3> QED BY <3>1, <3>2
  <2> QED BY <2>1 DEF SlotsOK
<1>13. PostsOK'
  <2>1. ASSUME NEW x \in Posts PROVE PostOK(x)'
    <3>1. PostOK(x)
      BY DEF IInv, PostsOK
    <3>2. posts[x] # None => thread'[posts[x].on] # None
      <4>1. posts[x] # None => posts[x].on \in Threads
        BY DEF IInv, TypeOK, PostDoc
      <4> QED BY <1>10, <3>1, <4>1 DEF PostOK
    <3>3. CASE x = p
      BY <1>1, <1>4, <1>6, <3>2, <3>3 DEF PostOK
    <3>4. CASE x # p
      <4>1. told'[x] = told[x]
        BY <1>6, <3>4
      <4>2. \A q \in Slots : req[q].pc = "reply.count" /\ req[q].post = x
                              => req'[q].pc = "reply.count" /\ req'[q].post = x
        BY <1>3, <1>5, <3>4
      <4> QED BY <1>1, <3>1, <3>2, <4>1, <4>2 DEF PostOK
    <3> QED BY <3>3, <3>4
  <2> QED BY <2>1 DEF PostsOK
<1>14. Exclusive'
  BY <1>5, <1>7 DEF IInv, Exclusive, Creates, Opening
<1>15. BarredsOK'
  <2>1. ASSUME NEW u \in Threads, NEW x \in barred[u]
        PROVE  /\ posts[x] = None /\ thread'[u] # None /\ thread'[u].locked
               /\ \A q \in Slots : Creates(q)' /\ req'[q].post = x
                                     => req'[q].pc = "reply.read" /\ req'[q].thread = u
               /\ told'[x] # "none" \/ \E q \in Slots : Creates(q)' /\ req'[q].post = x
    <3>1. /\ posts[x] = None /\ thread[u] # None /\ thread[u].locked
          /\ \A q \in Slots : Creates(q) /\ req[q].post = x
                                => req[q].pc = "reply.read" /\ req[q].thread = u
          /\ told[x] # "none" \/ \E q \in Slots : Creates(q) /\ req[q].post = x
      BY DEF IInv, BarredsOK, BarredOK
    <3>2. x \in Posts /\ x # p
      BY <1>4, <3>1 DEF IInv, TypeOK
    <3>3. \A q \in Slots : Creates(q)' /\ req'[q].post = x
                            <=> Creates(q) /\ req[q].post = x
      BY <1>3, <1>5, <1>7, <3>2 DEF Creates
    <3>4. \A q \in Slots : Creates(q)' /\ req'[q].post = x => req'[q] = req[q]
      BY <1>5, <1>7
    <3>5. thread'[u] # None /\ thread'[u].locked
      BY <1>8, <1>10, <3>1
    <3>6. told'[x] = told[x]
      BY <1>6, <3>2
    <3> QED BY <3>1, <3>3, <3>4, <3>5, <3>6
  <2> QED BY <1>1, <2>1 DEF BarredsOK, BarredOK
<1>16. CountAccurate'
  <2>1. \A u \in Threads : u # t => Short(u)' = Short(u) /\ Ahead(u)' = Ahead(u)
    BY <1>2, <1>5, HalfwayStep DEF IInv, Halfway
  <2>2. Ahead(t)' = Ahead(t) /\ Short(t)' = Short(t) \ {s} /\ s \in Short(t)
    BY <1>1, <1>2, <1>5 DEF Short, Ahead, At
  <2>3. Cardinality(Short(t)') = Cardinality(Short(t)) - 1
    BY <2>2, Finite, CountDown DEF IInv
  <2>4. Balanced(thread[t].postCount, Short(t), PostsOn(t), Ahead(t), failed[t])
    BY <1>4, CountIs DEF IInv
  <2>5. /\ Cardinality(PostsOn(t)) \in Nat /\ Cardinality(Short(t)) \in Nat
        /\ Cardinality(Ahead(t)) \in Nat /\ failed[t] \in Nat
    BY Finite DEF IInv
  <2>6. thread[t].postCount \in Nat
    BY <1>4 DEF IInv, TypeOK, ThreadDoc
  <2>7. Balanced(thread[t].postCount + 1, Short(t)', PostsOn(t), Ahead(t)', failed[t])
    BY <2>2, <2>3, <2>4, <2>5, <2>6 DEF Balanced
  <2>8. failed' = failed /\ \A u \in Threads : PostsOn(u)' = PostsOn(u)
    BY <1>1 DEF PostsOn
  <2>9. Balanced(thread'[t].postCount, Short(t)', PostsOn(t)', Ahead(t)', failed'[t])
    BY <1>8, <1>10, <2>7, <2>8
  <2> QED BY <1>10, <2>1, <2>8, <2>9, CountOne DEF IInv
<1> QED BY <1>11, <1>12, <1>13, <1>14, <1>15, <1>16 DEF IInv

LEMMA FlagTypes ==
  ASSUME NEW asked \in BOOLEAN \cup {None}, NEW current \in BOOLEAN
  PROVE  Flag(asked, current) \in BOOLEAN
BY DEF Flag

LEMMA ModerateWriteStep ==
  ASSUME IInv, NEW s \in Slots, ModerateWrite(s)
  PROVE  IInv'
<1>1. /\ req[s].pc = "moderate.write" /\ ~Creates(s) /\ ~Opening(s)
      /\ req[s].pc \notin Halfway /\ UNCHANGED <<posts, told, failed>>
      /\ Goto(s, "moderate.answer")
  BY Steps DEF ModerateWrite, SetFlags, At, Creates, Opening, Halfway
<1>2. PICK t \in Threads : t = req[s].thread
  BY <1>1 DEF IInv, SlotsOK, SlotOK
<1>3. thread[t] # None
  BY <1>1, <1>2 DEF IInv, SlotsOK, SlotOK
<1>4. PICK locked \in BOOLEAN, pinned \in BOOLEAN :
        /\ locked = Flag(req[s].locked, thread[t].locked)
        /\ pinned = Flag(req[s].pinned, thread[t].pinned)
  <2>1. thread[t].locked \in BOOLEAN /\ thread[t].pinned \in BOOLEAN
    BY <1>3 DEF IInv, TypeOK, ThreadDoc
  <2>2. req[s].locked \in BOOLEAN \cup {None} /\ req[s].pinned \in BOOLEAN \cup {None}
    BY DEF IInv, TypeOK, Request
  <2> QED BY <2>1, <2>2, FlagTypes
<1>5. /\ req' \in [Slots -> Request] /\ req'[s].pc = "moderate.answer"
      /\ req'[s].thread = t /\ \A q \in Slots : q # s => req'[q] = req[q]
  <2>1. "moderate.answer" \in Pcs
    BY DEF Pcs
  <2> QED BY <1>1, <1>2, <2>1, GotoStep DEF IInv
<1>6. ~Creates(s)' /\ ~Opening(s)' /\ req'[s].pc \notin Halfway
  BY <1>5, Steps DEF Creates, Opening
<1> DEFINE d == Doc(thread[t].lastPostAt, thread[t].postCount, locked, pinned)
<1>7. d \in ThreadDoc /\ d.postCount = thread[t].postCount /\ d.locked = locked
  <2>1. thread[t].lastPostAt \in Posts /\ thread[t].postCount \in Nat
    BY <1>3 DEF IInv, TypeOK, ThreadDoc
  <2> QED BY <2>1, DocMaker
<1>8. /\ thread' = [thread EXCEPT ![t] = d]
      /\ barred' = [barred EXCEPT ![t] = IF locked THEN @ ELSE {}]
  BY <1>2, <1>4 DEF ModerateWrite, SetFlags, IInv, TypeOK
<1> HIDE DEF d
<1>9. /\ thread' \in [Threads -> ThreadDoc \cup {None}] /\ thread'[t] = d
      /\ \A u \in Threads : u # t => thread'[u] = thread[u]
      /\ \A u \in Threads : thread'[u] = None <=> thread[u] = None
  BY <1>3, <1>7, <1>8, RewriteStep
<1>10. /\ barred' \in [Threads -> SUBSET Posts]
       /\ \A u \in Threads : barred'[u] \subseteq barred[u]
       /\ ~locked => barred'[t] = {}
  BY <1>8 DEF IInv, TypeOK
<1>11. TypeOK'
  BY <1>1, <1>5, <1>9, <1>10 DEF IInv, TypeOK
<1>12. SlotsOK'
  <2>1. ASSUME NEW q \in Slots PROVE SlotOK(q)'
    <3>1. CASE q = s
      BY <1>3, <1>5, <1>6, <1>9, <3>1 DEF SlotOK
    <3>2. CASE q # s
      <4>1. SlotOK(q) /\ req'[q] = req[q]
        BY <1>5, <3>2 DEF IInv, SlotsOK
      <4>2. Opening(q) => req[q].thread \in Threads
        BY <4>1, Steps DEF SlotOK, Opening, Creates
      <4> QED BY <1>1, <1>9, <4>1, <4>2 DEF SlotOK, Creates, Opening
    <3> QED BY <3>1, <3>2
  <2> QED BY <2>1 DEF SlotsOK
<1>13. PostsOK'
  <2>1. ASSUME NEW x \in Posts PROVE PostOK(x)'
    <3>1. PostOK(x)
      BY DEF IInv, PostsOK
    <3>2. posts[x] # None => thread'[posts[x].on] # None
      <4>1. posts[x] # None => posts[x].on \in Threads
        BY DEF IInv, TypeOK, PostDoc
      <4> QED BY <1>9, <3>1, <4>1 DEF PostOK
    <3>3. \A q \in Slots : req[q].pc = "reply.count" => req'[q] = req[q]
      BY <1>1, <1>5
    <3> QED BY <1>1, <3>1, <3>2, <3>3 DEF PostOK
  <2> QED BY <2>1 DEF PostsOK
<1>14. Exclusive'
  BY <1>5, <1>6 DEF IInv, Exclusive, Creates, Opening
<1>15. BarredsOK'
  <2>1. ASSUME NEW u \in Threads, NEW x \in barred'[u]
        PROVE  /\ posts[x] = None /\ thread'[u] # None /\ thread'[u].locked
               /\ \A q \in Slots : Creates(q)' /\ req'[q].post = x
                                     => req'[q].pc = "reply.read" /\ req'[q].thread = u
               /\ told[x] # "none" \/ \E q \in Slots : Creates(q)' /\ req'[q].post = x
    <3>0. x \in barred[u]
      BY <1>10, <2>1
    <3>1. /\ posts[x] = None /\ thread[u] # None /\ thread[u].locked
          /\ \A q \in Slots : Creates(q) /\ req[q].post = x
                                => req[q].pc = "reply.read" /\ req[q].thread = u
          /\ told[x] # "none" \/ \E q \in Slots : Creates(q) /\ req[q].post = x
      BY <3>0 DEF IInv, BarredsOK, BarredOK
    <3>2. \A q \in Slots : Creates(q)' => Creates(q) /\ req'[q] = req[q]
      BY <1>5, <1>6 DEF Creates
    <3>3. \A q \in Slots : Creates(q) => Creates(q)' /\ req'[q] = req[q]
      BY <1>1, <1>5 DEF Creates
    <3>4. u = t => locked
      BY <1>10, <2>1
    <3>5. thread'[u] # None /\ thread'[u].locked
      BY <1>7, <1>9, <3>1, <3>4
    <3> QED BY <3>1, <3>2, <3>3, <3>5
  <2> QED BY <1>1, <2>1 DEF BarredsOK, BarredOK
<1>16. CountAccurate'
  <2>1. \A u \in Threads : Short(u)' = Short(u) /\ Ahead(u)' = Ahead(u)
    BY <1>1, <1>5, <1>6, HalfwayStep DEF IInv
  <2>2. failed' = failed /\ \A u \in Threads : PostsOn(u)' = PostsOn(u)
    BY <1>1 DEF PostsOn
  <2>3. \A u \in Threads : thread'[u] # None
          => thread[u] # None /\ thread'[u].postCount = thread[u].postCount
    BY <1>7, <1>9
  <2> QED BY <2>1, <2>2, <2>3, CountQuiet DEF IInv
<1> QED BY <1>11, <1>12, <1>13, <1>14, <1>15, <1>16 DEF IInv

LEMMA DeleteWriteStep ==
  ASSUME IInv, NEW s \in Slots, DeleteWrite(s)
  PROVE  IInv'
<1>1. /\ req[s].pc = "delete.write" /\ ~Creates(s) /\ req[s].pc \notin Halfway
      /\ UNCHANGED <<thread, told, barred, failed>> /\ Finish(s)
  BY Steps DEF DeleteWrite, At, Creates, Halfway
<1>2. PICK p \in Posts : p = req[s].post
  BY <1>1 DEF IInv, SlotsOK, SlotOK
<1>3. posts[p] # None /\ posts[p] \in PostDoc
  BY <1>1, <1>2 DEF IInv, SlotsOK, SlotOK, TypeOK
<1> DEFINE d == [posts[p] EXCEPT !.deleted = TRUE]
<1>4. d \in PostDoc /\ d # None /\ d.on = posts[p].on
  <2>1. d \in PostDoc /\ d.on = posts[p].on
    BY <1>3 DEF PostDoc
  <2> QED BY <2>1, Constants
<1>5. posts' = [posts EXCEPT ![p] = d]
  BY <1>2 DEF DeleteWrite, IInv, TypeOK
<1> HIDE DEF d
<1>6. /\ posts' \in [Posts -> PostDoc \cup {None}] /\ posts'[p] = d
      /\ \A x \in Posts : x # p => posts'[x] = posts[x]
  BY <1>4, <1>5 DEF IInv, TypeOK
<1>7. \A x \in Posts : /\ posts'[x] = None <=> posts[x] = None
                       /\ posts[x] # None => posts'[x].on = posts[x].on
  BY <1>3, <1>4, <1>6
<1>8. /\ req' \in [Slots -> Request] /\ req'[s].pc = "idle"
      /\ \A q \in Slots : q # s => req'[q] = req[q]
  BY <1>1, IdleTypes, RequestStep DEF Finish, IInv
<1>9. ~Creates(s)' /\ ~Opening(s)' /\ req'[s].pc \notin Halfway
  BY <1>8, Steps DEF Creates, Opening, Halfway
<1>10. TypeOK'
  BY <1>1, <1>6, <1>8 DEF IInv, TypeOK
<1>11. SlotsOK'
  <2>1. ASSUME NEW q \in Slots PROVE SlotOK(q)'
    <3>1. CASE q = s
      BY <1>8, <1>9, <3>1 DEF SlotOK
    <3>2. CASE q # s
      <4>1. SlotOK(q) /\ req'[q] = req[q]
        BY <1>8, <3>2 DEF IInv, SlotsOK
      <4>2. req[q].pc = "reply.count" => Creates(q)
        BY Steps DEF Creates, Halfway
      <4> QED BY <1>1, <1>7, <4>1, <4>2 DEF SlotOK, Creates, Opening
    <3> QED BY <3>1, <3>2
  <2> QED BY <2>1 DEF SlotsOK
<1>12. PostsOK'
  <2>1. ASSUME NEW x \in Posts PROVE PostOK(x)'
    <3>1. PostOK(x)
      BY DEF IInv, PostsOK
    <3>2. \A q \in Slots : req[q].pc = "reply.count" => req'[q] = req[q]
      BY <1>1, <1>8
    <3> QED BY <1>1, <1>7, <3>1, <3>2 DEF PostOK
  <2> QED BY <2>1 DEF PostsOK
<1>13. Exclusive'
  BY <1>8, <1>9 DEF IInv, Exclusive, Creates, Opening
<1>14. BarredsOK'
  <2>1. ASSUME NEW u \in Threads, NEW x \in barred[u]
        PROVE  /\ posts'[x] = None /\ thread[u] # None /\ thread[u].locked
               /\ \A q \in Slots : Creates(q)' /\ req'[q].post = x
                                     => req'[q].pc = "reply.read" /\ req'[q].thread = u
               /\ told[x] # "none" \/ \E q \in Slots : Creates(q)' /\ req'[q].post = x
    <3>1. /\ posts[x] = None /\ thread[u] # None /\ thread[u].locked
          /\ \A q \in Slots : Creates(q) /\ req[q].post = x
                                => req[q].pc = "reply.read" /\ req[q].thread = u
          /\ told[x] # "none" \/ \E q \in Slots : Creates(q) /\ req[q].post = x
      BY DEF IInv, BarredsOK, BarredOK
    <3>2. \A q \in Slots : Creates(q)' => Creates(q) /\ req'[q] = req[q]
      BY <1>8, <1>9 DEF Creates
    <3>3. \A q \in Slots : Creates(q) => Creates(q)' /\ req'[q] = req[q]
      BY <1>1, <1>8 DEF Creates
    <3>4. posts'[x] = None
      <4>1. x \in Posts
        BY DEF IInv, TypeOK
      <4> QED BY <1>7, <3>1, <4>1
    <3> QED BY <3>1, <3>2, <3>3, <3>4
  <2> QED BY <1>1, <2>1 DEF BarredsOK, BarredOK
<1>15. CountAccurate'
  <2>1. \A u \in Threads : Short(u)' = Short(u) /\ Ahead(u)' = Ahead(u)
    BY <1>1, <1>8, <1>9, HalfwayStep DEF IInv
  <2>2. \A u \in Threads : PostsOn(u)' = PostsOn(u)
    BY <1>7 DEF PostsOn
  <2> QED BY <1>1, <2>1, <2>2, CountQuiet DEF IInv
<1> QED BY <1>10, <1>11, <1>12, <1>13, <1>14, <1>15 DEF IInv

----------------------------------------------------------------------------
(* The invariant *)

LEMMA InitIInv == Init => IInv
<1> SUFFICES ASSUME Init PROVE IInv
  OBVIOUS
<1>1. \A s \in Slots : req[s] = Idle
  BY DEF Init
<1>2. \A s \in Slots : ~Creates(s) /\ ~Opening(s) /\ req[s].pc = "idle"
  BY <1>1, IdleTypes, Steps DEF Creates, Opening
<1>3. TypeOK
  BY IdleTypes, Constants DEF Init, TypeOK
<1>4. SlotsOK
  BY <1>2 DEF SlotsOK, SlotOK
<1>5. PostsOK
  BY DEF Init, PostsOK, PostOK
<1>6. BarredsOK
  BY DEF Init, BarredsOK, BarredOK
<1>7. Exclusive
  BY <1>2 DEF Exclusive
<1>8. CountAccurate
  BY DEF Init, CountAccurate
<1> QED BY <1>3, <1>4, <1>5, <1>6, <1>7, <1>8 DEF IInv

LEMMA NextIInv == IInv /\ [Next]_vars => IInv'
<1>1. CASE UNCHANGED vars
  BY <1>1 DEF vars, IInv, TypeOK, SlotsOK, SlotOK, PostsOK, PostOK, BarredsOK, BarredOK,
       Exclusive, Creates, Opening, CountAccurate, Short, Ahead, At, PostsOn
<1>2. ASSUME IInv, NEW s \in Slots, NEW k \in Tokens, Clients(s, k) PROVE IInv'
  BY <1>2, SendThreadStep, SendReplyStep, SendOtherStep DEF Clients
<1>3. ASSUME IInv, NEW s \in Slots, Handlers(s) PROVE IInv'
  BY <1>3, ThreadBoardStep, ThreadInsertStep, ThreadPostStep, ReplyReadStep,
     ReplyInsertStep, ReplyCountStep, ModerateReadStep, ModerateWriteStep,
     ModerateAnswerStep, DeleteReadStep, DeleteWriteStep DEF Handlers
<1>4. ASSUME IInv, NEW s \in Slots,
             ProxyTimeout(s) \/ FailEarly(s) \/ FailHalfway(s) \/ FailOther(s)
      PROVE  IInv'
  BY <1>4, ProxyTimeoutStep, FailStep
<1> QED BY <1>1, <1>2, <1>3, <1>4 DEF Next

LEMMA Invariance == Spec => []IInv
BY InitIInv, NextIInv, PTL DEF Spec

----------------------------------------------------------------------------
(* What the invariant means *)

\* Every document, request and answer keeps its type.
THEOREM TypeCorrect == Spec => []TypeOK
<1>1. IInv => TypeOK
  BY DEF IInv
<1> QED BY <1>1, Invariance, PTL

\* The number of posts a thread shows is off by no more than the creations that
\* failed between the counter and the post, but for what is in flight.
THEOREM CounterBounded == Spec => []CountAccurate
<1>1. IInv => CountAccurate
  BY DEF IInv
<1> QED BY <1>1, Invariance, PTL

\* A refused creation left nothing behind and never will, a confirmed one is
\* stored in a thread that exists.
THEOREM AnswersAreTrue == Spec => []AnswersTrue
<1>1. ASSUME IInv PROVE AnswersTrue
  <2>1. ASSUME NEW p \in Posts, told[p] = "refused"
        PROVE  /\ posts[p] = None
               /\ \A s \in Slots : ~(req[s].post = p /\ req[s].pc \in Creating)
    <3>1. posts[p] = None
      BY <1>1, <2>1 DEF IInv, PostsOK, PostOK
    <3>2. \A s \in Slots : Creates(s) => told[req[s].post] # "refused"
      BY <1>1 DEF IInv, SlotsOK, SlotOK
    <3> QED BY <2>1, <3>1, <3>2 DEF Creates
  <2>2. ASSUME NEW p \in Posts, told[p] = "ok"
        PROVE  posts[p] # None /\ thread[posts[p].on] # None
    BY <1>1, <2>2 DEF IInv, PostsOK, PostOK
  <2> QED BY <2>1, <2>2 DEF AnswersTrue
<1> QED BY <1>1, Invariance, PTL

\* A reply that was sent while the thread was locked never appears, unless the
\* thread was unlocked meanwhile.
THEOREM LockIsKept == Spec => []LockHolds
<1>1. IInv => LockHolds
  BY DEF IInv, BarredsOK, BarredOK, LockHolds
<1> QED BY <1>1, Invariance, PTL

\* Who writes a thread that exists: a reply, which leaves the flags alone, and
\* moderation, which sets those it was asked for.
LEMMA FlagsMove ==
  ASSUME IInv, [Next]_vars, NEW t \in Threads, thread[t] # None
  PROVE  \/ /\ thread'[t] # None /\ thread'[t].locked = thread[t].locked
            /\ thread'[t].pinned = thread[t].pinned
         \/ \E s \in Slots :
              /\ At(s, "moderate.write") /\ req[s].thread = t /\ thread'[t] # None
              /\ thread'[t].locked = Flag(req[s].locked, thread[t].locked)
              /\ thread'[t].pinned = Flag(req[s].pinned, thread[t].pinned)
<1>0. /\ thread[t].lastPostAt \in Posts /\ thread[t].postCount \in Nat
      /\ thread[t].locked \in BOOLEAN /\ thread[t].pinned \in BOOLEAN
  BY DEF IInv, TypeOK, ThreadDoc
<1>1. CASE thread' = thread
  BY <1>1
<1>2. ASSUME NEW s \in Slots, ThreadInsert(s)
      PROVE  thread'[t] = thread[t]
  <2>1. req[s].thread # t
    BY <1>2 DEF ThreadInsert, At, IInv, SlotsOK, SlotOK, Opening
  <2> QED BY <1>2, <2>1 DEF ThreadInsert, IInv, TypeOK
<1>3. ASSUME NEW s \in Slots, ReplyCount(s)
      PROVE  /\ thread'[t] # None /\ thread'[t].locked = thread[t].locked
             /\ thread'[t].pinned = thread[t].pinned
  <2>1. CASE req[s].thread = t
    <3>1. PICK p \in Posts : p = req[s].post
      BY <1>3, Steps DEF ReplyCount, CountReply, At, IInv, SlotsOK, SlotOK, Creates, Halfway
    <3> DEFINE d == Doc(p, thread[t].postCount + 1, thread[t].locked, thread[t].pinned)
    <3>2. d \in ThreadDoc /\ d.locked = thread[t].locked /\ d.pinned = thread[t].pinned
      <4>1. thread[t].postCount + 1 \in Nat
        BY <1>0
      <4> QED BY <1>0, <4>1, DocMaker
    <3>3. thread' = [thread EXCEPT ![t] = d]
      BY <1>3, <2>1, <3>1 DEF ReplyCount, CountReply, IInv, TypeOK
    <3> HIDE DEF d
    <3> QED BY <3>2, <3>3, RewriteStep, Constants
  <2>2. CASE req[s].thread # t
    BY <1>3, <2>2 DEF ReplyCount, CountReply, IInv, TypeOK
  <2> QED BY <2>1, <2>2
<1>4. ASSUME NEW s \in Slots, ModerateWrite(s)
      PROVE  \/ thread'[t] = thread[t]
             \/ /\ At(s, "moderate.write") /\ req[s].thread = t /\ thread'[t] # None
                /\ thread'[t].locked = Flag(req[s].locked, thread[t].locked)
                /\ thread'[t].pinned = Flag(req[s].pinned, thread[t].pinned)
  <2>1. CASE req[s].thread = t
    <3>1. PICK locked \in BOOLEAN, pinned \in BOOLEAN :
            /\ locked = Flag(req[s].locked, thread[t].locked)
            /\ pinned = Flag(req[s].pinned, thread[t].pinned)
      <4>1. req[s].locked \in BOOLEAN \cup {None} /\ req[s].pinned \in BOOLEAN \cup {None}
        BY DEF IInv, TypeOK, Request
      <4> QED BY <1>0, <4>1, FlagTypes
    <3> DEFINE d == Doc(thread[t].lastPostAt, thread[t].postCount, locked, pinned)
    <3>2. d \in ThreadDoc /\ d.locked = locked /\ d.pinned = pinned
      BY <1>0, DocMaker
    <3>3. thread' = [thread EXCEPT ![t] = d] /\ At(s, "moderate.write")
      BY <1>4, <2>1, <3>1 DEF ModerateWrite, SetFlags, IInv, TypeOK
    <3> HIDE DEF d
    <3> QED BY <2>1, <3>1, <3>2, <3>3, RewriteStep, Constants
  <2>2. CASE req[s].thread # t
    BY <1>4, <2>2 DEF ModerateWrite, SetFlags, IInv, TypeOK
  <2> QED BY <2>1, <2>2
<1>5. ASSUME NEW s \in Slots, NEW k \in Tokens, Clients(s, k) PROVE thread' = thread
  BY <1>5 DEF Clients, SendThread, SendReply, SendModeration, SendDeletion
<1>6. ASSUME NEW s \in Slots,
             \/ ThreadBoard(s) \/ ThreadPost(s) \/ ReplyRead(s) \/ ReplyInsert(s)
             \/ ModerateRead(s) \/ ModerateAnswer(s) \/ DeleteRead(s) \/ DeleteWrite(s)
             \/ ProxyTimeout(s) \/ FailEarly(s) \/ FailHalfway(s) \/ FailOther(s)
      PROVE  thread' = thread
  BY <1>6 DEF ThreadBoard, ThreadPost, ReplyRead, ReplyInsert, ModerateRead,
       ModerateAnswer, DeleteRead, DeleteWrite, ProxyTimeout, FailEarly, FailHalfway,
       FailOther
<1> QED BY <1>1, <1>2, <1>3, <1>4, <1>5, <1>6 DEF Next, Handlers, vars

\* A flag of a thread changes only to what a moderator asks for: omitted flags,
\* and every other request, leave it alone.
THEOREM OnlyModeratorsModerate == Spec => ModerationOnly
<1> DEFINE Moderated ==
      \A t \in Threads : thread[t] # None =>
        /\ thread'[t] # None
        /\ thread'[t].locked # thread[t].locked =>
             \E s \in Slots : /\ At(s, "moderate.write") /\ req[s].thread = t
                              /\ req[s].locked = thread'[t].locked
        /\ thread'[t].pinned # thread[t].pinned =>
             \E s \in Slots : /\ At(s, "moderate.write") /\ req[s].thread = t
                              /\ req[s].pinned = thread'[t].pinned
<1>1. IInv /\ [Next]_vars => [Moderated]_vars
  <2> SUFFICES ASSUME IInv, [Next]_vars PROVE Moderated
    OBVIOUS
  <2>1. ASSUME NEW t \in Threads, thread[t] # None
        PROVE  /\ thread'[t] # None
               /\ thread'[t].locked # thread[t].locked =>
                    \E s \in Slots : /\ At(s, "moderate.write") /\ req[s].thread = t
                                     /\ req[s].locked = thread'[t].locked
               /\ thread'[t].pinned # thread[t].pinned =>
                    \E s \in Slots : /\ At(s, "moderate.write") /\ req[s].thread = t
                                     /\ req[s].pinned = thread'[t].pinned
    BY <2>1, FlagsMove DEF Flag
  <2> QED BY <2>1
<1>2. ModerationOnly <=> [][Moderated]_vars
  BY DEF ModerationOnly
<1> HIDE DEF Moderated
<1> QED BY <1>1, <1>2, Invariance, PTL DEF Spec
=============================================================================
