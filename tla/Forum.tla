-------------------------------- MODULE Forum --------------------------------
(***************************************************************************)
(* The forum-service (routers/forum.py) behind the proxy of the            *)
(* api-service (routers/forums.py): threads, posts, moderation.  As in     *)
(* TicketDesk, an action is one database operation with the code around    *)
(* it.  The service reads the role from the token and knows no accounts,   *)
(* so one account may hold tokens with different roles.                    *)
(*                                                                         *)
(* The proxy gives up after a while and answers 503, but the forum-service *)
(* goes on with the request: what the client is told and what happened are *)
(* two things, told and posts.                                             *)
(***************************************************************************)
EXTENDS Integers, FiniteSets

CONSTANTS Threads, Posts,  \* identities of what may be created
          Slots,           \* requests the forum-service works on at a time
          Tokens,
          AccountOf,       \* token -> its "sub"
          StaffTokens,     \* the tokens whose "role" is AGENT or ADMIN
          None,
          Moderations,     \* bound: the <<locked, pinned>> that are asked for
          MaxFailures      \* bound: creations that fail halfway, per thread

ASSUME ForumAssumption ==
  /\ IsFiniteSet(Posts) /\ IsFiniteSet(Slots)
  /\ StaffTokens \subseteq Tokens
  /\ None \notin Threads \cup Posts \cup Tokens \cup BOOLEAN
  /\ Moderations \subseteq (BOOLEAN \cup {None}) \X (BOOLEAN \cup {None})
  /\ MaxFailures \in Nat

Account == { AccountOf[k] : k \in Tokens }

\* lastPostAt is the time of some creation: the post it was to create.
ThreadDoc == [lastPostAt : Posts, postCount : Nat, locked : BOOLEAN,
              pinned : BOOLEAN]
PostDoc == [on : Threads, by : Account, deleted : BOOLEAN]

ASSUME NullDocAssumption == None \notin ThreadDoc \cup PostDoc

VARIABLES thread,   \* threads: id -> document, None before it is inserted
          posts,    \* posts: id -> document, None before it is inserted
          req,      \* the requests the forum-service works on
          told,     \* post -> the answer to the request that creates it:
                    \* ok, refused (4xx), or unknown (500, 503)
          barred,   \* history: thread -> replies sent while it was locked,
                    \* since it was unlocked last
          failed    \* history: thread -> creations that failed between the
                    \* thread's counter and the post

vars == <<thread, posts, req, told, barred, failed>>

\* A request with token k, at some step; None is what it does not name.
Wants(k, pc, t, p, locked, pinned) ==
  [pc |-> pc, token |-> k, thread |-> t, post |-> p, locked |-> locked,
   pinned |-> pinned]
Idle == Wants(None, "idle", None, None, None, None)

Doc(lastPostAt, postCount, locked, pinned) ==
  [lastPostAt |-> lastPostAt, postCount |-> postCount, locked |-> locked,
   pinned |-> pinned]

Init == /\ thread = [t \in Threads |-> None]
        /\ posts = [p \in Posts |-> None]
        /\ req = [s \in Slots |-> Idle]
        /\ told = [p \in Posts |-> "none"]
        /\ barred = [t \in Threads |-> {}]
        /\ failed = [t \in Threads |-> 0]

----------------------------------------------------------------------------
(* Requests *)

At(s, pc) == req[s].pc = pc
Goto(s, pc) == req' = [req EXCEPT ![s].pc = pc]
Finish(s) == req' = [req EXCEPT ![s] = Idle]

Send(s, request) == req[s] = Idle /\ req' = [req EXCEPT ![s] = request]

\* The proxy passes the answer on, unless it has given up before.
Answer(p, what) ==
  told' = [told EXCEPT ![p] = IF @ = "none" THEN what ELSE @]

\* Identities nobody uses yet.
Fresh(p) == told[p] = "none" /\ \A s \in Slots : req[s].post # p
FreshThread(t) ==
  /\ thread[t] = None
  /\ \A s \in Slots :
       req[s].thread = t => req[s].pc \notin {"thread.board", "thread.insert"}

Post(s) == [on |-> req[s].thread, by |-> AccountOf[req[s].token],
            deleted |-> FALSE]

----------------------------------------------------------------------------
(* create_thread: the thread, then its body as the first post *)

SendThread(s, k, t, p) ==
  /\ Fresh(p) /\ FreshThread(t)
  /\ Send(s, Wants(k, "thread.board", t, p, None, None))
  /\ UNCHANGED <<thread, posts, told, barred, failed>>

\* The slug names a board or it does not (404).
ThreadBoard(s) ==
  /\ At(s, "thread.board")
  /\ \/ Goto(s, "thread.insert") /\ UNCHANGED told
     \/ Finish(s) /\ Answer(req[s].post, "refused")
  /\ UNCHANGED <<thread, posts, barred, failed>>

ThreadInsert(s) ==
  /\ At(s, "thread.insert")
  /\ thread' = [thread EXCEPT ![req[s].thread] =
                  Doc(req[s].post, 1, FALSE, FALSE)]
  /\ Goto(s, "thread.post")
  /\ UNCHANGED <<posts, told, barred, failed>>

ThreadPost(s) ==
  /\ At(s, "thread.post")
  /\ posts' = [posts EXCEPT ![req[s].post] = Post(s)]
  /\ Finish(s) /\ Answer(req[s].post, "ok")
  /\ UNCHANGED <<thread, barred, failed>>

----------------------------------------------------------------------------
(* create_post: the lock, the post, the thread's counters *)

SendReply(s, k, t, p) ==
  /\ Fresh(p)
  /\ Send(s, Wants(k, "reply.read", t, p, None, None))
  /\ barred' = [barred EXCEPT ![t] =
       IF thread[t] # None /\ thread[t].locked THEN @ \cup {p} ELSE @]
  /\ UNCHANGED <<thread, posts, told, failed>>

\* No such thread (404) or it is locked (409).
ReplyRefused_OnlyMissing(t) == thread[t] = None
ReplyRefused(t) == thread[t] = None \/ thread[t].locked

ReplyRead_StoresFirst(s) ==
  /\ At(s, "reply.read") /\ thread[req[s].thread] # None
  /\ posts' = [posts EXCEPT ![req[s].post] = Post(s)]
  /\ IF thread[req[s].thread].locked
     THEN Finish(s) /\ Answer(req[s].post, "refused")
     ELSE Goto(s, "reply.insert") /\ UNCHANGED told
  /\ UNCHANGED <<thread, barred, failed>>

ReplyRead(s) ==
  /\ At(s, "reply.read")
  /\ IF ReplyRefused(req[s].thread)
     THEN Finish(s) /\ Answer(req[s].post, "refused")
     ELSE Goto(s, "reply.insert") /\ UNCHANGED told
  /\ UNCHANGED <<thread, posts, barred, failed>>

ReplyInsert(s) ==
  /\ At(s, "reply.insert")
  /\ posts' = [posts EXCEPT ![req[s].post] = Post(s)]
  /\ Goto(s, "reply.count")
  /\ UNCHANGED <<thread, told, barred, failed>>

\* $set lastPostAt, $inc postCount.
CountReply(s, count) ==
  /\ At(s, "reply.count")
  /\ thread' = [thread EXCEPT ![req[s].thread] =
                  Doc(req[s].post, count, @.locked, @.pinned)]
  /\ Finish(s) /\ Answer(req[s].post, "ok")
  /\ UNCHANGED <<posts, barred, failed>>

PostsOn(t) == { p \in Posts : posts[p] # None /\ posts[p].on = t }

ReplyCount_Recounts(s) ==
  CountReply(s,
    Cardinality({ p \in PostsOn(req[s].thread) : ~posts[p].deleted }))
ReplyCount(s) ==
  CountReply(s, thread[req[s].thread].postCount + 1)

----------------------------------------------------------------------------
(* moderate_thread: omitted flags are None and left unchanged *)

SendModeration(s, k, t, locked, pinned) ==
  /\ k \in StaffTokens /\ <<locked, pinned>> \in Moderations
  /\ Send(s, Wants(k, "moderate.read", t, None, locked, pinned))
  /\ UNCHANGED <<thread, posts, told, barred, failed>>

ModerateRead(s) ==
  /\ At(s, "moderate.read")
  /\ IF thread[req[s].thread] = None THEN Finish(s)
     ELSE IF req[s].locked = None /\ req[s].pinned = None
          THEN Goto(s, "moderate.answer")
          ELSE Goto(s, "moderate.write")
  /\ UNCHANGED <<thread, posts, told, barred, failed>>

Flag_DefaultsOff(asked, current) == IF asked = None THEN FALSE ELSE asked
Flag(asked, current) == IF asked = None THEN current ELSE asked

SetFlags(s, locked, pinned) ==
  /\ At(s, "moderate.write")
  /\ thread' = [thread EXCEPT ![req[s].thread] =
                  Doc(@.lastPostAt, @.postCount, locked, pinned)]
  /\ barred' = [barred EXCEPT ![req[s].thread] = IF locked THEN @ ELSE {}]
  /\ Goto(s, "moderate.answer")
  /\ UNCHANGED <<posts, told, failed>>

\* update_one with the flags that were given.
ModerateWrite(s) ==
  LET doc == thread[req[s].thread]
  IN SetFlags(s, Flag(req[s].locked, doc.locked),
                 Flag(req[s].pinned, doc.pinned))

\* The thread is read again for the response.
ModerateAnswer(s) ==
  /\ At(s, "moderate.answer")
  /\ Finish(s)
  /\ UNCHANGED <<thread, posts, told, barred, failed>>

----------------------------------------------------------------------------
(* delete_post: soft, by the author or staff; the counters stay *)

SendDeletion(s, k, p) ==
  /\ Send(s, Wants(k, "delete.read", None, p, None, None))
  /\ UNCHANGED <<thread, posts, told, barred, failed>>

DeleteRead(s) ==
  /\ At(s, "delete.read")
  /\ LET r == req[s]
     IN IF \/ posts[r.post] = None
           \/ r.token \notin StaffTokens /\ posts[r.post].by # AccountOf[r.token]
        THEN Finish(s)
        ELSE Goto(s, "delete.write")
  /\ UNCHANGED <<thread, posts, told, barred, failed>>

DeleteWrite(s) ==
  /\ At(s, "delete.write")
  /\ posts' = [posts EXCEPT ![req[s].post].deleted = TRUE]
  /\ Finish(s)
  /\ UNCHANGED <<thread, told, barred, failed>>

----------------------------------------------------------------------------
(* The proxy's timeout, failures *)

Creating == {"thread.board", "thread.insert", "thread.post",
             "reply.read", "reply.insert", "reply.count"}

\* 503 from the proxy; the forum-service does not notice.
ProxyTimeout(s) ==
  /\ req[s].pc \in Creating /\ told[req[s].post] = "none"
  /\ Answer(req[s].post, "unknown")
  /\ UNCHANGED <<thread, posts, req, barred, failed>>

\* A database operation raises, or the process dies under the request.
FailEarly(s) ==
  /\ req[s].pc \in Creating \ {"thread.post", "reply.count"}
  /\ Finish(s) /\ Answer(req[s].post, "unknown")
  /\ UNCHANGED <<thread, posts, barred, failed>>

FailHalfway(s) ==
  /\ req[s].pc \in {"thread.post", "reply.count"}
  /\ failed[req[s].thread] < MaxFailures
  /\ failed' = [failed EXCEPT ![req[s].thread] = @ + 1]
  /\ Finish(s) /\ Answer(req[s].post, "unknown")
  /\ UNCHANGED <<thread, posts, barred>>

\* Moderation and deletion write once: a failure leaves nothing halfway.
FailOther(s) ==
  /\ req[s] # Idle /\ req[s].pc \notin Creating
  /\ Finish(s)
  /\ UNCHANGED <<thread, posts, told, barred, failed>>

----------------------------------------------------------------------------

Clients(s, k) ==
  \/ \E t \in Threads, p \in Posts : SendThread(s, k, t, p)
                                       \/ SendReply(s, k, t, p)
  \/ \E t \in Threads, locked, pinned \in BOOLEAN \cup {None} :
       SendModeration(s, k, t, locked, pinned)
  \/ \E p \in Posts : SendDeletion(s, k, p)

Handlers(s) ==
  \/ ThreadBoard(s) \/ ThreadInsert(s) \/ ThreadPost(s)
  \/ ReplyRead(s) \/ ReplyInsert(s) \/ ReplyCount(s)
  \/ ModerateRead(s) \/ ModerateWrite(s) \/ ModerateAnswer(s)
  \/ DeleteRead(s) \/ DeleteWrite(s)

Next ==
  \E s \in Slots : \/ \E k \in Tokens : Clients(s, k)
                   \/ Handlers(s)
                   \/ ProxyTimeout(s) \/ FailEarly(s) \/ FailHalfway(s)
                   \/ FailOther(s)

Spec == Init /\ [][Next]_vars
----------------------------------------------------------------------------
(* Properties *)

Pcs == Creating \cup {"idle", "moderate.read", "moderate.write",
                      "moderate.answer", "delete.read", "delete.write"}
Request == [pc : Pcs, token : Tokens \cup {None}, thread : Threads \cup {None},
            post : Posts \cup {None},
            locked : BOOLEAN \cup {None}, pinned : BOOLEAN \cup {None}]

\* Every document, request and answer has its type.
TypeOK ==
  /\ thread \in [Threads -> ThreadDoc \cup {None}]
  /\ posts \in [Posts -> PostDoc \cup {None}]
  /\ req \in [Slots -> Request]
  /\ told \in [Posts -> {"none", "ok", "refused", "unknown"}]
  /\ barred \in [Threads -> SUBSET Posts]
  /\ failed \in [Threads -> 0..MaxFailures]

\* Posts that were stored and not yet counted, and the other way round.
Short(t) == { s \in Slots : At(s, "reply.count") /\ req[s].thread = t }
Ahead(t) == { s \in Slots : At(s, "thread.post") /\ req[s].thread = t }

\* The number of posts a thread shows is exact but for what is in flight,
\* however replies, deletions and moderation interleave; every creation that
\* failed halfway may put it off by one for good (create_thread, create_post).
CountAccurate ==
  \A t \in Threads : thread[t] # None =>
    LET off == (thread[t].postCount + Cardinality(Short(t)))
                 - (Cardinality(PostsOn(t)) + Cardinality(Ahead(t)))
    IN -failed[t] <= off /\ off <= failed[t]

\* What the client is told is true, whenever the proxy gave up: a refused
\* creation left nothing behind and never will, a confirmed one is stored in
\* a thread that exists.
AnswersTrue ==
  \A p \in Posts :
    /\ told[p] = "refused" =>
         /\ posts[p] = None
         /\ \A s \in Slots : ~(req[s].post = p /\ req[s].pc \in Creating)
    /\ told[p] = "ok" => posts[p] # None /\ thread[posts[p].on] # None

\* A reply that was sent while the thread was locked never appears, unless
\* the thread was unlocked meanwhile (create_post, 409).
LockHolds ==
  \A t \in Threads : \A p \in barred[t] : posts[p] = None

\* A flag of a thread changes only to what a moderator asks for: concurrent
\* moderation of the other flag, and replies, leave it alone (ThreadModerate,
\* "Omitted fields are left unchanged").
ModerationOnly ==
  [][\A t \in Threads : thread[t] # None =>
       /\ thread'[t] # None
       /\ thread'[t].locked # thread[t].locked =>
            \E s \in Slots : /\ At(s, "moderate.write") /\ req[s].thread = t
                             /\ req[s].locked = thread'[t].locked
       /\ thread'[t].pinned # thread[t].pinned =>
            \E s \in Slots : /\ At(s, "moderate.write") /\ req[s].thread = t
                             /\ req[s].pinned = thread'[t].pinned]_vars
============================================================================
