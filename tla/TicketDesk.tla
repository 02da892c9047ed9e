------------------------------ MODULE TicketDesk ------------------------------
(***************************************************************************)
(* The ticket desk of the api-service: the tickets, comments, users and    *)
(* activity_log collections, and the handlers that work on them            *)
(* concurrently: create, PATCH, assign, claim_next, add_comment, the role  *)
(* change, and the background task that follows every creation             *)
(* (try_auto_resolve, then _classify_in_background).                       *)
(*                                                                         *)
(* The service is one asyncio process: a handler runs undisturbed between  *)
(* two awaits, and every await is one MongoDB operation or one call of the *)
(* ai-service.  So each action below is one database operation with the    *)
(* code around it, each request in flight occupies a slot of req, and what *)
(* the handler keeps in local variables across an await (the ticket as it  *)
(* was read, the ranked queue) is kept in the slot and may be stale.       *)
(*                                                                         *)
(* A text is abstracted to where it comes from: the ticket it was written  *)
(* on, its author, whether the author was staff then, and how it was       *)
(* written.  Blank is a text that strip() empties.                         *)
(***************************************************************************)
EXTENDS Naturals, Sequences, FiniteSets

CONSTANTS Tickets,      \* identities of the tickets that may be created
          Users,        \* the accounts
          Slots,        \* requests that can be in flight at the same time
          AI,           \* the author of an AI reply (authorType "ai")
          None,         \* null
          Blank,        \* a text of white space only, "" once stripped
          InitRole,     \* the role each account starts with
          History,      \* tickets there at start -> their owner, and the
                        \* agent who resolved them, None if they wait
          RoleMoves,    \* the <<from, to>> role changes an admin makes
          Ops,          \* the kinds of request the clients send
          AutoEnabled,  \* settings.auto_resolve_enabled
          CloseOnAuto,  \* settings.auto_resolve_close_ticket
          MaxRequests,  \* bound: requests sent
          MaxFaults,    \* bound: database operations that raise
          MaxCrashes    \* bound: crashes of the service

Roles == {"USER", "AGENT", "ADMIN"}
StaffRoles == {"AGENT", "ADMIN"}
Statuses == {"OPEN", "IN_PROGRESS", "RESOLVED", "CLOSED"}
Done == {"RESOLVED", "CLOSED"}

ASSUME DeskAssumption ==
  /\ AI \notin Users /\ None \notin Users /\ None \notin Tickets
  /\ InitRole \in [Users -> Roles]
  /\ DOMAIN History \subseteq Tickets
  /\ \A t \in DOMAIN History :
       /\ History[t].owner \in Users
       /\ History[t].agent \in {u \in Users : InitRole[u] \in StaffRoles} \cup {None}
  /\ RoleMoves \subseteq Roles \X Roles
  /\ AutoEnabled \in BOOLEAN /\ CloseOnAuto \in BOOLEAN
  /\ {MaxRequests, MaxFaults, MaxCrashes} \subseteq Nat

Text == [on : Tickets, by : Users, staff : BOOLEAN,
         via : {"reply", "note", "patch"}]

Resolution == Text \cup {None, Blank}
Audit == [source : Tickets, reopened : BOOLEAN]
Document == [createdBy : Users, status : Statuses,
             assignedAgent : Users \cup {None}, resolution : Resolution,
             auto : Audit \cup {None}, ai : {"pending", "ok", "unavailable"}]

\* None, Blank and the documents are told apart without knowing what they are.
ASSUME NullAssumption ==
  /\ Blank \notin Text /\ None # Blank
  /\ None \notin Text \cup Audit \cup Document \cup Statuses

VARIABLES role,      \* users: account -> role
          ticket,    \* tickets: id -> document, None before it is inserted
          comments,  \* comments: ticket -> comments in order of createdAt
          log,       \* activity_log: ticket -> the actions logged for it
          req,       \* the requests in flight: slot -> handler state
          bg,        \* the background task of each ticket
          claimed,   \* history: how often claim_next returned this ticket
          issued, faults, crashes

store == <<role, ticket, comments, log>>
counts == <<issued, faults, crashes>>
vars == <<role, ticket, comments, log, req, bg, claimed, issued, faults,
          crashes>>

----------------------------------------------------------------------------
(* The status machine and the documents *)

AllowedTransitions ==
  [s \in Statuses |->
     CASE s = "OPEN"        -> {"IN_PROGRESS", "RESOLVED"}
       [] s = "IN_PROGRESS" -> {"OPEN", "RESOLVED"}
       [] s = "RESOLVED"    -> {"IN_PROGRESS", "CLOSED"}
       [] s = "CLOSED"      -> {"OPEN"}]

CanTransition(current, target) ==
  current = target \/ target \in AllowedTransitions[current]

IsStaff(u) == role[u] \in StaffRoles

NewTicket_NoSuggestion(u) ==
  [createdBy |-> u, status |-> "OPEN", assignedAgent |-> None,
   resolution |-> None, auto |-> None, ai |-> None]

NewTicket(u) ==
  [createdBy |-> u, status |-> "OPEN", assignedAgent |-> None,
   resolution |-> None, auto |-> None, ai |-> "pending"]

Exists(t) == ticket[t] # None

\* The filter of get_queue and of claim_next's find_one_and_update.
InQueue(t) ==
  /\ Exists(t)
  /\ ticket[t].status \in {"OPEN", "IN_PROGRESS"}
  /\ ticket[t].assignedAgent = None

Queue == {t \in Tickets : InQueue(t)}

\* An answer memory_candidates would offer for ticket t.
Candidates(t) ==
  { [ticket |-> s, resolution |-> ticket[s].resolution] :
      s \in { x \in Tickets \ {t} : /\ Exists(x)
                                    /\ ticket[x].status \in Done
                                    /\ ticket[x].resolution \notin {None, Blank} } }

\* Auto-resolved, and not yet marked as reopened.
LiveAudit(doc) == doc.auto # None /\ ~doc.auto.reopened

Idle == [pc |-> "idle", user |-> None, staff |-> FALSE, ticket |-> None,
         target |-> None, text |-> None, internal |-> FALSE, agent |-> None,
         was |-> None, live |-> FALSE, reject |-> FALSE, seen |-> 0,
         todo |-> {}]

Off == [pc |-> "off", found |-> {}, answer |-> None]

\* Tickets of an earlier life of the service.  One was claimed, answered with
\* a public reply and resolved by its agent, and the reply was remembered; the
\* other still waits in the queue.
Answered == { t \in DOMAIN History : History[t].agent # None }

OldReply(t) == [on |-> t, by |-> History[t].agent, staff |-> TRUE,
                via |-> "reply"]

OldTicket(t) ==
  IF t \in Answered
  THEN [NewTicket(History[t].owner) EXCEPT
          !.status = "RESOLVED", !.assignedAgent = History[t].agent,
          !.resolution = OldReply(t), !.ai = "ok"]
  ELSE [NewTicket(History[t].owner) EXCEPT !.ai = "unavailable"]

OldActions(t) ==
  {"ticket_created"} \cup
  IF t \in Answered THEN {"claimed_from_queue", "comment_added", "status_changed"}
                    ELSE {}

Init ==
  /\ role = InitRole
  /\ ticket = [t \in Tickets |->
                 IF t \in DOMAIN History THEN OldTicket(t) ELSE None]
  /\ comments = [t \in Tickets |->
                   IF t \in Answered
                   THEN <<[author |-> History[t].agent, text |-> OldReply(t),
                           internal |-> FALSE]>>
                   ELSE << >>]
  /\ log = [t \in Tickets |->
              IF t \in DOMAIN History THEN OldActions(t) ELSE {}]
  /\ req = [p \in Slots |-> Idle]
  /\ bg = [t \in Tickets |->
             IF t \in DOMAIN History THEN [Off EXCEPT !.pc = "done"] ELSE Off]
  /\ claimed = [t \in Tickets |-> IF t \in Answered THEN 1 ELSE 0]
  /\ issued = 0 /\ faults = 0 /\ crashes = 0

----------------------------------------------------------------------------
(* Requests: how they begin, move on and end *)

\* A request of kind op by user u arrives in slot p.  get_current_user has
\* read the account: its role is the role the whole handler works with.
Arrive(p, op, u, first) ==
  /\ op \in Ops /\ req[p] = Idle /\ issued < MaxRequests
  /\ issued' = issued + 1
  /\ req' = [req EXCEPT ![p] = [first EXCEPT !.user = u, !.staff = IsStaff(u)]]

Goto(p, pc) == req' = [req EXCEPT ![p].pc = pc]
Finish(p) == req' = [req EXCEPT ![p] = Idle]
At(p, pc) == req[p].pc = pc

SetTicket(t, doc) == ticket' = [ticket EXCEPT ![t] = doc]
Log(t, action) == log' = [log EXCEPT ![t] = @ \cup {action}]

----------------------------------------------------------------------------
(* create_ticket *)

\* insert_one: the ticket is in the queue from here on.
CreateInsert(p, u, t) ==
  /\ ~Exists(t)
  /\ Arrive(p, "create", u, [Idle EXCEPT !.pc = "create.log", !.ticket = t])
  /\ SetTicket(t, NewTicket(u))
  /\ UNCHANGED <<role, comments, log, bg, claimed, faults, crashes>>

\* activity.log, then the response; Starlette runs the background task after
\* the response, so a handler that raised here never starts it.
CreateLog(p) ==
  /\ At(p, "create.log")
  /\ Log(req[p].ticket, "ticket_created")
  /\ bg' = [bg EXCEPT ![req[p].ticket] = [Off EXCEPT !.pc = "check"]]
  /\ Finish(p)
  /\ UNCHANGED <<role, ticket, comments, claimed, counts>>

----------------------------------------------------------------------------
(* update_ticket: PATCH with a new status, an explicit resolution, or both *)

PatchArrive(p, u, t, target, text) ==
  /\ Exists(t) /\ (target # None \/ text # None)
  /\ Arrive(p, IF text = None THEN "patch" ELSE "patch.text", u,
       [Idle EXCEPT !.pc = "patch.read", !.ticket = t,
                    !.target = target, !.text = text])
  /\ UNCHANGED <<store, bg, claimed, faults, crashes>>

\* The checks on the ticket as read now: 403, 403, 400.
PatchRefused(r, doc) ==
  \/ ~r.staff /\ doc.createdBy # r.user
  \/ ~r.staff /\ r.text # None
  \/ r.target # None /\ ~CanTransition(doc.status, r.target)

PatchRead(p) ==
  /\ At(p, "patch.read")
  /\ LET r == req[p]
         doc == ticket[r.ticket]
     IN IF PatchRefused(r, doc)
        THEN Finish(p)
        ELSE req' = [req EXCEPT ![p] =
               [@ EXCEPT !.pc = IF r.target = None THEN "patch.write"
                                                   ELSE "patch.log",
                         !.was = doc.status, !.live = LiveAudit(doc)]]
  /\ UNCHANGED <<store, bg, claimed, counts>>

\* status_changed is logged before the write.  Resolving without an explicit
\* text goes on to latest_staff_reply; reopening an answered ticket rejects
\* the answer.
AfterStatusLog(r) ==
  IF r.staff /\ r.target \in Done /\ r.was \notin Done /\ r.text = None
  THEN "patch.replies"
  ELSE IF r.was \in Done /\ r.target \notin Done /\ r.live
       THEN "patch.reject"
       ELSE "patch.write"

PatchLog(p) ==
  /\ At(p, "patch.log")
  /\ Log(req[p].ticket, "status_changed")
  /\ Goto(p, AfterStatusLog(req[p]))
  /\ UNCHANGED <<role, ticket, comments, bg, claimed, counts>>

\* latest_staff_reply, first query: the comments, newest first.  Comments are
\* only ever appended, so their number stands for what was read.
PatchReplies(p) ==
  /\ At(p, "patch.replies")
  /\ req' = [req EXCEPT ![p] =
       [@ EXCEPT !.pc = "patch.roles", !.seen = Len(comments[req[p].ticket])]]
  /\ UNCHANGED <<store, bg, claimed, counts>>

\* The comments among the first n on ticket t that latest_staff_reply takes
\* for an answer: public, written by a human who is staff now, not blank.
StaffReplies_AlsoNotes(t, n) ==
  { i \in 1..n : LET c == comments[t][i] IN
      c.author # AI /\ IsStaff(c.author) /\ c.text # Blank }
StaffReplies(t, n) ==
  { i \in 1..n : LET c == comments[t][i] IN
      ~c.internal /\ c.author # AI /\ IsStaff(c.author) /\ c.text # Blank }

\* Second query: the authors' roles; the newest staff reply is the snapshot.
PatchRoles(p) ==
  /\ At(p, "patch.roles")
  /\ LET r == req[p]
         found == StaffReplies(r.ticket, r.seen)
     IN \/ /\ found = {}
           /\ Goto(p, "patch.write")
        \/ \E i \in found :
             /\ \A j \in found : j <= i
             /\ req' = [req EXCEPT ![p] =
                  [@ EXCEPT !.pc = "patch.write",
                            !.text = comments[r.ticket][i].text]]
  /\ UNCHANGED <<store, bg, claimed, counts>>

PatchReject_Unlogged(p) ==
  /\ At(p, "patch.reject")
  /\ req' = [req EXCEPT ![p] = [@ EXCEPT !.pc = "patch.write",
                                         !.reject = TRUE]]
  /\ UNCHANGED <<store, bg, claimed, counts>>

PatchReject(p) ==
  /\ At(p, "patch.reject")
  /\ Log(req[p].ticket, "auto_resolution_rejected")
  /\ req' = [req EXCEPT ![p] = [@ EXCEPT !.pc = "patch.write",
                                         !.reject = TRUE]]
  /\ UNCHANGED <<role, ticket, comments, bg, claimed, counts>>

\* update_one by _id: nothing of what was read is checked again.
PatchWrite(p) ==
  /\ At(p, "patch.write")
  /\ LET r == req[p]
         doc == ticket[r.ticket]
     IN SetTicket(r.ticket,
          [doc EXCEPT !.status = IF r.target = None THEN @ ELSE r.target,
                      !.resolution = IF r.text = None THEN @ ELSE r.text,
                      !.auto = IF r.reject THEN [@ EXCEPT !.reopened = TRUE]
                                           ELSE @])
  /\ Finish(p)
  /\ UNCHANGED <<role, comments, log, bg, claimed, counts>>

----------------------------------------------------------------------------
(* assign_ticket: an agent or admin hands the ticket to agent a *)

AssignArrive(p, u, t, a) ==
  /\ Exists(t) /\ IsStaff(u)
  /\ Arrive(p, "assign", u, [Idle EXCEPT !.pc = "assign.agent", !.ticket = t,
                               !.agent = a])
  /\ UNCHANGED <<store, bg, claimed, faults, crashes>>

AssignAgent(p) ==
  /\ At(p, "assign.agent")
  /\ IF IsStaff(req[p].agent) THEN Goto(p, "assign.write") ELSE Finish(p)
  /\ UNCHANGED <<store, bg, claimed, counts>>

AssignWrite(p) ==
  /\ At(p, "assign.write")
  /\ ticket' = [ticket EXCEPT ![req[p].ticket].assignedAgent = req[p].agent]
  /\ Goto(p, "assign.log")
  /\ UNCHANGED <<role, comments, log, bg, claimed, counts>>

AssignLog(p) ==
  /\ At(p, "assign.log")
  /\ Log(req[p].ticket, "assigned")
  /\ Finish(p)
  /\ UNCHANGED <<role, ticket, comments, bg, claimed, counts>>

----------------------------------------------------------------------------
(* claim_next.  The order of the candidates is the subject of ClaimQueue:   *)
(* here the walk takes them in any order.                                   *)

ClaimRank(p, u) ==
  /\ IsStaff(u)
  /\ Arrive(p, "claim", u, [Idle EXCEPT !.pc = "claim.try",
                              !.todo = Queue])
  /\ UNCHANGED <<store, bg, claimed, faults, crashes>>

\* One round of the loop: find_one_and_update checks the filter again.
TryClaim(p, free) ==
  /\ At(p, "claim.try")
  /\ \E t \in req[p].todo :
       IF t \in free
       THEN /\ ticket' = [ticket EXCEPT ![t].assignedAgent = req[p].user]
            /\ claimed' = [claimed EXCEPT ![t] = @ + 1]
            /\ req' = [req EXCEPT ![p] = [@ EXCEPT !.pc = "claim.log",
                                    !.ticket = t, !.todo = {}]]
       ELSE /\ req' = [req EXCEPT ![p].todo = @ \ {t}]
            /\ UNCHANGED <<ticket, claimed>>
  /\ UNCHANGED <<role, comments, log, bg, counts>>

ClaimTry_NoRecheck(p) == TryClaim(p, {t \in Tickets : Exists(t)})
ClaimTry(p) == TryClaim(p, Queue)

\* Every candidate was snatched by others, or there was none.
ClaimNothing(p) ==
  /\ At(p, "claim.try") /\ req[p].todo = {}
  /\ Finish(p)
  /\ UNCHANGED <<store, bg, claimed, counts>>

ClaimLog(p) ==
  /\ At(p, "claim.log")
  /\ Log(req[p].ticket, "claimed_from_queue")
  /\ Finish(p)
  /\ UNCHANGED <<role, ticket, comments, bg, claimed, counts>>

----------------------------------------------------------------------------
(* add_comment *)

CommentArrive(p, u, t, blank, internal) ==
  /\ Exists(t)
  /\ Arrive(p, CASE blank -> "blank" [] internal /\ ~blank -> "note"
                 [] OTHER -> "comment", u,
       [Idle EXCEPT !.pc = "comment.read", !.ticket = t,
          !.internal = internal /\ IsStaff(u),
          !.text = IF blank THEN Blank
                   ELSE [on |-> t, by |-> u, staff |-> IsStaff(u),
                         via |-> IF internal /\ IsStaff(u) THEN "note"
                                                           ELSE "reply"]])
  /\ UNCHANGED <<store, bg, claimed, faults, crashes>>

CommentRead(p) ==
  /\ At(p, "comment.read")
  /\ LET r == req[p]
         doc == ticket[r.ticket]
     IN IF r.staff \/ doc.createdBy = r.user
        THEN req' = [req EXCEPT ![p] = [@ EXCEPT !.pc = "comment.insert",
                                                 !.was = doc.status]]
        ELSE Finish(p)
  /\ UNCHANGED <<store, bg, claimed, counts>>

CommentInsert(p) ==
  /\ At(p, "comment.insert")
  /\ LET r == req[p]
     IN comments' = [comments EXCEPT ![r.ticket] =
          Append(@, [author |-> r.user, text |-> r.text,
                     internal |-> r.internal])]
  /\ Goto(p, "comment.log")
  /\ UNCHANGED <<role, ticket, log, bg, claimed, counts>>

\* A public staff comment on a ticket that was done when it was read is the
\* latest version of its resolution.
CommentLog(p) ==
  /\ At(p, "comment.log")
  /\ Log(req[p].ticket, "comment_added")
  /\ IF req[p].staff /\ ~req[p].internal /\ req[p].was \in Done
     THEN Goto(p, "comment.remember")
     ELSE Finish(p)
  /\ UNCHANGED <<role, ticket, comments, bg, claimed, counts>>

CommentRemember(p) ==
  /\ At(p, "comment.remember")
  /\ ticket' = [ticket EXCEPT ![req[p].ticket].resolution = req[p].text]
  /\ Finish(p)
  /\ UNCHANGED <<role, comments, log, bg, claimed, counts>>

----------------------------------------------------------------------------
(* update_role: one atomic write by an admin *)

ChangeRole(u, to) ==
  /\ <<role[u], to>> \in RoleMoves
  /\ role' = [role EXCEPT ![u] = to]
  /\ UNCHANGED <<ticket, comments, log, req, bg, claimed, counts>>

----------------------------------------------------------------------------
(* _process_new_ticket: try_auto_resolve, then _classify_in_background *)

BgAt(t, pc) == bg[t].pc = pc
BgGoto(t, pc) == bg' = [bg EXCEPT ![t] = [Off EXCEPT !.pc = pc]]

AutoTarget == IF CloseOnAuto THEN "CLOSED" ELSE "RESOLVED"

\* Disabled, or the ticket already left the queue: nothing to answer.
AutoCheck(t) ==
  /\ BgAt(t, "check")
  /\ IF /\ AutoEnabled
        /\ ticket[t].status = "OPEN" /\ ticket[t].assignedAgent = None
     THEN BgGoto(t, "recall")
     ELSE BgGoto(t, "classify")
  /\ UNCHANGED <<store, req, claimed, counts>>

AutoRecall(t) ==
  /\ BgAt(t, "recall")
  /\ IF Candidates(t) = {}
     THEN BgGoto(t, "classify")
     ELSE bg' = [bg EXCEPT ![t] = [@ EXCEPT !.pc = "ask",
                                            !.found = Candidates(t)]]
  /\ UNCHANGED <<store, req, claimed, counts>>

AutoNoMatch_EndsTask(t) ==
  /\ BgAt(t, "ask")
  /\ BgGoto(t, "done")
  /\ UNCHANGED <<store, req, claimed, counts>>

\* The ai-service names no offered candidate: no match, refusal, timeout,
\* outage, or an unknown ticket id.
AutoNoMatch(t) ==
  /\ BgAt(t, "ask")
  /\ BgGoto(t, "classify")
  /\ UNCHANGED <<store, req, claimed, counts>>

\* It names candidate c: find_one_and_update takes the ticket only if it is
\* still OPEN and unassigned, with the answer as it was read.
AutoTakeFilter_AnyAgent(t) == ticket[t].status = "OPEN"
AutoTakeFilter(t) ==
  ticket[t].status = "OPEN" /\ ticket[t].assignedAgent = None

TakeFromQueue(t, pc) ==
  /\ BgAt(t, "ask") /\ AutoTakeFilter(t)
  /\ \E c \in bg[t].found :
       /\ SetTicket(t, [ticket[t] EXCEPT
                          !.status = AutoTarget, !.resolution = c.resolution,
                          !.auto = [source |-> c.ticket, reopened |-> FALSE]])
       /\ bg' = [bg EXCEPT ![t] = [Off EXCEPT !.pc = pc,
                                              !.answer = c.resolution]]
  /\ UNCHANGED <<role, comments, log, req, claimed, counts>>

AutoTake_NoReply(t) == TakeFromQueue(t, "classify")
AutoTake(t) == TakeFromQueue(t, "reply")

\* An agent was faster: the human wins and nothing is posted.
AutoBeaten_PostsAnyway(t) ==
  /\ BgAt(t, "ask") /\ ~AutoTakeFilter(t)
  /\ \E c \in bg[t].found :
       bg' = [bg EXCEPT ![t] = [Off EXCEPT !.pc = "reply",
                                           !.answer = c.resolution]]
  /\ UNCHANGED <<store, req, claimed, counts>>

AutoBeaten(t) ==
  /\ BgAt(t, "ask") /\ ~AutoTakeFilter(t)
  /\ BgGoto(t, "classify")
  /\ UNCHANGED <<store, req, claimed, counts>>

AutoReply(t) ==
  /\ BgAt(t, "reply")
  /\ comments' = [comments EXCEPT ![t] =
       Append(@, [author |-> AI, text |-> bg[t].answer, internal |-> FALSE])]
  /\ BgGoto(t, "log")
  /\ UNCHANGED <<role, ticket, log, req, claimed, counts>>

AutoLog(t) ==
  /\ BgAt(t, "log")
  /\ Log(t, "auto_resolved")
  /\ BgGoto(t, "classify")
  /\ UNCHANGED <<role, ticket, comments, req, claimed, counts>>

\* The AI's suggestion, or "unavailable" when there is none.
Classify(t) ==
  /\ BgAt(t, "classify")
  /\ \E s \in {"ok", "unavailable"} : ticket' = [ticket EXCEPT ![t].ai = s]
  /\ BgGoto(t, "done")
  /\ UNCHANGED <<role, comments, log, req, claimed, counts>>

----------------------------------------------------------------------------
(* Failures *)

\* A database operation of the request in slot p raises: the client gets a
\* 500 and what was written stays written.
RequestFault(p) ==
  /\ faults < MaxFaults /\ req[p] # Idle
  /\ faults' = faults + 1
  /\ Finish(p)
  /\ UNCHANGED <<store, bg, claimed, issued, crashes>>

\* One of the background task raises: _process_new_ticket swallows it in
\* try_auto_resolve and goes on to classify; in the last write it does not.
AutoPcs == {"check", "recall", "ask", "reply", "log"}

BackgroundFault(t) ==
  /\ faults < MaxFaults
  /\ faults' = faults + 1
  /\ \/ bg[t].pc \in AutoPcs /\ BgGoto(t, "classify")
     \/ BgAt(t, "classify") /\ BgGoto(t, "lost")
  /\ UNCHANGED <<store, req, claimed, issued, crashes>>

\* The process dies and is restarted: requests and background tasks live in
\* its memory only, and nothing resumes them.
Crash ==
  /\ crashes < MaxCrashes
  /\ crashes' = crashes + 1
  /\ req' = [p \in Slots |-> Idle]
  /\ bg' = [t \in Tickets |-> IF bg[t].pc \in {"off", "done"} THEN bg[t]
                              ELSE [Off EXCEPT !.pc = "lost"]]
  /\ UNCHANGED <<store, claimed, issued, faults>>

----------------------------------------------------------------------------
(* The specification *)

PatchTexts(u, t) ==
  {None, Blank, [on |-> t, by |-> u, staff |-> IsStaff(u), via |-> "patch"]}

Requests(p) ==
  \E u \in Users :
    \/ ClaimRank(p, u)
    \/ \E t \in Tickets :
         \/ CreateInsert(p, u, t)
         \/ \E target \in Statuses \cup {None}, text \in PatchTexts(u, t) :
              PatchArrive(p, u, t, target, text)
         \/ \E a \in Users : AssignArrive(p, u, t, a)
         \/ \E blank, internal \in BOOLEAN :
              CommentArrive(p, u, t, blank, internal)

Handlers(p) ==
  \/ CreateLog(p)
  \/ PatchRead(p) \/ PatchLog(p) \/ PatchReplies(p) \/ PatchRoles(p)
  \/ PatchReject(p) \/ PatchWrite(p)
  \/ AssignAgent(p) \/ AssignWrite(p) \/ AssignLog(p)
  \/ ClaimTry(p) \/ ClaimNothing(p) \/ ClaimLog(p)
  \/ CommentRead(p) \/ CommentInsert(p) \/ CommentLog(p) \/ CommentRemember(p)

Background(t) ==
  \/ AutoCheck(t) \/ AutoRecall(t) \/ AutoNoMatch(t) \/ AutoTake(t)
  \/ AutoBeaten(t) \/ AutoReply(t) \/ AutoLog(t) \/ Classify(t)

Next ==
  \/ \E p \in Slots : Requests(p) \/ Handlers(p) \/ RequestFault(p)
  \/ \E t \in Tickets : Background(t) \/ BackgroundFault(t)
  \/ \E u \in Users, to \in Roles : ChangeRole(u, to)
  \/ Crash

Spec == Init /\ [][Next]_vars

\* The event loop resumes every coroutine whose operation has ended, and
\* every operation ends: the driver and the AI client have timeouts.
FairSpec ==
  /\ Spec
  /\ \A p \in Slots : WF_vars(Handlers(p))
  /\ \A t \in Tickets : WF_vars(Background(t))
----------------------------------------------------------------------------
(* Properties *)

Comment == [author : Users \cup {AI}, text : Text \cup {Blank},
            internal : BOOLEAN]
Actions == {"ticket_created", "status_changed", "auto_resolution_rejected",
            "assigned", "claimed_from_queue", "comment_added",
            "auto_resolved"}
RequestPcs == {"idle", "create.log", "patch.read", "patch.log",
               "patch.replies", "patch.roles", "patch.reject", "patch.write",
               "assign.agent", "assign.write", "assign.log", "claim.try",
               "claim.log", "comment.read", "comment.insert", "comment.log",
               "comment.remember"}
Request == [pc : RequestPcs, user : Users \cup {None}, staff : BOOLEAN,
            ticket : Tickets \cup {None}, target : Statuses \cup {None},
            text : Resolution, internal : BOOLEAN, agent : Users \cup {None},
            was : Statuses \cup {None}, live : BOOLEAN, reject : BOOLEAN,
            seen : Nat, todo : SUBSET Tickets]
Answer == [ticket : Tickets, resolution : Text]
Task == [pc : AutoPcs \cup {"off", "classify", "done", "lost"},
         found : SUBSET Answer, answer : Text \cup {None}]

\* Every collection, request and background task has its type.
TypeOK ==
  /\ role \in [Users -> Roles]
  /\ ticket \in [Tickets -> Document \cup {None}]
  /\ comments \in [Tickets -> Seq(Comment)]
  /\ log \in [Tickets -> SUBSET Actions]
  /\ req \in [Slots -> Request]
  /\ bg \in [Tickets -> Task]
  /\ claimed \in [Tickets -> Nat]
  /\ issued \in Nat /\ faults \in Nat /\ crashes \in Nat

\* claim_next never hands out a ticket twice, whatever requests run beside
\* it: once claimed, a ticket has an agent for good (queueing.claim_next,
\* "exactly one concurrent claimer can win each ticket").
ClaimedOnce ==
  \A t \in Tickets :
    /\ claimed[t] <= 1
    /\ claimed[t] = 1 => Exists(t) /\ ticket[t].assignedAgent # None

\* A text the desk may reuse: a staff member wrote it, to a customer or as an
\* explicit resolution.
Trusted(text) == text.staff /\ text.via # "note"

\* The long-term memory only holds what staff said in public: no internal
\* note, no customer's text, whatever chain of reuse brought it there
\* (memory.latest_staff_reply, "the remembered answer must be something a
\* human actually told a customer").
MemoryTrusted ==
  \A t \in Tickets :
    Exists(t) /\ ticket[t].resolution \notin {None, Blank}
      => Trusted(ticket[t].resolution)

AIReplies(t) == { i \in DOMAIN comments[t] : comments[t][i].author = AI }

\* The AI answers a ticket at most once, only a ticket it took from the
\* queue, and with a trusted text (memory.try_auto_resolve).
AIReplyJustified ==
  \A t \in Tickets :
    /\ \A i, j \in AIReplies(t) : i = j
    /\ \A i \in AIReplies(t) : /\ ticket[t].auto # None
                               /\ Trusted(comments[t][i].text)

\* The activity log explains the ticket, even after failures: a status other
\* than OPEN was logged or set by the AI, and a rejected answer was logged
\* as rejected (update_ticket logs before it writes).
LogExplainsTicket ==
  \A t \in Tickets : Exists(t) =>
    /\ ticket[t].status # "OPEN"
         => "status_changed" \in log[t] \/ ticket[t].auto # None
    /\ ticket[t].auto # None /\ ticket[t].auto.reopened
         => "auto_resolution_rejected" \in log[t]

\* The AI never takes a ticket that an agent has, and its audit trail and the
\* rejection mark are never lost (try_auto_resolve, "the human wins").
HumanWins ==
  [][\A t \in Tickets : Exists(t) =>
       /\ Exists(t)'
       /\ ticket[t].auto = None /\ ticket'[t].auto # None
            => ticket[t].assignedAgent = None /\ claimed[t] = 0
       /\ ticket[t].auto # None
            => /\ ticket'[t].auto # None
               /\ ticket'[t].auto.source = ticket[t].auto.source
               /\ ticket[t].auto.reopened => ticket'[t].auto.reopened]_vars

\* Without a crash or database errors every ticket is classified or marked
\* unavailable (README: pending, then ok or unavailable).
EventuallyClassified ==
  \A t \in Tickets :
    Exists(t) ~> (Exists(t) /\ ticket[t].ai # "pending") \/ crashes > 0

\* ... and a ticket the AI resolved gets the AI's reply and its log entry.
AnswerDelivered ==
  \A t \in Tickets :
    (Exists(t) /\ ticket[t].auto # None)
      ~> (AIReplies(t) # {} /\ "auto_resolved" \in log[t]) \/ crashes > 0

----------------------------------------------------------------------------
(* What comments, docstrings and tests say, and the code does not keep *)

\* enums.py: the transition table is the single source of truth for the
\* status machine, so every step of a ticket's status is one of its edges.
StatusMachine ==
  [][\A t \in Tickets : Exists(t) =>
       CanTransition(ticket[t].status, ticket'[t].status)]_vars

\* memory.py: any failure leaves the ticket in the queue for a human; a
\* ticket the AI resolved has its answer once its task is over.
FailureLeavesQueue ==
  \A t \in Tickets :
    Exists(t) /\ ticket[t].auto # None /\ bg[t].pc \in {"done", "lost"}
      => AIReplies(t) # {}

\* tickets.py: reopening rejects the remembered answer and the next
\* resolution is recorded afresh: a ticket that staff resolved again after a
\* rejection does not offer another ticket's text any more.
RejectedAnswerDropped ==
  \A t \in Tickets :
    /\ Exists(t) /\ ticket[t].auto # None /\ ticket[t].auto.reopened
    /\ ticket[t].status \in Done
    /\ \A p \in Slots : req[p] = Idle
    => ticket[t].resolution \in {None, Blank} \/ ticket[t].resolution.on = t
============================================================================
