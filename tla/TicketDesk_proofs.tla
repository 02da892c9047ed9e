-------------------------- MODULE TicketDesk_proofs --------------------------
(***************************************************************************)
(* Theorems about the ticket desk, for every number of accounts, tickets,  *)
(* concurrent requests, failures and crashes.                              *)
(***************************************************************************)
EXTENDS TicketDesk, TLAPS

\* What a handler keeps in its local variables fits the tickets tk, however
\* long ago it read them.
Holds(r, tk) ==
  /\ r.pc \notin {"idle", "claim.try"}
       => r.ticket \in Tickets /\ tk[r.ticket] # None
  /\ r.pc \in {"assign.agent", "assign.write"} => r.agent \in Users
  /\ r.pc \in {"comment.read", "comment.insert", "comment.log",
               "comment.remember"} => r.text # None
  /\ r.live \/ r.reject
       => /\ r.ticket \in Tickets /\ tk[r.ticket] # None
          /\ tk[r.ticket].auto # None
  /\ r.pc = "claim.try" => ~r.live /\ ~r.reject
  /\ r.pc = "patch.reject" => r.live
  /\ \A t \in r.todo : tk[t] # None

Fits(r, tk) == (r.pc # "idle" => r.user \in Users) /\ Holds(r, tk)

\* The comments a handler has read are there.
Seen(r, cs) == r.pc = "patch.roles" => r.seen <= Len(cs[r.ticket])

\* A background task works on a ticket that is there, and an answer it has
\* to post is a text.
Working(task, doc) ==
  /\ task.pc \in AutoPcs \cup {"classify"} => doc # None
  /\ task.pc = "reply" => task.answer # None

IInv == /\ TypeOK /\ ClaimedOnce
        /\ \A p \in Slots : Fits(req[p], ticket) /\ Seen(req[p], comments)
        /\ \A t \in Tickets : Working(bg[t], ticket[t])

\* From tk to tl no ticket is lost, nor its agent, nor its audit trail.
Grows(tk, tl) ==
  \A t \in Tickets : tk[t] # None =>
    /\ tl[t] # None
    /\ tk[t].assignedAgent # None => tl[t].assignedAgent # None
    /\ tk[t].auto # None => tl[t].auto # None

USE DeskAssumption, NullAssumption

LEMMA OldTicketTyped ==
  ASSUME NEW t \in DOMAIN History
  PROVE  OldTicket(t) \in Document /\ OldTicket(t) # None
<1>1. History[t].owner \in Users
  OBVIOUS
<1>2. CASE t \in Answered
  <2>1. History[t].agent \in Users
    BY <1>2 DEF Answered
  <2>2. OldReply(t) \in Resolution
    BY <2>1 DEF OldReply, Resolution, Text
  <2> QED BY <1>1, <1>2, <2>1, <2>2
          DEF OldTicket, NewTicket, Document, Statuses
<1>3. CASE t \notin Answered
  BY <1>1, <1>3 DEF OldTicket, NewTicket, Document, Statuses, Resolution
<1> QED BY <1>2, <1>3

LEMMA InitIInv == Init => IInv
<1> SUFFICES ASSUME Init PROVE IInv
  OBVIOUS
<1>1. TypeOK
  <2>1. ticket \in [Tickets -> Document \cup {None}]
    BY OldTicketTyped DEF Init
  <2>2. comments \in [Tickets -> Seq(Comment)]
    <3>1. ASSUME NEW t \in Tickets PROVE comments[t] \in Seq(Comment)
      <4>1. CASE t \in Answered
        <5>1. [author |-> History[t].agent, text |-> OldReply(t),
               internal |-> FALSE] \in Comment
          BY <4>1 DEF OldReply, Answered, Comment, Text, StaffRoles
        <5> QED BY <4>1, <5>1 DEF Init
      <4>2. CASE t \notin Answered
        BY <4>2 DEF Init
      <4> QED BY <4>1, <4>2
    <3> QED BY <3>1 DEF Init
  <2>3. req \in [Slots -> Request] /\ bg \in [Tickets -> Task]
    BY DEF Init, Idle, Off, Request, RequestPcs, Task, AutoPcs, Resolution
  <2> QED BY <2>1, <2>2, <2>3 DEF Init, TypeOK, OldActions, Actions
<1>2. ClaimedOnce
  <2> SUFFICES ASSUME NEW t \in Tickets
               PROVE  /\ claimed[t] <= 1
                      /\ claimed[t] = 1
                           => Exists(t) /\ ticket[t].assignedAgent # None
    BY DEF ClaimedOnce
  <2>1. CASE t \in Answered
    <3>1. ticket[t] = OldTicket(t) /\ t \in DOMAIN History
      BY <2>1 DEF Init, Answered
    <3>2. OldTicket(t).assignedAgent # None
      BY <2>1 DEF OldTicket, NewTicket, Answered
    <3> QED BY <2>1, <3>1, <3>2, OldTicketTyped DEF Init, Exists
  <2>2. CASE t \notin Answered
    BY <2>2 DEF Init
  <2> QED BY <2>1, <2>2
<1>3. \A p \in Slots : Fits(req[p], ticket) /\ Seen(req[p], comments)
  BY DEF Init, Idle, Fits, Holds, Seen
<1>4. \A t \in Tickets : Working(bg[t], ticket[t])
  BY DEF Init, Working, Off, AutoPcs
<1> QED BY <1>1, <1>2, <1>3, <1>4 DEF IInv

----------------------------------------------------------------------------
(* One step *)

LEMMA FitsGrows ==
  ASSUME NEW tk, NEW tl, Grows(tk, tl),
         NEW r \in Request, Fits(r, tk)
  PROVE  Fits(r, tl)
BY DEF Fits, Holds, Grows, Request

LEMMA GrowsRefl == ASSUME NEW tk PROVE Grows(tk, tk)
BY DEF Grows

\* A step of the request in slot p changes no other slot, and keeps all that
\* the invariant says of the rest.
SlotStep(p) ==
  /\ req' \in [Slots -> Request]
  /\ \A q \in Slots \ {p} : req'[q] = req[q]
  /\ Fits(req'[p], ticket') /\ Seen(req'[p], comments')

CommentsStep ==
  /\ comments' \in [Tickets -> Seq(Comment)]
  /\ \A t \in Tickets : Len(comments[t]) <= Len(comments'[t])

TicketStep ==
  ticket' \in [Tickets -> Document \cup {None}] /\ Grows(ticket, ticket')

LEMMA SameTickets == ASSUME IInv, UNCHANGED ticket PROVE TicketStep
BY DEF IInv, TypeOK, TicketStep, Grows

LEMMA SameComments == ASSUME IInv, UNCHANGED comments PROVE CommentsStep
BY DEF IInv, TypeOK, CommentsStep

LEMMA SlotInv ==
  ASSUME IInv, TicketStep, CommentsStep, NEW p \in Slots, SlotStep(p)
  PROVE  \A q \in Slots : Fits(req'[q], ticket') /\ Seen(req'[q], comments')
<1> SUFFICES ASSUME NEW q \in Slots, q # p
             PROVE  Fits(req'[q], ticket') /\ Seen(req'[q], comments')
  BY DEF SlotStep
<1>1. req'[q] = req[q] /\ req[q] \in Request /\ Fits(req[q], ticket)
  BY DEF SlotStep, IInv, TypeOK
<1>2. Fits(req'[q], ticket')
  BY <1>1, FitsGrows DEF TicketStep
<1>3. Seen(req'[q], comments')
  <2>1. SUFFICES ASSUME req[q].pc = "patch.roles"
                 PROVE  req[q].seen <= Len(comments'[req[q].ticket])
    BY <1>1 DEF Seen
  <2>2. req[q].seen \in Nat /\ req[q].ticket \in Tickets
    BY <1>1, <2>1 DEF Fits, Holds, Request
  <2>3. /\ req[q].seen <= Len(comments[req[q].ticket])
        /\ Len(comments[req[q].ticket]) <= Len(comments'[req[q].ticket])
        /\ Len(comments[req[q].ticket]) \in Nat
        /\ Len(comments'[req[q].ticket]) \in Nat
    BY <2>1, <2>2 DEF IInv, TypeOK, Seen, CommentsStep
  <2> QED BY <2>2, <2>3
<1> QED BY <1>2, <1>3

LEMMA TaskInv ==
  ASSUME IInv, TicketStep, UNCHANGED bg
  PROVE  \A t \in Tickets : Working(bg'[t], ticket'[t])
BY DEF IInv, Working, Grows, TicketStep

\* Without a claim, what grows keeps the agents of the claimed tickets.
LEMMA ClaimedInv ==
  ASSUME IInv, TicketStep, UNCHANGED claimed
  PROVE  ClaimedOnce'
BY DEF IInv, ClaimedOnce, Grows, Exists, TicketStep

\* What is left to show of a request's step that claims nothing and starts no
\* background task.
LEMMA RequestInv ==
  ASSUME IInv, TicketStep, CommentsStep, NEW p \in Slots, SlotStep(p),
         UNCHANGED <<role, bg, claimed, faults, crashes>>,
         log' \in [Tickets -> SUBSET Actions], issued' \in Nat
  PROVE  IInv'
<1>1. TypeOK'
  BY DEF IInv, TypeOK, SlotStep, TicketStep, CommentsStep
<1> QED BY <1>1, SlotInv, TaskInv, ClaimedInv DEF IInv

----------------------------------------------------------------------------
(* How requests begin, move on and end *)

LEMMA IdleTyped == Idle \in Request /\ (\A tk : Fits(Idle, tk) /\ Seen(Idle, tk))
BY DEF Idle, Request, RequestPcs, Resolution, Fits, Holds, Seen

LEMMA ArriveStep ==
  ASSUME IInv, NEW p \in Slots, NEW u \in Users, NEW op,
         NEW first \in Request, Arrive(p, op, u, first),
         Holds(first, ticket'), first.pc # "patch.roles"
  PROVE  SlotStep(p) /\ issued' \in Nat
<1> DEFINE r == [first EXCEPT !.user = u, !.staff = IsStaff(u)]
<1>1. r \in Request
  <2>1. IsStaff(u) \in BOOLEAN
    BY DEF IsStaff
  <2>2. ASSUME NEW b \in BOOLEAN
        PROVE  [first EXCEPT !.user = u, !.staff = b] \in Request
    BY DEF Request
  <2> QED BY <2>1, <2>2
<1>2. Fits(r, ticket')
  BY DEF Fits, Holds, Request
<1>3. Seen(r, comments')
  BY DEF Seen, Request
<1> QED BY <1>1, <1>2, <1>3 DEF IInv, TypeOK, Arrive, SlotStep

LEMMA MoveStep ==
  ASSUME IInv, NEW p \in Slots, NEW r \in Request, Fits(r, ticket'),
         Seen(r, comments'), req' = [req EXCEPT ![p] = r]
  PROVE  SlotStep(p)
BY DEF IInv, TypeOK, SlotStep

LEMMA FinishStep ==
  ASSUME IInv, NEW p \in Slots, Finish(p)
  PROVE  SlotStep(p)
BY IdleTyped, MoveStep DEF Finish

LEMMA GotoStep ==
  ASSUME IInv, TicketStep, NEW p \in Slots, NEW pc \in RequestPcs, Goto(p, pc),
         pc \notin {"idle", "claim.try", "assign.agent", "comment.read",
                    "patch.roles"},
         req[p].pc \notin {"idle", "claim.try"},
         pc = "assign.write" => req[p].pc = "assign.agent",
         pc = "comment.insert" => req[p].pc = "comment.read",
         pc = "comment.log" => req[p].pc = "comment.insert",
         pc = "comment.remember" => req[p].pc = "comment.log",
         pc = "patch.reject" => req[p].live
  PROVE  SlotStep(p)
<1>1. req[p] \in Request /\ Fits(req[p], ticket')
  BY FitsGrows DEF IInv, TypeOK, TicketStep
<1> DEFINE r == [req[p] EXCEPT !.pc = pc]
<1>2. r \in Request
  BY <1>1 DEF Request
<1>3. Fits(r, ticket')
  BY <1>1 DEF Fits, Holds, Request
<1>4. req' = [req EXCEPT ![p] = r]
  BY DEF Goto, IInv, TypeOK
<1>5. Seen(r, comments')
  BY <1>1 DEF Seen, Request
<1> QED BY <1>2, <1>3, <1>4, <1>5, MoveStep

LEMMA LogStep ==
  ASSUME IInv, NEW t, NEW action \in Actions, Log(t, action)
  PROVE  log' \in [Tickets -> SUBSET Actions]
BY DEF IInv, TypeOK, Log

----------------------------------------------------------------------------
(* create_ticket *)

LEMMA CreateInsertInv ==
  ASSUME IInv, NEW p \in Slots, NEW u \in Users, NEW t \in Tickets,
         CreateInsert(p, u, t)
  PROVE  IInv'
<1>1. NewTicket(u) \in Document
  BY DEF NewTicket, Document, Statuses, Resolution
<1>2. TicketStep /\ ticket'[t] # None
  BY <1>1 DEF IInv, TypeOK, CreateInsert, SetTicket, Grows, Exists, TicketStep
<1> DEFINE first == [Idle EXCEPT !.pc = "create.log", !.ticket = t]
<1>3. first \in Request /\ Arrive(p, "create", u, first)
  BY IdleTyped DEF Request, RequestPcs, CreateInsert
<1>4. Holds(first, ticket') /\ first.pc # "patch.roles"
  BY <1>2 DEF Idle, Holds
<1> HIDE DEF first
<1>5. SlotStep(p) /\ issued' \in Nat
  BY <1>3, <1>4, ArriveStep
<1> QED BY <1>2, <1>5, SameComments, RequestInv DEF CreateInsert, IInv, TypeOK

LEMMA CreateLogInv ==
  ASSUME IInv, NEW p \in Slots, CreateLog(p)
  PROVE  IInv'
<1>1. TicketStep
  BY SameTickets DEF CreateLog
<1>2. SlotStep(p)
  BY FinishStep DEF CreateLog
<1>3. log' \in [Tickets -> SUBSET Actions]
  BY LogStep DEF CreateLog, Actions
<1>4. req[p].ticket \in Tickets /\ ticket[req[p].ticket] # None
  BY DEF CreateLog, At, IInv, Fits, Holds
<1>5. bg' \in [Tickets -> Task]
  BY <1>4 DEF CreateLog, IInv, TypeOK, Off, Task, AutoPcs
<1>6. \A t \in Tickets : Working(bg'[t], ticket'[t])
  BY <1>4 DEF CreateLog, IInv, TypeOK, Working, Off
<1>7. TypeOK'
  BY <1>1, <1>2, <1>3, <1>5 DEF CreateLog, counts, IInv, TypeOK, SlotStep
<1>8. ClaimedOnce'
  BY <1>1, ClaimedInv DEF CreateLog
<1> QED BY <1>1, <1>2, <1>6, <1>7, <1>8, SlotInv, SameComments DEF IInv, CreateLog

----------------------------------------------------------------------------
(* update_ticket *)

LEMMA PatchArriveInv ==
  ASSUME IInv, NEW p \in Slots, NEW u \in Users, NEW t \in Tickets,
         NEW target \in Statuses \cup {None}, NEW text \in Resolution,
         PatchArrive(p, u, t, target, text)
  PROVE  IInv'
<1>1. TicketStep
  BY SameTickets DEF PatchArrive, store
<1> DEFINE first == [Idle EXCEPT !.pc = "patch.read", !.ticket = t,
                                 !.target = target, !.text = text]
<1>2. first \in Request
  BY IdleTyped DEF Request, RequestPcs
<1>3. Holds(first, ticket') /\ first.pc # "patch.roles"
  BY DEF Idle, Holds, PatchArrive, Exists, store
<1>4. \E op : Arrive(p, op, u, first)
  BY DEF PatchArrive
<1> HIDE DEF first
<1>5. SlotStep(p) /\ issued' \in Nat
  BY <1>2, <1>3, <1>4, ArriveStep
<1> QED BY <1>1, <1>5, SameComments, RequestInv DEF PatchArrive, store, IInv, TypeOK

LEMMA PatchReadInv ==
  ASSUME IInv, NEW p \in Slots, PatchRead(p)
  PROVE  IInv'
<1>1. TicketStep
  BY SameTickets DEF PatchRead, store
<1> DEFINE doc == ticket[req[p].ticket]
<1>2. /\ req[p] \in Request /\ req[p].user \in Users
      /\ req[p].ticket \in Tickets /\ doc \in Document /\ doc # None
  BY DEF PatchRead, At, IInv, TypeOK, Fits, Holds
<1>3. SlotStep(p)
  <2>1. CASE Finish(p)
    BY <2>1, FinishStep
  <2>2. ASSUME NEW pc \in {"patch.write", "patch.log"}, NEW live \in BOOLEAN,
               live => doc.auto # None,
               req' = [req EXCEPT ![p] =
                  [@ EXCEPT !.pc = pc, !.was = doc.status, !.live = live]]
        PROVE  SlotStep(p)
    <3> DEFINE r == [req[p] EXCEPT !.pc = pc, !.was = doc.status,
                                   !.live = live]
    <3>1. r \in Request
      BY <1>2 DEF Request, RequestPcs, Document
    <3>2. Fits(r, ticket') /\ Seen(r, comments')
      BY <1>2, <2>2 DEF Seen, Fits, Holds, Request, PatchRead, At, IInv, store
    <3>3. req' = [req EXCEPT ![p] = r]
      BY <2>2 DEF IInv, TypeOK
    <3> QED BY <3>1, <3>2, <3>3, MoveStep
  <2>3. LiveAudit(doc) \in BOOLEAN
    BY DEF LiveAudit
  <2> QED BY <2>1, <2>2, <2>3 DEF PatchRead, LiveAudit
<1> QED BY <1>1, <1>3, SameComments, RequestInv DEF PatchRead, store, counts, IInv, TypeOK

LEMMA PatchLogInv ==
  ASSUME IInv, NEW p \in Slots, PatchLog(p)
  PROVE  IInv'
<1>1. TicketStep
  BY SameTickets DEF PatchLog
<1>2. log' \in [Tickets -> SUBSET Actions]
  BY LogStep DEF PatchLog, Actions
<1>3. SlotStep(p)
  <2> DEFINE pc == AfterStatusLog(req[p])
  <2>1. /\ pc \in {"patch.replies", "patch.reject", "patch.write"}
        /\ pc = "patch.reject" => req[p].live
    BY DEF AfterStatusLog
  <2>2. pc \in RequestPcs
    BY <2>1 DEF RequestPcs
  <2>3. Goto(p, pc) /\ req[p].pc = "patch.log"
    BY DEF PatchLog, At
  <2> HIDE DEF pc
  <2> QED BY <1>1, <2>1, <2>2, <2>3, GotoStep
<1> QED BY <1>1, <1>2, <1>3, SameComments, RequestInv DEF PatchLog, counts, IInv, TypeOK

LEMMA PatchRepliesInv ==
  ASSUME IInv, NEW p \in Slots, PatchReplies(p)
  PROVE  IInv'
<1>1. TicketStep
  BY SameTickets DEF PatchReplies, store
<1> DEFINE r == [req[p] EXCEPT !.pc = "patch.roles",
                               !.seen = Len(comments[req[p].ticket])]
<1>2. req[p] \in Request /\ Fits(req[p], ticket') /\ req[p].pc = "patch.replies"
  BY <1>1, FitsGrows DEF PatchReplies, At, IInv, TypeOK, TicketStep
<1>3. Len(comments[req[p].ticket]) \in Nat
  BY <1>2 DEF Fits, Holds, IInv, TypeOK
<1>4. r \in Request
  BY <1>2, <1>3 DEF Request, RequestPcs
<1>5. Fits(r, ticket') /\ Seen(r, comments')
  BY <1>2 DEF Seen, Fits, Holds, Request, PatchReplies, store
<1>6. SlotStep(p)
  BY <1>4, <1>5, MoveStep DEF PatchReplies, IInv, TypeOK
<1> QED BY <1>1, <1>6, SameComments, RequestInv DEF PatchReplies, store, counts, IInv, TypeOK

LEMMA PatchRolesInv ==
  ASSUME IInv, NEW p \in Slots, PatchRoles(p)
  PROVE  IInv'
<1>1. TicketStep
  BY SameTickets DEF PatchRoles, store
<1>2. req[p] \in Request /\ Fits(req[p], ticket') /\ req[p].pc = "patch.roles"
  BY <1>1, FitsGrows DEF PatchRoles, At, IInv, TypeOK, TicketStep
<1>3. SlotStep(p)
  <2>1. CASE Goto(p, "patch.write")
    BY <1>1, <1>2, <2>1, GotoStep DEF RequestPcs
  <2>2. ASSUME NEW text \in Resolution,
               req' = [req EXCEPT ![p] =
                         [@ EXCEPT !.pc = "patch.write", !.text = text]]
        PROVE  SlotStep(p)
    <3> DEFINE r == [req[p] EXCEPT !.pc = "patch.write", !.text = text]
    <3>1. r \in Request
      BY <1>2 DEF Request, RequestPcs
    <3>2. Fits(r, ticket') /\ Seen(r, comments')
      BY <1>2 DEF Seen, Fits, Holds, Request
    <3> QED BY <2>2, <3>1, <3>2, MoveStep DEF IInv, TypeOK
  <2>3. ASSUME NEW i \in StaffReplies(req[p].ticket, req[p].seen)
        PROVE  comments[req[p].ticket][i].text \in Resolution
    <3>1. /\ comments[req[p].ticket] \in Seq(Comment)
          /\ req[p].seen <= Len(comments[req[p].ticket]) /\ req[p].seen \in Nat
      BY <1>2 DEF IInv, TypeOK, Fits, Holds, Seen, Request
    <3>2. comments[req[p].ticket][i] \in Comment
      BY <3>1 DEF StaffReplies
    <3> QED BY <3>2 DEF Comment, Resolution
  <2> QED BY <2>1, <2>2, <2>3 DEF PatchRoles
<1> QED BY <1>1, <1>3, SameComments, RequestInv DEF PatchRoles, store, counts, IInv, TypeOK

LEMMA PatchRejectInv ==
  ASSUME IInv, NEW p \in Slots, PatchReject(p)
  PROVE  IInv'
<1>1. TicketStep
  BY SameTickets DEF PatchReject
<1>2. log' \in [Tickets -> SUBSET Actions]
  BY LogStep DEF PatchReject, Actions
<1> DEFINE r == [req[p] EXCEPT !.pc = "patch.write", !.reject = TRUE]
<1>3. req[p] \in Request /\ Fits(req[p], ticket') /\ req[p].pc = "patch.reject"
  BY <1>1, FitsGrows DEF PatchReject, At, IInv, TypeOK, TicketStep
<1>4. r \in Request
  BY <1>3 DEF Request, RequestPcs
<1>5. Fits(r, ticket') /\ Seen(r, comments')
  BY <1>3 DEF Seen, Fits, Holds, Request
<1>6. SlotStep(p)
  BY <1>4, <1>5, MoveStep DEF PatchReject, IInv, TypeOK
<1> QED BY <1>1, <1>2, <1>6, SameComments, RequestInv DEF PatchReject, counts, IInv, TypeOK

LEMMA PatchWriteInv ==
  ASSUME IInv, NEW p \in Slots, PatchWrite(p)
  PROVE  IInv'
<1> DEFINE r == req[p]
           doc == ticket[r.ticket]
           written ==
             [doc EXCEPT !.status = IF r.target = None THEN @ ELSE r.target,
                         !.resolution = IF r.text = None THEN @ ELSE r.text,
                         !.auto = IF r.reject THEN [@ EXCEPT !.reopened = TRUE]
                                              ELSE @]
<1>1. r \in Request /\ Fits(r, ticket) /\ r.pc = "patch.write"
  BY DEF PatchWrite, At, IInv, TypeOK
<1>2. r.ticket \in Tickets /\ doc \in Document
  BY <1>1 DEF Fits, Holds, IInv, TypeOK
<1>3. r.reject => doc.auto \in Audit
  BY <1>1, <1>2 DEF Fits, Holds, Document
<1>4. /\ written \in Document
      /\ written.assignedAgent = doc.assignedAgent
      /\ doc.auto # None => written.auto # None
  <2>1. (IF r.reject THEN [doc.auto EXCEPT !.reopened = TRUE] ELSE doc.auto)
          \in Audit \cup {None}
    BY <1>2, <1>3 DEF Document, Audit
  <2>2. doc.auto # None =>
          (IF r.reject THEN [doc.auto EXCEPT !.reopened = TRUE]
                       ELSE doc.auto) # None
    BY <1>3 DEF Audit
  <2>3. (IF r.target = None THEN doc.status ELSE r.target) \in Statuses
    BY <1>1, <1>2 DEF Document, Request
  <2>4. (IF r.text = None THEN doc.resolution ELSE r.text) \in Resolution
    BY <1>1, <1>2 DEF Document, Request
  <2> HIDE DEF doc, r
  <2> QED BY <1>2, <2>1, <2>2, <2>3, <2>4 DEF Document
<1>5. ticket' = [ticket EXCEPT ![r.ticket] = written]
  BY DEF PatchWrite, SetTicket
<1>6. TicketStep
  <2> HIDE DEF written
  <2> QED BY <1>1, <1>2, <1>4, <1>5 DEF TicketStep, Grows, IInv, TypeOK
<1>7. SlotStep(p)
  BY FinishStep DEF PatchWrite
<1> QED BY <1>6, <1>7, SameComments, RequestInv DEF PatchWrite, counts, IInv, TypeOK

----------------------------------------------------------------------------
(* assign_ticket *)

LEMMA AssignArriveInv ==
  ASSUME IInv, NEW p \in Slots, NEW u \in Users, NEW t \in Tickets,
         NEW a \in Users, AssignArrive(p, u, t, a)
  PROVE  IInv'
<1>1. TicketStep
  BY SameTickets DEF AssignArrive, store
<1> DEFINE first == [Idle EXCEPT !.pc = "assign.agent", !.ticket = t,
                                 !.agent = a]
<1>2. first \in Request
  BY IdleTyped DEF Request, RequestPcs
<1>3. Holds(first, ticket') /\ first.pc # "patch.roles"
  BY DEF Idle, Holds, AssignArrive, Exists, store
<1>4. Arrive(p, "assign", u, first)
  BY DEF AssignArrive
<1> HIDE DEF first
<1>5. SlotStep(p) /\ issued' \in Nat
  BY <1>2, <1>3, <1>4, ArriveStep
<1> QED BY <1>1, <1>5, SameComments, RequestInv
        DEF AssignArrive, store, IInv, TypeOK

LEMMA AssignAgentInv ==
  ASSUME IInv, NEW p \in Slots, AssignAgent(p)
  PROVE  IInv'
<1>1. TicketStep
  BY SameTickets DEF AssignAgent, store
<1>2. SlotStep(p)
  <2>1. CASE Goto(p, "assign.write")
    BY <1>1, <2>1, GotoStep DEF AssignAgent, At, RequestPcs
  <2>2. CASE Finish(p)
    BY <2>2, FinishStep
  <2> QED BY <2>1, <2>2 DEF AssignAgent
<1> QED BY <1>1, <1>2, SameComments, RequestInv
        DEF AssignAgent, store, counts, IInv, TypeOK

LEMMA AssignWriteInv ==
  ASSUME IInv, NEW p \in Slots, AssignWrite(p)
  PROVE  IInv'
<1> DEFINE t == req[p].ticket
           doc == [ticket[t] EXCEPT !.assignedAgent = req[p].agent]
<1>1. /\ t \in Tickets /\ ticket[t] \in Document
      /\ req[p].agent \in Users /\ req[p].pc = "assign.write"
  BY DEF AssignWrite, At, IInv, TypeOK, Fits, Holds
<1>2. /\ doc \in Document /\ doc.assignedAgent # None
      /\ doc.auto = ticket[t].auto
  BY <1>1 DEF Document
<1>3. ticket' = [ticket EXCEPT ![t] = doc]
  BY DEF AssignWrite, IInv, TypeOK
<1>4. TicketStep
  <2> HIDE DEF doc
  <2> QED BY <1>1, <1>2, <1>3 DEF TicketStep, Grows, IInv, TypeOK
<1>5. SlotStep(p)
  BY <1>1, <1>4, GotoStep DEF AssignWrite, RequestPcs
<1> QED BY <1>4, <1>5, SameComments, RequestInv
        DEF AssignWrite, counts, IInv, TypeOK

LEMMA AssignLogInv ==
  ASSUME IInv, NEW p \in Slots, AssignLog(p)
  PROVE  IInv'
<1>1. log' \in [Tickets -> SUBSET Actions]
  BY LogStep DEF AssignLog, Actions
<1> QED BY <1>1, FinishStep, SameTickets, SameComments, RequestInv
        DEF AssignLog, counts, IInv, TypeOK

----------------------------------------------------------------------------
(* claim_next *)

LEMMA ClaimRankInv ==
  ASSUME IInv, NEW p \in Slots, NEW u \in Users, ClaimRank(p, u)
  PROVE  IInv'
<1>1. TicketStep
  BY SameTickets DEF ClaimRank, store
<1> DEFINE first == [Idle EXCEPT !.pc = "claim.try", !.todo = Queue]
<1>2. Queue \subseteq Tickets /\ (\A t \in Queue : ticket[t] # None)
  BY DEF Queue, InQueue, Exists
<1>3. first \in Request
  BY <1>2, IdleTyped DEF Request, RequestPcs
<1>4. Holds(first, ticket') /\ first.pc # "patch.roles"
  BY <1>2 DEF Idle, Holds, ClaimRank, store
<1>5. Arrive(p, "claim", u, first)
  BY DEF ClaimRank
<1> HIDE DEF first
<1>6. SlotStep(p) /\ issued' \in Nat
  BY <1>3, <1>4, <1>5, ArriveStep
<1> QED BY <1>1, <1>6, SameComments, RequestInv
        DEF ClaimRank, store, IInv, TypeOK

LEMMA ClaimTryInv ==
  ASSUME IInv, NEW p \in Slots, ClaimTry(p)
  PROVE  IInv'
<1>1. PICK t \in req[p].todo :
        IF t \in Queue
        THEN /\ ticket' = [ticket EXCEPT ![t].assignedAgent = req[p].user]
             /\ claimed' = [claimed EXCEPT ![t] = @ + 1]
             /\ req' = [req EXCEPT ![p] = [@ EXCEPT !.pc = "claim.log",
                                     !.ticket = t, !.todo = {}]]
        ELSE /\ req' = [req EXCEPT ![p].todo = @ \ {t}]
             /\ UNCHANGED <<ticket, claimed>>
  BY DEF ClaimTry, TryClaim
<1>2. /\ req[p] \in Request /\ Fits(req[p], ticket)
      /\ req[p].pc = "claim.try" /\ req[p].user \in Users
      /\ t \in Tickets /\ ticket[t] \in Document
  BY <1>1 DEF ClaimTry, TryClaim, At, IInv, TypeOK, Fits, Holds, Request
<1>3. CASE t \in Queue
  <2> DEFINE doc == [ticket[t] EXCEPT !.assignedAgent = req[p].user]
             r == [req[p] EXCEPT !.pc = "claim.log", !.ticket = t, !.todo = {}]
  <2>1. /\ doc \in Document /\ doc.assignedAgent # None
        /\ doc.auto = ticket[t].auto
    BY <1>2 DEF Document
  <2>2. ticket' = [ticket EXCEPT ![t] = doc]
    BY <1>1, <1>3 DEF IInv, TypeOK
  <2>3. TicketStep /\ ticket'[t] = doc
    <3> HIDE DEF doc
    <3> QED BY <1>2, <2>1, <2>2 DEF TicketStep, Grows, IInv, TypeOK
  <2>4. r \in Request
    BY <1>2 DEF Request, RequestPcs
  <2>5. ticket'[t] # None /\ (ticket[t].auto # None => ticket'[t].auto # None)
    BY <1>2, <2>1, <2>3
  <2>6. Fits(r, ticket') /\ Seen(r, comments')
    BY <1>2, <2>5 DEF Seen, Fits, Holds, Request
  <2>7. SlotStep(p)
    <3> HIDE DEF doc
    <3>1. req' = [req EXCEPT ![p] = r]
      BY <1>1, <1>3 DEF IInv, TypeOK
    <3> QED BY <2>4, <2>6, <3>1, MoveStep
  <2>8. claimed' \in [Tickets -> Nat]
    <3>1. claimed' = [claimed EXCEPT ![t] = @ + 1]
      BY <1>1, <1>3
    <3> QED BY <1>2, <3>1 DEF IInv, TypeOK
  <2>9. ClaimedOnce'
    <3>1. ticket[t].assignedAgent = None
      BY <1>3 DEF Queue, InQueue
    <3>2. claimed[t] = 0
      BY <1>2, <3>1 DEF IInv, TypeOK, ClaimedOnce
    <3> HIDE DEF doc
    <3> QED BY <1>1, <1>2, <1>3, <2>1, <2>3, <2>5, <3>2
            DEF IInv, TypeOK, ClaimedOnce, TicketStep, Grows, Exists
  <2> QED
    <3>1. CommentsStep
      BY SameComments DEF ClaimTry, TryClaim
    <3>2. TypeOK'
      BY <2>3, <2>7, <2>8 DEF ClaimTry, TryClaim, counts, IInv, TypeOK,
                              SlotStep, TicketStep
    <3>3. UNCHANGED bg
      BY DEF ClaimTry, TryClaim
    <3> QED BY <2>3, <2>7, <2>9, <3>1, <3>2, <3>3, SlotInv, TaskInv DEF IInv
<1>4. CASE t \notin Queue
  <2> DEFINE r == [req[p] EXCEPT !.todo = req[p].todo \ {t}]
  <2>1. TicketStep /\ UNCHANGED <<ticket, claimed>>
    BY <1>1, <1>4, SameTickets
  <2>2. r \in Request
    BY <1>2 DEF Request
  <2>3. Fits(r, ticket') /\ Seen(r, comments')
    BY <1>2, <2>1 DEF Seen, Fits, Holds, Request
  <2>4. SlotStep(p)
    <3>1. req' = [req EXCEPT ![p] = r]
      BY <1>1, <1>4 DEF IInv, TypeOK
    <3> QED BY <2>2, <2>3, <3>1, MoveStep
  <2> QED BY <2>1, <2>4, SameComments, RequestInv
          DEF ClaimTry, TryClaim, counts, IInv, TypeOK
<1> QED BY <1>3, <1>4

LEMMA ClaimNothingInv ==
  ASSUME IInv, NEW p \in Slots, ClaimNothing(p)
  PROVE  IInv'
BY FinishStep, SameTickets, SameComments, RequestInv
   DEF ClaimNothing, store, counts, IInv, TypeOK

LEMMA ClaimLogInv ==
  ASSUME IInv, NEW p \in Slots, ClaimLog(p)
  PROVE  IInv'
<1>1. log' \in [Tickets -> SUBSET Actions]
  BY LogStep DEF ClaimLog, Actions
<1> QED BY <1>1, FinishStep, SameTickets, SameComments, RequestInv
        DEF ClaimLog, counts, IInv, TypeOK

----------------------------------------------------------------------------
(* add_comment *)

LEMMA CommentArriveInv ==
  ASSUME IInv, NEW p \in Slots, NEW u \in Users, NEW t \in Tickets,
         NEW blank \in BOOLEAN, NEW internal \in BOOLEAN,
         CommentArrive(p, u, t, blank, internal)
  PROVE  IInv'
<1>1. TicketStep
  BY SameTickets DEF CommentArrive, store
<1>2. ASSUME NEW note \in BOOLEAN, NEW text \in Text \cup {Blank}, NEW op,
             Arrive(p, op, u, [Idle EXCEPT !.pc = "comment.read", !.ticket = t,
                                           !.internal = note, !.text = text])
      PROVE  SlotStep(p) /\ issued' \in Nat
  <2> DEFINE first == [Idle EXCEPT !.pc = "comment.read", !.ticket = t,
                                   !.internal = note, !.text = text]
  <2>1. first \in Request
    BY IdleTyped DEF Request, RequestPcs, Resolution
  <2>2. Holds(first, ticket') /\ first.pc # "patch.roles"
    BY DEF Idle, Holds, CommentArrive, Exists, store
  <2>3. Arrive(p, op, u, first)
    BY <1>2
  <2> HIDE DEF first
  <2> QED BY <2>1, <2>2, <2>3, ArriveStep
<1> DEFINE note == internal /\ IsStaff(u)
           text == IF blank THEN Blank
                   ELSE [on |-> t, by |-> u, staff |-> IsStaff(u),
                         via |-> IF note THEN "note" ELSE "reply"]
<1>3. note \in BOOLEAN
  BY DEF IsStaff
<1>4. text \in Text \cup {Blank}
  <2>1. IsStaff(u) \in BOOLEAN
    BY DEF IsStaff
  <2>2. ASSUME NEW b \in BOOLEAN, NEW via \in {"note", "reply"}
        PROVE  [on |-> t, by |-> u, staff |-> b, via |-> via] \in Text
    BY DEF Text
  <2> QED BY <2>1, <2>2
<1>5. \E op : Arrive(p, op, u, [Idle EXCEPT !.pc = "comment.read",
                      !.ticket = t, !.internal = note, !.text = text])
  BY DEF CommentArrive
<1> HIDE DEF note, text
<1>6. SlotStep(p) /\ issued' \in Nat
  BY <1>2, <1>3, <1>4, <1>5
<1> QED BY <1>1, <1>6, SameComments, RequestInv
        DEF CommentArrive, store, IInv, TypeOK

LEMMA CommentReadInv ==
  ASSUME IInv, NEW p \in Slots, CommentRead(p)
  PROVE  IInv'
<1>1. TicketStep
  BY SameTickets DEF CommentRead, store
<1>2. SlotStep(p)
  <2>1. CASE Finish(p)
    BY <2>1, FinishStep
  <2>2. CASE req' = [req EXCEPT ![p] = [@ EXCEPT !.pc = "comment.insert",
                       !.was = ticket[req[p].ticket].status]]
    <3> DEFINE r == [req[p] EXCEPT !.pc = "comment.insert",
                                   !.was = ticket[req[p].ticket].status]
    <3>1. /\ req[p] \in Request /\ Fits(req[p], ticket)
          /\ req[p].pc = "comment.read"
          /\ ticket[req[p].ticket] \in Document
      BY DEF CommentRead, At, IInv, TypeOK, Fits, Holds
    <3>2. r \in Request
      BY <3>1 DEF Request, RequestPcs, Document
    <3>3. Fits(r, ticket') /\ Seen(r, comments')
      BY <3>1 DEF Seen, Fits, Holds, Request, CommentRead, store
    <3> QED BY <2>2, <3>2, <3>3, MoveStep
  <2> QED BY <2>1, <2>2 DEF CommentRead
<1> QED BY <1>1, <1>2, SameComments, RequestInv
        DEF CommentRead, store, counts, IInv, TypeOK

\* A comment appended to a ticket.
LEMMA AppendStep ==
  ASSUME IInv, NEW t \in Tickets, NEW c \in Comment,
         comments' = [comments EXCEPT ![t] = Append(@, c)]
  PROVE  CommentsStep
<1>1. comments[t] \in Seq(Comment)
  BY DEF IInv, TypeOK
<1>2. /\ Append(comments[t], c) \in Seq(Comment)
      /\ Len(Append(comments[t], c)) = Len(comments[t]) + 1
      /\ Len(comments[t]) \in Nat
  BY <1>1
<1> QED BY <1>2 DEF CommentsStep, IInv, TypeOK

LEMMA CommentInsertInv ==
  ASSUME IInv, NEW p \in Slots, CommentInsert(p)
  PROVE  IInv'
<1>1. TicketStep
  BY SameTickets DEF CommentInsert
<1> DEFINE c == [author |-> req[p].user, text |-> req[p].text,
                 internal |-> req[p].internal]
<1>2. /\ req[p] \in Request /\ Fits(req[p], ticket)
      /\ req[p].pc = "comment.insert"
  BY DEF CommentInsert, At, IInv, TypeOK
<1>3. c \in Comment /\ req[p].ticket \in Tickets
  BY <1>2 DEF Comment, Fits, Holds, Request, Resolution
<1>4. CommentsStep
  BY <1>3, AppendStep DEF CommentInsert
<1>5. SlotStep(p)
  BY <1>1, <1>2, GotoStep DEF CommentInsert, RequestPcs
<1> QED BY <1>1, <1>4, <1>5, RequestInv
        DEF CommentInsert, counts, IInv, TypeOK

LEMMA CommentLogInv ==
  ASSUME IInv, NEW p \in Slots, CommentLog(p)
  PROVE  IInv'
<1>1. TicketStep
  BY SameTickets DEF CommentLog
<1>2. log' \in [Tickets -> SUBSET Actions]
  BY LogStep DEF CommentLog, Actions
<1>3. SlotStep(p)
  <2>1. CASE Goto(p, "comment.remember")
    BY <1>1, <2>1, GotoStep DEF CommentLog, At, RequestPcs
  <2>2. CASE Finish(p)
    BY <2>2, FinishStep
  <2> QED BY <2>1, <2>2 DEF CommentLog
<1> QED BY <1>1, <1>2, <1>3, SameComments, RequestInv
        DEF CommentLog, counts, IInv, TypeOK

LEMMA CommentRememberInv ==
  ASSUME IInv, NEW p \in Slots, CommentRemember(p)
  PROVE  IInv'
<1> DEFINE t == req[p].ticket
           doc == [ticket[t] EXCEPT !.resolution = req[p].text]
<1>1. /\ t \in Tickets /\ ticket[t] \in Document
      /\ req[p].text \in Resolution
  BY DEF CommentRemember, At, IInv, TypeOK, Fits, Holds, Request
<1>2. /\ doc \in Document
      /\ doc.assignedAgent = ticket[t].assignedAgent
      /\ doc.auto = ticket[t].auto
  BY <1>1 DEF Document
<1>3. ticket' = [ticket EXCEPT ![t] = doc]
  BY DEF CommentRemember, IInv, TypeOK
<1>4. TicketStep
  <2> HIDE DEF doc
  <2> QED BY <1>1, <1>2, <1>3 DEF TicketStep, Grows, IInv, TypeOK
<1> QED BY <1>4, FinishStep, SameComments, RequestInv
        DEF CommentRemember, counts, IInv, TypeOK

----------------------------------------------------------------------------
(* The background task *)

\* The background task of t moves on, and no request does.
TaskStep(t, k) ==
  /\ k \in Task /\ Working(k, ticket'[t])
  /\ bg' = [bg EXCEPT ![t] = k]
  /\ UNCHANGED <<role, req, claimed, issued, crashes>>

LEMMA BackgroundInv ==
  ASSUME IInv, TicketStep, CommentsStep, NEW t \in Tickets, NEW k,
         TaskStep(t, k),
         log' \in [Tickets -> SUBSET Actions], faults' \in Nat
  PROVE  IInv'
<1>1. TypeOK'
  BY DEF IInv, TypeOK, TaskStep, TicketStep, CommentsStep
<1>2. \A q \in Slots : Fits(req'[q], ticket') /\ Seen(req'[q], comments')
  <2> SUFFICES ASSUME NEW q \in Slots
               PROVE  Fits(req'[q], ticket') /\ Seen(req'[q], comments')
    OBVIOUS
  <2>1. req[q] \in Request /\ Fits(req[q], ticket) /\ req'[q] = req[q]
    BY DEF IInv, TypeOK, TaskStep
  <2>2. Fits(req[q], ticket')
    BY <2>1, FitsGrows DEF TicketStep
  <2>3. SlotStep(q)
    <3>1. ASSUME req[q].pc = "patch.roles"
          PROVE  req[q].seen <= Len(comments'[req[q].ticket])
      <4>1. req[q].ticket \in Tickets /\ req[q].seen \in Nat
        BY <2>1, <3>1 DEF Fits, Holds, Request
      <4>2. /\ req[q].seen <= Len(comments[req[q].ticket])
            /\ Len(comments[req[q].ticket]) <= Len(comments'[req[q].ticket])
            /\ Len(comments[req[q].ticket]) \in Nat
            /\ Len(comments'[req[q].ticket]) \in Nat
        BY <3>1, <4>1 DEF IInv, TypeOK, Seen, CommentsStep
      <4> QED BY <4>1, <4>2
    <3> QED BY <2>1, <2>2, <3>1 DEF SlotStep, Seen, TaskStep, IInv, TypeOK
  <2> QED BY <2>3, SlotInv
<1>3. \A u \in Tickets : Working(bg'[u], ticket'[u])
  BY DEF IInv, TypeOK, Working, TaskStep, TicketStep, Grows
<1>4. ClaimedOnce'
  BY ClaimedInv DEF TaskStep
<1> QED BY <1>1, <1>2, <1>3, <1>4 DEF IInv

LEMMA OffTyped ==
  ASSUME NEW pc \in AutoPcs \cup {"off", "classify", "done", "lost"}
  PROVE  /\ [Off EXCEPT !.pc = pc] \in Task
         /\ [Off EXCEPT !.pc = pc].pc = pc
BY DEF Off, Task, AutoPcs

\* A move that leaves tickets and comments alone.
LEMMA BgGotoInv ==
  ASSUME IInv, NEW t \in Tickets,
         NEW pc \in AutoPcs \cup {"classify", "done", "lost"}, pc # "reply",
         BgGoto(t, pc), ticket[t] # None,
         UNCHANGED <<role, ticket, comments, log, req, claimed, issued, crashes>>,
         faults' \in Nat
  PROVE  IInv'
<1> DEFINE k == [Off EXCEPT !.pc = pc]
<1>1. k \in Task /\ k.pc = pc
  BY OffTyped
<1> HIDE DEF k
<1>2. Working(k, ticket'[t])
  BY <1>1 DEF Working
<1>3. bg' = [bg EXCEPT ![t] = k]
  BY DEF BgGoto, k
<1>4. TaskStep(t, k)
  BY <1>1, <1>2, <1>3 DEF TaskStep
<1> QED BY <1>4, BackgroundInv, SameTickets, SameComments DEF IInv, TypeOK

LEMMA CandidatesTyped ==
  ASSUME IInv, NEW t \in Tickets PROVE Candidates(t) \subseteq Answer
BY DEF Candidates, IInv, TypeOK, Answer, Exists, Document, Resolution

LEMMA QuietInv ==
  ASSUME IInv, NEW t \in Tickets,
         AutoCheck(t) \/ AutoRecall(t) \/ AutoNoMatch(t) \/ AutoBeaten(t)
  PROVE  IInv'
<1>1. ticket[t] # None
  BY DEF AutoCheck, AutoRecall, AutoNoMatch, AutoBeaten, BgAt, IInv, Working,
         AutoPcs
<1>2. CASE AutoCheck(t)
  BY <1>1, <1>2, BgGotoInv
     DEF AutoCheck, AutoPcs, store, counts, IInv, TypeOK
<1>3. CASE AutoRecall(t)
  <2>1. CASE Candidates(t) = {}
    BY <1>1, <1>3, <2>1, BgGotoInv
       DEF AutoRecall, AutoPcs, store, counts, IInv, TypeOK
  <2>2. CASE Candidates(t) # {}
    <3> DEFINE k == [bg[t] EXCEPT !.pc = "ask", !.found = Candidates(t)]
    <3>1. k \in Task /\ k.pc = "ask"
      <4>1. bg[t] \in Task
        BY DEF IInv, TypeOK
      <4>2. ASSUME NEW f \in SUBSET Answer
            PROVE  /\ [bg[t] EXCEPT !.pc = "ask", !.found = f] \in Task
                   /\ [bg[t] EXCEPT !.pc = "ask", !.found = f].pc = "ask"
        BY <4>1 DEF Task, AutoPcs
      <4> QED BY <4>2, CandidatesTyped
    <3>2. bg' = [bg EXCEPT ![t] = k]
      BY <1>3, <2>2 DEF AutoRecall, IInv, TypeOK
    <3> HIDE DEF k
    <3>3. TaskStep(t, k)
      BY <1>1, <1>3, <3>1, <3>2
         DEF TaskStep, Working, AutoRecall, store, counts
    <3> QED BY <1>3, <3>3, BackgroundInv, SameTickets, SameComments
            DEF AutoRecall, store, counts, IInv, TypeOK
  <2> QED BY <2>1, <2>2
<1>4. CASE AutoNoMatch(t)
  BY <1>1, <1>4, BgGotoInv
     DEF AutoNoMatch, AutoPcs, store, counts, IInv, TypeOK
<1>5. CASE AutoBeaten(t)
  BY <1>1, <1>5, BgGotoInv
     DEF AutoBeaten, AutoPcs, store, counts, IInv, TypeOK
<1> QED BY <1>2, <1>3, <1>4, <1>5

LEMMA AutoTakeInv ==
  ASSUME IInv, NEW t \in Tickets, AutoTake(t)
  PROVE  IInv'
<1>1. PICK c \in bg[t].found :
        /\ ticket' = [ticket EXCEPT ![t] =
             [ticket[t] EXCEPT
                !.status = AutoTarget, !.resolution = c.resolution,
                !.auto = [source |-> c.ticket, reopened |-> FALSE]]]
        /\ bg' = [bg EXCEPT ![t] = [Off EXCEPT !.pc = "reply",
                                               !.answer = c.resolution]]
  BY DEF AutoTake, TakeFromQueue, SetTicket
<1> DEFINE doc == [ticket[t] EXCEPT
                     !.status = AutoTarget, !.resolution = c.resolution,
                     !.auto = [source |-> c.ticket, reopened |-> FALSE]]
           k == [Off EXCEPT !.pc = "reply", !.answer = c.resolution]
<1>2. ticket[t] \in Document /\ c \in Answer
  BY <1>1 DEF AutoTake, TakeFromQueue, BgAt, IInv, TypeOK, Working, AutoPcs, Task
<1>3. c.resolution \in Text /\ c.ticket \in Tickets
  BY <1>2 DEF Answer
<1>4. AutoTarget \in Statuses
  BY DEF AutoTarget, Statuses
<1>5. [source |-> c.ticket, reopened |-> FALSE] \in Audit
  BY <1>3 DEF Audit
<1>6. /\ doc \in Document /\ doc.auto # None
      /\ doc.assignedAgent = ticket[t].assignedAgent
  BY <1>2, <1>3, <1>4, <1>5 DEF Document, Resolution
<1>7. TicketStep /\ ticket'[t] # None
  <2>1. ticket' = [ticket EXCEPT ![t] = doc]
    BY <1>1
  <2> HIDE DEF doc
  <2> QED BY <1>2, <1>6, <2>1 DEF TicketStep, Grows, IInv, TypeOK
<1>8. k \in Task /\ k.pc = "reply" /\ k.answer # None
  BY <1>3 DEF Task, AutoPcs, Off
<1>9. TaskStep(t, k)
  <2> HIDE DEF k
  <2> QED BY <1>1, <1>7, <1>8
          DEF k, TaskStep, Working, AutoTake, TakeFromQueue, counts
<1> QED BY <1>7, <1>9, BackgroundInv, SameComments
        DEF AutoTake, TakeFromQueue, counts, IInv, TypeOK

LEMMA AutoReplyInv ==
  ASSUME IInv, NEW t \in Tickets, AutoReply(t)
  PROVE  IInv'
<1> DEFINE c == [author |-> AI, text |-> bg[t].answer, internal |-> FALSE]
           k == [Off EXCEPT !.pc = "log"]
<1>1. /\ ticket[t] # None /\ bg[t] \in Task /\ bg[t].answer # None
  BY DEF AutoReply, BgAt, IInv, TypeOK, Working, AutoPcs
<1>2. c \in Comment
  BY <1>1 DEF Comment, Task
<1>3. CommentsStep
  BY <1>2, AppendStep DEF AutoReply
<1>4. TicketStep
  BY SameTickets DEF AutoReply
<1>5. k \in Task /\ k.pc = "log"
  BY DEF Task, AutoPcs, Off
<1>6. TaskStep(t, k)
  BY <1>1, <1>5 DEF TaskStep, Working, AutoReply, BgGoto, counts
<1> QED BY <1>3, <1>4, <1>6, BackgroundInv DEF AutoReply, counts, IInv, TypeOK

LEMMA AutoLogInv ==
  ASSUME IInv, NEW t \in Tickets, AutoLog(t)
  PROVE  IInv'
<1> DEFINE k == [Off EXCEPT !.pc = "classify"]
<1>1. ticket[t] # None
  BY DEF AutoLog, BgAt, IInv, Working, AutoPcs
<1>2. k \in Task /\ k.pc = "classify"
  BY DEF Task, Off
<1>3. TaskStep(t, k)
  BY <1>1, <1>2 DEF TaskStep, Working, AutoLog, BgGoto, counts
<1>4. log' \in [Tickets -> SUBSET Actions]
  BY LogStep DEF AutoLog, Actions
<1> QED BY <1>3, <1>4, BackgroundInv, SameTickets, SameComments
        DEF AutoLog, counts, IInv, TypeOK

LEMMA ClassifyInv ==
  ASSUME IInv, NEW t \in Tickets, Classify(t)
  PROVE  IInv'
<1>1. PICK s \in {"ok", "unavailable"} : ticket' = [ticket EXCEPT ![t].ai = s]
  BY DEF Classify
<1> DEFINE doc == [ticket[t] EXCEPT !.ai = s]
           k == [Off EXCEPT !.pc = "done"]
<1>2. ticket[t] \in Document
  BY DEF Classify, BgAt, IInv, TypeOK, Working
<1>3. /\ doc \in Document /\ doc.auto = ticket[t].auto
      /\ doc.assignedAgent = ticket[t].assignedAgent
  BY <1>2 DEF Document
<1>4. ticket' = [ticket EXCEPT ![t] = doc]
  BY <1>1 DEF IInv, TypeOK
<1>5. TicketStep /\ ticket'[t] # None
  <2> HIDE DEF doc
  <2> QED BY <1>2, <1>3, <1>4 DEF TicketStep, Grows, IInv, TypeOK
<1>6. k \in Task /\ k.pc = "done"
  BY DEF Task, Off
<1>7. TaskStep(t, k)
  BY <1>5, <1>6 DEF TaskStep, Working, Classify, BgGoto, counts
<1> QED BY <1>5, <1>7, BackgroundInv, SameComments
        DEF Classify, counts, IInv, TypeOK

----------------------------------------------------------------------------
(* Role changes, failures, crashes *)

\* A step that leaves the requests, the tickets and the comments alone.
LEMMA StillInv ==
  ASSUME IInv, UNCHANGED <<ticket, comments, log, req, bg, claimed>>,
         role' \in [Users -> Roles], issued' \in Nat, faults' \in Nat,
         crashes' \in Nat
  PROVE  IInv'
BY DEF IInv, TypeOK, ClaimedOnce, Exists

LEMMA ChangeRoleInv ==
  ASSUME IInv, NEW u \in Users, NEW to \in Roles, ChangeRole(u, to)
  PROVE  IInv'
BY StillInv DEF ChangeRole, counts, IInv, TypeOK

LEMMA RequestFaultInv ==
  ASSUME IInv, NEW p \in Slots, RequestFault(p)
  PROVE  IInv'
<1>1. SlotStep(p)
  BY FinishStep DEF RequestFault
<1>2. TicketStep /\ CommentsStep
  BY SameTickets, SameComments DEF RequestFault, store
<1>3. TypeOK'
  BY <1>1, <1>2
     DEF RequestFault, store, IInv, TypeOK, SlotStep, TicketStep, CommentsStep
<1> QED BY <1>1, <1>2, <1>3, SlotInv, TaskInv, ClaimedInv
        DEF IInv, RequestFault

LEMMA BackgroundFaultInv ==
  ASSUME IInv, NEW t \in Tickets, BackgroundFault(t)
  PROVE  IInv'
<1>1. ticket[t] # None
  BY DEF BackgroundFault, BgAt, IInv, Working
<1>2. \/ BgGoto(t, "classify") \/ BgGoto(t, "lost")
  BY DEF BackgroundFault
<1>3. /\ UNCHANGED <<role, ticket, comments, log, req, claimed, issued, crashes>>
      /\ faults' \in Nat
  BY DEF BackgroundFault, store, IInv, TypeOK
<1> QED BY <1>1, <1>2, <1>3, BgGotoInv DEF AutoPcs

LEMMA CrashInv == ASSUME IInv, Crash PROVE IInv'
<1>1. req' \in [Slots -> Request] /\ bg' \in [Tickets -> Task]
  <2>1. [Off EXCEPT !.pc = "lost"] \in Task
    BY OffTyped
  <2>2. bg \in [Tickets -> Task]
    BY DEF IInv, TypeOK
  <2>3. bg' \in [Tickets -> Task]
    BY <2>1, <2>2 DEF Crash
  <2> QED BY <2>3, IdleTyped DEF Crash
<1>2. TypeOK'
  <2>1. /\ UNCHANGED <<role, ticket, comments, log, claimed, issued, faults>>
        /\ crashes' = crashes + 1
    BY DEF Crash, store
  <2> QED BY <1>1, <2>1 DEF IInv, TypeOK
<1>3. \A p \in Slots : Fits(req'[p], ticket') /\ Seen(req'[p], comments')
  BY IdleTyped DEF Crash
<1>4. \A t \in Tickets : Working(bg'[t], ticket'[t])
  <2> SUFFICES ASSUME NEW t \in Tickets PROVE Working(bg'[t], ticket'[t])
    OBVIOUS
  <2>1. CASE bg[t].pc \in {"off", "done"}
    BY <2>1 DEF Crash, store, IInv, Working
  <2>2. CASE bg[t].pc \notin {"off", "done"}
    BY <2>2, OffTyped DEF Crash, Working, AutoPcs
  <2> QED BY <2>1, <2>2
<1>5. ClaimedOnce'
  BY ClaimedInv, SameTickets DEF Crash, store
<1> QED BY <1>2, <1>3, <1>4, <1>5 DEF IInv

----------------------------------------------------------------------------
(* Type correctness and the claims *)

LEMMA NextIInv == IInv /\ [Next]_vars => IInv'
<1> SUFFICES ASSUME IInv, [Next]_vars PROVE IInv'
  OBVIOUS
<1>1. ASSUME NEW p \in Slots, Requests(p) PROVE IInv'
  <2>1. ASSUME NEW u \in Users, NEW t \in Tickets, NEW x \in Statuses \cup {None},
               NEW text \in PatchTexts(u, t), PatchArrive(p, u, t, x, text)
        PROVE  IInv'
    <3>1. [on |-> t, by |-> u, staff |-> IsStaff(u), via |-> "patch"] \in Text
      <4>1. IsStaff(u) \in BOOLEAN
        BY DEF IsStaff
      <4>2. ASSUME NEW b \in BOOLEAN
            PROVE  [on |-> t, by |-> u, staff |-> b, via |-> "patch"] \in Text
        BY DEF Text
      <4> QED BY <4>1, <4>2
    <3>2. text \in Resolution
      BY <3>1 DEF PatchTexts, Resolution
    <3> QED BY <2>1, <3>2, PatchArriveInv
  <2> QED BY <1>1, <2>1, ClaimRankInv, CreateInsertInv, AssignArriveInv,
             CommentArriveInv DEF Requests
<1>2. ASSUME NEW p \in Slots, Handlers(p) PROVE IInv'
  BY <1>2, CreateLogInv, PatchReadInv, PatchLogInv, PatchRepliesInv,
     PatchRolesInv, PatchRejectInv, PatchWriteInv, AssignAgentInv,
     AssignWriteInv, AssignLogInv, ClaimTryInv, ClaimNothingInv, ClaimLogInv,
     CommentReadInv, CommentInsertInv, CommentLogInv, CommentRememberInv
     DEF Handlers
<1>3. ASSUME NEW t \in Tickets, Background(t) PROVE IInv'
  BY <1>3, QuietInv, AutoTakeInv, AutoReplyInv, AutoLogInv, ClassifyInv
     DEF Background
<1>4. ASSUME UNCHANGED vars PROVE IInv'
  BY <1>4, StillInv DEF vars, IInv, TypeOK
<1> QED BY <1>1, <1>2, <1>3, <1>4, RequestFaultInv, BackgroundFaultInv,
           ChangeRoleInv, CrashInv DEF Next

LEMMA Inductive == Spec => []IInv
BY InitIInv, NextIInv, PTL DEF Spec

\* Whatever the requests, role changes, failures and crashes, every document,
\* request and background task has its type.
THEOREM TypeCorrect == Spec => []TypeOK
<1>1. IInv => TypeOK
  BY DEF IInv
<1> QED BY <1>1, Inductive, PTL

\* claim_next hands a ticket out at most once, and the claimed ticket keeps an
\* agent: no double assignment, for any number of agents and requests.
THEOREM NoDoubleClaim == Spec => []ClaimedOnce
<1>1. IInv => ClaimedOnce
  BY DEF IInv
<1> QED BY <1>1, Inductive, PTL
----------------------------------------------------------------------------
(* The course of a ticket: its audit trail, the AI's reply, its log *)

Early == {"off", "check", "recall", "ask"}

\* How far the background task is, from the ticket and its comments.
Stage(t) ==
  /\ bg[t].pc # "off" => Exists(t)
  /\ Exists(t) /\ bg[t].pc \in Early => ticket[t].auto = None
  /\ bg[t].pc = "reply" => ticket[t].auto # None
  /\ bg[t].pc \in Early \cup {"reply"} => AIReplies(t) = {}
  /\ AIReplies(t) # {} => Exists(t) /\ ticket[t].auto # None
  /\ \A i, j \in AIReplies(t) : i = j

\* A ticket whose creation was not logged yet has no task, and one request
\* only that will start it.
Starting(p, t) == req[p].pc = "create.log" /\ req[p].ticket = t
Starts ==
  \A t \in Tickets, p \in Slots : Starting(p, t) =>
    bg[t].pc = "off" /\ \A q \in Slots : Starting(q, t) => q = p

\* What a handler is about to write was logged.
Logged(r, lg) ==
  /\ r.pc \in {"patch.replies", "patch.roles", "patch.reject", "patch.write"}
     /\ r.target # None => "status_changed" \in lg[r.ticket]
  /\ r.reject => "auto_resolution_rejected" \in lg[r.ticket]

Course == /\ \A t \in Tickets : Stage(t)
          /\ Starts
          /\ \A p \in Slots : Logged(req[p], log)
          /\ LogExplainsTicket

\* What a step may do to a document the AI does not take.
DocStep(t) ==
  IF Exists(t)
  THEN /\ Exists(t)'
       /\ ticket'[t].status # "OPEN"
            => ticket[t].status # "OPEN" \/ "status_changed" \in log[t]
       /\ ticket[t].auto = None <=> ticket'[t].auto = None
       /\ ticket[t].auto # None =>
            /\ ticket'[t].auto.source = ticket[t].auto.source
            /\ ticket[t].auto.reopened => ticket'[t].auto.reopened
            /\ ticket'[t].auto.reopened =>
                 \/ ticket[t].auto.reopened
                 \/ "auto_resolution_rejected" \in log[t]
  ELSE Exists(t)' => ticket'[t].status = "OPEN" /\ ticket'[t].auto = None

\* ... and to its task and the AI's replies.
TaskKept(t) ==
  /\ bg'[t].pc \in Early => bg[t].pc \in Early
  /\ bg'[t].pc = "reply" => bg[t].pc = "reply"
  /\ bg'[t].pc # "off" => Exists(t)
Calm(t) == DocStep(t) /\ TaskKept(t) /\ AIReplies(t)' = AIReplies(t)

LEMMA SameDoc ==
  ASSUME IInv, NEW t \in Tickets, ticket'[t] = ticket[t]
  PROVE  DocStep(t)
BY DEF DocStep, Exists

LEMMA SameTask ==
  ASSUME Course, NEW t \in Tickets, bg'[t] = bg[t]
  PROVE  TaskKept(t)
BY DEF TaskKept, Course, Stage

LEMMA SameReplies ==
  ASSUME NEW t \in Tickets, comments'[t] = comments[t]
  PROVE  AIReplies(t)' = AIReplies(t)
BY DEF AIReplies

\* Steps that write no ticket, no comment, and leave the tasks alone.
LEMMA StillCalm ==
  ASSUME IInv, Course, UNCHANGED <<ticket, comments, bg>>
  PROVE  \A t \in Tickets : Calm(t)
BY SameDoc, SameTask, SameReplies DEF Calm

LEMMA CreateInsertCalm ==
  ASSUME IInv, Course, NEW p \in Slots, NEW u \in Users, NEW t \in Tickets,
         CreateInsert(p, u, t)
  PROVE  \A x \in Tickets : Calm(x)
<1>1. ticket' = [ticket EXCEPT ![t] = NewTicket(u)] /\ ~Exists(t)
      /\ UNCHANGED <<comments, bg>>
  BY DEF CreateInsert, SetTicket
<1>2. DocStep(t)
  BY <1>1 DEF DocStep, NewTicket, IInv, TypeOK
<1>3. \A x \in Tickets : x # t => DocStep(x)
  BY <1>1, SameDoc DEF IInv, TypeOK
<1> QED BY <1>1, <1>2, <1>3, SameTask, SameReplies DEF Calm

LEMMA PatchWriteCalm ==
  ASSUME IInv, Course, NEW p \in Slots, PatchWrite(p)
  PROVE  \A x \in Tickets : Calm(x)
<1>1. /\ req[p] \in Request /\ req[p].pc = "patch.write"
      /\ Fits(req[p], ticket) /\ Logged(req[p], log)
  BY DEF PatchWrite, At, IInv, TypeOK, Course
<1>2. PICK t \in Tickets : t = req[p].ticket
  BY <1>1 DEF Fits, Holds
<1> DEFINE r == req[p]
           doc == ticket[t]
           audit == IF r.reject THEN [doc.auto EXCEPT !.reopened = TRUE]
                                ELSE doc.auto
           status == IF r.target = None THEN doc.status ELSE r.target
           text == IF r.text = None THEN doc.resolution ELSE r.text
           written == [doc EXCEPT !.status = status, !.resolution = text,
                                  !.auto = audit]
<1>3. ticket' = [ticket EXCEPT ![t] = written] /\ UNCHANGED <<comments, bg>>
  BY <1>2 DEF PatchWrite, SetTicket
<1>4. doc \in Document /\ doc # None
  BY <1>1, <1>2 DEF Fits, Holds, IInv, TypeOK
<1>5. r.reject => doc.auto \in Audit
  BY <1>1, <1>2, <1>4 DEF Fits, Holds, Document
<1>6. /\ status \in Statuses /\ text \in Resolution
      /\ audit \in Audit \cup {None}
  BY <1>1, <1>4, <1>5 DEF Document, Request, Audit
<1>7. written \in Document /\ written.status = status /\ written.auto = audit
  <2> HIDE DEF status, audit, text, doc
  <2> QED BY <1>4, <1>6 DEF Document
<1>8. ticket'[t] = written /\ ticket'[t] # None
  BY <1>3, <1>4, <1>7 DEF IInv, TypeOK
<1>9. DocStep(t)
  <2>1. /\ status # doc.status => "status_changed" \in log[t]
        /\ r.reject => "auto_resolution_rejected" \in log[t]
    BY <1>1, <1>2 DEF Logged
  <2>2. /\ doc.auto = None <=> audit = None
        /\ doc.auto # None =>
             /\ audit.source = doc.auto.source
             /\ doc.auto.reopened => audit.reopened
             /\ audit.reopened => doc.auto.reopened \/ r.reject
    BY <1>4, <1>5 DEF Document, Audit
  <2> HIDE DEF status, audit, written
  <2> QED BY <1>4, <1>7, <1>8, <2>1, <2>2 DEF DocStep, Exists
<1>10. \A x \in Tickets : x # t => DocStep(x)
  <2> HIDE DEF written
  <2> QED BY <1>3, SameDoc DEF IInv, TypeOK
<1> QED BY <1>3, <1>9, <1>10, SameTask, SameReplies DEF Calm

\* Writes of a field that is neither the status nor the audit trail.
LEMMA FieldCalm ==
  ASSUME IInv, Course, NEW t \in Tickets, Exists(t), NEW doc,
         ticket' = [ticket EXCEPT ![t] = doc], doc # None,
         doc.status = ticket[t].status, doc.auto = ticket[t].auto
  PROVE  \A x \in Tickets : DocStep(x)
<1>1. DocStep(t)
  BY DEF DocStep, Exists, IInv, TypeOK
<1>2. \A x \in Tickets : x # t => DocStep(x)
  BY SameDoc DEF IInv, TypeOK
<1> QED BY <1>1, <1>2

LEMMA AssignWriteCalm ==
  ASSUME IInv, Course, NEW p \in Slots, AssignWrite(p)
  PROVE  \A x \in Tickets : Calm(x)
<1>1. PICK t \in Tickets : t = req[p].ticket /\ ticket[t] \in Document /\ Exists(t)
  BY DEF AssignWrite, At, IInv, TypeOK, Fits, Holds, Exists
<1> DEFINE doc == [ticket[t] EXCEPT !.assignedAgent = req[p].agent]
<1>2. ticket' = [ticket EXCEPT ![t] = doc] /\ UNCHANGED <<comments, bg>>
  BY <1>1 DEF AssignWrite, IInv, TypeOK
<1>3. /\ doc.status = ticket[t].status /\ doc.auto = ticket[t].auto
      /\ doc # None
  <2>1. req[p].agent \in Users
    BY DEF AssignWrite, At, IInv, TypeOK, Fits, Holds
  <2> QED BY <1>1, <2>1 DEF Document
<1>4. \A x \in Tickets : DocStep(x)
  <2> HIDE DEF doc
  <2> QED BY <1>1, <1>2, <1>3, FieldCalm
<1> QED BY <1>2, <1>4, SameTask, SameReplies DEF Calm

LEMMA ClaimTryCalm ==
  ASSUME IInv, Course, NEW p \in Slots, ClaimTry(p)
  PROVE  \A x \in Tickets : Calm(x)
<1>1. CASE UNCHANGED ticket
  BY <1>1, StillCalm DEF ClaimTry, TryClaim
<1>2. ASSUME NEW t \in Queue,
             ticket' = [ticket EXCEPT ![t].assignedAgent = req[p].user]
      PROVE  \A x \in Tickets : Calm(x)
  <2> DEFINE doc == [ticket[t] EXCEPT !.assignedAgent = req[p].user]
  <2>1. t \in Tickets /\ Exists(t) /\ ticket[t] \in Document
    BY DEF Queue, InQueue, Exists, IInv, TypeOK
  <2>2. req[p].user \in Users
    BY DEF ClaimTry, TryClaim, At, IInv, Fits
  <2>3. ticket' = [ticket EXCEPT ![t] = doc]
    BY <1>2, <2>1 DEF IInv, TypeOK
  <2>4. /\ doc.status = ticket[t].status /\ doc.auto = ticket[t].auto
        /\ doc # None
    BY <2>1, <2>2 DEF Document
  <2>5. \A x \in Tickets : DocStep(x)
    <3> HIDE DEF doc
    <3> QED BY <2>1, <2>3, <2>4, FieldCalm
  <2> QED BY <2>5, SameTask, SameReplies DEF Calm, ClaimTry, TryClaim
<1> QED BY <1>1, <1>2 DEF ClaimTry, TryClaim

LEMMA CommentRememberCalm ==
  ASSUME IInv, Course, NEW p \in Slots, CommentRemember(p)
  PROVE  \A x \in Tickets : Calm(x)
<1>1. PICK t \in Tickets : t = req[p].ticket /\ ticket[t] \in Document /\ Exists(t)
  BY DEF CommentRemember, At, IInv, TypeOK, Fits, Holds, Exists
<1> DEFINE doc == [ticket[t] EXCEPT !.resolution = req[p].text]
<1>2. ticket' = [ticket EXCEPT ![t] = doc] /\ UNCHANGED <<comments, bg>>
  BY <1>1 DEF CommentRemember, IInv, TypeOK
<1>3. /\ doc.status = ticket[t].status /\ doc.auto = ticket[t].auto
      /\ doc # None
  <2>1. req[p].text \in Resolution
    BY DEF IInv, TypeOK, Request
  <2> QED BY <1>1, <2>1 DEF Document
<1>4. \A x \in Tickets : DocStep(x)
  <2> HIDE DEF doc
  <2> QED BY <1>1, <1>2, <1>3, FieldCalm
<1> QED BY <1>2, <1>4, SameTask, SameReplies DEF Calm

LEMMA ClassifyCalm ==
  ASSUME IInv, Course, NEW t \in Tickets, Classify(t)
  PROVE  \A x \in Tickets : Calm(x)
<1>1. ticket[t] \in Document /\ Exists(t)
  BY DEF Classify, BgAt, IInv, TypeOK, Working, Exists
<1>2. PICK s \in {"ok", "unavailable"} :
        ticket' = [ticket EXCEPT ![t].ai = s]
  BY DEF Classify
<1> DEFINE doc == [ticket[t] EXCEPT !.ai = s]
<1>3. /\ doc.status = ticket[t].status /\ doc.auto = ticket[t].auto
      /\ doc # None
  BY <1>1 DEF Document
<1>4. \A x \in Tickets : DocStep(x)
  <2>1. ticket' = [ticket EXCEPT ![t] = doc]
    BY <1>2 DEF IInv, TypeOK
  <2> HIDE DEF doc
  <2> QED BY <1>1, <1>3, <2>1, FieldCalm
<1>5. \A x \in Tickets : TaskKept(x)
  <2>1. bg'[t].pc = "done" /\ \A x \in Tickets : x # t => bg'[x] = bg[x]
    BY DEF Classify, BgGoto, Off, IInv, TypeOK
  <2>2. TaskKept(t)
    BY <1>1, <2>1 DEF TaskKept, Early
  <2> QED BY <2>1, <2>2, SameTask
<1> QED BY <1>4, <1>5, SameReplies DEF Calm, Classify

LEMMA CommentInsertCalm ==
  ASSUME IInv, Course, NEW p \in Slots, CommentInsert(p)
  PROVE  \A x \in Tickets : Calm(x)
<1>1. PICK t \in Tickets : t = req[p].ticket /\ req[p].user \in Users
  BY DEF CommentInsert, At, IInv, TypeOK, Fits, Holds
<1> DEFINE c == [author |-> req[p].user, text |-> req[p].text,
                 internal |-> req[p].internal]
<1>2. comments' = [comments EXCEPT ![t] = Append(@, c)] /\ UNCHANGED <<ticket, bg>>
  BY <1>1 DEF CommentInsert
<1>3. AIReplies(t)' = AIReplies(t)
  <2>1. comments[t] \in Seq(Comment) /\ c.author # AI
    BY <1>1 DEF IInv, TypeOK
  <2> HIDE DEF c
  <2>2. comments'[t] = Append(comments[t], c)
    BY <1>2 DEF IInv, TypeOK
  <2>3. /\ Len(comments'[t]) = Len(comments[t]) + 1
        /\ comments'[t][Len(comments[t]) + 1] = c
        /\ \A i \in 1 .. Len(comments[t]) : comments'[t][i] = comments[t][i]
        /\ DOMAIN comments'[t] = 1 .. Len(comments[t]) + 1
        /\ DOMAIN comments[t] = 1 .. Len(comments[t]) /\ Len(comments[t]) \in Nat
    BY <2>1, <2>2
  <2> QED BY <2>1, <2>3 DEF AIReplies
<1>4. \A x \in Tickets : x # t => AIReplies(x)' = AIReplies(x)
  <2> HIDE DEF c
  <2> QED BY <1>2, SameReplies DEF IInv, TypeOK
<1> QED BY <1>2, <1>3, <1>4, SameDoc, SameTask DEF Calm

\* Steps of a task that write neither the ticket nor a comment.
LEMMA TaskCalm ==
  ASSUME IInv, Course, NEW t \in Tickets, Exists(t),
         UNCHANGED <<ticket, comments>>,
         \A x \in Tickets : x # t => bg'[x] = bg[x],
         bg'[t].pc \in Early => bg[t].pc \in Early, bg'[t].pc # "reply"
  PROVE  \A x \in Tickets : Calm(x)
BY SameDoc, SameTask, SameReplies DEF Calm, TaskKept

LEMMA CreateLogCalm ==
  ASSUME IInv, Course, NEW p \in Slots, CreateLog(p)
  PROVE  \A x \in Tickets : Calm(x)
<1>1. PICK t \in Tickets : Starting(p, t) /\ Exists(t)
  BY DEF CreateLog, At, IInv, TypeOK, Fits, Holds, Exists, Starting
<1>2. /\ bg' = [bg EXCEPT ![t] = [Off EXCEPT !.pc = "check"]]
      /\ UNCHANGED <<ticket, comments>>
  BY <1>1 DEF CreateLog, Starting
<1>3. bg'[t].pc = "check" /\ \A x \in Tickets : x # t => bg'[x] = bg[x]
  BY <1>2 DEF IInv, TypeOK, Off
<1>4. bg[t].pc \in Early
  BY <1>1 DEF Course, Starts, Early
<1> QED BY <1>1, <1>2, <1>3, <1>4, TaskCalm

LEMMA QuietCalm ==
  ASSUME IInv, Course, NEW t \in Tickets,
         AutoCheck(t) \/ AutoRecall(t) \/ AutoNoMatch(t) \/ AutoBeaten(t)
           \/ AutoLog(t) \/ BackgroundFault(t)
  PROVE  \A x \in Tickets : Calm(x)
<1>1. UNCHANGED <<ticket, comments>>
  BY DEF AutoCheck, AutoRecall, AutoNoMatch, AutoBeaten, AutoLog,
         BackgroundFault, store
<1>2. Exists(t) /\ bg \in [Tickets -> Task]
  BY DEF AutoCheck, AutoRecall, AutoNoMatch, AutoBeaten, AutoLog, BgAt,
         BackgroundFault, IInv, TypeOK, Working, AutoPcs, Exists
<1>3. /\ \A x \in Tickets : x # t => bg'[x] = bg[x]
      /\ bg'[t].pc \in Early => bg[t].pc \in Early
      /\ bg'[t].pc # "reply"
  <2>1. ASSUME NEW pc \in {"classify", "lost"}, BgGoto(t, pc)
        PROVE  <1>3!1 /\ <1>3!2 /\ <1>3!3
    BY <1>2, <2>1 DEF BgGoto, Off, Early
  <2>2. CASE BgGoto(t, "recall") /\ BgAt(t, "check")
    BY <1>2, <2>2 DEF BgGoto, BgAt, Off, Early
  <2>3. ASSUME BgAt(t, "recall"), NEW k,
               bg' = [bg EXCEPT ![t] = [@ EXCEPT !.pc = "ask", !.found = k]]
        PROVE  <1>3!1 /\ <1>3!2 /\ <1>3!3
    <3>1. bg'[t] = [bg[t] EXCEPT !.pc = "ask", !.found = k] /\ bg[t] \in Task
      BY <1>2, <2>3
    <3>2. bg'[t].pc = "ask"
      BY <3>1 DEF Task
    <3> QED BY <1>2, <2>3, <3>2 DEF BgAt, Early
  <2> QED BY <2>1, <2>2, <2>3
          DEF AutoCheck, AutoRecall, AutoNoMatch, AutoBeaten, AutoLog, BackgroundFault
<1> QED BY <1>1, <1>2, <1>3, TaskCalm

LEMMA CrashCalm ==
  ASSUME IInv, Course, Crash
  PROVE  \A x \in Tickets : Calm(x)
<1>1. UNCHANGED <<ticket, comments>>
  BY DEF Crash, store
<1>2. ASSUME NEW x \in Tickets PROVE TaskKept(x)
  <2>1. CASE bg'[x] = bg[x]
    BY <2>1, SameTask
  <2>2. CASE bg'[x] # bg[x]
    <3>1. bg'[x].pc = "lost" /\ bg[x].pc # "off"
      BY <2>2, OffTyped DEF Crash, Off
    <3> QED BY <3>1 DEF TaskKept, Early, Course, Stage
  <2> QED BY <2>1, <2>2
<1> QED BY <1>1, <1>2, SameDoc, SameReplies DEF Calm

\* A step of the desk is calm for every ticket but the one the AI takes or
\* answers.
LEMMA AutoTakeCalm ==
  ASSUME IInv, Course, NEW t \in Tickets, AutoTake(t)
  PROVE  \A x \in Tickets : x # t => Calm(x)
<1>1. /\ \A x \in Tickets : x # t => ticket'[x] = ticket[x] /\ bg'[x] = bg[x]
      /\ UNCHANGED comments
  BY DEF AutoTake, TakeFromQueue, SetTicket, IInv, TypeOK
<1> QED BY <1>1, SameDoc, SameTask, SameReplies DEF Calm

LEMMA AutoReplyCalm ==
  ASSUME IInv, Course, NEW t \in Tickets, AutoReply(t)
  PROVE  \A x \in Tickets : x # t => Calm(x)
<1>1. \A x \in Tickets : x # t => /\ ticket'[x] = ticket[x] /\ bg'[x] = bg[x]
                                  /\ comments'[x] = comments[x]
  BY DEF AutoReply, BgGoto, IInv, TypeOK
<1> QED BY <1>1, SameDoc, SameTask, SameReplies DEF Calm

LEMMA StepCalm ==
  ASSUME IInv, Course, [Next]_vars
  PROVE  \A t \in Tickets : Calm(t) \/ AutoTake(t) \/ AutoReply(t)
<1>1. ASSUME NEW p \in Slots, Requests(p)
      PROVE  \A t \in Tickets : Calm(t)
  BY <1>1, StillCalm, CreateInsertCalm
     DEF Requests, ClaimRank, PatchArrive, AssignArrive, CommentArrive, store
<1>2. ASSUME NEW p \in Slots, Handlers(p)
      PROVE  \A t \in Tickets : Calm(t)
  <2>1. ASSUME PatchRead(p) \/ PatchLog(p) \/ PatchReplies(p) \/ PatchRoles(p)
                 \/ PatchReject(p) \/ AssignAgent(p) \/ AssignLog(p)
                 \/ ClaimNothing(p) \/ ClaimLog(p) \/ CommentRead(p)
                 \/ CommentLog(p)
        PROVE  UNCHANGED <<ticket, comments, bg>>
    BY <2>1 DEF PatchRead, PatchLog, PatchReplies, PatchRoles, PatchReject,
       AssignAgent, AssignLog, ClaimNothing, ClaimLog, CommentRead, CommentLog,
       store
  <2> QED BY <1>2, <2>1, StillCalm, CreateLogCalm, PatchWriteCalm,
             AssignWriteCalm, ClaimTryCalm, CommentInsertCalm,
             CommentRememberCalm DEF Handlers
<1>3. ASSUME NEW t \in Tickets, Background(t) \/ BackgroundFault(t)
      PROVE  \A x \in Tickets : Calm(x) \/ AutoTake(x) \/ AutoReply(x)
  BY <1>3, QuietCalm, AutoTakeCalm, AutoReplyCalm, ClassifyCalm DEF Background
<1>4. ASSUME (\E p \in Slots : RequestFault(p)) \/ UNCHANGED vars
             \/ \E u \in Users, to \in Roles : ChangeRole(u, to)
      PROVE  \A t \in Tickets : Calm(t)
  BY <1>4, StillCalm DEF RequestFault, ChangeRole, vars, store
<1> QED BY <1>1, <1>2, <1>3, <1>4, CrashCalm DEF Next

\* The AI takes a ticket that nobody has, and that it never took before.
LEMMA TakeStep ==
  ASSUME IInv, Course, NEW t \in Tickets, AutoTake(t)
  PROVE  /\ Exists(t) /\ Exists(t)'
         /\ ticket[t].auto = None /\ ticket[t].assignedAgent = None
         /\ ticket'[t].auto # None /\ ~ticket'[t].auto.reopened
         /\ bg[t].pc = "ask" /\ bg'[t].pc = "reply"
         /\ UNCHANGED <<comments, log, req>>
<1>1. bg[t].pc = "ask" /\ AutoTakeFilter(t) /\ UNCHANGED <<comments, log, req>>
  BY DEF AutoTake, TakeFromQueue, BgAt
<1>2. Exists(t) /\ ticket[t] \in Document /\ bg \in [Tickets -> Task]
  BY <1>1 DEF IInv, TypeOK, Working, AutoPcs, Exists
<1>3. ticket[t].auto = None /\ ticket[t].assignedAgent = None
  BY <1>1, <1>2 DEF Course, Stage, Early, AutoTakeFilter
<1>4. PICK c \in bg[t].found :
        /\ ticket' = [ticket EXCEPT ![t] =
              [ticket[t] EXCEPT !.status = AutoTarget,
                                !.resolution = c.resolution,
                                !.auto = [source |-> c.ticket,
                                          reopened |-> FALSE]]]
        /\ bg' = [bg EXCEPT ![t] = [Off EXCEPT !.pc = "reply",
                                               !.answer = c.resolution]]
  BY DEF AutoTake, TakeFromQueue, SetTicket
<1>5. c \in Answer
  BY <1>2 DEF Task
<1>6. bg'[t].pc = "reply"
  BY <1>2, <1>4 DEF Off
<1> DEFINE audit == [source |-> c.ticket, reopened |-> FALSE]
<1>7. audit \in Audit /\ c.resolution \in Resolution /\ AutoTarget \in Statuses
  BY <1>5 DEF Audit, Answer, Resolution, AutoTarget, Statuses
<1>8. ticket'[t] \in Document /\ ticket'[t].auto = audit
  <2>1. ticket'[t] = [ticket[t] EXCEPT !.status = AutoTarget,
                        !.resolution = c.resolution, !.auto = audit]
    BY <1>4 DEF IInv, TypeOK
  <2> HIDE DEF audit
  <2> QED BY <1>2, <1>7, <2>1 DEF Document
<1>9. Exists(t)' /\ ticket'[t].auto # None /\ ~ticket'[t].auto.reopened
  <2>1. audit.reopened = FALSE
    OBVIOUS
  <2> HIDE DEF audit
  <2>2. ticket'[t] # None /\ ticket'[t].auto # None
    BY <1>7, <1>8
  <2> QED BY <1>8, <2>1, <2>2 DEF Exists
<1> QED BY <1>1, <1>2, <1>3, <1>6, <1>9

LEMMA ReplyStep ==
  ASSUME IInv, Course, NEW t \in Tickets, AutoReply(t)
  PROVE  /\ bg[t].pc = "reply" /\ bg'[t].pc = "log"
         /\ UNCHANGED <<ticket, log, req>>
         /\ AIReplies(t)' = {Len(comments[t]) + 1}
         /\ comments'[t][Len(comments[t]) + 1].author = AI
         /\ comments'[t][Len(comments[t]) + 1].text = bg[t].answer
<1> DEFINE c == [author |-> AI, text |-> bg[t].answer, internal |-> FALSE]
<1>1. /\ bg[t].pc = "reply" /\ UNCHANGED <<ticket, log, req>>
      /\ comments' = [comments EXCEPT ![t] = Append(@, c)]
      /\ BgGoto(t, "log")
  BY DEF AutoReply, BgAt
<1>2. bg'[t].pc = "log"
  BY <1>1 DEF BgGoto, Off, IInv, TypeOK
<1>3. AIReplies(t) = {}
  BY <1>1 DEF Course, Stage
<1>4. bg[t].answer \in Text
  BY <1>1 DEF IInv, TypeOK, Working, Task
<1>5. comments[t] \in Seq(Comment) /\ c.author = AI /\ c.text = bg[t].answer
  BY DEF IInv, TypeOK
<1> HIDE DEF c
<1>6. comments'[t] = Append(comments[t], c)
  BY <1>1 DEF IInv, TypeOK
<1>7. /\ comments'[t][Len(comments[t]) + 1] = c
      /\ \A i \in 1 .. Len(comments[t]) : comments'[t][i] = comments[t][i]
      /\ DOMAIN comments'[t] = 1 .. Len(comments[t]) + 1
      /\ DOMAIN comments[t] = 1 .. Len(comments[t]) /\ Len(comments[t]) \in Nat
  BY <1>5, <1>6
<1>8. AIReplies(t)' = {Len(comments[t]) + 1}
  <2>1. \A i \in 1 .. Len(comments[t]) : comments'[t][i].author # AI
    BY <1>3, <1>7 DEF AIReplies
  <2> QED BY <1>5, <1>7, <2>1 DEF AIReplies
<1> QED BY <1>1, <1>2, <1>5, <1>7, <1>8

LEMMA StageInv ==
  ASSUME IInv, Course, [Next]_vars, NEW t \in Tickets
  PROVE  Stage(t)'
<1>1. CASE Calm(t)
  <2>1. DocStep(t) /\ TaskKept(t) /\ AIReplies(t)' = AIReplies(t) /\ Stage(t)
    BY <1>1 DEF Calm, Course
  <2>2. Exists(t) => Exists(t)'
    BY <2>1 DEF DocStep
  <2>3. bg[t].pc # "off" => Exists(t)
    BY <2>1 DEF Stage
  <2>4. Exists(t)' /\ bg'[t].pc \in Early => ticket'[t].auto = None
    BY <2>1 DEF DocStep, TaskKept, Stage
  <2>5. bg'[t].pc = "reply" => ticket'[t].auto # None
    BY <2>1, <2>3 DEF DocStep, TaskKept, Stage
  <2>6. AIReplies(t) # {} => Exists(t)' /\ ticket'[t].auto # None
    BY <2>1 DEF DocStep, Stage
  <2>7. bg'[t].pc \in Early \cup {"reply"} => AIReplies(t) = {}
    BY <2>1 DEF TaskKept, Stage
  <2>8. bg'[t].pc # "off" => Exists(t)'
    BY <2>1, <2>2 DEF TaskKept
  <2>9. \A i, j \in AIReplies(t) : i = j
    BY <2>1 DEF Stage
  <2> QED BY <2>1, <2>4, <2>5, <2>6, <2>7, <2>8, <2>9 DEF Stage
<1>2. CASE AutoTake(t)
  <2>1. AIReplies(t) = {}
    BY <1>2, TakeStep DEF Course, Stage, Early
  <2>2. AIReplies(t)' = AIReplies(t)
    BY <1>2, TakeStep, SameReplies
  <2> QED BY <1>2, <2>1, <2>2, TakeStep DEF Stage, Early
<1>3. CASE AutoReply(t)
  <2>1. Exists(t) /\ ticket[t].auto # None
    BY <1>3, ReplyStep DEF Course, Stage
  <2>2. Exists(t)' /\ ticket'[t].auto # None
    BY <1>3, <2>1, ReplyStep DEF Exists
  <2> QED BY <1>3, <2>2, ReplyStep DEF Stage, Early
<1> QED BY <1>1, <1>2, <1>3, StepCalm

----------------------------------------------------------------------------
(* The log *)

LEMMA LogGrows ==
  ASSUME IInv, [Next]_vars, NEW t \in Tickets
  PROVE  log[t] \subseteq log'[t]
<1>1. ASSUME NEW p \in Slots, Requests(p) \/ Handlers(p) \/ RequestFault(p)
      PROVE  UNCHANGED log \/ \E x, action : Log(x, action)
  BY <1>1 DEF Requests, ClaimRank, CreateInsert, PatchArrive, AssignArrive,
     CommentArrive, Handlers, CreateLog, PatchRead, PatchLog, PatchReplies,
     PatchRoles, PatchReject, PatchWrite, AssignAgent, AssignWrite, AssignLog,
     ClaimTry, TryClaim, ClaimNothing, ClaimLog, CommentRead, CommentInsert,
     CommentLog, CommentRemember, RequestFault, store
<1>2. ASSUME NEW x \in Tickets, Background(x) \/ BackgroundFault(x)
      PROVE  UNCHANGED log \/ \E action : Log(x, action)
  BY <1>2 DEF Background, AutoCheck, AutoRecall, AutoNoMatch, AutoTake,
     TakeFromQueue, AutoBeaten, AutoReply, AutoLog, Classify, BackgroundFault,
     store
<1>3. UNCHANGED log \/ \E x, action : Log(x, action)
  BY <1>1, <1>2 DEF Next, ChangeRole, Crash, vars, store
<1>4. ASSUME NEW x, NEW action, Log(x, action)
      PROVE  log[t] \subseteq log'[t]
  <2>1. log' = [log EXCEPT ![x] = log[x] \cup {action}] /\ DOMAIN log = Tickets
    BY <1>4 DEF Log, IInv, TypeOK
  <2>2. log'[t] = log[t] \/ log'[t] = log[t] \cup {action}
    BY <2>1
  <2> QED BY <2>2
<1> QED BY <1>3, <1>4

\* What a step makes of the request of a slot that does not move.
LEMMA LoggedKept ==
  ASSUME IInv, [Next]_vars, NEW r \in Request, Logged(r, log), Fits(r, ticket)
  PROVE  Logged(r, log')
BY LogGrows DEF Logged, Fits, Holds

\* A request that is over, or has only arrived, has nothing to write.
Fresh(r) ==
  /\ r.pc \notin {"patch.replies", "patch.roles", "patch.reject", "patch.write"}
  /\ ~r.reject

LEMMA IdleFresh == Fresh(Idle)
BY DEF Fresh, Idle

LEMMA ArriveFresh ==
  ASSUME IInv, NEW p \in Slots, Requests(p)
  PROVE  /\ \A q \in Slots : q # p => req'[q] = req[q]
         /\ Fresh(req'[p])
         /\ \A t \in Tickets : Starting(p, t)' => \E u \in Users : CreateInsert(p, u, t)
<1>1. ASSUME NEW u \in Users, NEW t \in Tickets, CreateInsert(p, u, t)
      PROVE  /\ \A q \in Slots : q # p => req'[q] = req[q]
             /\ req'[p].pc = "create.log" /\ req'[p].reject = FALSE
             /\ req'[p].ticket = t
  BY <1>1 DEF CreateInsert, Arrive, Idle, IInv, TypeOK
<1>2. ASSUME NEW u \in Users, ClaimRank(p, u)
      PROVE  /\ \A q \in Slots : q # p => req'[q] = req[q]
             /\ req'[p].pc = "claim.try" /\ req'[p].reject = FALSE
  BY <1>2 DEF ClaimRank, Arrive, Idle, IInv, TypeOK
<1>3. ASSUME NEW u \in Users, NEW t \in Tickets, NEW target, NEW text,
             PatchArrive(p, u, t, target, text)
      PROVE  /\ \A q \in Slots : q # p => req'[q] = req[q]
             /\ req'[p].pc = "patch.read" /\ req'[p].reject = FALSE
  BY <1>3 DEF PatchArrive, Arrive, Idle, IInv, TypeOK
<1>4. ASSUME NEW u \in Users, NEW t \in Tickets, NEW a \in Users,
             AssignArrive(p, u, t, a)
      PROVE  /\ \A q \in Slots : q # p => req'[q] = req[q]
             /\ req'[p].pc = "assign.agent" /\ req'[p].reject = FALSE
  BY <1>4 DEF AssignArrive, Arrive, Idle, IInv, TypeOK
<1>5. ASSUME NEW u \in Users, NEW t \in Tickets, NEW blank, NEW internal,
             CommentArrive(p, u, t, blank, internal)
      PROVE  /\ \A q \in Slots : q # p => req'[q] = req[q]
             /\ req'[p].pc = "comment.read" /\ req'[p].reject = FALSE
  BY <1>5 DEF CommentArrive, Arrive, Idle, IInv, TypeOK
<1>6. \A q \in Slots : q # p => req'[q] = req[q]
  BY <1>1, <1>2, <1>3, <1>4, <1>5 DEF Requests
<1>7. Fresh(req'[p])
  BY <1>1, <1>2, <1>3, <1>4, <1>5 DEF Requests, Fresh
<1>8. ASSUME NEW t \in Tickets, Starting(p, t)'
      PROVE  \E u \in Users : CreateInsert(p, u, t)
  BY <1>1, <1>2, <1>3, <1>4, <1>5, <1>8 DEF Requests, Starting
<1> QED BY <1>6, <1>7, <1>8

\* A handler leaves the other slots alone, creates no ticket, and logs before
\* it writes.
LEMMA HandlerLogs ==
  ASSUME IInv, Course, [Next]_vars, NEW p \in Slots, Handlers(p) \/ RequestFault(p)
  PROVE  /\ \A q \in Slots : q # p => req'[q] = req[q]
         /\ req'[p].pc # "create.log"
         /\ Logged(req'[p], log')
<1> DEFINE Kept == /\ \A q \in Slots : q # p => req'[q] = req[q]
                   /\ req'[p].pc # "create.log"
                   /\ Logged(req'[p], log')
           r == req[p]
<1>1. r \in Request /\ Fits(r, ticket) /\ Logged(r, log) /\ Logged(r, log')
  BY LoggedKept DEF IInv, TypeOK, Course
<1>2. CASE Finish(p)
  BY <1>2, IdleFresh DEF Finish, Fresh, Logged, Idle, IInv, TypeOK
<1>3. ASSUME NEW pc, Goto(p, pc), pc # "create.log",
             pc \in {"patch.replies", "patch.roles", "patch.reject", "patch.write"}
               /\ r.target # None => "status_changed" \in log'[r.ticket]
      PROVE  Kept
  <2>1. req'[p] = [r EXCEPT !.pc = pc] /\ \A q \in Slots : q # p => req'[q] = req[q]
    BY <1>3 DEF Goto, IInv, TypeOK
  <2>2. /\ req'[p].pc = pc /\ req'[p].reject = r.reject
        /\ req'[p].ticket = r.ticket /\ req'[p].target = r.target
    BY <1>1, <2>1 DEF Request
  <2> QED BY <1>1, <1>3, <2>1, <2>2 DEF Logged
<1>4. ASSUME PatchLog(p)
      PROVE  Kept
  <2>1. "status_changed" \in log'[r.ticket] /\ Goto(p, AfterStatusLog(r))
    BY <1>1, <1>4 DEF PatchLog, At, Log, Fits, Holds, IInv, TypeOK
  <2>2. AfterStatusLog(r) # "create.log"
    BY DEF AfterStatusLog
  <2> QED BY <1>3, <2>1, <2>2
<1>5. ASSUME PatchRead(p)
      PROVE  Kept
  <2>1. ASSUME req' = [req EXCEPT ![p] =
                  [@ EXCEPT !.pc = IF r.target = None THEN "patch.write"
                                                      ELSE "patch.log",
                            !.was = ticket[r.ticket].status,
                            !.live = LiveAudit(ticket[r.ticket])]]
        PROVE  Kept
    <3>1. /\ req'[p] = [r EXCEPT !.pc = IF r.target = None THEN "patch.write"
                                                            ELSE "patch.log",
                                 !.was = ticket[r.ticket].status,
                                 !.live = LiveAudit(ticket[r.ticket])]
          /\ \A q \in Slots : q # p => req'[q] = req[q]
      BY <2>1 DEF IInv, TypeOK
    <3>2. /\ req'[p].pc = IF r.target = None THEN "patch.write" ELSE "patch.log"
          /\ req'[p].reject = r.reject
          /\ req'[p].ticket = r.ticket /\ req'[p].target = r.target
      BY <1>1, <3>1 DEF Request
    <3> QED BY <1>1, <3>1, <3>2 DEF Logged
  <2> QED BY <1>2, <1>5, <2>1 DEF PatchRead
<1>6. ASSUME PatchReplies(p)
      PROVE  Kept
  <2>1. /\ req'[p] = [r EXCEPT !.pc = "patch.roles",
                               !.seen = Len(comments[r.ticket])]
        /\ \A q \in Slots : q # p => req'[q] = req[q]
        /\ r.pc = "patch.replies"
    BY <1>6 DEF PatchReplies, At, IInv, TypeOK
  <2>2. /\ req'[p].pc = "patch.roles" /\ req'[p].reject = r.reject
        /\ req'[p].ticket = r.ticket /\ req'[p].target = r.target
    BY <1>1, <2>1 DEF Request
  <2> QED BY <1>1, <2>1, <2>2 DEF Logged
<1>7. ASSUME PatchRoles(p)
      PROVE  Kept
  <2>1. ASSUME NEW text,
               req' = [req EXCEPT ![p] = [@ EXCEPT !.pc = "patch.write",
                                                   !.text = text]]
        PROVE  Kept
    <3>1. /\ req'[p] = [r EXCEPT !.pc = "patch.write", !.text = text]
          /\ \A q \in Slots : q # p => req'[q] = req[q]
          /\ r.pc = "patch.roles"
      BY <1>7, <2>1 DEF PatchRoles, At, IInv, TypeOK
    <3>2. /\ req'[p].pc = "patch.write" /\ req'[p].reject = r.reject
          /\ req'[p].ticket = r.ticket /\ req'[p].target = r.target
      BY <1>1, <3>1 DEF Request
    <3> QED BY <1>1, <3>1, <3>2 DEF Logged
  <2>2. CASE Goto(p, "patch.write")
    <3>1. r.target # None => "status_changed" \in log'[r.ticket]
      BY <1>1, <1>7 DEF PatchRoles, At, Logged
    <3> QED BY <1>3, <2>2, <3>1
  <2> QED BY <1>7, <2>1, <2>2 DEF PatchRoles
<1>8. ASSUME PatchReject(p)
      PROVE  Kept
  <2>1. /\ req'[p] = [r EXCEPT !.pc = "patch.write", !.reject = TRUE]
        /\ \A q \in Slots : q # p => req'[q] = req[q]
        /\ r.pc = "patch.reject" /\ Log(r.ticket, "auto_resolution_rejected")
    BY <1>8 DEF PatchReject, At, IInv, TypeOK
  <2>2. /\ req'[p].pc = "patch.write" /\ req'[p].reject = TRUE
        /\ req'[p].ticket = r.ticket /\ req'[p].target = r.target
    BY <1>1, <2>1 DEF Request
  <2>3. "auto_resolution_rejected" \in log'[r.ticket]
    BY <1>1, <2>1 DEF Log, Fits, Holds, IInv, TypeOK
  <2> QED BY <1>1, <2>1, <2>2, <2>3 DEF Logged
<1>9. ASSUME ClaimTry(p)
      PROVE  Kept
  <2>1. ASSUME NEW t, req' = [req EXCEPT ![p] = [@ EXCEPT !.pc = "claim.log",
                                                  !.ticket = t, !.todo = {}]]
        PROVE  Kept
    <3>1. /\ req'[p] = [r EXCEPT !.pc = "claim.log", !.ticket = t, !.todo = {}]
          /\ \A q \in Slots : q # p => req'[q] = req[q]
      BY <2>1 DEF IInv, TypeOK
    <3>2. req'[p].pc = "claim.log" /\ req'[p].reject = r.reject
      BY <1>1, <3>1 DEF Request
    <3>3. ~r.reject
      BY <1>1, <1>9 DEF ClaimTry, TryClaim, At, Fits, Holds
    <3> QED BY <3>1, <3>2, <3>3 DEF Logged
  <2>2. ASSUME NEW t, req' = [req EXCEPT ![p].todo = @ \ {t}]
        PROVE  Kept
    <3>1. /\ req'[p] = [r EXCEPT !.todo = r.todo \ {t}]
          /\ \A q \in Slots : q # p => req'[q] = req[q]
          /\ r.pc = "claim.try"
      BY <1>9, <2>2 DEF ClaimTry, TryClaim, At, IInv, TypeOK
    <3>2. /\ req'[p].pc = "claim.try" /\ req'[p].reject = r.reject
          /\ req'[p].ticket = r.ticket /\ req'[p].target = r.target
      BY <1>1, <3>1 DEF Request
    <3> QED BY <1>1, <3>1, <3>2 DEF Logged
  <2> QED BY <1>9, <2>1, <2>2 DEF ClaimTry, TryClaim
<1>10. ASSUME CommentRead(p)
       PROVE  Kept
  <2>1. ASSUME NEW was, req' = [req EXCEPT ![p] =
                 [@ EXCEPT !.pc = "comment.insert", !.was = was]]
        PROVE  Kept
    <3>1. /\ req'[p] = [r EXCEPT !.pc = "comment.insert", !.was = was]
          /\ \A q \in Slots : q # p => req'[q] = req[q]
      BY <2>1 DEF IInv, TypeOK
    <3>2. /\ req'[p].pc = "comment.insert" /\ req'[p].reject = r.reject
          /\ req'[p].ticket = r.ticket
      BY <1>1, <3>1 DEF Request
    <3> QED BY <1>1, <3>1, <3>2 DEF Logged
  <2> QED BY <1>2, <1>10, <2>1 DEF CommentRead
<1>11. ASSUME AssignAgent(p) \/ AssignWrite(p) \/ CommentInsert(p) \/ CommentLog(p)
       PROVE  Kept
  <2>1. Finish(p) \/ \E pc \in {"assign.write", "assign.log", "comment.log",
                                "comment.remember"} : Goto(p, pc)
    BY <1>11 DEF AssignAgent, AssignWrite, CommentInsert, CommentLog
  <2> QED BY <1>2, <1>3, <2>1
<1>12. ASSUME CreateLog(p) \/ PatchWrite(p) \/ AssignLog(p) \/ ClaimNothing(p)
                \/ ClaimLog(p) \/ CommentRemember(p) \/ RequestFault(p)
       PROVE  Kept
  BY <1>2, <1>12 DEF CreateLog, PatchWrite, AssignLog, ClaimNothing, ClaimLog,
     CommentRemember, RequestFault
<1> QED BY <1>4, <1>5, <1>6, <1>7, <1>8, <1>9, <1>10, <1>11, <1>12 DEF Handlers

LEMMA OthersRest ==
  ASSUME IInv, Course, [Next]_vars, NEW p \in Slots, req'[p] = req[p]
  PROVE  Logged(req'[p], log')
BY LoggedKept DEF IInv, TypeOK, Course

LEMMA AllLogged ==
  ASSUME IInv, Course, [Next]_vars, NEW q \in Slots
  PROVE  Logged(req'[q], log')
<1>1. ASSUME NEW p \in Slots, Requests(p)
      PROVE  Logged(req'[q], log')
  BY <1>1, ArriveFresh, OthersRest DEF Fresh, Logged
<1>2. ASSUME NEW p \in Slots, Handlers(p) \/ RequestFault(p)
      PROVE  Logged(req'[q], log')
  BY <1>2, HandlerLogs, OthersRest
<1>3. ASSUME NEW t \in Tickets, Background(t) \/ BackgroundFault(t)
      PROVE  UNCHANGED req
  BY <1>3 DEF Background, AutoCheck, AutoRecall, AutoNoMatch, AutoTake,
     TakeFromQueue, AutoBeaten, AutoReply, AutoLog, Classify, BackgroundFault
<1>4. CASE Crash
  BY <1>4, IdleFresh DEF Crash, Fresh, Logged
<1> QED BY <1>1, <1>2, <1>3, <1>4, OthersRest DEF Next, ChangeRole, vars

LEMMA StartsInv ==
  ASSUME IInv, Course, [Next]_vars
  PROVE  Starts'
<1> SUFFICES ASSUME NEW t \in Tickets, NEW p \in Slots, Starting(p, t)'
             PROVE  bg'[t].pc = "off" /\ \A q \in Slots : Starting(q, t)' => q = p
  BY DEF Starts
\* A creation that was going on already.
<1>1. CASE Starting(p, t) /\ bg'[t].pc = "off"
           /\ \A q \in Slots : Starting(q, t)' => Starting(q, t)
  BY <1>1 DEF Course, Starts
<1>2. ASSUME UNCHANGED bg, \A q \in Slots : Starting(q, t)' => Starting(q, t)
      PROVE  bg'[t].pc = "off" /\ \A q \in Slots : Starting(q, t)' => q = p
  BY <1>1, <1>2 DEF Course, Starts
<1>3. ASSUME NEW s \in Slots, Requests(s)
      PROVE  bg'[t].pc = "off" /\ \A q \in Slots : Starting(q, t)' => q = p
  <2>1. \A q \in Slots : q # s /\ Starting(q, t)' => Starting(q, t)
    BY <1>3, ArriveFresh DEF Starting
  <2>2. UNCHANGED bg
    BY <1>3 DEF Requests, ClaimRank, CreateInsert, PatchArrive, AssignArrive,
       CommentArrive
  <2>3. CASE ~Starting(s, t)'
    BY <1>2, <2>1, <2>2, <2>3
  <2>4. ASSUME NEW u \in Users, CreateInsert(s, u, t)
        PROVE  bg'[t].pc = "off" /\ \A q \in Slots : Starting(q, t)' => q = p
    <3>1. ~Exists(t)
      BY <2>4 DEF CreateInsert
    <3>2. bg[t].pc = "off" /\ \A q \in Slots : ~Starting(q, t)
      BY <3>1 DEF Course, Stage, Starting, IInv, TypeOK, Fits, Holds, Exists
    <3> QED BY <2>1, <2>2, <3>2
  <2> QED BY <1>3, <2>3, <2>4, ArriveFresh
<1>4. ASSUME NEW s \in Slots, Handlers(s) \/ RequestFault(s)
      PROVE  bg'[t].pc = "off" /\ \A q \in Slots : Starting(q, t)' => q = p
  <2>1. \A q \in Slots : Starting(q, t)' => Starting(q, t) /\ q # s
    BY <1>4, HandlerLogs DEF Starting
  <2>2. CASE UNCHANGED bg
    BY <1>2, <2>1, <2>2
  <2>3. CASE CreateLog(s)
    <3>1. PICK x \in Tickets : Starting(s, x)
      BY <2>3 DEF CreateLog, At, IInv, TypeOK, Fits, Holds, Starting
    <3>2. x # t
      BY <2>1, <3>1 DEF Course, Starts
    <3>3. bg'[t] = bg[t]
      BY <2>3, <3>1, <3>2 DEF CreateLog, Starting, IInv, TypeOK
    <3> QED BY <2>1, <3>3 DEF Course, Starts
  <2> QED BY <1>4, <2>2, <2>3
          DEF Handlers, PatchRead, PatchLog, PatchReplies, PatchRoles,
              PatchReject, PatchWrite, AssignAgent, AssignWrite, AssignLog,
              ClaimTry, TryClaim, ClaimNothing, ClaimLog, CommentRead,
              CommentInsert, CommentLog, CommentRemember, RequestFault
<1>5. ASSUME NEW x \in Tickets, Background(x) \/ BackgroundFault(x)
      PROVE  bg'[t].pc = "off" /\ \A q \in Slots : Starting(q, t)' => q = p
  <2>1. UNCHANGED req
    BY <1>5 DEF Background, AutoCheck, AutoRecall, AutoNoMatch, AutoTake,
       TakeFromQueue, AutoBeaten, AutoReply, AutoLog, Classify, BackgroundFault
  <2>2. \A q \in Slots : Starting(q, t)' <=> Starting(q, t)
    BY <2>1 DEF Starting
  <2>3. bg[t].pc = "off"
    BY <2>2 DEF Course, Starts
  <2>4. bg[x].pc # "off"
    BY <1>5 DEF Background, AutoCheck, AutoRecall, AutoNoMatch, AutoTake,
       TakeFromQueue, AutoBeaten, AutoReply, AutoLog, Classify, BackgroundFault,
       BgAt, AutoPcs
  <2>5. \A y \in Tickets : y # x => bg'[y] = bg[y]
    BY <1>5 DEF Background, AutoCheck, AutoRecall, AutoNoMatch, AutoTake,
       TakeFromQueue, AutoBeaten, AutoReply, AutoLog, Classify, BackgroundFault,
       BgGoto, IInv, TypeOK
  <2> QED BY <1>1, <2>2, <2>3, <2>4, <2>5
<1>6. CASE Crash
  BY <1>6 DEF Crash, Starting, Idle
<1>7. CASE UNCHANGED vars \/ \E u \in Users, to \in Roles : ChangeRole(u, to)
  <2>1. UNCHANGED <<req, bg>>
    BY <1>7 DEF vars, ChangeRole
  <2> QED BY <1>2, <2>1 DEF Starting
<1> QED BY <1>3, <1>4, <1>5, <1>6, <1>7 DEF Next

LEMMA LogExplainsInv ==
  ASSUME IInv, Course, [Next]_vars
  PROVE  LogExplainsTicket'
<1> SUFFICES ASSUME NEW t \in Tickets, Exists(t)'
             PROVE  /\ ticket'[t].status # "OPEN"
                         => "status_changed" \in log'[t] \/ ticket'[t].auto # None
                    /\ ticket'[t].auto # None /\ ticket'[t].auto.reopened
                         => "auto_resolution_rejected" \in log'[t]
  BY DEF LogExplainsTicket
<1>1. log[t] \subseteq log'[t]
  BY LogGrows
<1>2. CASE Calm(t)
  BY <1>1, <1>2 DEF Calm, DocStep, Course, LogExplainsTicket
<1>3. CASE AutoTake(t)
  BY <1>3, TakeStep
<1>4. CASE AutoReply(t)
  BY <1>4, ReplyStep DEF Course, LogExplainsTicket, Exists
<1> QED BY <1>2, <1>3, <1>4, StepCalm

LEMMA InitCourse == Init => Course
<1> SUFFICES ASSUME Init PROVE Course
  OBVIOUS
<1>1. ASSUME NEW t \in Tickets PROVE Stage(t)
  <2>1. AIReplies(t) = {}
    <3>1. CASE t \in Answered
      <4>1. /\ comments[t] = <<[author |-> History[t].agent, text |-> OldReply(t),
                                internal |-> FALSE]>>
            /\ History[t].agent # AI
        BY <3>1 DEF Init, Answered
      <4> QED BY <4>1 DEF AIReplies
    <3>2. CASE t \notin Answered
      BY <3>2 DEF Init, AIReplies
    <3> QED BY <3>1, <3>2
  <2>2. CASE t \in DOMAIN History
    <3>1. bg[t].pc = "done" /\ ticket[t] = OldTicket(t)
      BY <2>2 DEF Init, Off
    <3>2. Exists(t)
      BY <2>2, <3>1, OldTicketTyped DEF Exists
    <3> QED BY <2>1, <3>1, <3>2 DEF Stage, Early
  <2>3. CASE t \notin DOMAIN History
    BY <2>1, <2>3 DEF Init, Off, Exists, Stage, Early
  <2> QED BY <2>2, <2>3
<1>2. Starts /\ \A p \in Slots : Logged(req[p], log)
  BY DEF Init, Idle, Starts, Starting, Logged
<1>3. LogExplainsTicket
  <2>1. ASSUME NEW t \in DOMAIN History
        PROVE  /\ OldTicket(t).status # "OPEN" => "status_changed" \in OldActions(t)
               /\ OldTicket(t).auto = None
    BY DEF OldTicket, NewTicket, OldActions
  <2> QED BY <2>1 DEF Init, LogExplainsTicket, Exists
<1> QED BY <1>1, <1>2, <1>3 DEF Course

LEMMA CourseInductive == Spec => [](IInv /\ Course)
<1>1. IInv /\ Course /\ [Next]_vars => Course'
  BY StageInv, StartsInv, AllLogged, LogExplainsInv DEF Course
<1> QED BY <1>1, InitIInv, NextIInv, InitCourse, PTL DEF Spec

\* Whatever fails in between, a status other than OPEN was logged or set by
\* the AI, and so was every rejection of its answer.
THEOREM LogIsComplete == Spec => []LogExplainsTicket
<1>1. Course => LogExplainsTicket
  BY DEF Course
<1> QED BY <1>1, CourseInductive, PTL

\* The AI never takes a ticket from an agent, and its audit trail and the mark
\* of a rejection are never lost.
THEOREM TheHumanWins == Spec => HumanWins
<1> DEFINE Wins(t) ==
      Exists(t) =>
       /\ Exists(t)'
       /\ ticket[t].auto = None /\ ticket'[t].auto # None
            => ticket[t].assignedAgent = None /\ claimed[t] = 0
       /\ ticket[t].auto # None
            => /\ ticket'[t].auto # None
               /\ ticket'[t].auto.source = ticket[t].auto.source
               /\ ticket[t].auto.reopened => ticket'[t].auto.reopened
<1>1. ASSUME IInv, Course, [Next]_vars, NEW t \in Tickets
      PROVE  Wins(t)
  <2>1. CASE Calm(t)
    BY <2>1 DEF Calm, DocStep
  <2>2. CASE AutoTake(t)
    <3>1. claimed[t] = 0
      <4>1. claimed[t] \in Nat /\ claimed[t] <= 1 /\ claimed[t] # 1
        BY <1>1, <2>2, TakeStep DEF IInv, TypeOK, ClaimedOnce
      <4> QED BY <4>1
    <3> QED BY <1>1, <2>2, <3>1, TakeStep
  <2>3. CASE AutoReply(t)
    BY <1>1, <2>3, ReplyStep DEF Exists
  <2> QED BY <1>1, <2>1, <2>2, <2>3, StepCalm
<1>2. IInv /\ Course /\ [Next]_vars => [\A t \in Tickets : Wins(t)]_vars
  BY <1>1
<1> QED BY <1>2, CourseInductive, PTL DEF Spec, HumanWins

----------------------------------------------------------------------------
(* Trust: from the comment to the snapshot, the candidate and the reply *)

\* Who is staff was staff before: without promotions, what somebody wrote as a
\* customer is never taken for an answer.
NobodyPromoted ==
  \A move \in RoleMoves : move[2] \in StaffRoles => move[1] \in StaffRoles

\* What may reach a customer a second time was no internal note and, where
\* nobody is promoted, was written by staff.
Reusable(text) == text.via # "note" /\ (NobodyPromoted => text.staff)
MayReuse(text) == text \notin {None, Blank} => Reusable(text)

PatchChecked == {"patch.log", "patch.replies", "patch.roles", "patch.reject",
                 "patch.write"}
Commenting == {"comment.read", "comment.insert", "comment.log"}

\* What a request carries: a text says who wrote it, and once it was checked it
\* may be reused.
Honest(p) ==
  /\ NobodyPromoted /\ req[p].pc # "idle" /\ IsStaff(req[p].user) => req[p].staff
  /\ req[p].pc \in Commenting \cup {"patch.read"} /\ req[p].text \notin {None, Blank}
       => /\ req[p].text.staff = req[p].staff
          /\ ~req[p].internal => req[p].text.via # "note"
  /\ req[p].pc = "patch.read" => ~req[p].internal
  /\ req[p].pc \in PatchChecked \cup {"comment.remember"} => MayReuse(req[p].text)

\* A public comment of a staff member, and a reply of the AI, may be reused.
On(t) == { comments[t][i] : i \in DOMAIN comments[t] }

HonestComment(c) ==
  /\ c.author # AI /\ ~c.internal /\ (NobodyPromoted => IsStaff(c.author))
       => MayReuse(c.text)
  /\ c.author = AI => Reusable(c.text)

HonestTask(t) ==
  /\ \A c \in bg[t].found : Reusable(c.resolution)
  /\ bg[t].answer # None => Reusable(bg[t].answer)

MemoryReusable ==
  \A t \in Tickets :
    Exists(t) /\ ticket[t].resolution \notin {None, Blank}
      => Reusable(ticket[t].resolution)

Trust ==
  /\ MemoryReusable
  /\ \A p \in Slots : Honest(p)
  /\ \A t \in Tickets : (\A c \in On(t) : HonestComment(c)) /\ HonestTask(t)

LEMMA RolesFall ==
  ASSUME IInv, NobodyPromoted, [Next]_vars, NEW u \in Users
  PROVE  IsStaff(u)' => IsStaff(u)
<1>1. ASSUME NEW v \in Users, NEW to \in Roles, ChangeRole(v, to)
      PROVE  IsStaff(u)' => IsStaff(u)
  <2>1. role' = [role EXCEPT ![v] = to] /\ role \in [Users -> Roles]
    BY <1>1 DEF ChangeRole, IInv, TypeOK
  <2>2. to \in StaffRoles => role[v] \in StaffRoles
    <3>1. <<role[v], to>> \in RoleMoves
      BY <1>1 DEF ChangeRole
    <3>2. <<role[v], to>>[2] \in StaffRoles => <<role[v], to>>[1] \in StaffRoles
      BY <3>1 DEF NobodyPromoted
    <3> QED BY <3>2
  <2> QED BY <2>1, <2>2 DEF IsStaff
<1>2. ASSUME UNCHANGED role
      PROVE  IsStaff(u)' => IsStaff(u)
  BY <1>2 DEF IsStaff
<1>3. ASSUME NEW p \in Slots, Requests(p) \/ Handlers(p) \/ RequestFault(p)
      PROVE  UNCHANGED role
  BY <1>3 DEF Requests, ClaimRank, CreateInsert, PatchArrive, AssignArrive,
     CommentArrive, Handlers, CreateLog, PatchRead, PatchLog, PatchReplies,
     PatchRoles, PatchReject, PatchWrite, AssignAgent, AssignWrite, AssignLog,
     ClaimTry, TryClaim, ClaimNothing, ClaimLog, CommentRead, CommentInsert,
     CommentLog, CommentRemember, RequestFault, store
<1>4. ASSUME NEW x \in Tickets, Background(x) \/ BackgroundFault(x)
      PROVE  UNCHANGED role
  BY <1>4 DEF Background, AutoCheck, AutoRecall, AutoNoMatch, AutoTake,
     TakeFromQueue, AutoBeaten, AutoReply, AutoLog, Classify, BackgroundFault,
     store
<1> QED BY <1>1, <1>2, <1>3, <1>4 DEF Next, Crash, vars, store

----------------------------------------------------------------------------
(* How texts flow: what a step does to each place that holds one *)

\* A request as user u sends it: a text of it is the user's own.
Sent(r, u) ==
  /\ r.user = u /\ r.staff = IsStaff(u)
  /\ r.pc \in {"create.log", "patch.read", "assign.agent", "claim.try",
               "comment.read"}
  /\ r.pc = "patch.read" => ~r.internal
  /\ r.text \notin {None, Blank} =>
       /\ r.text.by = u /\ r.text.staff = IsStaff(u)
       /\ ~r.internal => r.text.via # "note"

LEMMA ArriveFlow ==
  ASSUME IInv, NEW p \in Slots, Requests(p)
  PROVE  \E u \in Users : Sent(req'[p], u)
<1>1. ASSUME NEW u \in Users, NEW t \in Tickets, CreateInsert(p, u, t)
      PROVE  Sent(req'[p], u)
  <2>1. req' = [req EXCEPT ![p] =
           [[Idle EXCEPT !.pc = "create.log", !.ticket = t]
              EXCEPT !.user = u, !.staff = IsStaff(u)]]
    BY <1>1 DEF CreateInsert, Arrive
  <2>2. /\ req'[p].pc = "create.log" /\ req'[p].text = None
        /\ req'[p].user = u /\ req'[p].staff = IsStaff(u)
    BY <2>1 DEF Idle, IInv, TypeOK
  <2> QED BY <2>2 DEF Sent
<1>2. ASSUME NEW u \in Users, ClaimRank(p, u)
      PROVE  Sent(req'[p], u)
  <2>1. req' = [req EXCEPT ![p] = [[Idle EXCEPT !.pc = "claim.try", !.todo = Queue]
                                     EXCEPT !.user = u, !.staff = IsStaff(u)]]
    BY <1>2 DEF ClaimRank, Arrive
  <2>2. /\ req'[p].pc = "claim.try" /\ req'[p].text = None
        /\ req'[p].user = u /\ req'[p].staff = IsStaff(u)
    BY <2>1 DEF Idle, IInv, TypeOK
  <2> QED BY <2>2 DEF Sent
<1>3. ASSUME NEW u \in Users, NEW t \in Tickets, NEW a \in Users,
             AssignArrive(p, u, t, a)
      PROVE  Sent(req'[p], u)
  <2>1. req' = [req EXCEPT ![p] =
           [[Idle EXCEPT !.pc = "assign.agent", !.ticket = t, !.agent = a]
              EXCEPT !.user = u, !.staff = IsStaff(u)]]
    BY <1>3 DEF AssignArrive, Arrive
  <2>2. /\ req'[p].pc = "assign.agent" /\ req'[p].text = None
        /\ req'[p].user = u /\ req'[p].staff = IsStaff(u)
    BY <2>1 DEF Idle, IInv, TypeOK
  <2> QED BY <2>2 DEF Sent
<1>4. ASSUME NEW u \in Users, NEW t \in Tickets, NEW target,
             NEW text \in PatchTexts(u, t), PatchArrive(p, u, t, target, text)
      PROVE  Sent(req'[p], u)
  <2>1. req' = [req EXCEPT ![p] =
           [[Idle EXCEPT !.pc = "patch.read", !.ticket = t, !.target = target,
                         !.text = text]
              EXCEPT !.user = u, !.staff = IsStaff(u)]]
    BY <1>4 DEF PatchArrive, Arrive
  <2>2. /\ req'[p].pc = "patch.read" /\ req'[p].text = text
        /\ req'[p].user = u /\ req'[p].staff = IsStaff(u)
        /\ req'[p].internal = FALSE
    BY <2>1 DEF Idle, IInv, TypeOK
  <2>3. text \notin {None, Blank} =>
          text.by = u /\ text.staff = IsStaff(u) /\ text.via = "patch"
    BY DEF PatchTexts
  <2> QED BY <2>2, <2>3 DEF Sent
<1>5. ASSUME NEW u \in Users, NEW t \in Tickets, NEW blank \in BOOLEAN,
             NEW internal \in BOOLEAN, CommentArrive(p, u, t, blank, internal)
      PROVE  Sent(req'[p], u)
  <2> DEFINE text == IF blank THEN Blank
                     ELSE [on |-> t, by |-> u, staff |-> IsStaff(u),
                           via |-> IF internal /\ IsStaff(u) THEN "note" ELSE "reply"]
             hidden == internal /\ IsStaff(u)
  <2>1. req' = [req EXCEPT ![p] =
           [[Idle EXCEPT !.pc = "comment.read", !.ticket = t,
                         !.internal = hidden, !.text = text]
              EXCEPT !.user = u, !.staff = IsStaff(u)]]
    BY <1>5 DEF CommentArrive, Arrive
  <2>2. text \notin {None, Blank} => /\ text.by = u /\ text.staff = IsStaff(u)
                                     /\ ~hidden => text.via = "reply"
    OBVIOUS
  <2> HIDE DEF text, hidden
  <2>3. /\ req'[p].pc = "comment.read" /\ req'[p].text = text
        /\ req'[p].user = u /\ req'[p].staff = IsStaff(u)
        /\ req'[p].internal = hidden
    BY <2>1 DEF Idle, IInv, TypeOK
  <2> QED BY <2>2, <2>3 DEF Sent
<1> QED BY <1>1, <1>2, <1>3, <1>4, <1>5 DEF Requests

\* What a handler that goes on from r to s does with its text: it keeps it,
\* and whoever gets past the checks may write what it holds; or it takes the
\* public comment of a human who is staff now.
KeepsText(r, s) ==
  /\ s.text = r.text /\ s.internal = r.internal
  /\ s.pc \in Commenting => r.pc \in Commenting
  /\ s.pc \in PatchChecked =>
       \/ r.pc \in PatchChecked
       \/ r.pc = "patch.read" /\ (r.text # None => r.staff)
  /\ s.pc = "comment.remember" => r.pc = "comment.log" /\ r.staff /\ ~r.internal

Snapshots(r, s) ==
  /\ r.pc = "patch.roles" /\ s.pc = "patch.write"
  /\ \E t \in Tickets : \E c \in On(t) :
       ~c.internal /\ c.author # AI /\ IsStaff(c.author) /\ s.text = c.text

HandsOn(r, s) ==
  /\ r.pc # "idle" /\ s.pc # "patch.read"
  /\ s.user = r.user /\ s.staff = r.staff
  /\ KeepsText(r, s) \/ Snapshots(r, s)

LEMMA HandlerFlow ==
  ASSUME IInv, NEW p \in Slots, Handlers(p) \/ RequestFault(p)
  PROVE  req'[p] = Idle \/ HandsOn(req[p], req'[p])
<1> DEFINE r == req[p]
           Flows == req'[p] = Idle \/ HandsOn(r, req'[p])
<1>2. r \in Request /\ Fits(r, ticket)
  BY DEF IInv, TypeOK
<1>3. CASE Finish(p)
  BY <1>3 DEF Finish, IInv, TypeOK
<1>4. ASSUME NEW pc, Goto(p, pc), r.pc # "idle", pc # "patch.read",
             pc \in Commenting => r.pc \in Commenting,
             pc \in PatchChecked => r.pc \in PatchChecked,
             pc = "comment.remember" =>
               r.pc = "comment.log" /\ r.staff /\ ~r.internal
      PROVE  Flows
  <2>1. req'[p] = [r EXCEPT !.pc = pc]
    BY <1>4 DEF Goto, IInv, TypeOK
  <2>2. /\ req'[p].pc = pc /\ req'[p].user = r.user /\ req'[p].staff = r.staff
        /\ req'[p].text = r.text /\ req'[p].internal = r.internal
    BY <1>2, <2>1 DEF Request
  <2> QED BY <1>4, <2>2 DEF HandsOn, KeepsText
<1>5. ASSUME PatchRead(p)
      PROVE  Flows
  <2>1. ASSUME ~PatchRefused(r, ticket[r.ticket]), NEW was, NEW live,
               NEW pc \in {"patch.write", "patch.log"},
               req' = [req EXCEPT ![p] =
                         [@ EXCEPT !.pc = pc, !.was = was, !.live = live]]
        PROVE  Flows
    <3>1. req'[p] = [r EXCEPT !.pc = pc, !.was = was, !.live = live]
      BY <2>1 DEF IInv, TypeOK
    <3>2. /\ req'[p].pc = pc /\ req'[p].user = r.user /\ req'[p].staff = r.staff
          /\ req'[p].text = r.text /\ req'[p].internal = r.internal
      BY <1>2, <3>1 DEF Request
    <3>3. r.text # None => r.staff
      BY <2>1 DEF PatchRefused
    <3> QED BY <1>5, <3>2, <3>3 DEF HandsOn, KeepsText, PatchRead, At, Commenting
  <2> QED BY <1>3, <1>5, <2>1 DEF PatchRead
<1>6. ASSUME PatchReplies(p)
      PROVE  Flows
  <2>1. req'[p] = [r EXCEPT !.pc = "patch.roles", !.seen = Len(comments[r.ticket])]
    BY <1>6 DEF PatchReplies, IInv, TypeOK
  <2>2. /\ req'[p].pc = "patch.roles" /\ req'[p].user = r.user
        /\ req'[p].staff = r.staff
        /\ req'[p].text = r.text /\ req'[p].internal = r.internal
    BY <1>2, <2>1 DEF Request
  <2> QED BY <1>6, <2>2 DEF HandsOn, KeepsText, PatchReplies, At, Commenting, PatchChecked
<1>7. ASSUME PatchRoles(p)
      PROVE  Flows
  <2>1. ASSUME NEW i \in StaffReplies(r.ticket, r.seen),
               req' = [req EXCEPT ![p] =
                 [@ EXCEPT !.pc = "patch.write",
                           !.text = comments[r.ticket][i].text]]
        PROVE  Flows
    <3>1. PICK t \in Tickets : t = r.ticket
      BY <1>2, <1>7 DEF PatchRoles, At, Fits, Holds
    <3>2. i \in DOMAIN comments[t]
      <4>1. r.seen <= Len(comments[t]) /\ r.seen \in Nat
            /\ comments[t] \in Seq(Comment)
        BY <1>2, <1>7, <3>1 DEF PatchRoles, At, IInv, TypeOK, Seen, Request
      <4> QED BY <3>1, <4>1 DEF StaffReplies
    <3>3. PICK c \in On(t) : c = comments[t][i]
      BY <3>2 DEF On
    <3>4. req'[p] = [r EXCEPT !.pc = "patch.write", !.text = comments[t][i].text]
      BY <2>1, <3>1 DEF IInv, TypeOK
    <3>5. /\ req'[p].pc = "patch.write" /\ req'[p].user = r.user
          /\ req'[p].staff = r.staff /\ req'[p].text = comments[t][i].text
      BY <1>2, <3>4 DEF Request
    <3>6. ~c.internal /\ c.author # AI /\ IsStaff(c.author)
      BY <2>1, <3>1, <3>3 DEF StaffReplies
    <3> QED BY <1>7, <3>3, <3>5, <3>6 DEF HandsOn, Snapshots, PatchRoles, At
  <2>2. CASE Goto(p, "patch.write")
    BY <1>4, <1>7, <2>2 DEF PatchRoles, At, Commenting, PatchChecked
  <2> QED BY <1>7, <2>1, <2>2 DEF PatchRoles
<1>8. ASSUME PatchReject(p)
      PROVE  Flows
  <2>1. req'[p] = [r EXCEPT !.pc = "patch.write", !.reject = TRUE]
    BY <1>8 DEF PatchReject, IInv, TypeOK
  <2>2. /\ req'[p].pc = "patch.write" /\ req'[p].user = r.user
        /\ req'[p].staff = r.staff
        /\ req'[p].text = r.text /\ req'[p].internal = r.internal
    BY <1>2, <2>1 DEF Request
  <2> QED BY <1>8, <2>2 DEF HandsOn, KeepsText, PatchReject, At, Commenting, PatchChecked
<1>9. ASSUME ClaimTry(p)
      PROVE  Flows
  <2>1. ASSUME NEW t, req' = [req EXCEPT ![p] = [@ EXCEPT !.pc = "claim.log",
                                                  !.ticket = t, !.todo = {}]]
        PROVE  Flows
    <3>1. req'[p] = [r EXCEPT !.pc = "claim.log", !.ticket = t, !.todo = {}]
      BY <2>1 DEF IInv, TypeOK
    <3>2. /\ req'[p].pc = "claim.log" /\ req'[p].user = r.user
          /\ req'[p].staff = r.staff
          /\ req'[p].text = r.text /\ req'[p].internal = r.internal
      BY <1>2, <3>1 DEF Request
    <3> QED BY <1>9, <3>2 DEF HandsOn, KeepsText, ClaimTry, TryClaim, At, Commenting, PatchChecked
  <2>2. ASSUME NEW t, req' = [req EXCEPT ![p].todo = @ \ {t}]
        PROVE  Flows
    <3>1. req'[p] = [r EXCEPT !.todo = r.todo \ {t}] /\ r.pc = "claim.try"
      BY <1>9, <2>2 DEF ClaimTry, TryClaim, At, IInv, TypeOK
    <3>2. /\ req'[p].pc = "claim.try" /\ req'[p].user = r.user
          /\ req'[p].staff = r.staff
          /\ req'[p].text = r.text /\ req'[p].internal = r.internal
      BY <1>2, <3>1 DEF Request
    <3> QED BY <3>1, <3>2 DEF HandsOn, KeepsText, Commenting, PatchChecked
  <2> QED BY <1>9, <2>1, <2>2 DEF ClaimTry, TryClaim
<1>10. ASSUME CommentRead(p)
       PROVE  Flows
  <2>1. ASSUME NEW was, req' = [req EXCEPT ![p] =
                 [@ EXCEPT !.pc = "comment.insert", !.was = was]]
        PROVE  Flows
    <3>1. req'[p] = [r EXCEPT !.pc = "comment.insert", !.was = was]
      BY <2>1 DEF IInv, TypeOK
    <3>2. /\ req'[p].pc = "comment.insert" /\ req'[p].user = r.user
          /\ req'[p].staff = r.staff
          /\ req'[p].text = r.text /\ req'[p].internal = r.internal
      BY <1>2, <3>1 DEF Request
    <3> QED BY <1>10, <3>2 DEF HandsOn, KeepsText, CommentRead, At, Commenting, PatchChecked
  <2> QED BY <1>3, <1>10, <2>1 DEF CommentRead
<1>11. ASSUME CommentLog(p)
       PROVE  Flows
  <2>1. ASSUME Goto(p, "comment.remember"), r.staff, ~r.internal
        PROVE  Flows
    <3>1. r.pc = "comment.log"
      BY <1>11 DEF CommentLog, At
    <3> QED BY <1>4, <2>1, <3>1 DEF Commenting, PatchChecked
  <2> QED BY <1>3, <1>11, <2>1 DEF CommentLog
<1>12. ASSUME PatchLog(p)
       PROVE  Flows
  <2>1. AfterStatusLog(r) \in {"patch.replies", "patch.reject", "patch.write"}
    BY DEF AfterStatusLog
  <2> QED BY <1>4, <1>12, <2>1 DEF PatchLog, At, Commenting, PatchChecked
<1>13. ASSUME AssignAgent(p) \/ AssignWrite(p) \/ CommentInsert(p)
       PROVE  Flows
  BY <1>3, <1>4, <1>13 DEF AssignAgent, AssignWrite, CommentInsert, At,
     Commenting, PatchChecked
<1>14. ASSUME CreateLog(p) \/ PatchWrite(p) \/ AssignLog(p) \/ ClaimNothing(p)
                \/ ClaimLog(p) \/ CommentRemember(p) \/ RequestFault(p)
       PROVE  Flows
  BY <1>3, <1>14 DEF CreateLog, PatchWrite, AssignLog, ClaimNothing, ClaimLog,
     CommentRemember, RequestFault
<1> QED BY <1>5, <1>6, <1>7, <1>8, <1>9, <1>10, <1>11, <1>12, <1>13, <1>14
        DEF Handlers

\* Where the comments of ticket t come from.
CommentOf(r) == [author |-> r.user, text |-> r.text, internal |-> r.internal]
AIComment(t) == [author |-> AI, text |-> bg[t].answer, internal |-> FALSE]

\* The comments a step adds.
LEMMA CommentsMove ==
  ASSUME IInv, [Next]_vars, NEW t \in Tickets, comments'[t] # comments[t]
  PROVE  AutoReply(t) \/ \E p \in Slots : CommentInsert(p) /\ t = req[p].ticket
<1>1. ASSUME NEW p \in Slots, Requests(p) \/ RequestFault(p)
      PROVE  UNCHANGED comments
  BY <1>1 DEF Requests, ClaimRank, CreateInsert, PatchArrive, AssignArrive,
     CommentArrive, RequestFault, store
<1>2. ASSUME NEW p \in Slots, Handlers(p), ~CommentInsert(p)
      PROVE  UNCHANGED comments
  BY <1>2 DEF Handlers, CreateLog, PatchRead, PatchLog, PatchReplies,
     PatchRoles, PatchReject, PatchWrite, AssignAgent, AssignWrite, AssignLog,
     ClaimTry, TryClaim, ClaimNothing, ClaimLog, CommentRead, CommentLog,
     CommentRemember, store
<1>3. ASSUME NEW p \in Slots, CommentInsert(p), t # req[p].ticket
      PROVE  comments'[t] = comments[t]
  BY <1>3 DEF CommentInsert, IInv, TypeOK
<1>4. ASSUME NEW x \in Tickets, Background(x) \/ BackgroundFault(x), ~AutoReply(x)
      PROVE  UNCHANGED comments
  BY <1>4 DEF Background, AutoCheck, AutoRecall, AutoNoMatch, AutoTake,
     TakeFromQueue, AutoBeaten, AutoLog, Classify, BackgroundFault, store
<1>5. ASSUME NEW x \in Tickets, AutoReply(x), t # x
      PROVE  comments'[t] = comments[t]
  BY <1>5 DEF AutoReply, IInv, TypeOK
<1>6. ASSUME Crash \/ (\E u \in Users, to \in Roles : ChangeRole(u, to))
             \/ UNCHANGED vars
      PROVE  UNCHANGED comments
  BY <1>6 DEF Crash, ChangeRole, vars, store
<1> QED BY <1>1, <1>2, <1>3, <1>4, <1>5, <1>6 DEF Next

LEMMA AppendOn ==
  ASSUME NEW t \in Tickets, comments[t] \in Seq(Comment), NEW c,
         comments'[t] = Append(comments[t], c)
  PROVE  On(t)' = On(t) \cup {c}
<1> DEFINE n == Len(comments[t])
<1>1. /\ DOMAIN comments'[t] = 1 .. n + 1 /\ DOMAIN comments[t] = 1 .. n
      /\ n \in Nat /\ comments'[t][n + 1] = c
      /\ \A i \in 1 .. n : comments'[t][i] = comments[t][i]
  OBVIOUS
<1> HIDE DEF n
<1>2. 1 .. n + 1 = (1 .. n) \cup {n + 1}
  BY <1>1
<1> QED BY <1>1, <1>2 DEF On

LEMMA CommentFlow ==
  ASSUME IInv, [Next]_vars, NEW t \in Tickets, NEW c \in On(t)', c \notin On(t)
  PROVE  \/ c = AIComment(t) /\ bg[t].answer # None
         \/ \E p \in Slots : req[p].pc = "comment.insert" /\ c = CommentOf(req[p])
<1>1. comments'[t] # comments[t]
  BY DEF On
<1>2. ASSUME NEW p \in Slots, CommentInsert(p), t = req[p].ticket
      PROVE  req[p].pc = "comment.insert" /\ c = CommentOf(req[p])
  <2>1. comments'[t] = Append(comments[t], CommentOf(req[p]))
    BY <1>2 DEF CommentInsert, CommentOf, IInv, TypeOK
  <2>2. On(t)' = On(t) \cup {CommentOf(req[p])}
    BY <2>1, AppendOn DEF IInv, TypeOK
  <2> QED BY <1>2, <2>2 DEF CommentInsert, At
<1>3. ASSUME AutoReply(t)
      PROVE  c = AIComment(t) /\ bg[t].answer # None
  <2>1. comments'[t] = Append(comments[t], AIComment(t))
    BY <1>3 DEF AutoReply, AIComment, IInv, TypeOK
  <2>2. On(t)' = On(t) \cup {AIComment(t)}
    BY <2>1, AppendOn DEF IInv, TypeOK
  <2> QED BY <1>3, <2>2 DEF AutoReply, BgAt, IInv, Working
<1> QED BY <1>1, <1>2, <1>3, CommentsMove

\* Where a resolution comes from: it was there, a handler writes what it
\* holds, or the AI reuses one it found.
MemoryFrom(t) ==
  \/ ticket'[t].resolution = None
  \/ Exists(t) /\ ticket'[t].resolution = ticket[t].resolution
  \/ \E p \in Slots : /\ req[p].pc \in {"patch.write", "comment.remember"}
                      /\ ticket'[t].resolution = req[p].text
  \/ \E c \in bg[t].found : ticket'[t].resolution = c.resolution

LEMMA HandlerMemory ==
  ASSUME IInv, NEW p \in Slots, Handlers(p), NEW t \in Tickets, Exists(t)'
  PROVE  MemoryFrom(t)
<1> DEFINE r == req[p]
<1>1. r \in Request /\ Fits(r, ticket)
  BY DEF IInv, TypeOK
<1>2. CASE ticket'[t] = ticket[t]
  BY <1>2 DEF MemoryFrom, Exists
<1>3. ASSUME NEW x \in Tickets, ticket[x] # None, NEW agent,
             ticket' = [ticket EXCEPT ![x].assignedAgent = agent]
      PROVE  MemoryFrom(t)
  <2>1. ticket[x] \in Document
    BY <1>3 DEF IInv, TypeOK
  <2>2. [ticket[x] EXCEPT !.assignedAgent = agent].resolution = ticket[x].resolution
    BY <2>1 DEF Document
  <2> QED BY <1>2, <1>3, <2>2 DEF MemoryFrom, Exists, IInv, TypeOK
<1>4. ASSUME PatchWrite(p)
      PROVE  MemoryFrom(t)
  <2>1. PICK x \in Tickets : x = r.ticket /\ ticket[x] # None
    BY <1>1, <1>4 DEF PatchWrite, At, Fits, Holds
  <2> DEFINE doc == ticket[x]
             audit == IF r.reject THEN [doc.auto EXCEPT !.reopened = TRUE]
                                  ELSE doc.auto
             status == IF r.target = None THEN doc.status ELSE r.target
             text == IF r.text = None THEN doc.resolution ELSE r.text
             written == [doc EXCEPT !.status = status, !.resolution = text,
                                    !.auto = audit]
  <2>2. ticket' = [ticket EXCEPT ![x] = written]
    BY <1>4, <2>1 DEF PatchWrite, SetTicket
  <2>3. doc \in Document
    BY <2>1 DEF IInv, TypeOK
  <2>4. written.resolution = text
    <3> HIDE DEF doc, audit, status, text
    <3> QED BY <2>3 DEF Document
  <2>5. text = ticket[x].resolution \/ text = r.text
    OBVIOUS
  <2> HIDE DEF written, text
  <2>6. CASE x = t
    <3>1. ticket'[t].resolution = text
      BY <2>2, <2>4, <2>6 DEF IInv, TypeOK
    <3> QED BY <1>4, <2>1, <2>5, <2>6, <3>1 DEF MemoryFrom, Exists, PatchWrite, At
  <2>7. CASE x # t
    BY <1>2, <2>2, <2>7 DEF IInv, TypeOK
  <2> QED BY <2>6, <2>7
<1>5. ASSUME CommentRemember(p)
      PROVE  MemoryFrom(t)
  <2>1. PICK x \in Tickets : x = r.ticket /\ ticket[x] # None
    BY <1>1, <1>5 DEF CommentRemember, At, Fits, Holds
  <2>2. ticket' = [ticket EXCEPT ![x] = [ticket[x] EXCEPT !.resolution = r.text]]
    BY <1>5, <2>1 DEF CommentRemember
  <2>3. [ticket[x] EXCEPT !.resolution = r.text].resolution = r.text
    BY <2>1 DEF Document, IInv, TypeOK
  <2> QED BY <1>2, <1>5, <2>2, <2>3 DEF MemoryFrom, CommentRemember, At, IInv, TypeOK
<1>6. ASSUME AssignWrite(p)
      PROVE  MemoryFrom(t)
  <2>1. PICK x \in Tickets : x = r.ticket /\ ticket[x] # None
    BY <1>1, <1>6 DEF AssignWrite, At, Fits, Holds
  <2> QED BY <1>3, <1>6, <2>1 DEF AssignWrite
<1>7. ASSUME ClaimTry(p)
      PROVE  MemoryFrom(t)
  <2>1. ASSUME NEW x \in Queue,
               ticket' = [ticket EXCEPT ![x].assignedAgent = r.user]
        PROVE  MemoryFrom(t)
    BY <1>3, <2>1 DEF Queue, InQueue, Exists
  <2> QED BY <1>2, <1>7, <2>1 DEF ClaimTry, TryClaim
<1>8. ASSUME ~PatchWrite(p), ~AssignWrite(p), ~ClaimTry(p), ~CommentRemember(p)
      PROVE  UNCHANGED ticket
  BY <1>8 DEF Handlers, CreateLog, PatchRead, PatchLog, PatchReplies,
     PatchRoles, PatchReject, AssignAgent, AssignLog, ClaimNothing, ClaimLog,
     CommentRead, CommentInsert, CommentLog, store
<1> QED BY <1>2, <1>4, <1>5, <1>6, <1>7, <1>8

LEMMA TaskMemory ==
  ASSUME IInv, NEW x \in Tickets, Background(x) \/ BackgroundFault(x),
         NEW t \in Tickets, Exists(t)'
  PROVE  MemoryFrom(t)
<1>0. ASSUME ticket'[t] = ticket[t]
      PROVE  MemoryFrom(t)
  BY <1>0 DEF MemoryFrom, Exists
<1>1. ASSUME AutoTake(x)
      PROVE  MemoryFrom(t)
  <2>1. PICK c \in bg[x].found :
          ticket' = [ticket EXCEPT ![x] = [ticket[x] EXCEPT
                       !.status = AutoTarget, !.resolution = c.resolution,
                       !.auto = [source |-> c.ticket, reopened |-> FALSE]]]
    BY <1>1 DEF AutoTake, TakeFromQueue, SetTicket
  <2>2. ticket[x] \in Document
    BY <1>1 DEF AutoTake, TakeFromQueue, BgAt, AutoPcs, IInv, TypeOK, Working
  <2>3. [ticket[x] EXCEPT !.status = AutoTarget, !.resolution = c.resolution,
           !.auto = [source |-> c.ticket, reopened |-> FALSE]].resolution
          = c.resolution
    BY <2>2 DEF Document
  <2> QED BY <1>0, <2>1, <2>3 DEF MemoryFrom, IInv, TypeOK
<1>2. ASSUME Classify(x)
      PROVE  MemoryFrom(t)
  <2>1. PICK s : ticket' = [ticket EXCEPT ![x] = [ticket[x] EXCEPT !.ai = s]]
    BY <1>2 DEF Classify
  <2>2. ticket[x] \in Document /\ Exists(x)
    BY <1>2 DEF Classify, BgAt, IInv, TypeOK, Working, Exists
  <2>3. [ticket[x] EXCEPT !.ai = s].resolution = ticket[x].resolution
    BY <2>2 DEF Document
  <2> QED BY <1>0, <2>1, <2>2, <2>3 DEF MemoryFrom, IInv, TypeOK
<1>3. ASSUME ~AutoTake(x), ~Classify(x)
      PROVE  UNCHANGED ticket
  BY <1>3 DEF Background, AutoCheck, AutoRecall, AutoNoMatch, AutoBeaten,
     AutoReply, AutoLog, BackgroundFault, store
<1> QED BY <1>0, <1>1, <1>2, <1>3

LEMMA MemoryFlow ==
  ASSUME IInv, [Next]_vars, NEW t \in Tickets, Exists(t)'
  PROVE  MemoryFrom(t)
<1>1. ASSUME ticket'[t] = ticket[t]
      PROVE  MemoryFrom(t)
  BY <1>1 DEF MemoryFrom, Exists
<1>2. ASSUME NEW p \in Slots, Requests(p)
      PROVE  MemoryFrom(t)
  <2>1. ASSUME NEW u \in Users, NEW x \in Tickets, CreateInsert(p, u, x)
        PROVE  MemoryFrom(t)
    <3>1. ticket' = [ticket EXCEPT ![x] = NewTicket(u)]
      BY <2>1 DEF CreateInsert, SetTicket
    <3>2. NewTicket(u).resolution = None
      BY DEF NewTicket
    <3> QED BY <1>1, <3>1, <3>2 DEF MemoryFrom, IInv, TypeOK
  <2> QED BY <1>1, <1>2, <2>1 DEF Requests, ClaimRank, PatchArrive,
          AssignArrive, CommentArrive, store
<1>3. ASSUME NEW p \in Slots, RequestFault(p)
      PROVE  UNCHANGED ticket
  BY <1>3 DEF RequestFault, store
<1> QED BY <1>1, <1>2, <1>3, HandlerMemory, TaskMemory
        DEF Next, Crash, ChangeRole, vars, store

\* Where the texts of a background task come from.
TaskFrom(x) ==
  /\ bg'[x].found \subseteq bg[x].found \cup Candidates(x)
  /\ \/ bg'[x].answer \in {None, bg[x].answer}
     \/ \E c \in bg[x].found : bg'[x].answer = c.resolution

LEMMA OwnTaskFlow ==
  ASSUME IInv, NEW t \in Tickets, Background(t) \/ BackgroundFault(t),
         NEW x \in Tickets
  PROVE  TaskFrom(x)
<1>1. ASSUME bg'[x] = bg[x]
      PROVE  TaskFrom(x)
  BY <1>1 DEF TaskFrom
<1>2. ASSUME NEW pc, BgGoto(t, pc)
      PROVE  TaskFrom(x)
  <2>1. CASE x = t
    <3>1. bg'[x].found = {} /\ bg'[x].answer = None
      BY <1>2, <2>1 DEF BgGoto, Off, IInv, TypeOK
    <3> QED BY <3>1 DEF TaskFrom
  <2>2. CASE x # t
    BY <1>1, <1>2, <2>2 DEF BgGoto, IInv, TypeOK
  <2> QED BY <2>1, <2>2
<1>3. ASSUME AutoRecall(t)
      PROVE  TaskFrom(x)
  <2>1. ASSUME bg' = [bg EXCEPT ![t] = [@ EXCEPT !.pc = "ask",
                                                 !.found = Candidates(t)]]
        PROVE  TaskFrom(x)
    <3> DEFINE found == Candidates(t)
    <3> HIDE DEF found
    <3>2. CASE x = t
      <4>1. bg'[x].found = found /\ bg'[x].answer = bg[x].answer
        BY <2>1, <3>2 DEF found, IInv, TypeOK, Task
      <4> QED BY <3>2, <4>1 DEF found, TaskFrom
    <3>3. CASE x # t
      BY <1>1, <2>1, <3>3 DEF IInv, TypeOK
    <3> QED BY <3>2, <3>3
  <2> QED BY <1>2, <1>3, <2>1 DEF AutoRecall
<1>4. ASSUME AutoTake(t)
      PROVE  TaskFrom(x)
  <2>1. PICK c \in bg[t].found :
          bg' = [bg EXCEPT ![t] = [Off EXCEPT !.pc = "reply",
                                              !.answer = c.resolution]]
    BY <1>4 DEF AutoTake, TakeFromQueue
  <2>2. CASE x = t
    <3>1. bg'[x].found = {} /\ bg'[x].answer = c.resolution
      BY <2>1, <2>2 DEF Off, IInv, TypeOK
    <3> QED BY <2>2, <3>1 DEF TaskFrom
  <2>3. CASE x # t
    BY <1>1, <2>1, <2>3 DEF IInv, TypeOK
  <2> QED BY <2>2, <2>3
<1> QED BY <1>2, <1>3, <1>4 DEF Background, AutoCheck, AutoNoMatch, AutoBeaten,
        AutoReply, AutoLog, Classify, BackgroundFault

LEMMA TaskFlow ==
  ASSUME IInv, [Next]_vars, NEW x \in Tickets
  PROVE  TaskFrom(x)
<1>1. ASSUME bg'[x] = bg[x]
      PROVE  TaskFrom(x)
  BY <1>1 DEF TaskFrom
<1>2. ASSUME NEW p \in Slots, Requests(p) \/ RequestFault(p)
      PROVE  UNCHANGED bg
  BY <1>2 DEF Requests, ClaimRank, CreateInsert, PatchArrive, AssignArrive,
     CommentArrive, RequestFault
<1>3. ASSUME NEW p \in Slots, Handlers(p)
      PROVE  TaskFrom(x)
  <2>1. ASSUME CreateLog(p)
        PROVE  TaskFrom(x)
    <3>1. PICK t : t = req[p].ticket
      OBVIOUS
    <3>2. bg' = [bg EXCEPT ![t] = [Off EXCEPT !.pc = "check"]]
      BY <2>1, <3>1 DEF CreateLog
    <3>3. CASE x = t
      <4>1. bg'[x].found = {} /\ bg'[x].answer = None
        BY <3>2, <3>3 DEF Off, IInv, TypeOK
      <4> QED BY <4>1 DEF TaskFrom
    <3>4. CASE x # t
      BY <1>1, <3>2, <3>4 DEF IInv, TypeOK
    <3> QED BY <3>3, <3>4
  <2>2. ASSUME ~CreateLog(p)
        PROVE  UNCHANGED bg
    BY <1>3, <2>2 DEF Handlers, PatchRead, PatchLog, PatchReplies,
       PatchRoles, PatchReject, PatchWrite, AssignAgent, AssignWrite, AssignLog,
       ClaimTry, TryClaim, ClaimNothing, ClaimLog, CommentRead, CommentInsert,
       CommentLog, CommentRemember
  <2> QED BY <1>1, <2>1, <2>2
<1>4. CASE Crash
  <2>1. \/ bg'[x] = bg[x]
        \/ bg'[x].found = {} /\ bg'[x].answer = None
    BY <1>4 DEF Crash, Off
  <2> QED BY <1>1, <2>1 DEF TaskFrom
<1> QED BY <1>1, <1>2, <1>3, <1>4, OwnTaskFlow DEF Next, ChangeRole, vars

----------------------------------------------------------------------------
(* Trust is kept along every flow *)

LEMMA HonestKept ==
  ASSUME IInv, Trust, [Next]_vars, NEW p \in Slots,
         \/ req'[p] = req[p] \/ req'[p] = Idle \/ HandsOn(req[p], req'[p])
         \/ \E u \in Users : Sent(req'[p], u)
  PROVE  Honest(p)'
<1> DEFINE r == req[p]
           s == req'[p]
<1>1. Honest(p) /\ r \in Request /\ (r.pc # "idle" => r.user \in Users)
  BY DEF Trust, IInv, TypeOK, Fits
<1>2. \A u \in Users : NobodyPromoted => (IsStaff(u)' => IsStaff(u))
  BY RolesFall DEF Trust
<1>3. CASE s = r
  BY <1>1, <1>2, <1>3 DEF Honest, MayReuse, Reusable
<1>4. CASE s = Idle
  BY <1>4 DEF Honest, Idle, Commenting, PatchChecked
<1>5. ASSUME NEW u \in Users, Sent(s, u)
      PROVE  Honest(p)'
  BY <1>2, <1>5 DEF Sent, Honest, Commenting, PatchChecked
<1>6. ASSUME HandsOn(r, s)
      PROVE  Honest(p)'
  <2>1. PICK u \in Users : s.user = u /\ r.user = u /\ s.staff = r.staff
    BY <1>1, <1>6 DEF HandsOn
  <2>2. NobodyPromoted => (IsStaff(u)' => s.staff)
    BY <1>1, <1>2, <1>6, <2>1 DEF HandsOn, Honest
  <2>3. CASE KeepsText(r, s)
    <3>1. s.pc \in PatchChecked \cup {"comment.remember"} => MayReuse(s.text)
      <4>1. CASE r.pc \in PatchChecked
        BY <1>1, <2>3, <4>1 DEF Honest, KeepsText
      <4>2. CASE r.pc = "patch.read" /\ (r.text # None => r.staff)
        BY <1>1, <2>3, <4>2 DEF Honest, KeepsText, MayReuse, Reusable
      <4>3. CASE r.pc = "comment.log" /\ r.staff /\ ~r.internal
        BY <1>1, <2>3, <4>3 DEF Honest, KeepsText, MayReuse, Reusable, Commenting
      <4> QED BY <2>3, <4>1, <4>2, <4>3 DEF KeepsText
    <3>2. s.pc \in Commenting => r.pc \in Commenting
      BY <2>3 DEF KeepsText
    <3> QED BY <1>1, <1>6, <2>1, <2>2, <2>3, <3>1, <3>2
            DEF Honest, HandsOn, KeepsText, MayReuse, Reusable
  <2>4. ASSUME NEW t \in Tickets, NEW c \in On(t), ~c.internal, c.author # AI,
               IsStaff(c.author), s.text = c.text, s.pc = "patch.write"
        PROVE  Honest(p)'
    <3>1. MayReuse(c.text)
      BY <2>4 DEF Trust, HonestComment
    <3> QED BY <2>1, <2>2, <2>4, <3>1 DEF Honest, MayReuse, Reusable, Commenting
  <2> QED BY <1>6, <2>3, <2>4 DEF HandsOn, Snapshots
<1> QED BY <1>3, <1>4, <1>5, <1>6

\* What a step may do to a request.
LEMMA RequestFlow ==
  ASSUME IInv, Course, [Next]_vars, NEW q \in Slots
  PROVE  \/ req'[q] = req[q] \/ req'[q] = Idle \/ HandsOn(req[q], req'[q])
         \/ \E u \in Users : Sent(req'[q], u)
<1>1. ASSUME NEW p \in Slots, Requests(p)
      PROVE  req'[q] = req[q] \/ \E u \in Users : Sent(req'[q], u)
  BY <1>1, ArriveFresh, ArriveFlow
<1>2. ASSUME NEW p \in Slots, Handlers(p) \/ RequestFault(p)
      PROVE  req'[q] = req[q] \/ req'[q] = Idle \/ HandsOn(req[q], req'[q])
  BY <1>2, HandlerLogs, HandlerFlow
<1>3. ASSUME NEW t \in Tickets, Background(t) \/ BackgroundFault(t)
      PROVE  UNCHANGED req
  BY <1>3 DEF Background, AutoCheck, AutoRecall, AutoNoMatch, AutoTake,
     TakeFromQueue, AutoBeaten, AutoReply, AutoLog, Classify, BackgroundFault
<1> QED BY <1>1, <1>2, <1>3 DEF Next, ChangeRole, Crash, vars

LEMMA CommentsHonest ==
  ASSUME IInv, Trust, [Next]_vars, NEW t \in Tickets
  PROVE  (\A c \in On(t) : HonestComment(c))'
<1> SUFFICES ASSUME NEW c \in On(t)' PROVE HonestComment(c)'
  OBVIOUS
<1>1. CASE c \in On(t)
  <2>1. HonestComment(c) /\ c \in Comment
    BY <1>1 DEF Trust, IInv, TypeOK, On
  <2>2. NobodyPromoted /\ c.author # AI
          => (IsStaff(c.author)' => IsStaff(c.author))
    BY <2>1, RolesFall DEF Comment, Trust
  <2> QED BY <2>1, <2>2 DEF HonestComment
<1>2. CASE c = AIComment(t) /\ bg[t].answer # None
  <2>1. Reusable(bg[t].answer)
    BY <1>2 DEF Trust, HonestTask
  <2> QED BY <1>2, <2>1 DEF HonestComment, AIComment
<1>3. ASSUME NEW p \in Slots, req[p].pc = "comment.insert", c = CommentOf(req[p])
      PROVE  HonestComment(c)'
  <2>1. Honest(p) /\ req[p].user \in Users
    BY <1>3 DEF Trust, IInv, Fits
  <2>2. /\ c.author = req[p].user /\ c.text = req[p].text
        /\ c.internal = req[p].internal
    BY <1>3 DEF CommentOf
  <2>3. NobodyPromoted /\ IsStaff(c.author)' => req[p].staff
    BY <1>3, <2>1, <2>2, RolesFall DEF Honest, Trust
  <2> QED BY <1>3, <2>1, <2>2, <2>3
          DEF Honest, HonestComment, Commenting, MayReuse, Reusable
<1> QED BY <1>1, <1>2, <1>3, CommentFlow

LEMMA MemoryKept ==
  ASSUME IInv, Trust, [Next]_vars
  PROVE  MemoryReusable'
<1>1. ASSUME NEW t \in Tickets, Exists(t)'
      PROVE  MayReuse(ticket'[t].resolution)
  <2>1. \A p \in Slots : req[p].pc \in {"patch.write", "comment.remember"}
                           => MayReuse(req[p].text)
    BY DEF Trust, Honest, PatchChecked
  <2>2. \A c \in bg[t].found : MayReuse(c.resolution)
    BY DEF Trust, HonestTask, MayReuse
  <2>3. Exists(t) => MayReuse(ticket[t].resolution)
    BY DEF Trust, MemoryReusable, MayReuse
  <2> QED BY <1>1, <2>1, <2>2, <2>3, MemoryFlow DEF MemoryFrom, MayReuse
<1> QED BY <1>1 DEF MemoryReusable, MayReuse, Exists

LEMMA TasksHonest ==
  ASSUME IInv, Trust, [Next]_vars, NEW x \in Tickets
  PROVE  HonestTask(x)'
<1>1. \A c \in Candidates(x) : Reusable(c.resolution)
  BY DEF Candidates, Trust, MemoryReusable
<1> QED BY <1>1, TaskFlow DEF TaskFrom, Trust, HonestTask

LEMMA TrustInv == IInv /\ Course /\ Trust /\ [Next]_vars => Trust'
<1> SUFFICES ASSUME IInv, Course, Trust, [Next]_vars PROVE Trust'
  OBVIOUS
<1> QED BY MemoryKept, HonestKept, RequestFlow, CommentsHonest, TasksHonest DEF Trust

LEMMA InitTrust == Init => Trust
<1> SUFFICES ASSUME Init PROVE Trust
  OBVIOUS
<1>1. ASSUME NEW t \in DOMAIN History
      PROVE  MayReuse(OldTicket(t).resolution)
  BY DEF OldTicket, OldReply, NewTicket, MayReuse, Reusable
<1>2. MemoryReusable
  BY <1>1 DEF Init, MemoryReusable, Exists, MayReuse
<1>3. \A p \in Slots : Honest(p)
  BY DEF Init, Honest, Idle, Commenting, PatchChecked
<1>4. ASSUME NEW t \in Tickets, NEW c \in On(t)
      PROVE  HonestComment(c)
  <2>1. CASE t \in Answered
    <3>1. c = [author |-> History[t].agent, text |-> OldReply(t),
               internal |-> FALSE]
      BY <1>4, <2>1 DEF Init, On
    <3>2. History[t].agent # AI
      BY <2>1 DEF Answered
    <3> QED BY <3>1, <3>2 DEF HonestComment, OldReply, MayReuse, Reusable
  <2>2. CASE t \notin Answered
    BY <1>4, <2>2 DEF Init, On
  <2> QED BY <2>1, <2>2
<1>5. ASSUME NEW t \in Tickets
      PROVE  HonestTask(t)
  BY DEF Init, HonestTask, Off
<1> QED BY <1>2, <1>3, <1>4, <1>5 DEF Trust

LEMMA TrustInductive == Spec => [](IInv /\ Course /\ Trust)
<1>1. Init => IInv /\ Course /\ Trust
  BY InitIInv, InitCourse, InitTrust
<1>2. IInv /\ Course /\ [Next]_vars => Course'
  BY StageInv, StartsInv, AllLogged, LogExplainsInv DEF Course
<1> QED BY <1>1, <1>2, NextIInv, TrustInv, PTL DEF Spec

\* No internal note of the staff ever becomes the resolution of a ticket, and
\* so is neither offered for another ticket nor sent to a customer by the AI,
\* whoever is promoted or demoted meanwhile.
NoNoteLeaks ==
  \A t \in Tickets :
    /\ Exists(t) /\ ticket[t].resolution \notin {None, Blank}
         => ticket[t].resolution.via # "note"
    /\ \A c \in bg[t].found : c.resolution.via # "note"
    /\ \A i \in AIReplies(t) : comments[t][i].text.via # "note"

THEOREM NotesStayInternal == Spec => []NoNoteLeaks
<1>1. Trust => NoNoteLeaks
  BY DEF Trust, MemoryReusable, HonestTask, HonestComment, AIReplies, On,
         Reusable, NoNoteLeaks
<1> QED BY <1>1, TrustInductive, PTL

\* Where nobody is promoted to staff, the long-term memory holds only what
\* staff said in public, whatever chain of reuse brought it there.
THEOREM MemoryIsTrusted == NobodyPromoted /\ Spec => []MemoryTrusted
<1> SUFFICES ASSUME NobodyPromoted PROVE Spec => []MemoryTrusted
  OBVIOUS
<1>1. Trust => MemoryTrusted
  BY DEF Trust, MemoryReusable, MemoryTrusted, Reusable, Trusted
<1> QED BY <1>1, TrustInductive, PTL

\* ... and the AI answers a ticket at most once, only one it took from the
\* queue, and with such a text.
THEOREM AIRepliesJustified == NobodyPromoted /\ Spec => []AIReplyJustified
<1> SUFFICES ASSUME NobodyPromoted PROVE Spec => []AIReplyJustified
  OBVIOUS
<1>1. Course /\ Trust => AIReplyJustified
  <2> SUFFICES ASSUME Course, Trust, NEW t \in Tickets
               PROVE  /\ \A i, j \in AIReplies(t) : i = j
                      /\ \A i \in AIReplies(t) :
                           /\ ticket[t].auto # None
                           /\ Trusted(comments[t][i].text)
    BY DEF AIReplyJustified
  <2>1. Stage(t) /\ \A c \in On(t) : HonestComment(c)
    BY DEF Course, Trust
  <2>2. \A i \in AIReplies(t) : Trusted(comments[t][i].text)
    BY <2>1 DEF AIReplies, On, HonestComment, Reusable, Trusted
  <2> QED BY <2>1, <2>2 DEF Stage
<1> QED BY <1>1, TrustInductive, PTL

\* Whoever is promoted, whatever fails and however often the service crashes:
\* the AI never answers a ticket twice, nor one it did not take.
AnsweredOnce ==
  \A t \in Tickets :
    /\ \A i, j \in AIReplies(t) : i = j
    /\ AIReplies(t) # {} => Exists(t) /\ ticket[t].auto # None

THEOREM AtMostOneAnswer == Spec => []AnsweredOnce
<1>1. Course => AnsweredOnce
  BY DEF Course, Stage, AnsweredOnce
<1> QED BY <1>1, CourseInductive, PTL

----------------------------------------------------------------------------
(* Whose words are reused, when roles change both ways *)

\* A text of account u.
Words(u, text) == text \notin {None, Blank} /\ text.by = u

\* No ticket remembers words of account u, no task is offered them for another
\* ticket, and the AI sends them to no customer.
Unquoted(u) ==
  \A t \in Tickets :
    /\ Exists(t) => ~Words(u, ticket[t].resolution)
    /\ \A c \in bg[t].found : ~Words(u, c.resolution)
    /\ \A i \in AIReplies(t) : ~Words(u, comments[t][i].text)

\* What keeps them out: no request of u has the rights of staff, a text on its
\* way to a comment is its sender's, and one on its way to a ticket not u's.
ApartRequest(u, r) ==
  /\ r.pc # "idle" /\ r.user = u => ~r.staff
  /\ r.pc \in Commenting \cup {"patch.read"} /\ r.text \notin {None, Blank}
       => r.text.by = r.user
  /\ r.pc \in PatchChecked \cup {"comment.remember"} => ~Words(u, r.text)

\* Comments of others, the AI's among them, do not repeat u's words.
ApartComment(u, c) == Words(u, c.text) => c.author = u

ApartTask(u, task) ==
  ~Words(u, task.answer) /\ \A c \in task.found : ~Words(u, c.resolution)

Apart(u) ==
  /\ \A t \in Tickets : Exists(t) => ~Words(u, ticket[t].resolution)
  /\ \A p \in Slots : ApartRequest(u, req[p])
  /\ \A t \in Tickets :
       (\A c \in On(t) : ApartComment(u, c)) /\ ApartTask(u, bg[t])

LEMMA RequestsApart ==
  ASSUME IInv, Course, [Next]_vars, NEW u \in Users, Apart(u), ~IsStaff(u),
         NEW p \in Slots
  PROVE  ApartRequest(u, req'[p])
<1> DEFINE r == req[p]
           s == req'[p]
<1>1. ApartRequest(u, r)
  BY DEF Apart
<1>2. CASE s = r
  BY <1>1, <1>2
<1>3. CASE s = Idle
  BY <1>3 DEF ApartRequest, Idle, Commenting, PatchChecked
<1>4. ASSUME NEW v \in Users, Sent(s, v)
      PROVE  ApartRequest(u, s)
  BY <1>4 DEF Sent, ApartRequest, Commenting, PatchChecked
<1>5. ASSUME HandsOn(r, s)
      PROVE  ApartRequest(u, s)
  <2>1. s.user = u => ~s.staff
    BY <1>1, <1>5 DEF HandsOn, ApartRequest
  <2>2. CASE KeepsText(r, s)
    <3>1. s.pc \in PatchChecked \cup {"comment.remember"} => ~Words(u, s.text)
      <4>1. CASE r.pc \in PatchChecked
        BY <1>1, <2>2, <4>1 DEF ApartRequest, KeepsText
      <4>2. CASE r.pc = "patch.read" /\ (r.text # None => r.staff)
        BY <1>1, <2>2, <4>2 DEF ApartRequest, KeepsText, Words
      <4>3. CASE r.pc = "comment.log" /\ r.staff /\ ~r.internal
        BY <1>1, <2>2, <4>3 DEF ApartRequest, KeepsText, Words, Commenting
      <4> QED BY <2>2, <4>1, <4>2, <4>3 DEF KeepsText
    <3> QED BY <1>1, <1>5, <2>1, <2>2, <3>1 DEF ApartRequest, HandsOn, KeepsText
  <2>3. ASSUME NEW t \in Tickets, NEW c \in On(t), IsStaff(c.author),
               s.text = c.text, s.pc = "patch.write"
        PROVE  ApartRequest(u, s)
    <3>1. ~Words(u, c.text)
      BY <2>3 DEF Apart, ApartComment
    <3> QED BY <2>1, <2>3, <3>1 DEF ApartRequest, Commenting
  <2> QED BY <1>5, <2>2, <2>3 DEF HandsOn, Snapshots
<1> QED BY <1>2, <1>3, <1>4, <1>5, RequestFlow

LEMMA NextApart ==
  ASSUME IInv, Course, [Next]_vars, NEW u \in Users, Apart(u), ~IsStaff(u)
  PROVE  Apart(u)'
<1>1. ASSUME NEW t \in Tickets, Exists(t)'
      PROVE  ~Words(u, ticket'[t].resolution)
  <2>1. \A p \in Slots : req[p].pc \in {"patch.write", "comment.remember"}
                           => ~Words(u, req[p].text)
    BY DEF Apart, ApartRequest, PatchChecked
  <2>2. \A c \in bg[t].found : ~Words(u, c.resolution)
    BY DEF Apart, ApartTask
  <2>3. Exists(t) => ~Words(u, ticket[t].resolution)
    BY DEF Apart
  <2>4. ~Words(u, None)
    BY DEF Words
  <2> QED BY <1>1, <2>1, <2>2, <2>3, <2>4, MemoryFlow DEF MemoryFrom
<1>2. ASSUME NEW t \in Tickets, NEW c \in On(t)'
      PROVE  ApartComment(u, c)
  <2>1. CASE c \in On(t)
    BY <2>1 DEF Apart
  <2>2. CASE c = AIComment(t)
    BY <2>2 DEF Apart, ApartTask, ApartComment, AIComment
  <2>3. ASSUME NEW p \in Slots, req[p].pc = "comment.insert",
               c = CommentOf(req[p])
        PROVE  ApartComment(u, c)
    <3>1. ApartRequest(u, req[p])
      BY DEF Apart
    <3> QED BY <2>3, <3>1
            DEF ApartRequest, ApartComment, CommentOf, Words, Commenting
  <2> QED BY <2>1, <2>2, <2>3, CommentFlow
<1>3. ASSUME NEW t \in Tickets
      PROVE  ApartTask(u, bg'[t])
  <2>1. \A c \in Candidates(t) : ~Words(u, c.resolution)
    BY DEF Candidates, Apart
  <2>2. ApartTask(u, bg[t]) /\ ~Words(u, None)
    BY DEF Apart, Words
  <2> QED BY <2>1, <2>2, TaskFlow DEF TaskFrom, ApartTask
<1> QED BY <1>1, <1>2, <1>3, RequestsApart DEF Apart, Exists

LEMMA InitApart ==
  ASSUME Init, NEW u \in Users, ~IsStaff(u)
  PROVE  Apart(u)
<1>1. ASSUME NEW t \in Answered
      PROVE  ~Words(u, OldReply(t)) /\ History[t].agent # u
  BY <1>1 DEF Init, Answered, OldReply, Words, IsStaff
<1>2. ASSUME NEW t \in Tickets, Exists(t)
      PROVE  ~Words(u, ticket[t].resolution)
  <2>1. CASE t \in Answered
    <3>1. ticket[t].resolution = OldReply(t)
      BY <2>1 DEF Init, OldTicket, NewTicket, Answered
    <3> QED BY <1>1, <2>1, <3>1
  <2>2. CASE t \notin Answered
    <3>1. ticket[t].resolution = None
      BY <1>2, <2>2 DEF Init, OldTicket, NewTicket, Exists
    <3> QED BY <3>1 DEF Words
  <2> QED BY <2>1, <2>2
<1>3. ASSUME NEW p \in Slots
      PROVE  ApartRequest(u, req[p])
  BY DEF Init, ApartRequest, Idle, Commenting, PatchChecked
<1>4. ASSUME NEW t \in Tickets, NEW c \in On(t)
      PROVE  ApartComment(u, c)
  <2>1. t \in Answered /\ c.text = OldReply(t)
    BY <1>4 DEF Init, On
  <2> QED BY <1>1, <2>1 DEF ApartComment
<1>5. ASSUME NEW t \in Tickets
      PROVE  ApartTask(u, bg[t])
  BY DEF Init, Off, ApartTask, Words
<1> QED BY <1>2, <1>3, <1>4, <1>5 DEF Apart

\* The words of an account that never is staff are never reused, however the
\* roles of the others change: nothing but a promotion of the very author makes
\* the memory take a customer for staff (latest_staff_reply reads the authors'
\* roles when the ticket is resolved, add_comment and update_ticket when the
\* request arrives).
THEOREM CustomersAreNotQuoted ==
  ASSUME NEW u \in Users
  PROVE  Spec /\ []~IsStaff(u) => []Unquoted(u)
<1>1. Init /\ ~IsStaff(u) => Apart(u)
  BY InitApart
<1>2. IInv /\ Course /\ ~IsStaff(u) /\ Apart(u) /\ [Next]_vars => Apart(u)'
  BY NextApart
<1>3. Apart(u) => Unquoted(u)
  <2> SUFFICES ASSUME Apart(u), NEW t \in Tickets, NEW i \in AIReplies(t)
               PROVE  ~Words(u, comments[t][i].text)
    BY DEF Apart, ApartTask, Unquoted
  <2>1. comments[t][i] \in On(t) /\ comments[t][i].author = AI
    BY DEF AIReplies, On
  <2> QED BY <2>1 DEF Apart, ApartComment
<1> QED BY <1>1, <1>2, <1>3, TrustInductive, PTL DEF Spec

----------------------------------------------------------------------------
(* How requests and background tasks move: forward only *)

\* How many steps of its own a request has before it, apart from the walk of
\* claim_next along its candidates.
StepsLeft ==
  [pc \in RequestPcs |->
     CASE pc = "idle" -> 0
       [] pc \in {"create.log", "patch.write", "assign.log", "claim.log",
                  "comment.remember"} -> 1
       [] pc \in {"patch.roles", "patch.reject", "assign.write", "claim.try",
                  "comment.log"} -> 2
       [] pc \in {"patch.replies", "assign.agent", "comment.insert"} -> 3
       [] pc \in {"patch.log", "comment.read"} -> 4
       [] pc = "patch.read" -> 5]

\* What a handler that goes on from r to s carries along.
Carries(r, s) ==
  /\ s \in Request /\ StepsLeft[s.pc] < StepsLeft[r.pc]
  /\ s.pc \notin {"idle", "patch.read"}
  /\ s.user = r.user /\ s.staff = r.staff /\ s.target = r.target
  /\ s.internal = r.internal
  /\ s.pc # "claim.log" => s.ticket = r.ticket
  /\ s.pc \in PatchChecked <=> r.pc \in PatchChecked \cup {"patch.read"}

\* claim_next goes on to its next candidate.
NextCandidate(r, s) ==
  \E t \in r.todo : r.pc = "claim.try" /\ s = [r EXCEPT !.todo = @ \ {t}]

\* What the handler in slot p makes of its request.
Moves(p) ==
  LET r == req[p]
      s == req'[p]
  IN \/ r # Idle /\ s = Idle
     \/ ClaimTry(p) /\ NextCandidate(r, s)
     \/ /\ Carries(r, s)
        /\ \/ PatchRead(p) /\ ~PatchRefused(r, ticket[r.ticket])
              /\ s.was = ticket[r.ticket].status
           \/ r.pc # "patch.read" /\ (r.pc \in PatchChecked => s.was = r.was)
        /\ \/ s.text = r.text
           \/ PatchRoles(p)
              /\ \E i \in StaffReplies(r.ticket, r.seen) :
                    s.text = comments[r.ticket][i].text

LEMMA StepsTable ==
  /\ StepsLeft["idle"] = 0 /\ StepsLeft["create.log"] = 1
  /\ StepsLeft["patch.write"] = 1 /\ StepsLeft["assign.log"] = 1
  /\ StepsLeft["claim.log"] = 1 /\ StepsLeft["comment.remember"] = 1
  /\ StepsLeft["patch.roles"] = 2 /\ StepsLeft["patch.reject"] = 2
  /\ StepsLeft["assign.write"] = 2 /\ StepsLeft["claim.try"] = 2
  /\ StepsLeft["comment.log"] = 2 /\ StepsLeft["patch.replies"] = 3
  /\ StepsLeft["assign.agent"] = 3 /\ StepsLeft["comment.insert"] = 3
  /\ StepsLeft["patch.log"] = 4 /\ StepsLeft["comment.read"] = 4
  /\ StepsLeft["patch.read"] = 5
BY DEF StepsLeft, RequestPcs

LEMMA GoesOn ==
  ASSUME IInv, NEW p \in Slots, NEW pc \in RequestPcs, Goto(p, pc),
         StepsLeft[pc] < StepsLeft[req[p].pc], pc \notin {"idle", "patch.read"},
         req[p].pc # "patch.read",
         pc \in PatchChecked <=> req[p].pc \in PatchChecked
  PROVE  Moves(p)
<1>1. req[p] \in Request /\ req'[p] = [req[p] EXCEPT !.pc = pc]
  BY DEF IInv, TypeOK, Goto
<1>2. Carries(req[p], req'[p])
  BY <1>1 DEF Carries, Request
<1>3. req'[p].was = req[p].was /\ req'[p].text = req[p].text
  BY <1>1 DEF Request
<1> QED BY <1>2, <1>3 DEF Moves

LEMMA HandlerMoves ==
  ASSUME IInv, NEW p \in Slots, Handlers(p) \/ RequestFault(p)
  PROVE  Moves(p)
<1> DEFINE r == req[p]
           s == req'[p]
<1>1. r \in Request /\ Fits(r, ticket)
  BY DEF IInv, TypeOK
<1>2. r # Idle
  <2>1. Handlers(p) => r.pc # "idle"
    BY DEF Handlers, CreateLog, PatchRead, PatchLog, PatchReplies,
       PatchRoles, PatchReject, PatchWrite, AssignAgent, AssignWrite, AssignLog,
       ClaimTry, TryClaim, ClaimNothing, ClaimLog, CommentRead, CommentInsert,
       CommentLog, CommentRemember, At
  <2>2. Idle.pc = "idle" /\ (RequestFault(p) => r # Idle)
    BY DEF Idle, RequestFault
  <2> QED BY <2>1, <2>2
<1>3. CASE Finish(p)
  BY <1>2, <1>3 DEF Finish, Moves, IInv, TypeOK
<1>4. CASE PatchRead(p)
  <2>1. ASSUME ~PatchRefused(r, ticket[r.ticket]),
               NEW pc \in {"patch.write", "patch.log"},
               NEW live \in BOOLEAN, NEW was \in Statuses,
               was = ticket[r.ticket].status,
               req' = [req EXCEPT ![p] =
                         [@ EXCEPT !.pc = pc, !.was = was, !.live = live]]
        PROVE  Moves(p)
    <3>1. s = [r EXCEPT !.pc = pc, !.was = was, !.live = live] /\ r.pc = "patch.read"
      BY <1>4, <2>1 DEF PatchRead, At, IInv, TypeOK
    <3>2. Carries(r, s)
      <4>1. /\ s \in Request /\ s.user = r.user /\ s.staff = r.staff
            /\ s.target = r.target /\ s.internal = r.internal
        BY <1>1, <3>1 DEF Request, RequestPcs
      <4>2. s.pc # "claim.log" => s.ticket = r.ticket
        BY <1>1, <3>1 DEF Request
      <4>3. s.pc = pc
        BY <1>1, <3>1 DEF Request
      <4> QED BY <1>1, <3>1, StepsTable, <4>1, <4>2, <4>3 DEF Carries, PatchChecked
    <3>3. s.was = was /\ s.text = r.text
      BY <1>1, <3>1 DEF Request
    <3> QED BY <1>4, <2>1, <3>2, <3>3 DEF Moves
  <2>2. ticket[r.ticket] \in Document /\ LiveAudit(ticket[r.ticket]) \in BOOLEAN
    BY <1>1, <1>4 DEF PatchRead, At, Fits, Holds, IInv, TypeOK, LiveAudit
  <2>3. ticket[r.ticket].status \in Statuses
    BY <2>2 DEF Document
  <2> QED BY <1>3, <1>4, <2>1, <2>2, <2>3 DEF PatchRead
<1>5. CASE PatchLog(p)
  <2>1. r.pc = "patch.log" /\ Goto(p, AfterStatusLog(r))
        /\ AfterStatusLog(r) \in {"patch.replies", "patch.reject", "patch.write"}
    BY <1>5 DEF PatchLog, At, AfterStatusLog
  <2> QED BY <2>1, GoesOn, StepsTable DEF RequestPcs, PatchChecked
<1>6. CASE PatchReplies(p)
  <2>1. s = [r EXCEPT !.pc = "patch.roles", !.seen = Len(comments[r.ticket])]
        /\ r.pc = "patch.replies" /\ r.ticket \in Tickets
    BY <1>1, <1>6 DEF PatchReplies, At, IInv, TypeOK, Fits, Holds
  <2>2. Len(comments[r.ticket]) \in Nat
    BY <2>1 DEF IInv, TypeOK
  <2>3. Carries(r, s)
    <3>1. /\ s \in Request /\ s.user = r.user /\ s.staff = r.staff
          /\ s.target = r.target /\ s.internal = r.internal
      BY <1>1, <2>1, <2>2 DEF Request, RequestPcs
    <3>2. s.pc # "claim.log" => s.ticket = r.ticket
      BY <1>1, <2>1, <2>2 DEF Request
    <3>3. s.pc = "patch.roles"
      BY <1>1, <2>1, <2>2 DEF Request
    <3> QED BY <1>1, <2>1, <2>2, StepsTable, <3>1, <3>2, <3>3 DEF Carries, PatchChecked
  <2>4. s.was = r.was /\ s.text = r.text
    BY <1>1, <2>1 DEF Request
  <2> QED BY <2>1, <2>3, <2>4 DEF Moves
<1>7. CASE PatchRoles(p)
  <2>1. ASSUME NEW i \in StaffReplies(r.ticket, r.seen),
               req' = [req EXCEPT ![p] =
                 [@ EXCEPT !.pc = "patch.write",
                           !.text = comments[r.ticket][i].text]]
        PROVE  Moves(p)
    <3>1. PICK t \in Tickets : t = r.ticket
      BY <1>1, <1>7 DEF PatchRoles, At, Fits, Holds
    <3>2. s = [r EXCEPT !.pc = "patch.write", !.text = comments[t][i].text]
          /\ r.pc = "patch.roles"
      BY <1>7, <2>1, <3>1 DEF PatchRoles, At, IInv, TypeOK
    <3>3. comments[t][i].text \in Resolution
      <4>1. /\ r.seen <= Len(comments[t]) /\ r.seen \in Nat
            /\ comments[t] \in Seq(Comment)
        BY <1>1, <3>1, <3>2 DEF IInv, TypeOK, Seen, Request
      <4>2. i \in DOMAIN comments[t]
        BY <2>1, <3>1, <4>1 DEF StaffReplies
      <4>3. comments[t][i] \in Comment
        BY <4>1, <4>2
      <4> QED BY <4>3 DEF Comment, Resolution
    <3>4. Carries(r, s)
      <4>1. /\ s \in Request /\ s.user = r.user /\ s.staff = r.staff
            /\ s.target = r.target /\ s.internal = r.internal
        BY <1>1, <3>2, <3>3 DEF Request, RequestPcs
      <4>2. s.pc # "claim.log" => s.ticket = r.ticket
        BY <1>1, <3>2, <3>3 DEF Request
      <4>3. s.pc = "patch.write"
        BY <1>1, <3>2, <3>3 DEF Request
      <4> QED BY <1>1, <3>2, <3>3, StepsTable, <4>1, <4>2, <4>3 DEF Carries, PatchChecked
    <3>5. s.was = r.was /\ s.text = comments[t][i].text
      BY <1>1, <3>2 DEF Request
    <3> QED BY <1>7, <2>1, <3>1, <3>2, <3>4, <3>5 DEF Moves
  <2>2. CASE Goto(p, "patch.write")
    <3>1. r.pc = "patch.roles"
      BY <1>7 DEF PatchRoles, At
    <3> QED BY <2>2, <3>1, GoesOn, StepsTable DEF RequestPcs, PatchChecked
  <2> QED BY <1>7, <2>1, <2>2 DEF PatchRoles
<1>8. CASE PatchReject(p)
  <2>1. s = [r EXCEPT !.pc = "patch.write", !.reject = TRUE]
        /\ r.pc = "patch.reject"
    BY <1>8 DEF PatchReject, At, IInv, TypeOK
  <2>2. Carries(r, s)
    <3>1. /\ s \in Request /\ s.user = r.user /\ s.staff = r.staff
          /\ s.target = r.target /\ s.internal = r.internal
      BY <1>1, <2>1 DEF Request, RequestPcs
    <3>2. s.pc # "claim.log" => s.ticket = r.ticket
      BY <1>1, <2>1 DEF Request
    <3>3. s.pc = "patch.write"
      BY <1>1, <2>1 DEF Request
    <3> QED BY <1>1, <2>1, StepsTable, <3>1, <3>2, <3>3 DEF Carries, PatchChecked
  <2>3. s.was = r.was /\ s.text = r.text
    BY <1>1, <2>1 DEF Request
  <2> QED BY <2>1, <2>2, <2>3 DEF Moves
<1>9. CASE ClaimTry(p)
  <2>1. PICK t \in r.todo :
          \/ req' = [req EXCEPT ![p] = [@ EXCEPT !.pc = "claim.log",
                                                 !.ticket = t, !.todo = {}]]
          \/ req' = [req EXCEPT ![p].todo = @ \ {t}]
    BY <1>9 DEF ClaimTry, TryClaim
  <2>2. t \in Tickets /\ r.pc = "claim.try"
    BY <1>1, <1>9 DEF Request, ClaimTry, TryClaim, At
  <2>3. ASSUME s = [r EXCEPT !.pc = "claim.log", !.ticket = t, !.todo = {}]
        PROVE  Moves(p)
    <3>1. Carries(r, s)
      <4>1. /\ s \in Request /\ s.user = r.user /\ s.staff = r.staff
            /\ s.target = r.target /\ s.internal = r.internal
        BY <1>1, <2>2, <2>3 DEF Request, RequestPcs
      <4>2. s.pc # "claim.log" => s.ticket = r.ticket
        BY <1>1, <2>2, <2>3 DEF Request
      <4>3. s.pc = "claim.log"
        BY <1>1, <2>2, <2>3 DEF Request
      <4> QED BY <1>1, <2>2, <2>3, StepsTable, <4>1, <4>2, <4>3 DEF Carries, PatchChecked
    <3>2. s.was = r.was /\ s.text = r.text
      BY <1>1, <2>3 DEF Request
    <3> QED BY <2>2, <3>1, <3>2 DEF Moves
  <2>4. ASSUME s = [r EXCEPT !.todo = @ \ {t}]
        PROVE  Moves(p)
    BY <1>9, <2>2, <2>4 DEF Moves, NextCandidate
  <2> QED BY <2>1, <2>3, <2>4 DEF IInv, TypeOK
<1>10. CASE CommentRead(p)
  <2>1. ASSUME NEW was \in Statuses, req' = [req EXCEPT ![p] =
                 [@ EXCEPT !.pc = "comment.insert", !.was = was]]
        PROVE  Moves(p)
    <3>1. s = [r EXCEPT !.pc = "comment.insert", !.was = was]
          /\ r.pc = "comment.read"
      BY <1>10, <2>1 DEF CommentRead, At, IInv, TypeOK
    <3>2. Carries(r, s)
      <4>1. /\ s \in Request /\ s.user = r.user /\ s.staff = r.staff
            /\ s.target = r.target /\ s.internal = r.internal
        BY <1>1, <3>1 DEF Request, RequestPcs
      <4>2. s.pc # "claim.log" => s.ticket = r.ticket
        BY <1>1, <3>1 DEF Request
      <4>3. s.pc = "comment.insert"
        BY <1>1, <3>1 DEF Request
      <4> QED BY <1>1, <3>1, StepsTable, <4>1, <4>2, <4>3 DEF Carries, PatchChecked
    <3>3. s.text = r.text
      BY <1>1, <3>1 DEF Request
    <3> QED BY <3>1, <3>2, <3>3 DEF Moves, PatchChecked
  <2>2. ticket[r.ticket] \in Document
    BY <1>1, <1>10 DEF CommentRead, At, Fits, Holds, IInv, TypeOK
  <2>3. ticket[r.ticket].status \in Statuses
    BY <2>2 DEF Document
  <2> QED BY <1>3, <1>10, <2>1, <2>3 DEF CommentRead
<1>11. CASE AssignAgent(p) \/ AssignWrite(p) \/ CommentInsert(p) \/ CommentLog(p)
  <2>1. CASE r.pc = "assign.agent" /\ Goto(p, "assign.write")
    BY <2>1, GoesOn, StepsTable DEF RequestPcs, PatchChecked
  <2>2. CASE r.pc = "assign.write" /\ Goto(p, "assign.log")
    BY <2>2, GoesOn, StepsTable DEF RequestPcs, PatchChecked
  <2>3. CASE r.pc = "comment.insert" /\ Goto(p, "comment.log")
    BY <2>3, GoesOn, StepsTable DEF RequestPcs, PatchChecked
  <2>4. CASE r.pc = "comment.log" /\ Goto(p, "comment.remember")
    BY <2>4, GoesOn, StepsTable DEF RequestPcs, PatchChecked
  <2> QED BY <1>3, <1>11, <2>1, <2>2, <2>3, <2>4
          DEF AssignAgent, AssignWrite, CommentInsert, CommentLog, At
<1>12. CASE CreateLog(p) \/ PatchWrite(p) \/ AssignLog(p) \/ ClaimNothing(p)
              \/ ClaimLog(p) \/ CommentRemember(p) \/ RequestFault(p)
  BY <1>3, <1>12 DEF CreateLog, PatchWrite, AssignLog, ClaimNothing, ClaimLog,
     CommentRemember, RequestFault
<1> QED BY <1>4, <1>5, <1>6, <1>7, <1>8, <1>9, <1>10, <1>11, <1>12 DEF Handlers

LEMMA Arrives ==
  ASSUME IInv, NEW p \in Slots, Requests(p)
  PROVE  /\ req[p] = Idle
         /\ req'[p].pc \in {"create.log", "patch.read", "assign.agent",
                            "claim.try", "comment.read"}
         /\ req'[p].text \notin {None, Blank}
              => req'[p].text.on = req'[p].ticket
<1>1. ASSUME NEW u \in Users, NEW t \in Tickets, CreateInsert(p, u, t)
      PROVE  req[p] = Idle /\ req'[p].pc = "create.log" /\ req'[p].text = None
  BY <1>1 DEF CreateInsert, Arrive, Idle, IInv, TypeOK
<1>2. ASSUME NEW u \in Users, ClaimRank(p, u)
      PROVE  req[p] = Idle /\ req'[p].pc = "claim.try" /\ req'[p].text = None
  BY <1>2 DEF ClaimRank, Arrive, Idle, IInv, TypeOK
<1>3. ASSUME NEW u \in Users, NEW t \in Tickets, NEW target,
             NEW text \in PatchTexts(u, t), PatchArrive(p, u, t, target, text)
      PROVE  /\ req[p] = Idle
             /\ req'[p].pc = "patch.read" /\ req'[p].ticket = t
             /\ req'[p].text = text /\ (text \notin {None, Blank} => text.on = t)
  <2>1. text \notin {None, Blank} => text.on = t
    BY DEF PatchTexts
  <2> QED BY <1>3, <2>1 DEF PatchArrive, Arrive, Idle, IInv, TypeOK
<1>4. ASSUME NEW u \in Users, NEW t \in Tickets, NEW a \in Users,
             AssignArrive(p, u, t, a)
      PROVE  req[p] = Idle /\ req'[p].pc = "assign.agent" /\ req'[p].text = None
  BY <1>4 DEF AssignArrive, Arrive, Idle, IInv, TypeOK
<1>5. ASSUME NEW u \in Users, NEW t \in Tickets, NEW blank \in BOOLEAN,
             NEW internal \in BOOLEAN, CommentArrive(p, u, t, blank, internal)
      PROVE  /\ req[p] = Idle /\ req'[p].pc = "comment.read"
             /\ req'[p].text \notin {None, Blank}
                  => req'[p].text.on = req'[p].ticket
  <2> DEFINE text == IF blank THEN Blank
                     ELSE [on |-> t, by |-> u, staff |-> IsStaff(u),
                           via |-> IF internal /\ IsStaff(u) THEN "note" ELSE "reply"]
             hidden == internal /\ IsStaff(u)
  <2>1. req' = [req EXCEPT ![p] =
           [[Idle EXCEPT !.pc = "comment.read", !.ticket = t,
                         !.internal = hidden, !.text = text]
              EXCEPT !.user = u, !.staff = IsStaff(u)]]
    BY <1>5 DEF CommentArrive, Arrive
  <2>2. text \notin {None, Blank} => text.on = t
    OBVIOUS
  <2> HIDE DEF text, hidden
  <2>3. /\ req'[p].pc = "comment.read" /\ req'[p].text = text
        /\ req'[p].ticket = t
    BY <2>1 DEF Idle, IInv, TypeOK
  <2>4. req[p] = Idle
    BY <1>5 DEF CommentArrive, Arrive
  <2> QED BY <2>2, <2>3, <2>4
<1> QED BY <1>1, <1>2, <1>3, <1>4, <1>5 DEF Requests

\* A step moves one slot at most; the others rest, or were lost in a crash.
LEMMA SlotsMove ==
  ASSUME IInv, Course, [Next]_vars, NEW p \in Slots, req'[p] # req[p]
  PROVE  \/ Requests(p)
         \/ (Handlers(p) \/ RequestFault(p)) /\ Moves(p)
         \/ req[p] # Idle /\ req'[p] = Idle
<1>1. ASSUME NEW q \in Slots, Requests(q)
      PROVE  Requests(p)
  BY <1>1, ArriveFresh
<1>2. ASSUME NEW q \in Slots, Handlers(q) \/ RequestFault(q)
      PROVE  (Handlers(p) \/ RequestFault(p)) /\ Moves(p)
  <2>1. q = p
    BY <1>2, HandlerLogs
  <2> QED BY <1>2, <2>1, HandlerMoves
<1>3. ASSUME NEW t \in Tickets, Background(t) \/ BackgroundFault(t)
      PROVE  UNCHANGED req
  BY <1>3 DEF Background, AutoCheck, AutoRecall, AutoNoMatch, AutoTake,
     TakeFromQueue, AutoBeaten, AutoReply, AutoLog, Classify, BackgroundFault
<1>4. CASE Crash
  BY <1>4 DEF Crash
<1> QED BY <1>1, <1>2, <1>3, <1>4 DEF Next, ChangeRole, vars

\* A slot that looks idle is free.
Resting == \A p \in Slots : req[p].pc = "idle" => req[p] = Idle

LEMMA RestingInductive == Spec => [](IInv /\ Course /\ Resting)
<1>1. Init => Resting
  BY DEF Init, Resting
<1>2. ASSUME IInv, Course, Resting, [Next]_vars, NEW p \in Slots,
             req'[p].pc = "idle"
      PROVE  req'[p] = Idle
  <2>1. CASE NextCandidate(req[p], req'[p])
    <3>1. req[p] \in Request
      BY <1>2 DEF IInv, TypeOK
    <3>2. req'[p].pc = "claim.try"
      BY <2>1, <3>1 DEF NextCandidate, Request
    <3> QED BY <1>2, <3>2
  <2>2. CASE Carries(req[p], req'[p])
    BY <1>2, <2>2 DEF Carries
  <2>3. CASE Requests(p)
    BY <1>2, <2>3, Arrives
  <2> QED BY <1>2, <2>1, <2>2, <2>3, SlotsMove DEF Moves, Resting
<1>3. IInv /\ Course /\ [Next]_vars => Course'
  BY StageInv, StartsInv, AllLogged, LogExplainsInv DEF Course
<1>4. IInv /\ Course /\ Resting /\ [Next]_vars => Resting'
  BY <1>2 DEF Resting
<1> QED BY <1>1, <1>3, <1>4, InitIInv, NextIInv, InitCourse, PTL DEF Spec

\* A request is only ever served forward: every step that changes it brings it
\* nearer to its end, or strikes one more candidate off the list of
\* claim_next.  So it takes at most five steps and one for each candidate.
Advances(p) ==
  req[p] # Idle /\ req'[p] # req[p] =>
    \/ StepsLeft[req'[p].pc] < StepsLeft[req[p].pc]
    \/ /\ req[p].pc = "claim.try" /\ req'[p].pc = "claim.try"
       /\ \E t \in req[p].todo : req'[p].todo = req[p].todo \ {t}

RequestsAdvance == [][\A p \in Slots : Advances(p)]_vars

THEOREM RequestsTerminate == Spec => RequestsAdvance
<1>1. ASSUME IInv, Course, Resting, [Next]_vars, NEW p \in Slots,
             req[p] # Idle, req'[p] # req[p]
      PROVE  \/ StepsLeft[req'[p].pc] < StepsLeft[req[p].pc]
             \/ /\ req[p].pc = "claim.try" /\ req'[p].pc = "claim.try"
                /\ \E t \in req[p].todo : req'[p].todo = req[p].todo \ {t}
  <2>1. req[p] \in Request
    BY <1>1 DEF IInv, TypeOK
  <2>2. CASE req'[p] = Idle
    <3>1. req[p].pc # "idle"
      BY <1>1 DEF Resting
    <3> QED BY <2>1, <2>2, <3>1 DEF Idle, StepsLeft, RequestPcs, Request
  <2>3. CASE NextCandidate(req[p], req'[p])
    BY <2>1, <2>3 DEF NextCandidate, Request
  <2>4. CASE Carries(req[p], req'[p])
    BY <2>4 DEF Carries
  <2> QED BY <1>1, <2>2, <2>3, <2>4, SlotsMove, Arrives DEF Moves
<1>2. IInv /\ Course /\ Resting /\ [Next]_vars
        => [\A p \in Slots : Advances(p)]_vars
  BY <1>1 DEF Advances
<1> QED BY <1>2, RestingInductive, PTL DEF Spec, RequestsAdvance

\* ... and so is the background task of a ticket, whatever it meets: nothing
\* starts it twice, and nothing resumes one that was lost.
TaskLeft ==
  [pc \in AutoPcs \cup {"off", "classify", "done", "lost"} |->
     CASE pc = "off" -> 7 [] pc = "check" -> 6 [] pc = "recall" -> 5
       [] pc = "ask" -> 4 [] pc = "reply" -> 3 [] pc = "log" -> 2
       [] pc = "classify" -> 1 [] pc \in {"done", "lost"} -> 0]

TaskAdvances(t) ==
  IF bg[t].pc = "lost"
  THEN bg'[t].pc = "lost"
  ELSE bg'[t] # bg[t] => TaskLeft[bg'[t].pc] < TaskLeft[bg[t].pc]

TasksAdvance == [][\A t \in Tickets : TaskAdvances(t)]_vars

\* The steps of a task, the failures and the crash that ends it.
TaskMoves(t) ==
  \/ bg'[t] = bg[t]
  \/ bg[t].pc = "lost" /\ bg'[t].pc = "lost"
  \/ bg[t].pc = "off" /\ bg'[t].pc = "check"
  \/ bg[t].pc = "check" /\ bg'[t].pc = "recall" /\ AutoEnabled
  \/ bg[t].pc = "recall" /\ bg'[t].pc = "ask"
  \/ AutoTake(t) /\ bg[t].pc = "ask" /\ bg'[t].pc = "reply"
  \/ AutoReply(t) /\ bg[t].pc = "reply" /\ bg'[t].pc = "log"
  \/ AutoLog(t) /\ bg[t].pc = "log" /\ bg'[t].pc = "classify"
  \/ bg[t].pc \in {"check", "recall", "ask"} /\ bg'[t].pc = "classify"
  \/ Classify(t) /\ bg[t].pc = "classify" /\ bg'[t].pc = "done"
  \/ bg[t].pc \in AutoPcs /\ bg'[t].pc = "classify" /\ faults' > 0
  \/ bg[t].pc = "classify" /\ bg'[t].pc = "lost" /\ faults' > 0
  \/ bg[t].pc \notin {"off", "done", "lost"} /\ bg'[t].pc = "lost" /\ crashes' > 0

LEMMA BackgroundMoves ==
  ASSUME IInv, Course, NEW x \in Tickets, Background(x) \/ BackgroundFault(x),
         NEW t \in Tickets
  PROVE  TaskMoves(t)
<1>1. bg \in [Tickets -> Task] /\ faults \in Nat
  BY DEF IInv, TypeOK
<1>2. CASE t # x
  <2>1. bg'[t] = bg[t]
    BY <1>1, <1>2 DEF Background, AutoCheck, AutoRecall, AutoNoMatch, AutoTake,
       TakeFromQueue, AutoBeaten, AutoReply, AutoLog, Classify, BackgroundFault,
       BgGoto
  <2> QED BY <2>1 DEF TaskMoves
<1>3. ASSUME t = x, NEW pc, BgGoto(t, pc)
      PROVE  bg'[t].pc = pc
  BY <1>1, <1>3 DEF BgGoto, Off
<1>4. CASE t = x /\ (AutoCheck(t) \/ AutoNoMatch(t) \/ AutoBeaten(t))
  BY <1>3, <1>4 DEF AutoCheck, AutoNoMatch, AutoBeaten, BgAt, TaskMoves
<1>5. CASE t = x /\ AutoRecall(t)
  <2>1. ASSUME NEW k, bg' = [bg EXCEPT ![t] = [@ EXCEPT !.pc = "ask", !.found = k]]
        PROVE  bg'[t].pc = "ask"
    <3>1. bg'[t] = [bg[t] EXCEPT !.pc = "ask", !.found = k] /\ bg[t] \in Task
      BY <1>1, <2>1
    <3> QED BY <3>1 DEF Task
  <2> QED BY <1>3, <1>5, <2>1 DEF AutoRecall, BgAt, TaskMoves
<1>6. CASE t = x /\ AutoTake(t)
  BY <1>6, TakeStep DEF TaskMoves
<1>7. CASE t = x /\ AutoReply(t)
  BY <1>7, ReplyStep DEF TaskMoves
<1>8. CASE t = x /\ (AutoLog(t) \/ Classify(t))
  BY <1>3, <1>8 DEF AutoLog, Classify, BgAt, TaskMoves
<1>9. CASE t = x /\ BackgroundFault(t)
  <2>1. faults' > 0
    BY <1>1, <1>9 DEF BackgroundFault
  <2> QED BY <1>3, <1>9, <2>1 DEF BackgroundFault, BgAt, TaskMoves
<1> QED BY <1>2, <1>4, <1>5, <1>6, <1>7, <1>8, <1>9 DEF Background

LEMMA EveryTaskMoves ==
  ASSUME IInv, Course, [Next]_vars, NEW t \in Tickets
  PROVE  TaskMoves(t)
<1>1. CASE UNCHANGED bg
  BY <1>1 DEF TaskMoves
<1>2. ASSUME NEW p \in Slots, CreateLog(p)
      PROVE  TaskMoves(t)
  <2>1. PICK x \in Tickets : Starting(p, x)
    BY <1>2 DEF CreateLog, At, IInv, TypeOK, Fits, Holds, Starting
  <2>2. bg' = [bg EXCEPT ![x] = [Off EXCEPT !.pc = "check"]] /\ bg[x].pc = "off"
    BY <1>2, <2>1 DEF CreateLog, Starting, Course, Starts
  <2>3. bg'[x].pc = "check" /\ (t # x => bg'[t] = bg[t])
    BY <2>2 DEF Off, IInv, TypeOK
  <2> QED BY <2>2, <2>3 DEF TaskMoves
<1>3. ASSUME NEW p \in Slots, Requests(p) \/ Handlers(p) \/ RequestFault(p),
             ~CreateLog(p)
      PROVE  UNCHANGED bg
  BY <1>3 DEF Requests, ClaimRank, CreateInsert, PatchArrive, AssignArrive,
     CommentArrive, Handlers, PatchRead, PatchLog, PatchReplies, PatchRoles,
     PatchReject, PatchWrite, AssignAgent, AssignWrite, AssignLog, ClaimTry,
     TryClaim, ClaimNothing, ClaimLog, CommentRead, CommentInsert, CommentLog,
     CommentRemember, RequestFault
<1>4. CASE Crash
  <2>1. crashes' > 0
    BY <1>4 DEF Crash, IInv, TypeOK
  <2>2. \/ bg'[t] = bg[t]
        \/ bg[t].pc \notin {"off", "done"} /\ bg'[t] = [Off EXCEPT !.pc = "lost"]
    BY <1>4 DEF Crash
  <2>3. [Off EXCEPT !.pc = "lost"].pc = "lost"
    BY DEF Off
  <2> QED BY <2>1, <2>2, <2>3 DEF TaskMoves
<1> QED BY <1>1, <1>2, <1>3, <1>4, BackgroundMoves DEF Next, ChangeRole, vars

THEOREM TasksTerminate == Spec => TasksAdvance
<1>1. ASSUME IInv, Course, [Next]_vars, NEW t \in Tickets
      PROVE  TaskAdvances(t)
  <2>1. /\ TaskLeft["off"] = 7 /\ TaskLeft["check"] = 6 /\ TaskLeft["recall"] = 5
        /\ TaskLeft["ask"] = 4 /\ TaskLeft["reply"] = 3 /\ TaskLeft["log"] = 2
        /\ TaskLeft["classify"] = 1 /\ TaskLeft["done"] = 0 /\ TaskLeft["lost"] = 0
    BY DEF TaskLeft, AutoPcs
  <2>2. TaskMoves(t) /\ bg[t].pc \in AutoPcs \cup {"off", "classify", "done", "lost"}
    BY <1>1, EveryTaskMoves DEF IInv, TypeOK, Task
  <2>3. CASE bg[t].pc = "lost"
    BY <2>2, <2>3 DEF TaskMoves, TaskAdvances, AutoPcs
  <2>4. CASE bg[t].pc # "lost"
    BY <2>1, <2>2, <2>4 DEF TaskMoves, TaskAdvances, AutoPcs
  <2> QED BY <2>3, <2>4
<1>2. IInv /\ Course /\ [Next]_vars => [\A t \in Tickets : TaskAdvances(t)]_vars
  BY <1>1
<1> QED BY <1>2, CourseInductive, PTL DEF Spec, TasksAdvance

----------------------------------------------------------------------------
(* What a task leaves behind when it ends *)

Unfailed == faults = 0 /\ crashes = 0

\* Without failures no task is lost, and one that took its ticket posts the
\* reply before it goes on, then logs it.
Delivers(t) ==
  /\ bg[t].pc # "lost"
  /\ Exists(t) /\ ticket[t].auto # None =>
       /\ bg[t].pc \in {"log", "classify", "done"} => AIReplies(t) # {}
       /\ bg[t].pc \in {"classify", "done"} => "auto_resolved" \in log[t]

Outcome(t) ==
  /\ bg[t].pc = "done" => Exists(t) /\ ticket[t].ai # "pending"
  /\ Unfailed => Delivers(t)
  /\ ~AutoEnabled => bg[t].pc \notin {"recall", "ask"}

\* What a step may do to the fields of a document that its task relies on, and
\* to those that belong to somebody.
DocMoves(t) ==
  Exists(t) =>
    /\ Exists(t)'
    /\ ticket'[t].createdBy = ticket[t].createdBy
    /\ ticket[t].assignedAgent # None => ticket'[t].assignedAgent # None
    /\ ticket[t].ai # "pending" => ticket'[t].ai # "pending"
    /\ \/ ticket'[t].status = ticket[t].status
       \/ AutoTake(t) /\ ticket[t].status = "OPEN" /\ ticket'[t].status = AutoTarget
       \/ \E p \in Slots : /\ PatchWrite(p) /\ req[p].ticket = t
                           /\ req[p].target # None
                           /\ ticket'[t].status = req[p].target
    /\ \/ ticket'[t].resolution = ticket[t].resolution
       \/ AutoTake(t)
       \/ \E p \in Slots : /\ PatchWrite(p) \/ CommentRemember(p)
                           /\ req[p].ticket = t /\ req[p].text # None
                           /\ ticket'[t].resolution = req[p].text

LEMMA OtherDocs ==
  ASSUME IInv, NEW t \in Tickets, ticket'[t] = ticket[t]
  PROVE  DocMoves(t)
BY DEF DocMoves, Exists

LEMMA PatchWriteMoves ==
  ASSUME IInv, NEW p \in Slots, PatchWrite(p), NEW t \in Tickets
  PROVE  DocMoves(t)
<1>1. req[p] \in Request /\ req[p].pc = "patch.write" /\ Fits(req[p], ticket)
  BY DEF PatchWrite, At, IInv, TypeOK
<1> DEFINE r == req[p]
           doc == ticket[t]
           audit == IF r.reject THEN [doc.auto EXCEPT !.reopened = TRUE]
                                ELSE doc.auto
           status == IF r.target = None THEN doc.status ELSE r.target
           text == IF r.text = None THEN doc.resolution ELSE r.text
           written == [doc EXCEPT !.status = status, !.resolution = text,
                                  !.auto = audit]
<1>2. CASE t # r.ticket
  BY <1>2, OtherDocs DEF PatchWrite, SetTicket, IInv, TypeOK
<1>3. CASE t = r.ticket
  <2>1. ticket' = [ticket EXCEPT ![t] = written]
    BY <1>3 DEF PatchWrite, SetTicket
  <2>2. doc \in Document /\ doc # None
    BY <1>1, <1>3 DEF Fits, Holds, IInv, TypeOK
  <2>3. r.reject => doc.auto \in Audit
    BY <1>1, <1>3, <2>2 DEF Fits, Holds, Document
  <2>4. /\ status \in Statuses /\ text \in Resolution
        /\ audit \in Audit \cup {None}
    BY <1>1, <2>2, <2>3 DEF Document, Request, Audit
  <2>5. /\ written \in Document /\ written.status = status
        /\ written.resolution = text /\ written.createdBy = doc.createdBy
        /\ written.assignedAgent = doc.assignedAgent /\ written.ai = doc.ai
    <3> HIDE DEF status, audit, text, doc
    <3> QED BY <2>2, <2>4 DEF Document
  <2>6. ticket'[t] = written /\ ticket'[t] # None
    BY <2>1, <2>2, <2>5 DEF IInv, TypeOK
  <2>7. /\ status = doc.status \/ (r.target # None /\ status = r.target)
        /\ text = doc.resolution \/ (r.text # None /\ text = r.text)
    OBVIOUS
  <2> HIDE DEF status, audit, text, written
  <2> QED BY <1>3, <2>5, <2>6, <2>7 DEF DocMoves, Exists
<1> QED BY <1>2, <1>3

\* A write of the agent or of the AI's suggestion.
LEMMA FieldMoves ==
  ASSUME IInv, NEW x \in Tickets, NEW doc \in Document, Exists(x),
         ticket' = [ticket EXCEPT ![x] = doc],
         doc.createdBy = ticket[x].createdBy, doc.status = ticket[x].status,
         ticket[x].assignedAgent # None => doc.assignedAgent # None,
         ticket[x].ai # "pending" => doc.ai # "pending",
         \/ doc.resolution = ticket[x].resolution
         \/ \E p \in Slots : /\ CommentRemember(p)
                             /\ req[p].ticket = x /\ req[p].text # None
                             /\ doc.resolution = req[p].text,
         NEW t \in Tickets
  PROVE  DocMoves(t)
<1>1. doc # None /\ ticket'[x] = doc /\ (t # x => ticket'[t] = ticket[t])
  BY DEF IInv, TypeOK
<1> QED BY <1>1, OtherDocs DEF DocMoves, Exists

LEMMA HandlerDocs ==
  ASSUME IInv, NEW p \in Slots, Handlers(p), NEW t \in Tickets
  PROVE  DocMoves(t)
<1> DEFINE r == req[p]
<1>1. r \in Request /\ Fits(r, ticket)
  BY DEF IInv, TypeOK
<1>2. ASSUME NEW x \in Tickets, Exists(x), NEW a \in Users,
             ticket' = [ticket EXCEPT ![x].assignedAgent = a]
      PROVE  DocMoves(t)
  <2>1. ticket[x] \in Document
    BY <1>2 DEF IInv, TypeOK, Exists
  <2> DEFINE doc == [ticket[x] EXCEPT !.assignedAgent = a]
  <2>2. /\ doc \in Document /\ doc.createdBy = ticket[x].createdBy
        /\ doc.status = ticket[x].status /\ doc.assignedAgent # None
        /\ doc.ai = ticket[x].ai /\ doc.resolution = ticket[x].resolution
    BY <2>1 DEF Document
  <2>3. ticket' = [ticket EXCEPT ![x] = doc]
    BY <1>2 DEF IInv, TypeOK
  <2> HIDE DEF doc
  <2> QED BY <1>2, <2>2, <2>3, FieldMoves
<1>3. CASE AssignWrite(p)
  <2>1. PICK x \in Tickets : x = r.ticket /\ Exists(x)
    BY <1>1, <1>3 DEF AssignWrite, At, Fits, Holds, Exists
  <2>2. r.agent \in Users
    BY <1>1, <1>3 DEF AssignWrite, At, Fits, Holds
  <2> QED BY <1>2, <1>3, <2>1, <2>2 DEF AssignWrite
<1>4. CASE ClaimTry(p)
  <2>1. ASSUME NEW x \in Queue, ticket' = [ticket EXCEPT ![x].assignedAgent = r.user]
        PROVE  DocMoves(t)
    <3>1. x \in Tickets /\ Exists(x) /\ r.user \in Users
      BY <1>1, <1>4 DEF Queue, InQueue, ClaimTry, TryClaim, At, Fits
    <3> QED BY <1>2, <2>1, <3>1
  <2> QED BY <1>4, <2>1, OtherDocs DEF ClaimTry, TryClaim
<1>5. CASE CommentRemember(p)
  <2>1. PICK x \in Tickets : x = r.ticket /\ Exists(x)
    BY <1>1, <1>5 DEF CommentRemember, At, Fits, Holds, Exists
  <2>2. ticket[x] \in Document /\ r.text \in Resolution /\ r.text # None
    BY <1>1, <1>5, <2>1 DEF IInv, TypeOK, Exists, Request, CommentRemember, At,
       Fits, Holds
  <2> DEFINE doc == [ticket[x] EXCEPT !.resolution = r.text]
  <2>3. /\ doc \in Document /\ doc.createdBy = ticket[x].createdBy
        /\ doc.status = ticket[x].status /\ doc.ai = ticket[x].ai
        /\ doc.assignedAgent = ticket[x].assignedAgent
        /\ doc.resolution = r.text
    BY <2>2 DEF Document
  <2>4. ticket' = [ticket EXCEPT ![x] = doc]
    BY <1>5, <2>1 DEF CommentRemember, IInv, TypeOK
  <2> HIDE DEF doc
  <2> QED BY <1>5, <2>1, <2>2, <2>3, <2>4, FieldMoves
<1>6. ASSUME ~PatchWrite(p), ~AssignWrite(p), ~ClaimTry(p), ~CommentRemember(p)
      PROVE  UNCHANGED ticket
  BY <1>6 DEF Handlers, CreateLog, PatchRead, PatchLog, PatchReplies,
     PatchRoles, PatchReject, AssignAgent, AssignLog, ClaimNothing, ClaimLog,
     CommentRead, CommentInsert, CommentLog, store
<1> QED BY <1>3, <1>4, <1>5, <1>6, PatchWriteMoves, OtherDocs

LEMMA BackgroundDocs ==
  ASSUME IInv, NEW x \in Tickets, Background(x) \/ BackgroundFault(x),
         NEW t \in Tickets
  PROVE  DocMoves(t)
<1>1. CASE AutoTake(x)
  <2>1. PICK c \in bg[x].found :
          ticket' = [ticket EXCEPT ![x] = [ticket[x] EXCEPT
                       !.status = AutoTarget, !.resolution = c.resolution,
                       !.auto = [source |-> c.ticket, reopened |-> FALSE]]]
    BY <1>1 DEF AutoTake, TakeFromQueue, SetTicket
  <2>2. /\ ticket[x] \in Document /\ c \in Answer
        /\ ticket[x].status = "OPEN"
    BY <1>1 DEF AutoTake, TakeFromQueue, AutoTakeFilter, BgAt, AutoPcs, IInv,
       TypeOK, Working, Task
  <2> DEFINE audit == [source |-> c.ticket, reopened |-> FALSE]
             doc == [ticket[x] EXCEPT !.status = AutoTarget,
                       !.resolution = c.resolution, !.auto = audit]
  <2>3. audit \in Audit /\ c.resolution \in Resolution /\ AutoTarget \in Statuses
    BY <2>2 DEF Audit, Answer, Resolution, AutoTarget, Statuses
  <2>4. /\ doc \in Document /\ doc.createdBy = ticket[x].createdBy
        /\ doc.status = AutoTarget /\ doc.ai = ticket[x].ai
        /\ doc.assignedAgent = ticket[x].assignedAgent
    <3> HIDE DEF audit
    <3> QED BY <2>2, <2>3 DEF Document
  <2>5. ticket' = [ticket EXCEPT ![x] = doc]
    BY <2>1
  <2> HIDE DEF doc
  <2>6. doc # None /\ ticket'[x] = doc /\ (t # x => ticket'[t] = ticket[t])
    BY <2>4, <2>5 DEF IInv, TypeOK
  <2> QED BY <1>1, <2>2, <2>4, <2>6, OtherDocs DEF DocMoves, Exists
<1>2. CASE Classify(x)
  <2>1. PICK s \in {"ok", "unavailable"} : ticket' = [ticket EXCEPT ![x].ai = s]
    BY <1>2 DEF Classify
  <2>2. ticket[x] \in Document /\ Exists(x)
    BY <1>2 DEF Classify, BgAt, IInv, TypeOK, Working, Exists
  <2> DEFINE doc == [ticket[x] EXCEPT !.ai = s]
  <2>3. /\ doc \in Document /\ doc.createdBy = ticket[x].createdBy
        /\ doc.status = ticket[x].status /\ doc.ai # "pending"
        /\ doc.assignedAgent = ticket[x].assignedAgent
        /\ doc.resolution = ticket[x].resolution
    BY <2>2 DEF Document
  <2>4. ticket' = [ticket EXCEPT ![x] = doc]
    BY <2>1 DEF IInv, TypeOK
  <2> HIDE DEF doc
  <2> QED BY <2>2, <2>3, <2>4, FieldMoves
<1>3. ASSUME ~AutoTake(x), ~Classify(x)
      PROVE  UNCHANGED ticket
  BY <1>3 DEF Background, AutoCheck, AutoRecall, AutoNoMatch, AutoBeaten,
     AutoReply, AutoLog, BackgroundFault, store
<1> QED BY <1>1, <1>2, <1>3, OtherDocs

LEMMA EveryDocMoves ==
  ASSUME IInv, [Next]_vars, NEW t \in Tickets
  PROVE  DocMoves(t)
<1>1. CASE UNCHANGED ticket
  BY <1>1, OtherDocs
<1>2. ASSUME NEW p \in Slots, Requests(p)
      PROVE  DocMoves(t)
  <2>1. ASSUME NEW u \in Users, NEW x \in Tickets, CreateInsert(p, u, x)
        PROVE  DocMoves(t)
    <3>1. ~Exists(x) /\ (t # x => ticket'[t] = ticket[t])
      BY <2>1 DEF CreateInsert, SetTicket, IInv, TypeOK
    <3> QED BY <3>1, OtherDocs DEF DocMoves
  <2> QED BY <1>1, <1>2, <2>1 DEF Requests, ClaimRank, PatchArrive,
          AssignArrive, CommentArrive, store
<1>3. ASSUME NEW p \in Slots, RequestFault(p)
      PROVE  UNCHANGED ticket
  BY <1>3 DEF RequestFault, store
<1> QED BY <1>1, <1>2, <1>3, HandlerDocs, BackgroundDocs
        DEF Next, Crash, ChangeRole, vars, store

\* Failures are counted and never forgotten.
LEMMA FailuresAdd ==
  ASSUME IInv, [Next]_vars
  PROVE  (faults' = 0 => faults = 0) /\ (crashes' = 0 => crashes = 0)
<1>1. faults \in Nat /\ crashes \in Nat
  BY DEF IInv, TypeOK
<1>2. ASSUME NEW p \in Slots, Requests(p) \/ Handlers(p)
      PROVE  UNCHANGED <<faults, crashes>>
  BY <1>2 DEF Requests, ClaimRank, CreateInsert, PatchArrive, AssignArrive,
     CommentArrive, Handlers, CreateLog, PatchRead, PatchLog, PatchReplies,
     PatchRoles, PatchReject, PatchWrite, AssignAgent, AssignWrite, AssignLog,
     ClaimTry, TryClaim, ClaimNothing, ClaimLog, CommentRead, CommentInsert,
     CommentLog, CommentRemember, counts
<1>3. ASSUME NEW x \in Tickets, Background(x)
      PROVE  UNCHANGED <<faults, crashes>>
  BY <1>3 DEF Background, AutoCheck, AutoRecall, AutoNoMatch, AutoTake,
     TakeFromQueue, AutoBeaten, AutoReply, AutoLog, Classify, counts
<1>4. ASSUME (\E p \in Slots : RequestFault(p))
             \/ \E x \in Tickets : BackgroundFault(x)
      PROVE  faults' = faults + 1 /\ UNCHANGED crashes
  BY <1>4 DEF RequestFault, BackgroundFault
<1>5. CASE Crash
  BY <1>1, <1>5 DEF Crash
<1>6. CASE UNCHANGED vars \/ \E u \in Users, to \in Roles : ChangeRole(u, to)
  BY <1>6 DEF vars, ChangeRole, counts
<1> QED BY <1>1, <1>2, <1>3, <1>4, <1>5, <1>6 DEF Next

LEMMA OutcomeInv ==
  ASSUME IInv, Course, NEW t \in Tickets, Outcome(t), [Next]_vars
  PROVE  Outcome(t)'
<1>1. TaskMoves(t) /\ DocMoves(t) /\ Stage(t)
  BY EveryTaskMoves, EveryDocMoves DEF Course
<1>2. log[t] \subseteq log'[t]
  BY LogGrows
<1>3. Unfailed' => Unfailed /\ faults' = 0 /\ crashes' = 0
  BY FailuresAdd DEF Unfailed
<1>4. bg'[t].pc = "done" => Exists(t)' /\ ticket'[t].ai # "pending"
  <2>1. CASE Classify(t)
    <3>1. PICK s \in {"ok", "unavailable"} : ticket' = [ticket EXCEPT ![t].ai = s]
      BY <2>1 DEF Classify
    <3>2. ticket[t] \in Document /\ Exists(t)
      BY <2>1 DEF Classify, BgAt, IInv, TypeOK, Working, Exists
    <3>3. ticket'[t] = [ticket[t] EXCEPT !.ai = s]
      BY <3>1 DEF IInv, TypeOK
    <3>4. ticket'[t].ai = s
      BY <3>2, <3>3 DEF Document
    <3> QED BY <1>1, <3>2, <3>4 DEF DocMoves
  <2>2. CASE ~Classify(t)
    BY <1>1, <2>2 DEF TaskMoves, Outcome, DocMoves
  <2> QED BY <2>1, <2>2
<1>5. Unfailed' => Delivers(t)'
  <2> SUFFICES ASSUME Unfailed' PROVE Delivers(t)'
    OBVIOUS
  <2>1. Delivers(t)
    BY <1>3 DEF Outcome
  <2>2. bg'[t].pc # "lost"
    BY <1>1, <1>3, <2>1 DEF TaskMoves, Delivers
  <2>3. ASSUME Exists(t)', ticket'[t].auto # None,
               bg'[t].pc \in {"log", "classify", "done"}
        PROVE  AIReplies(t)' # {}
    <3>1. CASE Calm(t)
      <4>1. bg[t].pc \notin Early
        <5>1. ~Exists(t) => bg[t].pc = "off" /\ ticket'[t].auto = None
          BY <1>1, <2>3, <3>1 DEF Stage, Calm, DocStep
        <5>2. Exists(t) => ticket[t].auto # None
          BY <2>3, <3>1 DEF Calm, DocStep
        <5> QED BY <1>1, <2>3, <5>1, <5>2 DEF Stage
      <4>2. bg[t].pc # "reply"
        <5>1. ~AutoReply(t) => bg[t].pc \in {"log", "classify", "done"}
          BY <1>1, <1>3, <2>1, <2>3, <4>1 DEF TaskMoves, Early, Delivers, AutoPcs
        <5>2. AutoReply(t) => AIReplies(t)' # {} /\ AIReplies(t) = {}
          BY <1>1, ReplyStep DEF Stage
        <5> QED BY <3>1, <5>1, <5>2 DEF Calm
      <4>3. bg[t].pc \in {"log", "classify", "done"}
        BY <1>1, <1>3, <2>1, <2>3, <4>1, <4>2 DEF TaskMoves, Early, Delivers, AutoPcs
      <4>4. Exists(t) /\ ticket[t].auto # None
        BY <1>1, <2>3, <3>1, <4>3 DEF Stage, Calm, DocStep
      <4> QED BY <2>1, <3>1, <4>3, <4>4 DEF Delivers, Calm
    <3>2. CASE AutoTake(t)
      BY <2>3, <3>2, TakeStep
    <3>3. CASE AutoReply(t)
      BY <3>3, ReplyStep
    <3> QED BY <3>1, <3>2, <3>3, StepCalm
  <2>4. ASSUME Exists(t)', ticket'[t].auto # None,
               bg'[t].pc \in {"classify", "done"}
        PROVE  "auto_resolved" \in log'[t]
    <3>1. CASE AutoLog(t)
      BY <3>1 DEF AutoLog, Log, IInv, TypeOK
    <3>2. CASE ~AutoLog(t)
      <4>1. ~AutoTake(t) /\ ~AutoReply(t)
        BY <2>4, TakeStep, ReplyStep
      <4>2. Calm(t)
        BY <4>1, StepCalm
      <4>3. bg[t].pc \notin Early
        <5>1. ~Exists(t) => bg[t].pc = "off" /\ ticket'[t].auto = None
          BY <1>1, <2>4, <4>2 DEF Stage, Calm, DocStep
        <5>2. Exists(t) => ticket[t].auto # None
          BY <2>4, <4>2 DEF Calm, DocStep
        <5> QED BY <1>1, <2>4, <5>1, <5>2 DEF Stage
      <4>4. bg[t].pc \in {"classify", "done"}
        BY <1>1, <1>3, <2>1, <2>4, <3>2, <4>3 DEF TaskMoves, Early, Delivers, AutoPcs
      <4>5. Exists(t) /\ ticket[t].auto # None
        BY <1>1, <2>4, <4>2, <4>4 DEF Stage, Calm, DocStep
      <4> QED BY <1>2, <2>1, <4>4, <4>5 DEF Delivers
    <3> QED BY <3>1, <3>2
  <2> QED BY <2>2, <2>3, <2>4 DEF Delivers
<1>6. ~AutoEnabled => bg'[t].pc \notin {"recall", "ask"}
  BY <1>1 DEF TaskMoves, Outcome
<1> QED BY <1>4, <1>5, <1>6 DEF Outcome

LEMMA InitOutcome ==
  ASSUME Init, NEW t \in Tickets PROVE Outcome(t)
<1>1. ASSUME t \in DOMAIN History
      PROVE  /\ ticket[t] # None /\ ticket[t].auto = None
             /\ ticket[t].ai # "pending" /\ bg[t].pc = "done"
  <2>1. ticket[t] = OldTicket(t) /\ bg[t].pc = "done"
    BY <1>1 DEF Init, Off
  <2>2. OldTicket(t).auto = None /\ OldTicket(t).ai # "pending"
    BY DEF OldTicket, NewTicket
  <2> QED BY <1>1, <2>1, <2>2, OldTicketTyped
<1>2. t \notin DOMAIN History => ticket[t] = None /\ bg[t].pc = "off"
  BY DEF Init, Off
<1> QED BY <1>1, <1>2 DEF Outcome, Delivers, Exists

LEMMA OutcomeInductive ==
  Spec => [](IInv /\ Course /\ \A t \in Tickets : Outcome(t))
<1>1. Init => \A t \in Tickets : Outcome(t)
  BY InitOutcome
<1>2. IInv /\ Course /\ (\A t \in Tickets : Outcome(t)) /\ [Next]_vars
        => (\A t \in Tickets : Outcome(t))'
  BY OutcomeInv
<1>3. IInv /\ Course /\ [Next]_vars => Course'
  BY StageInv, StartsInv, AllLogged, LogExplainsInv DEF Course
<1> QED BY <1>1, <1>2, <1>3, InitIInv, NextIInv, InitCourse, PTL DEF Spec

\* The safety half of what a creation promises: a background task that ended
\* has classified its ticket, and if nothing failed and it took the ticket
\* from the queue, then the AI's answer and its log entry are there.
TaskDelivers ==
  \A t \in Tickets : bg[t].pc = "done" =>
    /\ Exists(t) /\ ticket[t].ai # "pending"
    /\ Unfailed /\ ticket[t].auto # None
         => AIReplies(t) # {} /\ "auto_resolved" \in log[t]

THEOREM TasksDeliver == Spec => []TaskDelivers
<1>1. (\A t \in Tickets : Outcome(t)) => TaskDelivers
  BY DEF Outcome, Delivers, TaskDelivers
<1> QED BY <1>1, OutcomeInductive, PTL

\* What memory.py says of failures is broken by failures only: while none
\* happens, a ticket the AI resolved has its answer once its task is over.
THEOREM OnlyFailuresStrand == Spec => [](Unfailed => FailureLeavesQueue)
<1>1. (\A t \in Tickets : Outcome(t)) => (Unfailed => FailureLeavesQueue)
  BY DEF Outcome, Delivers, FailureLeavesQueue
<1> QED BY <1>1, OutcomeInductive, PTL

----------------------------------------------------------------------------
(* The status machine, where nobody writes beside a PATCH *)

\* A PATCH of the status of ticket t that has passed its check.
Moving(p, t) ==
  req[p].pc \in PatchChecked /\ req[p].ticket = t /\ req[p].target # None

\* What the handler does not ensure: from the check of a PATCH to its write no
\* other PATCH of the same ticket is there, nor an answer the AI may give.
OnePatchAtATime ==
  \A t \in Tickets, p \in Slots : Moving(p, t) =>
    /\ bg[t].pc # "ask"
    /\ \A q \in Slots : Moving(q, t) => q = p

\* What was checked is then still so.
Checked ==
  \A t \in Tickets, p \in Slots : Moving(p, t) =>
    req[p].was = ticket[t].status /\ CanTransition(req[p].was, req[p].target)

LEMMA MovingStays ==
  ASSUME IInv, Course, [Next]_vars, NEW t \in Tickets, NEW p \in Slots,
         Moving(p, t)'
  PROVE  \/ /\ Moving(p, t) /\ ~PatchWrite(p)
            /\ req'[p].was = req[p].was /\ req'[p].target = req[p].target
         \/ /\ PatchRead(p) /\ Exists(t)
            /\ req'[p].was = ticket[t].status
            /\ CanTransition(ticket[t].status, req'[p].target)
<1>1. CASE req'[p] = req[p]
  <2>1. ~PatchWrite(p)
    BY <1>1 DEF PatchWrite, Finish, At, Idle, IInv, TypeOK
  <2> QED BY <1>1, <2>1 DEF Moving
<1>2. CASE req'[p] = Idle
  BY <1>2 DEF Moving, Idle
<1>3. CASE Requests(p)
  BY <1>3, Arrives DEF Moving, PatchChecked
<1>4. CASE NextCandidate(req[p], req'[p])
  <2>1. req[p] \in Request
    BY DEF IInv, TypeOK
  <2>2. req'[p].pc = "claim.try"
    BY <1>4, <2>1 DEF NextCandidate, Request
  <2> QED BY <2>2 DEF Moving, PatchChecked
<1>5. CASE Moves(p) /\ Carries(req[p], req'[p])
  <2>1. /\ req'[p].ticket = req[p].ticket /\ req'[p].target = req[p].target
        /\ req[p].pc \in PatchChecked \cup {"patch.read"}
    BY <1>5 DEF Moving, Carries, PatchChecked
  <2>2. ~PatchWrite(p)
    BY <1>5 DEF PatchWrite, Finish, Carries, Idle, IInv, TypeOK
  <2>3. CASE req[p].pc = "patch.read"
    <3>1. /\ PatchRead(p) /\ ~PatchRefused(req[p], ticket[req[p].ticket])
          /\ req'[p].was = ticket[req[p].ticket].status
      BY <1>5, <2>3 DEF Moves, NextCandidate, Carries, Idle
    <3>2. CanTransition(ticket[t].status, req'[p].target)
      BY <2>1, <3>1 DEF PatchRefused, Moving
    <3>3. Exists(t)
      BY <2>1, <2>3 DEF IInv, Fits, Holds, Exists, Moving
    <3> QED BY <2>1, <3>1, <3>2, <3>3 DEF Moving
  <2>4. CASE req[p].pc # "patch.read"
    <3>1. req[p].pc \in PatchChecked
      BY <2>1, <2>4
    <3>2. req'[p].was = req[p].was
      <4>1. ~PatchRead(p)
        BY <2>4 DEF PatchRead, At
      <4>2. req'[p] # Idle
        BY <1>5 DEF Carries, Idle
      <4>3. ~NextCandidate(req[p], req'[p])
        BY <3>1 DEF NextCandidate, PatchChecked
      <4> QED BY <1>5, <3>1, <4>1, <4>2, <4>3 DEF Moves
    <3> QED BY <2>1, <2>2, <3>1, <3>2 DEF Moving
  <2> QED BY <2>3, <2>4
<1> QED BY <1>1, <1>2, <1>3, <1>4, <1>5, SlotsMove DEF Moves

LEMMA CheckedInv ==
  ASSUME IInv, Course, Checked, OnePatchAtATime, [Next]_vars
  PROVE  Checked'
<1> SUFFICES ASSUME NEW t \in Tickets, NEW p \in Slots, Moving(p, t)'
             PROVE  /\ req'[p].was = ticket'[t].status
                    /\ CanTransition(req'[p].was, req'[p].target)
  BY DEF Checked, CanTransition
<1>1. CASE /\ Moving(p, t) /\ ~PatchWrite(p)
           /\ req'[p].was = req[p].was /\ req'[p].target = req[p].target
  <2>1. Exists(t) /\ DocMoves(t)
    BY <1>1, EveryDocMoves DEF Moving, PatchChecked, IInv, Fits, Holds, Exists
  <2>2. ~AutoTake(t)
    BY <1>1, TakeStep DEF OnePatchAtATime
  <2>3. ASSUME NEW q \in Slots, PatchWrite(q), req[q].ticket = t,
               req[q].target # None
        PROVE  FALSE
    <3>1. Moving(q, t)
      BY <2>3 DEF Moving, PatchWrite, At, PatchChecked
    <3> QED BY <1>1, <2>3, <3>1 DEF OnePatchAtATime
  <2>4. ticket'[t].status = ticket[t].status
    BY <2>1, <2>2, <2>3 DEF DocMoves
  <2> QED BY <1>1, <2>4 DEF Checked
<1>2. CASE /\ PatchRead(p) /\ Exists(t)
           /\ req'[p].was = ticket[t].status
           /\ CanTransition(ticket[t].status, req'[p].target)
  BY <1>2 DEF PatchRead, store
<1> QED BY <1>1, <1>2, MovingStays

\* The status machine of enums.py holds as long as every PATCH is
\* alone with its ticket from its check to its write (and the AI is not set to
\* close tickets, which is no edge of the table): nothing else in the desk
\* moves a status off the table.
THEOREM StatusMachineIfSerial ==
  ~CloseOnAuto /\ Spec /\ []OnePatchAtATime => StatusMachine
<1> SUFFICES ASSUME ~CloseOnAuto
             PROVE  Spec /\ []OnePatchAtATime => StatusMachine
  OBVIOUS
<1>1. Init => Checked
  BY DEF Init, Checked, Moving, Idle, PatchChecked
<1>2. IInv /\ Course /\ Checked /\ OnePatchAtATime /\ [Next]_vars => Checked'
  BY CheckedInv
<1>3. IInv /\ Course /\ [Next]_vars => Course'
  BY StageInv, StartsInv, AllLogged, LogExplainsInv DEF Course
<1>4. ASSUME IInv, Course, Checked, [Next]_vars, NEW t \in Tickets, Exists(t)
      PROVE  CanTransition(ticket[t].status, ticket'[t].status)
  <2>1. DocMoves(t)
    BY <1>4, EveryDocMoves
  <2>2. CASE ticket'[t].status = ticket[t].status
    BY <2>2 DEF CanTransition
  <2>3. CASE ticket[t].status = "OPEN" /\ ticket'[t].status = AutoTarget
    BY <2>3 DEF CanTransition, AutoTarget, AllowedTransitions, Statuses
  <2>4. ASSUME NEW p \in Slots, PatchWrite(p), req[p].ticket = t,
               req[p].target # None, ticket'[t].status = req[p].target
        PROVE  CanTransition(ticket[t].status, ticket'[t].status)
    <3>1. Moving(p, t)
      BY <2>4 DEF Moving, PatchWrite, At, PatchChecked
    <3> QED BY <1>4, <2>4, <3>1 DEF Checked
  <2> QED BY <1>4, <2>1, <2>2, <2>3, <2>4 DEF DocMoves
<1>5. IInv /\ Course /\ Checked /\ [Next]_vars
        => [\A t \in Tickets : Exists(t) =>
              CanTransition(ticket[t].status, ticket'[t].status)]_vars
  BY <1>4
<1> QED BY <1>1, <1>2, <1>3, <1>5, InitIInv, NextIInv, InitCourse, PTL
        DEF Spec, StatusMachine

----------------------------------------------------------------------------
(* Where a resolution comes from *)

\* A request carries a text of the ticket it is about, and a human's comment
\* was written on its ticket.
OwnText(r) ==
  r.pc # "claim.log" /\ r.text \notin {None, Blank} => r.text.on = r.ticket

OwnComment(t, c) == c.author # AI /\ c.text # Blank => c.text.on = t

\* A ticket whose resolution was written on another ticket is one the AI
\* answered, and its audit trail says so: no other path carries a text across.
ForeignTextMarked ==
  \A t \in Tickets :
    Exists(t) /\ ticket[t].resolution \notin {None, Blank}
      /\ ticket[t].resolution.on # t => ticket[t].auto # None

Origins ==
  /\ \A p \in Slots : OwnText(req[p])
  /\ \A t \in Tickets : \A c \in On(t) : OwnComment(t, c)
  /\ ForeignTextMarked

LEMMA OwnTextInv ==
  ASSUME IInv, Course, Origins, [Next]_vars, NEW p \in Slots
  PROVE  OwnText(req'[p])
<1> DEFINE r == req[p]
           s == req'[p]
<1>1. r \in Request /\ Fits(r, ticket) /\ OwnText(r)
  BY DEF IInv, TypeOK, Origins
<1>2. CASE s = Idle
  BY <1>2 DEF OwnText, Idle
<1>3. CASE NextCandidate(r, s)
  BY <1>1, <1>3 DEF NextCandidate, OwnText, Request
<1>4. CASE Carries(r, s) /\ Moves(p)
  <2>1. s.pc # "claim.log" => s.ticket = r.ticket
    BY <1>4 DEF Carries
  <2>2. r.pc # "claim.log"
    <3>1. s.pc \in RequestPcs \ {"idle"} /\ StepsLeft[s.pc] < StepsLeft[r.pc]
      BY <1>4 DEF Carries, Request
    <3> QED BY <3>1, StepsTable DEF RequestPcs
  <2>3. CASE s.text = r.text
    BY <1>1, <2>1, <2>2, <2>3 DEF OwnText
  <2>4. ASSUME PatchRoles(p), NEW i \in StaffReplies(r.ticket, r.seen),
               s.text = comments[r.ticket][i].text
        PROVE  OwnText(s)
    <3>1. PICK t \in Tickets : t = r.ticket
      BY <1>1, <2>4 DEF PatchRoles, At, Fits, Holds
    <3>2. r.seen <= Len(comments[t]) /\ r.seen \in Nat /\ comments[t] \in Seq(Comment)
      BY <1>1, <2>4, <3>1 DEF PatchRoles, At, IInv, TypeOK, Seen, Request
    <3>3. i \in DOMAIN comments[t]
      BY <2>4, <3>1, <3>2 DEF StaffReplies
    <3>4. OwnComment(t, comments[t][i])
      BY <3>3 DEF Origins, On
    <3>5. comments[t][i].author # AI /\ comments[t][i].text # Blank
      BY <2>4, <3>1 DEF StaffReplies
    <3> QED BY <2>1, <2>4, <3>1, <3>4, <3>5 DEF OwnText, OwnComment
  <2>5. s # Idle
    BY <1>4 DEF Carries, Idle
  <2> QED BY <1>3, <1>4, <2>3, <2>4, <2>5 DEF Moves
<1>5. CASE Requests(p)
  BY <1>5, Arrives DEF OwnText
<1>6. CASE s = r
  BY <1>1, <1>6
<1> QED BY <1>2, <1>3, <1>4, <1>5, <1>6, SlotsMove DEF Moves

LEMMA OwnCommentsInv ==
  ASSUME IInv, Course, Origins, [Next]_vars, NEW t \in Tickets
  PROVE  (\A c \in On(t) : OwnComment(t, c))'
<1>1. \A c \in On(t) : OwnComment(t, c)
  BY DEF Origins
<1>2. CASE comments'[t] = comments[t]
  <2>1. On(t)' = On(t)
    BY <1>2 DEF On
  <2> QED BY <1>1, <2>1 DEF OwnComment
<1>3. ASSUME NEW p \in Slots, CommentInsert(p), t = req[p].ticket
      PROVE  (\A c \in On(t) : OwnComment(t, c))'
  <2>1. PICK c : c = [author |-> req[p].user, text |-> req[p].text,
                      internal |-> req[p].internal]
    OBVIOUS
  <2>2. On(t)' = On(t) \cup {c}
    BY <1>3, <2>1, AppendOn DEF CommentInsert, IInv, TypeOK
  <2>3. OwnText(req[p]) /\ req[p].pc = "comment.insert" /\ req[p].text # None
    BY <1>3 DEF CommentInsert, At, Origins, IInv, Fits, Holds
  <2>4. OwnComment(t, c)
    BY <1>3, <2>1, <2>3 DEF OwnComment, OwnText
  <2> QED BY <1>1, <2>2, <2>4 DEF OwnComment
<1>4. CASE AutoReply(t)
  <2>1. PICK c : c = [author |-> AI, text |-> bg[t].answer, internal |-> FALSE]
    OBVIOUS
  <2>2. On(t)' = On(t) \cup {c}
    BY <1>4, <2>1, AppendOn DEF AutoReply, IInv, TypeOK
  <2> QED BY <1>1, <2>1, <2>2 DEF OwnComment
<1> QED BY <1>2, <1>3, <1>4, CommentsMove

LEMMA Created ==
  ASSUME IInv, [Next]_vars, NEW t \in Tickets, ~Exists(t), Exists(t)'
  PROVE  \E u \in Users : ticket'[t] = NewTicket(u)
<1>1. CASE ticket'[t] = ticket[t]
  BY <1>1 DEF Exists
<1>2. ASSUME NEW p \in Slots, Requests(p)
      PROVE  \E u \in Users : ticket'[t] = NewTicket(u)
  <2>1. ASSUME NEW u \in Users, NEW x \in Tickets, CreateInsert(p, u, x)
        PROVE  \E v \in Users : ticket'[t] = NewTicket(v)
    <3>1. ticket' = [ticket EXCEPT ![x] = NewTicket(u)]
      BY <2>1 DEF CreateInsert, SetTicket
    <3> QED BY <1>1, <3>1 DEF IInv, TypeOK
  <2> QED BY <1>1, <1>2, <2>1 DEF Requests, ClaimRank, PatchArrive,
          AssignArrive, CommentArrive, store
<1>3. ASSUME NEW x \in Tickets, Exists(x), NEW doc,
             ticket' = [ticket EXCEPT ![x] = doc]
      PROVE  ticket'[t] = ticket[t]
  BY <1>3 DEF IInv, TypeOK
<1>4. ASSUME NEW p \in Slots, Handlers(p)
      PROVE  ticket'[t] = ticket[t]
  <2>1. CASE PatchWrite(p) \/ AssignWrite(p) \/ CommentRemember(p)
    <3>1. PICK x \in Tickets : x = req[p].ticket /\ Exists(x)
      BY <2>1 DEF PatchWrite, AssignWrite, CommentRemember, At, IInv, Fits,
         Holds, Exists
    <3>2. \E doc : ticket' = [ticket EXCEPT ![x] = doc]
      BY <2>1, <3>1 DEF PatchWrite, AssignWrite, CommentRemember, SetTicket
    <3> QED BY <1>3, <3>1, <3>2
  <2>2. CASE ClaimTry(p)
    <3>1. ASSUME NEW x \in Queue,
                 ticket' = [ticket EXCEPT ![x].assignedAgent = req[p].user]
          PROVE  ticket'[t] = ticket[t]
      <4>1. x \in Tickets /\ Exists(x)
        BY DEF Queue, InQueue
      <4> QED BY <1>3, <3>1, <4>1
    <3> QED BY <2>2, <3>1 DEF ClaimTry, TryClaim
  <2>3. ASSUME ~PatchWrite(p), ~AssignWrite(p), ~ClaimTry(p), ~CommentRemember(p)
        PROVE  UNCHANGED ticket
    BY <1>4, <2>3 DEF Handlers, CreateLog, PatchRead, PatchLog, PatchReplies,
       PatchRoles, PatchReject, AssignAgent, AssignLog, ClaimNothing, ClaimLog,
       CommentRead, CommentInsert, CommentLog, store
  <2> QED BY <2>1, <2>2, <2>3
<1>5. ASSUME NEW x \in Tickets, Background(x) \/ BackgroundFault(x)
      PROVE  ticket'[t] = ticket[t]
  <2>1. CASE AutoTake(x) \/ Classify(x)
    <3>1. Exists(x)
      BY <2>1 DEF AutoTake, TakeFromQueue, Classify, BgAt, AutoPcs, IInv,
         Working, Exists
    <3>2. \E doc : ticket' = [ticket EXCEPT ![x] = doc]
      BY <2>1 DEF AutoTake, TakeFromQueue, Classify, SetTicket
    <3> QED BY <1>3, <3>1, <3>2
  <2>2. ASSUME ~AutoTake(x), ~Classify(x)
        PROVE  UNCHANGED ticket
    BY <1>5, <2>2 DEF Background, AutoCheck, AutoRecall, AutoNoMatch, AutoBeaten,
       AutoReply, AutoLog, BackgroundFault, store
  <2> QED BY <2>1, <2>2
<1> QED BY <1>1, <1>2, <1>4, <1>5
        DEF Next, RequestFault, Crash, ChangeRole, vars, store

LEMMA OriginsInv ==
  ASSUME IInv, Course, Origins, [Next]_vars
  PROVE  Origins'
<1>1. ASSUME NEW t \in Tickets, Exists(t)',
             ticket'[t].resolution \notin {None, Blank},
             ticket'[t].resolution.on # t
      PROVE  ticket'[t].auto # None
  <2>1. CASE ~Exists(t)
    <3>1. PICK u \in Users : ticket'[t] = NewTicket(u)
      BY <1>1, <2>1, Created
    <3> QED BY <1>1, <3>1 DEF NewTicket
  <2>2. CASE AutoTake(t)
    BY <2>2, TakeStep
  <2>3. CASE Exists(t) /\ ~AutoTake(t)
    <3>1. ticket[t].auto # None => ticket'[t].auto # None
      BY <2>3, StepCalm, ReplyStep DEF Calm, DocStep
    <3>2. CASE ticket'[t].resolution = ticket[t].resolution
      BY <1>1, <2>3, <3>1, <3>2 DEF Origins, ForeignTextMarked
    <3>3. ASSUME NEW p \in Slots, PatchWrite(p) \/ CommentRemember(p),
                 req[p].ticket = t, ticket'[t].resolution = req[p].text
          PROVE  FALSE
      <4>1. OwnText(req[p]) /\ req[p].pc # "claim.log"
        BY <3>3 DEF Origins, PatchWrite, CommentRemember, At
      <4> QED BY <1>1, <3>3, <4>1 DEF OwnText
    <3> QED BY <2>3, <3>2, <3>3, EveryDocMoves DEF DocMoves
  <2> QED BY <2>1, <2>2, <2>3
<1>2. ForeignTextMarked'
  BY <1>1 DEF ForeignTextMarked
<1> QED BY <1>2, OwnTextInv, OwnCommentsInv DEF Origins

LEMMA InitOrigins == Init => Origins
<1> SUFFICES ASSUME Init PROVE Origins
  OBVIOUS
<1>1. \A p \in Slots : OwnText(req[p])
  BY DEF Init, OwnText, Idle
<1>2. ASSUME NEW t \in Tickets, NEW c \in On(t)
      PROVE  OwnComment(t, c)
  <2>1. CASE t \in Answered
    <3>1. c = [author |-> History[t].agent, text |-> OldReply(t),
               internal |-> FALSE]
      BY <1>2, <2>1 DEF Init, On
    <3> QED BY <3>1 DEF OwnComment, OldReply
  <2>2. CASE t \notin Answered
    BY <1>2, <2>2 DEF Init, On
  <2> QED BY <2>1, <2>2
<1>3. ASSUME NEW t \in DOMAIN History,
             OldTicket(t).resolution \notin {None, Blank}
      PROVE  OldTicket(t).resolution.on = t
  BY <1>3 DEF OldTicket, OldReply, NewTicket
<1>4. ForeignTextMarked
  BY <1>3 DEF Init, ForeignTextMarked, Exists
<1> QED BY <1>1, <1>2, <1>4 DEF Origins

THEOREM ForeignTextsMarked == Spec => []ForeignTextMarked
<1>1. IInv /\ Course /\ [Next]_vars => Course'
  BY StageInv, StartsInv, AllLogged, LogExplainsInv DEF Course
<1>2. Origins => ForeignTextMarked
  BY DEF Origins
<1> QED BY <1>1, <1>2, InitIInv, NextIInv, InitCourse, InitOrigins, OriginsInv,
           PTL DEF Spec

----------------------------------------------------------------------------
(* What no step of the desk undoes *)

\* Comments are only ever appended, one at a time; log entries stay; a ticket
\* keeps its owner, never loses an agent it has, and is never pending again.
Keeps(t) ==
  /\ \/ comments'[t] = comments[t]
     \/ \E c \in Comment : comments'[t] = Append(comments[t], c)
  /\ log[t] \subseteq log'[t]
  /\ Exists(t) =>
       /\ Exists(t)' /\ ticket'[t].createdBy = ticket[t].createdBy
       /\ ticket[t].assignedAgent # None => ticket'[t].assignedAgent # None
       /\ ticket[t].ai # "pending" => ticket'[t].ai # "pending"

NothingForgotten == [][\A t \in Tickets : Keeps(t)]_vars

THEOREM NothingIsForgotten == Spec => NothingForgotten
<1>1. ASSUME IInv, [Next]_vars, NEW t \in Tickets, comments'[t] # comments[t]
      PROVE  \E c \in Comment : comments'[t] = Append(comments[t], c)
  <2>1. CASE AutoReply(t)
    <3> DEFINE c == [author |-> AI, text |-> bg[t].answer, internal |-> FALSE]
    <3>1. bg[t].answer \in Text
      BY <1>1, <2>1 DEF AutoReply, BgAt, IInv, TypeOK, Working, Task
    <3>2. c \in Comment
      BY <3>1 DEF Comment
    <3>3. comments'[t] = Append(comments[t], c)
      BY <1>1, <2>1 DEF AutoReply, IInv, TypeOK
    <3> QED BY <3>2, <3>3
  <2>2. ASSUME NEW p \in Slots, CommentInsert(p), t = req[p].ticket
        PROVE  \E c \in Comment : comments'[t] = Append(comments[t], c)
    <3> DEFINE c == [author |-> req[p].user, text |-> req[p].text,
                     internal |-> req[p].internal]
    <3>1. /\ req[p].user \in Users /\ req[p].text \in Text \cup {Blank}
          /\ req[p].internal \in BOOLEAN
      BY <1>1, <2>2 DEF CommentInsert, At, IInv, TypeOK, Fits, Holds, Request,
         Resolution
    <3>2. c \in Comment
      BY <3>1 DEF Comment
    <3>3. comments'[t] = Append(comments[t], c)
      BY <1>1, <2>2 DEF CommentInsert, IInv, TypeOK
    <3> QED BY <3>2, <3>3
  <2> QED BY <1>1, <2>1, <2>2, CommentsMove
<1>2. ASSUME IInv, [Next]_vars, NEW t \in Tickets
      PROVE  Keeps(t)
  BY <1>1, <1>2, LogGrows, EveryDocMoves DEF Keeps, DocMoves
<1>3. IInv /\ [Next]_vars => [\A t \in Tickets : Keeps(t)]_vars
  BY <1>2
<1> QED BY <1>3, Inductive, PTL DEF Spec, NothingForgotten

============================================================================
