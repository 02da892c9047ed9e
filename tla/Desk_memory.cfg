\* A new ticket may repeat a resolved one while staff patch, comment, reopen;
\* an agent may be demoted and one operation may fail.
SPECIFICATION Spec
CONSTANTS
  customer = customer
  agent1 = agent1
  old = old
  new = new
  AI = AI
  None = None
  Blank = Blank
  Tickets = {old, new}
  Users = {customer, agent1}
  Slots = {s1, s2}
  InitRole <- Roster
  History <- OneResolved
  RoleMoves <- Demotions
  Ops = {"create", "patch", "comment", "note"}
  AutoEnabled = TRUE
  CloseOnAuto = FALSE
  MaxRequests = 3
  MaxFaults = 1
  MaxCrashes = 0
SYMMETRY SlotSymmetry
INVARIANTS
  MemoryTrusted
  AIReplyJustified
  LogExplainsTicket
\* The desk stops when every request the bound allows was served.
CHECK_DEADLOCK FALSE
