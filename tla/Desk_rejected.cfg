\* An answered ticket is reopened and resolved again, one request at a time,
\* all by staff.
SPECIFICATION Spec
CONSTANTS
  customer = customer
  agent1 = agent1
  old = old
  new = new
  AI = AI
  None = None
  Blank = Blank
  Tickets = {old, new}
  Users = {agent1}
  Slots = {s1}
  InitRole <- Roster
  History <- StaffResolved
  RoleMoves <- NoMoves
  Ops = {"create", "patch"}
  AutoEnabled = TRUE
  CloseOnAuto = FALSE
  MaxRequests = 3
  MaxFaults = 0
  MaxCrashes = 0
SYMMETRY SlotSymmetry
INVARIANTS
  RejectedAnswerDropped
\* The desk stops when every request the bound allows was served.
CHECK_DEADLOCK FALSE
