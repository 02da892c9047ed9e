\* One database operation of the background task fails.
SPECIFICATION Spec
CONSTANTS
  customer = customer
  agent1 = agent1
  old = old
  new = new
  AI = AI
  None = None
  Blank = Blank
  Tickets = {old, new}
  Users = {customer, agent1}
  Slots = {s1, s2}
  InitRole <- Roster
  History <- OneResolved
  RoleMoves <- NoMoves
  Ops = {"create"}
  AutoEnabled = TRUE
  CloseOnAuto = FALSE
  MaxRequests = 1
  MaxFaults = 1
  MaxCrashes = 0
SYMMETRY SlotSymmetry
INVARIANTS
  FailureLeavesQueue
\* The desk stops when every request the bound allows was served.
CHECK_DEADLOCK FALSE
