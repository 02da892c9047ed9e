\* Two PATCH requests on one ticket, no AI: does the status follow the table?
SPECIFICATION Spec
CONSTANTS
  customer = customer
  agent1 = agent1
  old = old
  new = new
  AI = AI
  None = None
  Blank = Blank
  Tickets = {old, new}
  Users = {customer, agent1}
  Slots = {s1, s2}
  InitRole <- Roster
  History <- OneResolved
  RoleMoves <- NoMoves
  Ops = {"patch"}
  AutoEnabled = FALSE
  CloseOnAuto = FALSE
  MaxRequests = 2
  MaxFaults = 0
  MaxCrashes = 0
SYMMETRY SlotSymmetry
PROPERTIES
  StatusMachine
\* The desk stops when every request the bound allows was served.
CHECK_DEADLOCK FALSE
