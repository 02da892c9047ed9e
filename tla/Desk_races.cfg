\* Claims, assignments and PATCHes race with each other and the background
\* task under a fair event loop, and the service crashes once.
SPECIFICATION FairSpec
CONSTANTS
  customer = customer
  agent1 = agent1
  old = old
  new = new
  AI = AI
  None = None
  Blank = Blank
  Tickets = {old, new}
  Users = {customer, agent1}
  Slots = {s1, s2}
  InitRole <- Roster
  History <- OneResolved
  RoleMoves <- NoMoves
  Ops = {"create", "claim", "assign", "patch"}
  AutoEnabled = TRUE
  CloseOnAuto = FALSE
  MaxRequests = 3
  MaxFaults = 0
  MaxCrashes = 1
INVARIANTS TypeOK ClaimedOnce
PROPERTIES HumanWins EventuallyClassified AnswerDelivered
\* The desk stops when every request the bound allows was served.
CHECK_DEADLOCK FALSE
