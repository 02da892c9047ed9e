\* An agent walks down the ranking while tickets are created, rescored,
\* resolved, reopened and assigned: does the walk hand out the right one?
SPECIFICATION Spec
CONSTANTS
  Tickets = {t1, t2}
  Agents = {a1}
  Nobody = Nobody
  Hours = {0, 48, 73}
  Levels = {"URGENT", "LOW"}
  Suggestions = {"LOW"}
SYMMETRY TicketSymmetry
INVARIANTS NothingMeansGone
PROPERTIES BestFirst BreachedFirst PoolSpec
