\* Replies, moderation and deletions on one thread, with timeouts and failures.
SPECIFICATION Spec
CONSTANTS
  customer = customer
  agent = agent
  Threads = {t1}
  Posts = {p1, p2, p3}
  Slots = {s1, s2}
  Tokens = {customer, agent}
  AccountOf <- Holder
  StaffTokens = {agent}
  None = None
  Moderations <- Flags
  MaxFailures = 1
SYMMETRY ForumSymmetry
INVARIANTS CountAccurate AnswersTrue LockHolds
PROPERTIES ModerationOnly
