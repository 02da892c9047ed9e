\* One overview after another while the desk makes two changes.
SPECIFICATION FairSpec
CONSTANTS
  t1 = t1
  t2 = t2
  t3 = t3
  t4 = t4
  Tickets = {t1, t2, t3, t4}
  Managers = {m1}
  Initial <- Board
  Overlap <- SharedWords
  LexicalBar = 12
  MinIncident = 2
  Levels = {"URGENT", "LOW"}
  Suggestions = {"HIGH"}
  MaxChanges = 2
INVARIANTS OverviewAccounts OverviewCurrent MostUrgentFirst
PROPERTIES OverviewAnswered
