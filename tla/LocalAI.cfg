\* Two jobs beside the thread that prepares the models; one crash.
SPECIFICATION FairSpec
CONSTANTS
  first = first
  second = second
  printer = printer
  vpn = vpn
  unanswered = unanswered
  faq = faq
  policy = policy
  manual = manual
  Jobs = {first, second}
  Tickets = {printer, vpn, unanswered}
  Articles = {faq, policy, manual}
  Answered = {printer, vpn}
  KindsOf <- Kinds
  Requests <- Asked
  Score <- Similarity
  Alike <- Pairs
  TopK = 2
  Settings <- Configs
  MaxCrashes = 1
INVARIANTS ModelExclusive WholeModels HealthTruthful ThreatsStayOut
  Grounded RetrievalComplete GroupsSound
PROPERTY JobAnswered
\* Every job was answered and the models are prepared.
CHECK_DEADLOCK FALSE
