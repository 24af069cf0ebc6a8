SPECIFICATION FairSpec
CONSTANTS
  git = git
  jira = jira
  jira2 = jira2
  slack1 = slack1
  slack2 = slack2
  user = user
  x = x
  Keys = {git, slack1, slack2}
  Source <- MCSource
  Mails = {x}
  Identities <- SharedMail
  Values = {v1, v2}
  Ingests = {r1}
  Promoters = {a1}
  Workers = {w1}
  None = None
  MaxPeople = 2
  MaxRequests = 4
  MaxFaults = 1
INVARIANT ValueInForce
PROPERTIES PairsSettle
CHECK_DEADLOCK FALSE
