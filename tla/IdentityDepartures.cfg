\* Every property here is violated: check them one at a time.
SPECIFICATION FairSpec
CONSTANTS
  git = git
  jira = jira
  jira2 = jira2
  slack1 = slack1
  slack2 = slack2
  user = user
  x = x
  Keys = {git, slack1, slack2, user}
  Source <- MCSource
  Mails = {x}
  Identities <- Shared
  Values = {v1, v2}
  Ingests = {r1, r2}
  Promoters = {}
  Workers = {w1}
  None = None
  MaxPeople = 3
  MaxRequests = 5
  MaxFaults = 0
INVARIANTS
  EveryOwnerIsRoot
  ValueAlwaysInForce
  KeysAgree
PROPERTY EveryPairSettles
CHECK_DEADLOCK FALSE
