SPECIFICATION Spec
CONSTANTS
  git = git
  jira = jira
  jira2 = jira2
  slack1 = slack1
  slack2 = slack2
  user = user
  x = x
  Keys = {git, slack1, slack2}
  Source <- MCSource
  Mails = {x}
  Identities <- SharedMail
  Values = {}
  Ingests = {r1, r2}
  Promoters = {}
  Workers = {w1}
  None = None
  MaxPeople = 3
  MaxRequests = 4
  MaxFaults = 1
INVARIANTS OwnersAreRoots RowsStayTogether NoConflictInside
CHECK_DEADLOCK FALSE
