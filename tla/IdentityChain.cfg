SPECIFICATION Spec
CONSTANTS
  git = git
  jira = jira
  jira2 = jira2
  slack1 = slack1
  slack2 = slack2
  user = user
  x = x
  Keys = {git, jira, jira2, slack1, slack2}
  Source <- MCSource
  Mails = {x}
  Identities <- Accounts
  Values = {v1}
  Ingests = {r1, r2, r3}
  Promoters = {a1}
  Workers = {w1}
  None = None
  MaxPeople = 3
  MaxRequests = 6
  MaxFaults = 0
ACTION_CONSTRAINT Story
INVARIANTS
  ComponentsAgree
  RowsStayTogether
CHECK_DEADLOCK FALSE
