------------------------------ MODULE MCIdentity ------------------------------
(* Small instances of Identity.                                            *)
EXTENDS Identity, Sequences, TLC

CONSTANTS git, jira, jira2, slack1, slack2, user, x

MCSource ==
  [k \in Keys |-> CASE k = git -> "git"
                    [] k \in {jira, jira2} -> "jira"
                    [] k \in {slack1, slack2} -> "slack"
                    [] OTHER -> "identity:platform_user"]

Actor(key, also, mail) == [key |-> key, also |-> also, mail |-> mail]

\* Two persons who turn out to share an address; then another slack account
\* with that address.
LateMail == {Actor(git, {}, x), Actor(slack1, {}, None), Actor(slack1, {}, x)}
SharedMail == LateMail \cup {Actor(slack2, {}, x)}

\* Three accounts with one address, and then a second slack account and a second
\* jira account.  This story is all that is looked at: they arrive in this order,
\* the model finds everybody the same, and a fact is promoted at the end.
Arrivals == <<git, slack1, jira, slack2, jira2>>
Accounts == {Actor(Arrivals[i], {}, x) : i \in 1 .. 5}
Story ==
  /\ \A r \in Ingests : request[r] = NoRequest /\ request'[r] # NoRequest =>
       begun < 5 /\ request'[r].identity = Actor(Arrivals[begun + 1], {}, x)
  /\ \A r \in Requests : request[r] # NoRequest /\ request'[r] = NoRequest =>
       parts' # parts \/ claims' # claims
  /\ \A r \in Promoters : request'[r] # NoRequest => begun' = 6
  /\ \A d \in decisions' : d.status \in {"auto_merged", "split_conflict"}
  /\ claims' # claims => parts' = parts
  /\ refresh' # refresh /\ parts' = parts => people = 3

\* Two sources that come to name the same user.
SharedUser == {Actor(git, {}, None), Actor(git, {user}, None), Actor(slack1, {user}, None)}

\* Persons who come to share an address or a user.
Shared == SharedMail \cup SharedUser
=============================================================================
