---------------------------- MODULE Credentials -----------------------------
(* Bearer tokens (src/sag/auth.py): who is let in, and who may issue and      *)
(* revoke (src/sag/tools.py, and the administrator's command line).           *)
EXTENDS Naturals

CONSTANTS
    Agents,
    Root,       \* ROOT_ADMIN_AGENT_ID
    MaxTokens   \* bound on the tokens issued to one agent

ASSUME CredentialsAssumption == Root \in Agents /\ MaxTokens \in Nat \ {0}

VARIABLE creds  \* agent_credentials: the last token, its role and status

InitCredentials ==
    creds = [a \in Agents |-> [token |-> 1, status |-> "ACTIVE",
                               role |-> IF a = Root THEN "admin" ELSE "operator"]]

(* authenticate_bearer_token: the n-th token issued to an agent is accepted.  *)
Works(a, n) == creds[a].token = n /\ creds[a].status = "ACTIVE"

(* Mutant: a credential that is there is made active and keeps its token.     *)
IssueKeeps(a, role) ==
    /\ creds[a].token < MaxTokens
    /\ creds' = [creds EXCEPT ![a].role = role, ![a].status = "ACTIVE"]

(* issue_agent_token: a new token, in the place of the one before.            *)
Issue(a, role) ==
    /\ creds[a].token < MaxTokens
    /\ creds' = [creds EXCEPT ![a] = [token |-> @.token + 1, role |-> role, status |-> "ACTIVE"]]

Revoke(a) == creds' = [creds EXCEPT ![a].status = "REVOKED"]

(* hub_issue_agent_token and hub_revoke_agent_token, which only the root      *)
(* admin has, and not for itself.                                             *)
Administer(caller, role) ==
    /\ caller = Root /\ role = "admin"
    /\ \E a \in Agents \ {Root} : Issue(a, "operator") \/ Revoke(a)

(* issue-admin and issue-token on the command line, for any agent.            *)
Cli == \E a \in Agents, role \in {"admin", "operator"} : Issue(a, role)

CredentialsType ==
    creds \in [Agents -> [token : 1 .. MaxTokens, role : {"admin", "operator"},
                          status : {"ACTIVE", "REVOKED"}]]

(* A token that was replaced or revoked is dead for good: no sequence of      *)
(* issues and revocations makes it work again.                                *)
TokensDie ==
    [][\A a \in Agents : \A n \in 1 .. creds[a].token : ~Works(a, n) => ~Works(a, n)']_creds
=============================================================================
