------------------------------- MODULE MCAccess -------------------------------
(***************************************************************************)
(* Two scopes with an administrator key each, two subjects, two users and  *)
(* one group, whose name maps to a role or not as the group is renamed.    *)
(***************************************************************************)
EXTENDS Access

MCStaticKeys == {[scope |-> sc, role |-> "admin"] : sc \in Scopes}
MCGroupRoles == [n \in {"Admins"} |-> "admin"]
CONSTANTS A, B, s1, s2, u1, u2
MCUserIds == [sc \in Scopes |-> IF sc = A THEN {u1, u2} ELSE {}]
MCGroupIds == [sc \in Scopes |-> IF sc = A THEN {"g1"} ELSE {}]
MCKeyIds == [sc \in Scopes |-> IF sc = A THEN {"k1"} ELSE {"k2"}]
MCGrants == {[role |-> "admin", enabled |-> TRUE], [role |-> "reader", enabled |-> FALSE]}
MCPatches ==
  { <<[op |-> "replace", path |-> "active", value |-> FALSE]>>,
    <<[op |-> "replace", path |-> "active", value |-> FALSE],
      [op |-> "replace", path |-> "externalId", value |-> s2]>>,
    <<[op |-> "add", path |-> "members", value |-> {u2}]>>,
    <<[op |-> "remove", path |-> "member", value |-> {u1}],
      [op |-> "replace", path |-> "displayName", value |-> "Others"]>> }

\* The quota shares no row with the rest: it is explored beside a service that
\* nobody administers.
Apart == quota = NewQuota \/ (principals = [s \in Subjects |-> None] /\ sessions = {}
  /\ keys = << >> /\ job = [r \in Requests |-> NoJob]
  /\ logins = [l \in Logins |-> "absent"])

\* Keys share no row with directories and logins: the key of the second scope is
\* issued where nobody is provisioned by a directory and nobody signs in.
SecondKey == "k2" \in DOMAIN keys =>
  /\ users = [sc \in Scopes |-> << >>] /\ groups = [sc \in Scopes |-> << >>]
  /\ logins = [l \in Logins |-> "absent"] /\ sessions = {}

Interchangeable == Permutations(Requests)
===============================================================================
