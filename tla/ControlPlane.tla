---------------------------- MODULE ControlPlane ----------------------------
(***************************************************************************)
(* office/security/organization_control_plane.py: organizations, their     *)
(* users, the rules of authority, enrollment tokens and the nodes enrolled *)
(* with them, and the chain of managers above a user.  Identifiers are     *)
(* random in the code and numbered in order of creation here.              *)
(***************************************************************************)
EXTENDS Integers, FiniteSets, SequencesExt

CONSTANTS Roles, Permissions, MaxOrganizations, MaxUsers, MaxTokens, MaxNodes,
          Lifetime,      \* a day, the time an enrollment token is valid
          LastHour, Nobody, Stranger

ASSUME ControlPlaneAssumption ==
  /\ MaxOrganizations \in Nat /\ MaxUsers \in Nat /\ Lifetime \in Nat /\ LastHour \in Nat
  /\ Nobody \notin 1..MaxUsers /\ Stranger \notin 1..MaxUsers /\ Nobody # Stranger

VARIABLES hour, organizations, users, rules, tokens, nodes

planeVars == <<hour, organizations, users, rules, tokens, nodes>>

Organizations == 1..organizations
Users == DOMAIN users
\* add_user() asks for no department and no manager that exist.
Managers == Users \cup {Nobody, Stranger}
OrganizationUser(org, role, manager) == [org |-> org, role |-> role, manager |-> manager]
EnrollmentToken(org, user, expires) == [org |-> org, user |-> user, expires |-> expires]
YomaNode(token) == [org |-> token.org, user |-> token.user]

PlaneInit ==
  /\ hour = 0 /\ organizations = 0
  /\ users = <<>> /\ rules = {} /\ tokens = <<>> /\ nodes = <<>>

CreateOrganization ==
  /\ organizations < MaxOrganizations
  /\ organizations' = organizations + 1
  /\ UNCHANGED <<hour, users, rules, tokens, nodes>>

AddUser(org, role, manager) ==
  /\ org \in Organizations /\ Len(users) < MaxUsers
  /\ users' = Append(users, OrganizationUser(org, role, manager))
  /\ UNCHANGED <<hour, organizations, rules, tokens, nodes>>

\* The table of users is public: a user's record may be replaced.
ReplaceManager(user, manager) ==
  /\ user \in Users
  /\ users' = [users EXCEPT ![user].manager = manager]
  /\ UNCHANGED <<hour, organizations, rules, tokens, nodes>>

AddAuthorityRule(org, role, permission) ==
  /\ org \in Organizations
  /\ rules' = rules \cup {[org |-> org, role |-> role, permission |-> permission]}
  /\ UNCHANGED <<hour, organizations, users, tokens, nodes>>

InviteUser(user) ==
  /\ user \in Users /\ Len(tokens) < MaxTokens
  /\ tokens' = Append(tokens, EnrollmentToken(users[user].org, user, hour + Lifetime))
  /\ UNCHANGED <<hour, organizations, users, rules, nodes>>

\* The user of the node is not looked up.
CreateNodeEnrollment(org, user) ==
  /\ org \in Organizations /\ Len(tokens) < MaxTokens
  /\ tokens' = Append(tokens, EnrollmentToken(org, user, hour + Lifetime))
  /\ UNCHANGED <<hour, organizations, users, rules, nodes>>

\* enroll_node() leaves the token: it enrolls nodes until it expires.
MayEnroll(token) == token.expires > hour

EnrollNode(k) ==
  /\ k \in DOMAIN tokens /\ Len(nodes) < MaxNodes
  /\ MayEnroll(tokens[k])
  /\ nodes' = Append(nodes, YomaNode(tokens[k]))
  /\ UNCHANGED <<hour, organizations, users, rules, tokens>>

PlaneTick ==
  /\ hour < LastHour
  /\ hour' = hour + 1
  /\ UNCHANGED <<organizations, users, rules, tokens, nodes>>

PlaneNext ==
  \/ CreateOrganization
  \/ \E org \in 1..MaxOrganizations, role \in Roles, manager \in Managers :
       AddUser(org, role, manager)
  \/ \E user \in 1..MaxUsers, manager \in Managers : ReplaceManager(user, manager)
  \/ \E org \in 1..MaxOrganizations, role \in Roles, permission \in Permissions :
       AddAuthorityRule(org, role, permission)
  \/ \E user \in 1..MaxUsers : InviteUser(user)
  \/ \E org \in 1..MaxOrganizations, user \in {Nobody, Stranger} : CreateNodeEnrollment(org, user)
  \/ \E k \in 1..MaxTokens : EnrollNode(k)
  \/ PlaneTick

----------------------------------------------------------------------------
\* HierarchicalAuthorityResolver.chain(): the managers above a user, or the error
\* it raises; the walk stops at the first user it has already met.
Step(walk) ==
  LET manager == users[Last(walk.chain)].manager IN
  IF walk.error # "none" \/ manager = Nobody THEN walk
  ELSE IF manager \in Range(walk.chain) THEN [walk EXCEPT !.error = "circular"]
  ELSE IF manager \notin Users THEN [walk EXCEPT !.error = "unknown"]
  ELSE [walk EXCEPT !.chain = Append(@, manager)]

Chain(user) ==
  LET walk[k \in 0..Len(users)] ==
        IF k = 0 THEN [chain |-> <<user>>, error |-> "none"]
        ELSE LET sofar == walk[k - 1] IN Step(sofar)
  IN walk[Len(users)]

\* authority_for() and the dashboard of an organization.
CanRequest(user, permission) ==
  [org |-> users[user].org, role |-> users[user].role, permission |-> permission] \in rules
Dashboard(org) ==
  [users |-> Cardinality({u \in Users : users[u].org = org}),
   nodes |-> Cardinality({n \in DOMAIN nodes : nodes[n].org = org})]

----------------------------------------------------------------------------
PlaneTypeOK ==
  /\ hour \in 0..LastHour /\ organizations \in 0..MaxOrganizations
  /\ \A user \in Users : /\ users[user].org \in Organizations /\ users[user].role \in Roles
                          /\ users[user].manager \in Managers
  /\ rules \subseteq [org : Organizations, role : Roles, permission : Permissions]
  /\ \A k \in DOMAIN tokens : tokens[k].org \in Organizations
  /\ \A k \in DOMAIN nodes : nodes[k].org \in Organizations

\* The users at or above one, defined without a walk: the least set that holds the
\* user and with every member its manager.
AtOrAbove(user) ==
  LET Closed(S) == user \in S /\ \A u \in S : users[u].manager \in Users => users[u].manager \in S
  IN {u \in Users : \A S \in SUBSET Users : Closed(S) => u \in S}

\* Whatever the managers are set to, the walk of chain() ends, meets every user above
\* one exactly once, and fails exactly when the top is missing: because a manager
\* does not exist or because the hierarchy is circular.
ChainsAreWhole ==
  \A user \in Users :
    LET walk == Chain(user)
        managers == {users[u].manager : u \in AtOrAbove(user)}
    IN /\ Range(walk.chain) = AtOrAbove(user)
       /\ Len(walk.chain) = Cardinality(AtOrAbove(user))
       /\ walk.error = "none" <=> Nobody \in managers
       /\ walk.error = "unknown" <=> Stranger \in managers

\* The nodes of an organization multiply only while one of its tokens is valid,
\* although a token is never marked as used.
NodesNeedAToken ==
  [\A org \in Organizations :
     (\A k \in DOMAIN tokens : tokens[k].org = org => tokens[k].expires <= hour)
       => Dashboard(org)'.nodes = Dashboard(org).nodes]_planeVars
=============================================================================
