------------------------------- MODULE Identity -------------------------------
(***************************************************************************)
(* Users, their sessions and their roles (backend/app/modules/identity,    *)
(* backend/app/api/v1: auth.py, users.py, roles.py; core/permissions.py).  *)
(*                                                                         *)
(* A login and a refresh read, decide, and write what they have computed   *)
(* from what they read; other requests commit in between. The other        *)
(* requests are single steps. A password is only right or wrong; access    *)
(* tokens, which nothing stores, are left out.                             *)
(***************************************************************************)
EXTENDS Naturals, Sequences, FiniteSets

CONSTANTS
  Users, RoleNames, Perms,
  Visitors,              \* the users among them whose logins are of interest
  Clients,               \* requests under way at once
  MAX_FAILED_LOGINS,
  MaxTokens, MaxAdmin,   \* bounds: refresh tokens issued, administrators' requests,
  MaxWrong               \* and failures counted

ASSUME IdentityAssumption ==
  /\ "ADMIN" \in RoleNames /\ MAX_FAILED_LOGINS \in Nat \ {0}
  /\ Visitors \subseteq Users /\ MaxWrong \in Nat

VARIABLES
  account,     \* users' rows
  token,       \* refresh tokens in the order they were issued
  request,     \* per client: a login or a refresh under way
  holds,       \* user_roles
  grants,      \* role_permissions of the roles there are
  wrong,       \* history: wrong passwords since an unlock with no login under way
  crossed,     \* history: users whose sessions were revoked with one being made
  shared,      \* history: tokens that were refreshed by two requests at once
  admin        \* bound

idenVars == <<account, token, request, holds, grants, wrong, crossed, shared, admin>>

Fresh0 == [there |-> TRUE, active |-> TRUE, locked |-> FALSE, fails |-> 0]
Resting0 == [at |-> "rest", user |-> "", with |-> 0, saw |-> Fresh0]
Exists(u) == account[u].there

IdenInit ==
  /\ account = [u \in Users |-> IF u = "admin" THEN Fresh0 ELSE [Fresh0 EXCEPT !.there = FALSE]]
  /\ token = <<>>
  /\ request = [c \in Clients |-> Resting0]
  /\ holds = [u \in Users |-> IF u = "admin" THEN {"ADMIN"} ELSE {}]
  /\ grants = [r \in {"ADMIN"} |-> Perms]
  /\ wrong = [u \in Users |-> 0]
  /\ crossed = {} /\ shared = {} /\ admin = 0

LiveTokens(u) == {i \in DOMAIN token : token[i].user = u /\ token[i].live}
Moves(c, r) == request' = [request EXCEPT ![c] = r]
Under(u) == \E c \in Clients : request[c].at # "rest" /\ request[c].user = u

-----------------------------------------------------------------------------
(* Login and refresh.                                                      *)

LoginReads(c, u) ==
  /\ request[c].at = "rest" /\ Exists(u)
  /\ Moves(c, [at |-> "login", user |-> u, with |-> 0, saw |-> account[u]])
  /\ UNCHANGED <<account, token, holds, grants, wrong, crossed, shared, admin>>

Locks(n) == n >= MAX_FAILED_LOGINS

\* A lock that was read as set already is not written again.
LoginWrong(c) ==
  LET u == request[c].user
      n == request[c].saw.fails + 1
  IN  /\ request[c].at = "login"
      /\ account' = [account EXCEPT ![u].fails = n,
                                    ![u].locked = @ \/ (Locks(n) /\ ~request[c].saw.locked)]
      /\ wrong' = [wrong EXCEPT ![u] = IF @ < MAX_FAILED_LOGINS THEN @ + 1 ELSE @]
      /\ n <= MaxWrong
      /\ Moves(c, Resting0)
      /\ UNCHANGED <<token, holds, grants, crossed, shared, admin>>

LoginRefused(c) ==
  /\ request[c].at = "login"
  /\ request[c].saw.locked \/ ~request[c].saw.active
  /\ Moves(c, Resting0)
  /\ UNCHANGED <<account, token, holds, grants, wrong, crossed, shared, admin>>

\* A token, with the one it takes the place of. cut (history): all sessions of
\* its user were ended after it was issued.
Issue(old, u, of) ==
  /\ Len(token) < MaxTokens
  /\ token' = Append(old, [user |-> u, live |-> TRUE, of |-> of, cut |-> FALSE])

\* Only a count that was read as other than zero is written.
LoginRight(c) ==
  LET u == request[c].user
  IN  /\ request[c].at = "login"
      /\ ~request[c].saw.locked /\ request[c].saw.active
      /\ account' = [account EXCEPT ![u].fails = IF request[c].saw.fails = 0 THEN @ ELSE 0]
      /\ Issue(token, u, 0)
      /\ Moves(c, Resting0)
      /\ UNCHANGED <<holds, grants, wrong, crossed, shared, admin>>

RefreshReads(c, i) ==
  /\ request[c].at = "rest" /\ i \in LiveTokens(token[i].user)
  /\ Moves(c, [at |-> "token", user |-> token[i].user, with |-> i, saw |-> Fresh0])
  /\ shared' = IF \E o \in Clients : request[o].with = i THEN shared \union {i} ELSE shared
  /\ UNCHANGED <<account, token, holds, grants, wrong, crossed, admin>>

RefreshChecks(c) ==
  /\ request[c].at = "token"
  /\ Moves(c, IF account[request[c].user].active THEN [request[c] EXCEPT !.at = "refresh"]
              ELSE Resting0)
  /\ UNCHANGED <<account, token, holds, grants, wrong, crossed, shared, admin>>

Revoked(i) == [token EXCEPT ![i].live = FALSE]

Rotated(i) == Revoked(i)

RefreshCommits(c) ==
  /\ request[c].at = "refresh"
  /\ Issue(Rotated(request[c].with), request[c].user, request[c].with)
  /\ Moves(c, Resting0)
  /\ UNCHANGED <<account, holds, grants, wrong, crossed, shared, admin>>

Logout(i) ==
  /\ i \in LiveTokens(token[i].user) /\ account[token[i].user].active
  /\ token' = Revoked(i)
  /\ UNCHANGED <<account, request, holds, grants, wrong, crossed, shared, admin>>

-----------------------------------------------------------------------------
(* Administration of users.                                                *)

\* A request of a user who holds a permission; ADMIN holds them all.
HasPermission(by, perm) ==
  "ADMIN" \in holds[by] \/ \E r \in holds[by] : perm \in grants[r]

Administers(by, perm) ==
  /\ Exists(by) /\ account[by].active /\ HasPermission(by, perm)
  /\ admin < MaxAdmin /\ admin' = admin + 1

Account(u, a) ==
  /\ Exists(u)
  /\ account' = [account EXCEPT ![u] = a]
  /\ UNCHANGED <<request, holds, grants, shared>>

CreateUser(by, u, rs) ==
  /\ Administers(by, "user.manage") /\ ~Exists(u) /\ rs \subseteq DOMAIN grants
  /\ account' = [account EXCEPT ![u] = Fresh0]
  /\ holds' = [holds EXCEPT ![u] = rs]
  /\ UNCHANGED <<token, request, grants, wrong, crossed, shared>>

ActivateUser(by, u) ==
  /\ Administers(by, "user.manage") /\ Account(u, [account[u] EXCEPT !.active = TRUE])
  /\ UNCHANGED <<token, wrong, crossed>>

Unlock(by, u) ==
  /\ Administers(by, "user.manage")
  /\ Account(u, [account[u] EXCEPT !.locked = FALSE, !.fails = 0])
  /\ wrong' = IF Under(u) THEN wrong ELSE [wrong EXCEPT ![u] = 0]
  /\ UNCHANGED <<token, crossed>>

(* Mutant of SessionsEnded: only the latest session is revoked. *)
LatestEnded(u) ==
  [i \in DOMAIN token |->
     IF token[i].user = u /\ i = Len(token) THEN [token[i] EXCEPT !.live = FALSE] ELSE token[i]]

SessionsEnded(u) ==
  [i \in DOMAIN token |->
     IF token[i].user = u THEN [token[i] EXCEPT !.live = FALSE] ELSE token[i]]

EndSessions(u) ==
  /\ token' = [i \in DOMAIN token |-> [SessionsEnded(u)[i] EXCEPT !.cut = @ \/ token[i].user = u]]
  /\ crossed' = IF Under(u) THEN crossed \union {u} ELSE crossed
  /\ UNCHANGED wrong

Deactivate(by, u) ==
  /\ by # u
  /\ Administers(by, "user.manage") /\ Account(u, [account[u] EXCEPT !.active = FALSE])
  /\ EndSessions(u)

\* The lock stays.
ResetPassword(by, u) ==
  /\ Administers(by, "user.manage") /\ Account(u, [account[u] EXCEPT !.fails = 0])
  /\ EndSessions(u)

AssignRoles(by, u, rs) ==
  /\ Administers(by, "user.manage") /\ Exists(u) /\ rs \subseteq DOMAIN grants
  /\ holds' = [holds EXCEPT ![u] = rs]
  /\ UNCHANGED <<account, token, request, grants, wrong, crossed, shared>>

-----------------------------------------------------------------------------
(* Administration of roles.                                                *)

RoleRows(g) ==
  /\ grants' = g
  /\ UNCHANGED <<account, token, request, holds, wrong, crossed, shared>>

CreateRole(by, r, ps) ==
  /\ Administers(by, "roles.create") /\ r \notin DOMAIN grants
  /\ RoleRows([x \in DOMAIN grants \union {r} |-> IF x = r THEN ps ELSE grants[x]])

UpdateRole(by, r, ps) ==
  /\ Administers(by, "roles.edit") /\ r \in DOMAIN grants
  /\ RoleRows([grants EXCEPT ![r] = ps])

DeleteRole(by, r) ==
  /\ Administers(by, "roles.delete") /\ r \in DOMAIN grants \ {"ADMIN"}
  /\ \A u \in Users : r \notin holds[u]
  /\ RoleRows([x \in DOMAIN grants \ {r} |-> grants[x]])

IdenNext ==
  \/ \E c \in Clients :
       \/ \E u \in Visitors : LoginReads(c, u)
       \/ LoginWrong(c) \/ LoginRefused(c) \/ LoginRight(c)
       \/ \E i \in DOMAIN token : RefreshReads(c, i)
       \/ RefreshChecks(c) \/ RefreshCommits(c)
  \/ \E i \in DOMAIN token : Logout(i)
  \/ \E by, u \in Users :
       \/ ActivateUser(by, u) \/ Unlock(by, u) \/ Deactivate(by, u) \/ ResetPassword(by, u)
       \/ \E rs \in SUBSET RoleNames : CreateUser(by, u, rs) \/ AssignRoles(by, u, rs)
  \/ \E by \in Users, r \in RoleNames :
       \/ \E ps \in SUBSET Perms : CreateRole(by, r, ps) \/ UpdateRole(by, r, ps)
       \/ DeleteRole(by, r)

IdenSpec == IdenInit /\ [][IdenNext]_idenVars

-----------------------------------------------------------------------------
IdenTypeOK ==
  /\ \A u \in Users : account[u].fails \in 0..MaxWrong /\ holds[u] \subseteq DOMAIN grants
  /\ \A c \in Clients : request[c].at \in {"rest", "login", "token", "refresh"}
  /\ "ADMIN" \in DOMAIN grants

\* A deactivation and a reset of the password end every session there is of the
\* user, and one who is deactivated has none, unless a login or a refresh was
\* under way at that very moment.
NoSessionSurvives ==
  \A u \in Users :
    /\ \A i \in LiveTokens(u) : ~token[i].cut
    /\ u \notin crossed /\ ~account[u].active => LiveTokens(u) = {}

\* A refresh token is exchanged for one other at most, unless two requests
\* bring it at the same time.
ExchangedOnce ==
  \A i \in DOMAIN token : i \notin shared =>
    Cardinality({j \in DOMAIN token : token[j].of = i}) <= 1

\* Concurrent attempts overwrite each other's count, and that of an unlock; all
\* the same an account is locked only after as many wrong passwords as it takes.
LockedForCause ==
  \A u \in Users : Exists(u) /\ account[u].locked => wrong[u] >= MAX_FAILED_LOGINS

SessionsSound == NoSessionSurvives /\ ExchangedOnce /\ LockedForCause
=============================================================================
