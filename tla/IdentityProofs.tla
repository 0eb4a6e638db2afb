---------------------------- MODULE IdentityProofs ----------------------------
(***************************************************************************)
(* Theorems about users and their sessions (Identity) and about rules,     *)
(* settings and tariffs (Policies), for any number of users, tokens, rules *)
(* and requests under way at once.                                         *)
(***************************************************************************)
EXTENDS Identity, Policies, FiniteSetTheorems, SequenceTheorems, WellFoundedInduction, TLAPS

-----------------------------------------------------------------------------
(***************************************************************************)
(* Sessions.  What a login or a refresh has read stays true enough until   *)
(* it writes: the count it saw is not above the wrong passwords there were *)
(* (Enough); of a user who is out there is no request that would let them  *)
(* in (EndedInv); of a token that two requests did not share there is      *)
(* either a request that exchanges it or the one it was exchanged for      *)
(* (OnceInv).                                                              *)
(***************************************************************************)
Accounts == [there : BOOLEAN, active : BOOLEAN, locked : BOOLEAN, fails : Nat]
Requests == [at : {"rest", "login", "token", "refresh"}, user : Users \cup {""},
             with : Nat, saw : Accounts]
Tokens == [user : Users, live : BOOLEAN, of : Nat, cut : BOOLEAN]

RowsInv ==
  /\ account \in [Users -> Accounts] /\ wrong \in [Users -> Nat]
  /\ token \in Seq(Tokens)
  /\ request \in [Clients -> Requests]

AskedInv ==
  \A c \in Clients :
    /\ request[c].at \in {"rest", "login"} => request[c].with = 0
    /\ request[c].at # "rest" => request[c].user \in Users
    /\ request[c].at \in {"token", "refresh"} =>
         request[c].with \in DOMAIN token /\ token[request[c].with].user = request[c].user

Enough(n, u) == n <= wrong[u] \/ MAX_FAILED_LOGINS <= wrong[u]

CountInv ==
  /\ \A u \in Users : /\ account[u].locked => MAX_FAILED_LOGINS <= wrong[u]
                      /\ Enough(account[u].fails, u)
  /\ \A c \in Clients : request[c].at = "login" => Enough(request[c].saw.fails, request[c].user)

(* Nobody is, or is about to be, let in as u. *)
SentAway(u) ==
  /\ \A i \in DOMAIN token : token[i].user = u => ~token[i].live
  /\ \A c \in Clients : request[c].at # "rest" /\ request[c].user = u =>
       request[c].at = "login" /\ ~request[c].saw.active

EndedInv ==
  /\ \A i \in DOMAIN token : token[i].live => ~token[i].cut
  /\ \A u \in Users \ crossed : ~account[u].active => SentAway(u)

OnceInv ==
  /\ \A j \in DOMAIN token : token[j].of \in DOMAIN token \cup {0}
  /\ \A i \in DOMAIN token \ shared :
       /\ \A j, k \in DOMAIN token : token[j].of = i /\ token[k].of = i => j = k
       /\ \A j \in DOMAIN token : token[j].of = i =>
            ~token[i].live /\ \A c \in Clients : request[c].with # i
       /\ \A c, o \in Clients : request[c].with = i /\ request[o].with = i => c = o

IdenInv == RowsInv /\ AskedInv /\ CountInv /\ EndedInv /\ OnceInv

LEMMA IdenInitInv == IdenInit => IdenInv
<1> SUFFICES ASSUME IdenInit PROVE IdenInv
  OBVIOUS
<1>1. token = <<>> /\ token \in Seq(Tokens) /\ DOMAIN token = {}
  BY EmptySeq DEF IdenInit
<1>2. Fresh0 \in Accounts /\ [Fresh0 EXCEPT !.there = FALSE] \in Accounts
  BY DEF Accounts, Fresh0
<1>3. account \in [Users -> Accounts] /\ wrong = [u \in Users |-> 0]
  BY <1>2 DEF IdenInit
<1>4. \A u \in Users : account[u].active = TRUE /\ account[u].locked = FALSE
                       /\ account[u].fails = 0
  BY DEF IdenInit, Fresh0
<1>5. /\ request \in [Clients -> Requests]
      /\ \A c \in Clients : request[c].at = "rest" /\ request[c].with = 0
  <2>1. Resting0 \in Requests /\ Resting0.at = "rest" /\ Resting0.with = 0
    BY <1>2 DEF Resting0, Requests
  <2> QED BY <2>1 DEF IdenInit
<1>6. RowsInv
  BY <1>1, <1>3, <1>5 DEF RowsInv
<1>7. AskedInv
  BY <1>2, <1>5 DEF AskedInv
<1>8. CountInv
  <2>1. \A u \in Users : Enough(account[u].fails, u)
    BY <1>3, <1>4 DEF Enough
  <2> QED BY <1>4, <1>5, <2>1 DEF CountInv
<1>9. EndedInv
  BY <1>1, <1>4 DEF EndedInv
<1>10. OnceInv
  BY <1>1 DEF OnceInv
<1> QED BY <1>6, <1>7, <1>8, <1>9, <1>10 DEF IdenInv

(* A request that takes the place of another's. *)
LEMMA Moved ==
  ASSUME RowsInv, NEW c \in Clients, NEW r \in Requests, Moves(c, r)
  PROVE  /\ request' \in [Clients -> Requests]
         /\ request'[c] = r
         /\ \A o \in Clients : o # c => request'[o] = request[o]
BY DEF RowsInv, Moves

(* A token whose rows are all there, and one revoked. *)
LEMMA TokenRows ==
  ASSUME RowsInv, NEW i \in DOMAIN token
  PROVE  token[i] \in Tokens
<1>1. i \in 1 .. Len(token)
  BY LenProperties DEF RowsInv
<1> QED BY <1>1, ElementOfSeq DEF RowsInv

LEMMA RevokedRows ==
  ASSUME RowsInv, NEW i \in DOMAIN token
  PROVE  /\ Revoked(i) \in Seq(Tokens) /\ DOMAIN Revoked(i) = DOMAIN token
         /\ Revoked(i)[i].live = FALSE
         /\ \A j \in DOMAIN token :
              /\ j # i => Revoked(i)[j] = token[j]
              /\ Revoked(i)[j].user = token[j].user /\ Revoked(i)[j].of = token[j].of
              /\ Revoked(i)[j].cut = token[j].cut
<1> DEFINE row == [token[i] EXCEPT !.live = FALSE]
<1>1. token \in Seq(Tokens) /\ i \in 1 .. Len(token) /\ DOMAIN token = 1 .. Len(token)
  BY LenProperties DEF RowsInv
<1>2. /\ row \in Tokens /\ row.live = FALSE
      /\ row.user = token[i].user /\ row.of = token[i].of /\ row.cut = token[i].cut
  BY TokenRows DEF Tokens
<1>3. Revoked(i) = [token EXCEPT ![i] = row]
  BY DEF Revoked
<1> HIDE DEF row
<1>4. Revoked(i) \in Seq(Tokens)
  BY <1>1, <1>2, <1>3, ExceptSeq
<1>5. DOMAIN Revoked(i) = DOMAIN token /\ Revoked(i)[i] = row
      /\ \A j \in DOMAIN token : j # i => Revoked(i)[j] = token[j]
  BY <1>3
<1> QED BY <1>2, <1>4, <1>5

(* A token issued after the ones in old. *)
NewToken(u, of) == [user |-> u, live |-> TRUE, of |-> of, cut |-> FALSE]

LEMMA Issued ==
  ASSUME NEW old \in Seq(Tokens), NEW u \in Users, NEW of \in Nat, Issue(old, u, of)
  PROVE  /\ token' \in Seq(Tokens)
         /\ DOMAIN token' = DOMAIN old \cup {Len(old) + 1}
         /\ Len(old) + 1 \notin DOMAIN old /\ Len(old) + 1 # 0
         /\ \A i \in DOMAIN old : token'[i] = old[i]
         /\ token'[Len(old) + 1] = NewToken(u, of)
<1> DEFINE row == NewToken(u, of)
<1>1. row \in Tokens /\ token' = Append(old, row)
  BY DEF Tokens, Issue, NewToken
<1>2. DOMAIN old = 1 .. Len(old) /\ Len(old) \in Nat
  BY LenProperties
<1> HIDE DEF row
<1>3. /\ token' \in Seq(Tokens) /\ Len(token') = Len(old) + 1
      /\ \A i \in 1 .. Len(old) : token'[i] = old[i]
      /\ token'[Len(old) + 1] = row
  BY <1>1, <1>2, AppendProperties
<1>4. DOMAIN token' = 1 .. Len(old) + 1
  BY <1>3, LenProperties
<1>5. /\ DOMAIN token' = DOMAIN old \cup {Len(old) + 1} /\ Len(old) + 1 \notin DOMAIN old
      /\ Len(old) + 1 # 0
  BY <1>2, <1>4
<1> QED BY <1>2, <1>3, <1>5 DEF row

(* Nothing but the request of c has changed, and what it has read is so.    *)
LEMMA RequestTurns ==
  ASSUME IdenInv, NEW c \in Clients, NEW r \in Requests, Moves(c, r),
         UNCHANGED <<account, token, wrong, crossed>>,
         r.at \in {"rest", "login"} => r.with = 0,
         r.at # "rest" => r.user \in Users,
         r.at \in {"token", "refresh"} => r.with \in DOMAIN token /\ token[r.with].user = r.user,
         r.at = "login" => Enough(r.saw.fails, r.user),
         r.at # "rest" /\ r.user \notin crossed /\ ~account[r.user].active =>
           r.at = "login" /\ ~r.saw.active
  PROVE  RowsInv' /\ AskedInv' /\ CountInv' /\ EndedInv'
<1>1. /\ request' \in [Clients -> Requests] /\ request'[c] = r
      /\ \A o \in Clients : o # c => request'[o] = request[o]
  BY Moved DEF IdenInv
<1>2. RowsInv'
  BY <1>1 DEF IdenInv, RowsInv
<1>3. AskedInv'
  BY <1>1 DEF IdenInv, AskedInv
<1>4. CountInv'
  <2>1. \A n, u : Enough(n, u) => Enough(n, u)'
    BY DEF Enough
  <2> QED BY <1>1, <2>1 DEF IdenInv, CountInv, Enough
<1>5. EndedInv'
  BY <1>1 DEF IdenInv, EndedInv, SentAway
<1> QED BY <1>2, <1>3, <1>4, <1>5

(* Tokens that no request has turned to are exchanged no more than before.  *)
LEMMA OnceKept ==
  ASSUME IdenInv, NEW c \in Clients, NEW r \in Requests, Moves(c, r), UNCHANGED token,
         shared \subseteq shared', r.with \in {0, request[c].with}
  PROVE  OnceInv'
<1>1. \A o \in Clients : request'[o].with \in {0, request[o].with}
  BY Moved DEF IdenInv
<1>2. 0 \notin DOMAIN token
  BY LenProperties DEF IdenInv, RowsInv
<1> QED BY <1>1, <1>2 DEF IdenInv, OnceInv

LEMMA LoginReadsStep ==
  ASSUME IdenInv, NEW c \in Clients, NEW u \in Users, LoginReads(c, u)
  PROVE  IdenInv'
<1> DEFINE r == [at |-> "login", user |-> u, with |-> 0, saw |-> account[u]]
<1>1. Moves(c, r) /\ UNCHANGED <<account, token, wrong, crossed, shared>>
  BY DEF LoginReads
<1>2. account[u] \in Accounts /\ Enough(account[u].fails, u) /\ r \in Requests
  BY DEF IdenInv, RowsInv, CountInv, Requests
<1>3. RowsInv' /\ AskedInv' /\ CountInv' /\ EndedInv'
  BY <1>1, <1>2, RequestTurns
<1>4. OnceInv'
  BY <1>1, <1>2, OnceKept
<1> QED BY <1>3, <1>4 DEF IdenInv

LEMMA RestsStep ==
  ASSUME IdenInv, NEW c \in Clients, Moves(c, Resting0),
         UNCHANGED <<account, token, wrong, crossed, shared>>
  PROVE  IdenInv'
<1>1. Resting0 \in Requests /\ Resting0.with = 0 /\ Resting0.at = "rest"
  BY DEF Resting0, Requests, Fresh0, Accounts
<1>2. RowsInv' /\ AskedInv' /\ CountInv' /\ EndedInv'
  BY <1>1, RequestTurns
<1>3. OnceInv'
  BY <1>1, OnceKept
<1> QED BY <1>2, <1>3 DEF IdenInv

LEMMA RefreshReadsStep ==
  ASSUME IdenInv, NEW c \in Clients, NEW i \in DOMAIN token, RefreshReads(c, i)
  PROVE  IdenInv'
<1> DEFINE u == token[i].user
           r == [at |-> "token", user |-> u, with |-> i, saw |-> Fresh0]
<1>1. /\ Moves(c, r) /\ UNCHANGED <<account, token, wrong, crossed>>
      /\ request[c].at = "rest" /\ token[i].live
      /\ shared' = IF \E o \in Clients : request[o].with = i THEN shared \union {i} ELSE shared
  BY DEF RefreshReads, LiveTokens
<1>2. u \in Users /\ i \in Nat /\ i # 0
  BY TokenRows, LenProperties DEF IdenInv, RowsInv, Tokens
<1>3. r \in Requests
  BY <1>2 DEF Requests, Fresh0, Accounts
<1>4. u \in crossed \/ account[u].active
  BY <1>1, <1>2 DEF IdenInv, EndedInv, SentAway
<1>5. RowsInv' /\ AskedInv' /\ CountInv' /\ EndedInv'
  BY <1>1, <1>2, <1>3, <1>4, RequestTurns
<1>6. OnceInv'
  <2>1. request'[c].with = i /\ \A o \in Clients : o # c => request'[o] = request[o]
    BY <1>1, <1>3, Moved DEF IdenInv
  <2>2. \A o \in Clients : i \notin shared' => request[o].with # i
    BY <1>1
  <2>3. shared \subseteq shared'
    BY <1>1
  <2>4. \A j \in DOMAIN token : i \notin shared' => token[j].of # i
    BY <1>1, <2>3 DEF IdenInv, OnceInv
  <2> QED BY <1>1, <2>1, <2>2, <2>3, <2>4 DEF IdenInv, OnceInv
<1> QED BY <1>5, <1>6 DEF IdenInv

LEMMA RefreshChecksStep ==
  ASSUME IdenInv, NEW c \in Clients, RefreshChecks(c)
  PROVE  IdenInv'
<1>1. CASE Moves(c, Resting0)
  BY <1>1, RestsStep DEF RefreshChecks
<1>2. CASE Moves(c, [request[c] EXCEPT !.at = "refresh"])
           /\ account[request[c].user].active
  <2> DEFINE r == [request[c] EXCEPT !.at = "refresh"]
  <2>1. /\ request[c].at = "token" /\ Moves(c, r)
        /\ UNCHANGED <<account, token, wrong, crossed, shared>>
    BY <1>2 DEF RefreshChecks
  <2>2. r \in Requests /\ r.at = "refresh" /\ r.user = request[c].user /\ r.with = request[c].with
    BY DEF IdenInv, RowsInv, Requests
  <2>3. r.user \in Users /\ r.with \in DOMAIN token /\ token[r.with].user = r.user
    BY <2>1, <2>2 DEF IdenInv, AskedInv
  <2> HIDE DEF r
  <2>4. account[r.user].active
    BY <1>2, <2>2
  <2>5. RowsInv' /\ AskedInv' /\ CountInv' /\ EndedInv'
    BY <2>1, <2>2, <2>3, <2>4, RequestTurns
  <2>6. OnceInv'
    BY <2>1, <2>2, OnceKept
  <2> QED BY <2>5, <2>6 DEF IdenInv
<1> QED BY <1>1, <1>2 DEF RefreshChecks

(* A wrong password: the count is written from what was seen, the lock at  *)
(* the limit; by then as many wrong passwords have been given.             *)
LEMMA LoginWrongStep ==
  ASSUME IdenInv, NEW c \in Clients, LoginWrong(c)
  PROVE  IdenInv'
<1> DEFINE u == request[c].user
           n == request[c].saw.fails + 1
           locked == account[u].locked \/ (Locks(n) /\ ~request[c].saw.locked)
<1>1. /\ request[c].at = "login" /\ Moves(c, Resting0)
      /\ account' = [account EXCEPT ![u].fails = n, ![u].locked = @ \/ (Locks(n) /\ ~request[c].saw.locked)]
      /\ wrong' = [wrong EXCEPT ![u] = IF @ < MAX_FAILED_LOGINS THEN @ + 1 ELSE @]
      /\ UNCHANGED <<token, crossed, shared>>
  BY DEF LoginWrong
<1>2. u \in Users /\ request[c].saw.fails \in Nat /\ account[u] \in Accounts
  BY <1>1 DEF IdenInv, RowsInv, AskedInv, Requests, Accounts
<1>3. /\ account' \in [Users -> Accounts]
      /\ \A v \in Users : account'[v].active = account[v].active
      /\ \A v \in Users : v # u => account'[v] = account[v]
      /\ account'[u].fails = n
      /\ account'[u].locked => account[u].locked \/ n >= MAX_FAILED_LOGINS
  <2>1. locked \in BOOLEAN
    OBVIOUS
  <2>2. account' = [account EXCEPT ![u] = [account[u] EXCEPT !.fails = n, !.locked = locked]]
    BY <1>1, <1>2 DEF IdenInv, RowsInv, Accounts
  <2>3. n \in Nat
    BY <1>2
  <2>5. locked => account[u].locked \/ n >= MAX_FAILED_LOGINS
    BY DEF Locks
  <2> HIDE DEF n, locked
  <2>4. LET a == [account[u] EXCEPT !.fails = n, !.locked = locked] IN
        a \in Accounts /\ a.active = account[u].active /\ a.fails = n /\ a.locked = locked
    BY <1>2, <2>1, <2>3 DEF Accounts
  <2> QED BY <1>2, <2>2, <2>4, <2>5 DEF IdenInv, RowsInv
<1>4. /\ wrong' \in [Users -> Nat]
      /\ \A v \in Users : wrong[v] <= wrong'[v]
      /\ n <= wrong'[u] \/ MAX_FAILED_LOGINS <= wrong'[u]
  <2>1. Enough(request[c].saw.fails, u)
    BY <1>1 DEF IdenInv, CountInv
  <2>2. wrong \in [Users -> Nat] /\ MAX_FAILED_LOGINS \in Nat
    BY IdentityAssumption DEF IdenInv, RowsInv
  <2> QED BY <1>1, <1>2, <2>1, <2>2 DEF Enough
<1>5. /\ request' \in [Clients -> Requests] /\ request'[c] = Resting0
      /\ \A o \in Clients : o # c => request'[o] = request[o]
  <2>1. Resting0 \in Requests
    BY DEF Resting0, Requests, Fresh0, Accounts
  <2> QED BY <1>1, <2>1, Moved DEF IdenInv
<1>6. Resting0.at = "rest" /\ Resting0.with = 0 /\ Resting0 \in Requests
  BY DEF Resting0, Requests, Fresh0, Accounts
<1> HIDE DEF n, locked, u
<1>7. RowsInv'
  BY <1>1, <1>3, <1>4, <1>5 DEF IdenInv, RowsInv
<1>8. AskedInv'
  BY <1>1, <1>5, <1>6 DEF IdenInv, AskedInv
<1>9. CountInv'
  <2>1. MAX_FAILED_LOGINS \in Nat /\ wrong \in [Users -> Nat] /\ account \in [Users -> Accounts]
    BY IdentityAssumption DEF IdenInv, RowsInv
  <2>2. ASSUME NEW v \in Users, NEW k \in Nat, Enough(k, v) PROVE Enough(k, v)'
    BY <1>4, <2>1, <2>2 DEF Enough
  <2>3. ASSUME NEW v \in Users
        PROVE  (account'[v].locked => MAX_FAILED_LOGINS <= wrong'[v]) /\ Enough(account[v].fails, v)'
    <3>1. CASE v # u
      <4>1. account'[v] = account[v] /\ account[v].fails \in Nat
        BY <1>3, <2>1, <3>1 DEF Accounts
      <4>2. Enough(account[v].fails, v) /\ (account[v].locked => MAX_FAILED_LOGINS <= wrong[v])
        BY DEF IdenInv, CountInv
      <4> QED BY <1>4, <2>1, <2>2, <4>1, <4>2
    <3>2. CASE v = u
      <4>1. account'[v].fails <= wrong'[v] \/ MAX_FAILED_LOGINS <= wrong'[v]
        BY <1>3, <1>4, <3>2
      <4>2. account[u].locked => MAX_FAILED_LOGINS <= wrong[u]
        BY <3>2 DEF IdenInv, CountInv
      <4>3. n \in Nat
        BY <1>2 DEF n
      <4>4. account'[u].locked => MAX_FAILED_LOGINS <= wrong'[u]
        BY <1>2, <1>3, <1>4, <2>1, <4>2, <4>3
      <4> QED BY <3>2, <4>1, <4>4 DEF Enough
    <3> QED BY <3>1, <3>2
  <2>4. ASSUME NEW o \in Clients, request'[o].at = "login"
        PROVE  Enough(request[o].saw.fails, request[o].user)'
    <3>1. o # c /\ request'[o] = request[o] /\ request[o].at = "login"
      BY <1>5, <1>6, <2>4
    <3>2. /\ request[o].saw.fails \in Nat /\ request[o].user \in Users
          /\ Enough(request[o].saw.fails, request[o].user)
      BY <3>1 DEF IdenInv, RowsInv, AskedInv, CountInv, Requests, Accounts
    <3> QED BY <2>2, <3>1, <3>2
  <2> QED BY <2>3, <2>4 DEF CountInv
<1>10. EndedInv'
  BY <1>1, <1>3, <1>5, <1>6 DEF IdenInv, EndedInv, SentAway
<1>11. OnceInv'
  BY <1>1, <1>6, OnceKept
<1> QED BY <1>7, <1>8, <1>9, <1>10, <1>11 DEF IdenInv

(* A request that ends. *)
LEMMA Rested ==
  ASSUME RowsInv, NEW c \in Clients, Moves(c, Resting0)
  PROVE  /\ request' \in [Clients -> Requests]
         /\ request'[c].at = "rest" /\ request'[c].with = 0
         /\ \A o \in Clients : o # c => request'[o] = request[o]
<1>1. Resting0.at = "rest" /\ Resting0.with = 0 /\ Resting0 \in Requests
  BY DEF Resting0, Requests, Fresh0, Accounts
<1> QED BY <1>1, Moved

(* What is written to an account by anything but a wrong password: it      *)
(* locks nobody and counts nothing.                                        *)
LEMMA CountKept ==
  ASSUME IdenInv, UNCHANGED wrong,
         \A u \in Users : /\ account'[u].fails \in {0, account[u].fails}
                          /\ account'[u].locked => account[u].locked,
         \A o \in Clients : request'[o] = request[o] \/ request'[o].at = "rest"
  PROVE  CountInv'
<1>1. \A u \in Users : wrong[u] \in Nat
  BY DEF IdenInv, RowsInv
<1>2. \A u \in Users : 0 <= wrong[u]
  BY <1>1
<1>3. ASSUME NEW u \in Users
      PROVE  (account'[u].locked => MAX_FAILED_LOGINS <= wrong'[u])
             /\ (account'[u].fails <= wrong'[u] \/ MAX_FAILED_LOGINS <= wrong'[u])
  BY <1>2 DEF IdenInv, CountInv, Enough
<1>4. ASSUME NEW o \in Clients, request'[o].at = "login"
      PROVE  request'[o].saw.fails <= wrong'[request'[o].user]
             \/ MAX_FAILED_LOGINS <= wrong'[request'[o].user]
  BY <1>4 DEF IdenInv, CountInv, Enough
<1> QED BY <1>3, <1>4 DEF CountInv, Enough

(* A token issued to a user who may have one, by a login or in exchange.   *)
LEMMA IssueKept ==
  ASSUME IdenInv, NEW c \in Clients, Moves(c, Resting0),
         NEW old, NEW of, Issue(old, request[c].user, of),
         \/ old = token /\ of = 0 /\ request[c].at = "login" /\ request[c].saw.active
         \/ old = Revoked(of) /\ of = request[c].with /\ request[c].at = "refresh",
         \A u \in Users : account'[u].active = account[u].active,
         UNCHANGED <<crossed, shared>>
  PROVE  token' \in Seq(Tokens) /\ AskedInv' /\ EndedInv' /\ OnceInv'
<1> DEFINE u == request[c].user
<1>1. u \in Users /\ of \in Nat
  <2>1. request[c].at # "rest" /\ of \in {0, request[c].with}
    OBVIOUS
  <2>2. request[c].with \in Nat /\ u \in Users
    BY <2>1 DEF IdenInv, RowsInv, AskedInv, Requests
  <2> QED BY <2>1, <2>2
<1>2. /\ old \in Seq(Tokens) /\ DOMAIN old = DOMAIN token
      /\ of \in DOMAIN token \cup {0}
      /\ of # 0 => request[c].with = of /\ ~old[of].live
      /\ \A i \in DOMAIN token :
           /\ old[i].user = token[i].user /\ old[i].of = token[i].of /\ old[i].cut = token[i].cut
           /\ old[i].live => token[i].live
  <2>1. CASE old = token /\ of = 0
    BY <2>1 DEF IdenInv, RowsInv
  <2>2. CASE old = Revoked(of) /\ of = request[c].with /\ request[c].at = "refresh"
    <3>1. of \in DOMAIN token
      BY <2>2 DEF IdenInv, AskedInv
    <3> QED BY <2>2, <3>1, RevokedRows DEF IdenInv
  <2> QED BY <2>1, <2>2
<1>3. token' \in Seq(Tokens)
  BY <1>1, <1>2, Issued
<1>4. PICK n : /\ DOMAIN token' = DOMAIN token \cup {n} /\ n \notin DOMAIN token /\ n # 0
               /\ \A i \in DOMAIN token : token'[i] = old[i]
               /\ token'[n] = NewToken(u, of)
  <2>1. old \in Seq(Tokens) /\ DOMAIN old = DOMAIN token
    BY <1>2
  <2>2. /\ DOMAIN token' = DOMAIN old \cup {Len(old) + 1}
        /\ Len(old) + 1 \notin DOMAIN old /\ Len(old) + 1 # 0
        /\ \A i \in DOMAIN old : token'[i] = old[i]
        /\ token'[Len(old) + 1] = NewToken(u, of)
    BY <1>1, <2>1, Issued
  <2> QED BY <2>1, <2>2
<1>5. \A i \in DOMAIN token :
        /\ token'[i].user = token[i].user /\ token'[i].of = token[i].of
        /\ token'[i].cut = token[i].cut /\ (token'[i].live => token[i].live)
  BY <1>2, <1>4
<1>6. /\ request'[c].at = "rest" /\ request'[c].with = 0
      /\ \A o \in Clients : o # c => request'[o] = request[o]
  BY Rested DEF IdenInv
<1>7. token'[n].user = u /\ token'[n].of = of /\ token'[n].cut = FALSE
  BY <1>4 DEF NewToken
<1>8. of # 0 => request[c].with = of /\ ~token'[of].live
  BY <1>2, <1>4
<1>9. u \in crossed \/ account[u].active
  BY <1>1 DEF IdenInv, EndedInv, SentAway
<1>10. \A o \in Clients : request[o].with \in DOMAIN token \cup {0}
  BY DEF IdenInv, RowsInv, AskedInv, Requests
<1> HIDE DEF u
<1>11. AskedInv'
  BY <1>4, <1>5, <1>6 DEF IdenInv, AskedInv
<1>12. EndedInv'
  <2>1. \A i \in DOMAIN token' : token'[i].live => ~token'[i].cut
    BY <1>4, <1>5, <1>7 DEF IdenInv, EndedInv
  <2>2. ASSUME NEW v \in Users \ crossed, ~account[v].active PROVE SentAway(v)'
    <3>1. SentAway(v) /\ v # u
      BY <1>9, <2>2 DEF IdenInv, EndedInv
    <3> QED BY <1>4, <1>5, <1>6, <1>7, <3>1 DEF SentAway
  <2> QED BY <2>1, <2>2 DEF EndedInv
<1>13. OnceInv'
  <2>1. \A j \in DOMAIN token' : token'[j].of \in DOMAIN token \cup {0}
    BY <1>2, <1>4, <1>5, <1>7 DEF IdenInv, OnceInv
  <2>2. ASSUME NEW i \in DOMAIN token \ shared
        PROVE  /\ \A j, k \in DOMAIN token' : token'[j].of = i /\ token'[k].of = i => j = k
               /\ \A j \in DOMAIN token' : token'[j].of = i =>
                    ~token'[i].live /\ \A o \in Clients : request'[o].with # i
               /\ \A o, q \in Clients : request'[o].with = i /\ request'[q].with = i => o = q
    <3>0. i # 0
      BY LenProperties DEF IdenInv, RowsInv
    <3>1. CASE i = of
      <4>1. request[c].with = i /\ ~token'[i].live
        BY <1>8, <3>0, <3>1
      <4>2. \A j \in DOMAIN token : token[j].of # i
        BY <4>1 DEF IdenInv, OnceInv
      <4>3. \A o \in Clients : request'[o].with # i
        BY <1>6, <3>0, <4>1 DEF IdenInv, OnceInv
      <4> QED BY <1>4, <1>5, <4>1, <4>2, <4>3
    <3>2. CASE i # of
      <4>1. \A j \in DOMAIN token' : token'[j].of = i => j \in DOMAIN token /\ token[j].of = i
        BY <1>4, <1>5, <1>7, <3>2
      <4>2. \A o \in Clients : request'[o].with = i => request[o].with = i
        BY <1>6, <3>0
      <4> QED BY <1>5, <4>1, <4>2 DEF IdenInv, OnceInv
    <3> QED BY <3>1, <3>2
  <2>3. \A j \in DOMAIN token' : token'[j].of # n
    BY <1>4, <2>1
  <2>4. \A o \in Clients : request'[o].with # n
    BY <1>4, <1>6, <1>10
  <2> QED BY <1>4, <2>1, <2>2, <2>3, <2>4 DEF OnceInv
<1> QED BY <1>3, <1>11, <1>12, <1>13

LEMMA LoginRightStep ==
  ASSUME IdenInv, NEW c \in Clients, LoginRight(c)
  PROVE  IdenInv'
<1> DEFINE u == request[c].user
           n == IF request[c].saw.fails = 0 THEN account[u].fails ELSE 0
           a == [account[u] EXCEPT !.fails = n]
<1>1. /\ request[c].at = "login" /\ Moves(c, Resting0)
      /\ request[c].saw.active
      /\ account' = [account EXCEPT ![u].fails = IF request[c].saw.fails = 0 THEN @ ELSE 0]
      /\ Issue(token, u, 0)
      /\ UNCHANGED <<wrong, crossed, shared>>
  BY DEF LoginRight
<1>2. u \in Users /\ account \in [Users -> Accounts]
  BY <1>1 DEF IdenInv, RowsInv, AskedInv
<1>3. n \in Nat /\ n \in {0, account[u].fails}
  BY <1>2 DEF Accounts
<1>4. account' = [account EXCEPT ![u] = a]
  BY <1>1, <1>2
<1> HIDE DEF n
<1>5. /\ a \in Accounts /\ a.fails = n
      /\ a.active = account[u].active /\ a.locked = account[u].locked
  BY <1>2, <1>3 DEF Accounts
<1> HIDE DEF a
<1>6. /\ account' \in [Users -> Accounts]
      /\ \A v \in Users : /\ account'[v].active = account[v].active
                          /\ account'[v].locked = account[v].locked
                          /\ account'[v].fails \in {0, account[v].fails}
  BY <1>2, <1>3, <1>4, <1>5
<1>7. token' \in Seq(Tokens) /\ AskedInv' /\ EndedInv' /\ OnceInv'
  BY <1>1, <1>6, IssueKept
<1>8. RowsInv' /\ (\A o \in Clients : request'[o] = request[o] \/ request'[o].at = "rest")
  BY <1>1, <1>6, <1>7, Rested DEF IdenInv, RowsInv
<1>9. CountInv'
  BY <1>1, <1>6, <1>8, CountKept
<1> QED BY <1>7, <1>8, <1>9 DEF IdenInv

LEMMA RefreshCommitsStep ==
  ASSUME IdenInv, NEW c \in Clients, RefreshCommits(c)
  PROVE  IdenInv'
<1>1. /\ request[c].at = "refresh" /\ Moves(c, Resting0)
      /\ Issue(Revoked(request[c].with), request[c].user, request[c].with)
      /\ UNCHANGED <<account, wrong, crossed, shared>>
  BY DEF RefreshCommits, Rotated
<1>2. token' \in Seq(Tokens) /\ AskedInv' /\ EndedInv' /\ OnceInv'
  BY <1>1, IssueKept
<1>3. RowsInv' /\ (\A o \in Clients : request'[o] = request[o] \/ request'[o].at = "rest")
  BY <1>1, <1>2, Rested DEF IdenInv, RowsInv
<1>4. CountInv'
  BY <1>1, <1>3, CountKept
<1> QED BY <1>2, <1>3, <1>4 DEF IdenInv

(* Sessions that end. *)
LEMMA LogoutStep ==
  ASSUME IdenInv, NEW i \in DOMAIN token, Logout(i)
  PROVE  IdenInv'
<1>1. token' = Revoked(i) /\ UNCHANGED <<account, request, wrong, crossed, shared>>
  BY DEF Logout
<1>2. /\ token' \in Seq(Tokens) /\ DOMAIN token' = DOMAIN token
      /\ \A j \in DOMAIN token :
           /\ token'[j].user = token[j].user /\ token'[j].of = token[j].of
           /\ token'[j].cut = token[j].cut /\ (token'[j].live => token[j].live)
  BY <1>1, RevokedRows DEF IdenInv
<1>3. RowsInv' /\ AskedInv'
  BY <1>1, <1>2 DEF IdenInv, RowsInv, AskedInv
<1>4. CountInv'
  BY <1>1 DEF IdenInv, CountInv, Enough
<1>5. EndedInv'
  BY <1>1, <1>2 DEF IdenInv, EndedInv, SentAway
<1>6. OnceInv'
  <2>1. \A j \in DOMAIN token' : token'[j].of \in DOMAIN token' \cup {0}
    BY <1>2 DEF IdenInv, OnceInv
  <2>2. ASSUME NEW k \in DOMAIN token' \ shared'
        PROVE  /\ \A j, l \in DOMAIN token' : token'[j].of = k /\ token'[l].of = k => j = l
               /\ \A j \in DOMAIN token' : token'[j].of = k =>
                    ~token'[k].live /\ \A c \in Clients : request'[c].with # k
               /\ \A c, o \in Clients : request'[c].with = k /\ request'[o].with = k => c = o
    <3>1. k \in DOMAIN token \ shared
      BY <1>1, <1>2, <2>2
    <3> QED BY <1>1, <1>2, <3>1 DEF IdenInv, OnceInv
  <2> QED BY <2>1, <2>2 DEF OnceInv
<1> QED BY <1>3, <1>4, <1>5, <1>6 DEF IdenInv

(* An account that is made, or made active. *)
LEMMA ActiveStep ==
  ASSUME IdenInv, NEW by \in Users, NEW u \in Users, NEW rs,
         CreateUser(by, u, rs) \/ ActivateUser(by, u)
  PROVE  IdenInv'
<1>1. UNCHANGED <<token, request, wrong, crossed, shared>>
  BY DEF CreateUser, ActivateUser, Account
<1>2. account[u] \in Accounts /\ account \in [Users -> Accounts]
  BY DEF IdenInv, RowsInv
<1>3. PICK a : /\ account' = [account EXCEPT ![u] = a]
               /\ a = Fresh0 \/ a = [account[u] EXCEPT !.active = TRUE]
  BY DEF CreateUser, ActivateUser, Account
<1>4. /\ a \in Accounts /\ a.active = TRUE /\ a.fails \in {0, account[u].fails}
      /\ a.locked => account[u].locked
  <2>1. CASE a = Fresh0
    BY <2>1 DEF Accounts, Fresh0
  <2>2. CASE a = [account[u] EXCEPT !.active = TRUE]
    BY <1>2, <2>2 DEF Accounts
  <2> QED BY <1>3, <2>1, <2>2
<1>5. /\ account' \in [Users -> Accounts]
      /\ \A v \in Users : /\ account'[v].fails \in {0, account[v].fails}
                          /\ account'[v].locked => account[v].locked
                          /\ ~account'[v].active => ~account[v].active
  BY <1>2, <1>3, <1>4
<1>6. RowsInv' /\ AskedInv' /\ OnceInv'
  BY <1>1, <1>5 DEF IdenInv, RowsInv, AskedInv, OnceInv
<1>7. CountInv'
  BY <1>1, <1>5, CountKept
<1>8. EndedInv'
  BY <1>1, <1>5 DEF IdenInv, EndedInv, SentAway
<1> QED BY <1>6, <1>7, <1>8 DEF IdenInv

(* The wrong passwords of a user are forgotten only with no login under    *)
(* way, which would write a count of before.                               *)
LEMMA UnlockStep ==
  ASSUME IdenInv, NEW by \in Users, NEW u \in Users, Unlock(by, u)
  PROVE  IdenInv'
<1> DEFINE a == [account[u] EXCEPT !.locked = FALSE, !.fails = 0]
<1>1. /\ account' = [account EXCEPT ![u] = a]
      /\ wrong' = IF Under(u) THEN wrong ELSE [wrong EXCEPT ![u] = 0]
      /\ UNCHANGED <<token, request, crossed, shared>>
  BY DEF Unlock, Account
<1>2. account[u] \in Accounts /\ account \in [Users -> Accounts] /\ wrong \in [Users -> Nat]
  BY DEF IdenInv, RowsInv
<1>3. /\ a \in Accounts /\ a.active = account[u].active
      /\ a.fails = 0 /\ a.locked = FALSE
  BY <1>2 DEF Accounts
<1> HIDE DEF a
<1>4. /\ account' \in [Users -> Accounts] /\ wrong' \in [Users -> Nat]
      /\ \A v \in Users : account'[v].active = account[v].active
      /\ \A v \in Users : v # u => account'[v] = account[v] /\ wrong'[v] = wrong[v]
      /\ account'[u].fails = 0 /\ account'[u].locked = FALSE
  BY <1>1, <1>2, <1>3
<1>5. RowsInv' /\ AskedInv' /\ OnceInv'
  BY <1>1, <1>4 DEF IdenInv, RowsInv, AskedInv, OnceInv
<1>6. CountInv'
  <2>1. 0 <= wrong'[u]
    BY <1>4
  <2>2. ASSUME NEW c \in Clients, request[c].at = "login"
        PROVE  Enough(request[c].saw.fails, request[c].user)'
    <3>1. /\ request[c].user \in Users
          /\ Enough(request[c].saw.fails, request[c].user)
      BY <2>2 DEF IdenInv, AskedInv, CountInv
    <3>2. wrong'[request[c].user] = wrong[request[c].user]
      BY <1>1, <1>4, <2>2, <3>1 DEF Under
    <3> QED BY <1>1, <3>1, <3>2 DEF Enough
  <2>3. ASSUME NEW v \in Users
        PROVE  /\ account'[v].locked => MAX_FAILED_LOGINS <= wrong'[v]
               /\ account'[v].fails <= wrong'[v] \/ MAX_FAILED_LOGINS <= wrong'[v]
    BY <1>4, <2>1 DEF IdenInv, CountInv, Enough
  <2> QED BY <1>1, <2>2, <2>3 DEF CountInv, Enough
<1>7. EndedInv'
  BY <1>1, <1>4 DEF IdenInv, EndedInv, SentAway
<1> QED BY <1>5, <1>6, <1>7 DEF IdenInv

(* Every session of a user ends at once; the requests of the user that     *)
(* were under way may outlive it.                                          *)
LEMMA EndStep ==
  ASSUME IdenInv, NEW by \in Users, NEW u \in Users,
         Deactivate(by, u) \/ ResetPassword(by, u)
  PROVE  IdenInv'
<1>1. /\ EndSessions(u) /\ UNCHANGED <<request, wrong, shared>>
      /\ crossed' = IF Under(u) THEN crossed \union {u} ELSE crossed
  BY DEF Deactivate, ResetPassword, Account, EndSessions
<1>2. account[u] \in Accounts /\ account \in [Users -> Accounts] /\ token \in Seq(Tokens)
  BY DEF IdenInv, RowsInv
<1>3. PICK a : /\ account' = [account EXCEPT ![u] = a]
               /\ \/ a = [account[u] EXCEPT !.active = FALSE]
                  \/ a = [account[u] EXCEPT !.fails = 0]
  BY DEF Deactivate, ResetPassword, Account
<1>4. /\ a \in Accounts /\ a.fails \in {0, account[u].fails}
      /\ a.locked = account[u].locked
  <2>1. CASE a = [account[u] EXCEPT !.active = FALSE]
    BY <1>2, <2>1 DEF Accounts
  <2>2. CASE a = [account[u] EXCEPT !.fails = 0]
    BY <1>2, <2>2 DEF Accounts
  <2> QED BY <1>3, <2>1, <2>2
<1>5. /\ account' \in [Users -> Accounts]
      /\ \A v \in Users : /\ account'[v].fails \in {0, account[v].fails}
                          /\ account'[v].locked => account[v].locked
      /\ \A v \in Users : v # u => account'[v] = account[v]
  BY <1>2, <1>3, <1>4
<1>6. ASSUME NEW i \in DOMAIN token
      PROVE  /\ token'[i] \in Tokens
             /\ token'[i].user = token[i].user /\ token'[i].of = token[i].of
             /\ token'[i].live => token[i].live /\ token[i].user # u
             /\ token[i].user # u => token'[i] = token[i]
  <2>1. token[i] \in Tokens
    BY TokenRows DEF IdenInv
  <2>2. token'[i] = [SessionsEnded(u)[i] EXCEPT !.cut = @ \/ token[i].user = u]
    BY <1>1 DEF EndSessions
  <2>3. CASE token[i].user = u
    <3>1. SessionsEnded(u)[i] = [token[i] EXCEPT !.live = FALSE]
      BY <2>3 DEF SessionsEnded
    <3>2. token'[i] = [token[i] EXCEPT !.live = FALSE, !.cut = TRUE]
      BY <2>1, <2>2, <2>3, <3>1 DEF Tokens
    <3> QED BY <2>1, <2>3, <3>2 DEF Tokens
  <2>4. CASE token[i].user # u
    <3>1. SessionsEnded(u)[i] = token[i]
      BY <2>4 DEF SessionsEnded
    <3>2. token'[i] = token[i]
      BY <2>1, <2>2, <2>4, <3>1 DEF Tokens
    <3> QED BY <2>1, <2>4, <3>2
  <2> QED BY <2>3, <2>4
<1>7. token' \in Seq(Tokens) /\ DOMAIN token' = DOMAIN token
  <2>1. DOMAIN token' = DOMAIN token /\ token' = [i \in DOMAIN token |-> token'[i]]
    BY <1>1 DEF EndSessions
  <2>2. DOMAIN token = 1 .. Len(token) /\ Len(token) \in Nat
    BY <1>2, LenProperties
  <2>3. token' \in [1 .. Len(token) -> Tokens]
    BY <1>6, <2>1, <2>2
  <2> QED BY <2>1, <2>2, <2>3, SeqDef
<1>8. RowsInv' /\ AskedInv'
  BY <1>1, <1>5, <1>6, <1>7 DEF IdenInv, RowsInv, AskedInv
<1>9. CountInv'
  BY <1>1, <1>5, CountKept
<1>10. EndedInv'
  <2>1. \A i \in DOMAIN token' : token'[i].live => ~token'[i].cut
    BY <1>6, <1>7 DEF IdenInv, EndedInv
  <2>2. ASSUME NEW v \in Users \ crossed', ~account'[v].active PROVE SentAway(v)'
    <3>1. CASE v = u
      BY <1>1, <1>6, <1>7, <2>2, <3>1 DEF SentAway, Under
    <3>2. CASE v # u
      <4>1. SentAway(v)
        BY <1>1, <1>5, <2>2, <3>2 DEF IdenInv, EndedInv
      <4> QED BY <1>1, <1>6, <1>7, <4>1 DEF SentAway
    <3> QED BY <3>1, <3>2
  <2> QED BY <2>1, <2>2 DEF EndedInv
<1>11. OnceInv'
  <2>1. \A j \in DOMAIN token' : token'[j].of \in DOMAIN token' \cup {0}
    BY <1>6, <1>7 DEF IdenInv, OnceInv
  <2>2. ASSUME NEW k \in DOMAIN token' \ shared'
        PROVE  /\ \A j, l \in DOMAIN token' : token'[j].of = k /\ token'[l].of = k => j = l
               /\ \A j \in DOMAIN token' : token'[j].of = k =>
                    ~token'[k].live /\ \A c \in Clients : request'[c].with # k
               /\ \A c, o \in Clients : request'[c].with = k /\ request'[o].with = k => c = o
    <3>1. k \in DOMAIN token \ shared
      BY <1>1, <1>7, <2>2
    <3> QED BY <1>1, <1>6, <1>7, <3>1 DEF IdenInv, OnceInv
  <2> QED BY <2>1, <2>2 DEF OnceInv
<1> QED BY <1>8, <1>9, <1>10, <1>11 DEF IdenInv

LEMMA IdenStep == IdenInv /\ [IdenNext]_idenVars => IdenInv'
<1> SUFFICES ASSUME IdenInv, [IdenNext]_idenVars PROVE IdenInv'
  OBVIOUS
<1>1. ASSUME NEW c \in Clients, NEW u \in Visitors, LoginReads(c, u) PROVE IdenInv'
  <2>1. u \in Users
    BY IdentityAssumption
  <2> QED BY <1>1, <2>1, LoginReadsStep
<1>2. ASSUME NEW c \in Clients, LoginWrong(c) \/ LoginRight(c) \/ RefreshCommits(c)
                                \/ RefreshChecks(c)
      PROVE  IdenInv'
  BY <1>2, LoginWrongStep, LoginRightStep, RefreshCommitsStep, RefreshChecksStep
<1>3. ASSUME NEW c \in Clients, LoginRefused(c) PROVE IdenInv'
  BY <1>3, RestsStep DEF LoginRefused
<1>4. ASSUME NEW i \in DOMAIN token,
             Logout(i) \/ \E c \in Clients : RefreshReads(c, i)
      PROVE  IdenInv'
  BY <1>4, LogoutStep, RefreshReadsStep
<1>5. ASSUME NEW by \in Users, NEW u \in Users,
             \/ ActivateUser(by, u) \/ Unlock(by, u) \/ Deactivate(by, u) \/ ResetPassword(by, u)
             \/ \E rs \in SUBSET RoleNames : CreateUser(by, u, rs)
      PROVE  IdenInv'
  BY <1>5, ActiveStep, UnlockStep, EndStep
<1>6. CASE UNCHANGED <<account, token, request, wrong, crossed, shared>>
  BY <1>6 DEF IdenInv, RowsInv, AskedInv, CountInv, Enough, EndedInv, SentAway, OnceInv
<1>7. ASSUME \/ \E by, u \in Users, rs \in SUBSET RoleNames : AssignRoles(by, u, rs)
             \/ \E by \in Users, r \in RoleNames :
                  \/ \E ps \in SUBSET Perms : CreateRole(by, r, ps) \/ UpdateRole(by, r, ps)
                  \/ DeleteRole(by, r)
             \/ UNCHANGED idenVars
      PROVE  UNCHANGED <<account, token, request, wrong, crossed, shared>>
  BY <1>7 DEF AssignRoles, CreateRole, UpdateRole, DeleteRole, RoleRows, idenVars
<1> QED BY <1>1, <1>2, <1>3, <1>4, <1>5, <1>6, <1>7 DEF IdenNext

(* Whatever logins, refreshes and administrators do at once: a deactivated *)
(* user has no session and a reset leaves none of before (auth.py,         *)
(* users.py), a refresh token is exchanged for one other, and an account   *)
(* is locked only after as many wrong passwords as it takes.               *)
THEOREM SessionsAreSound == IdenSpec => []SessionsSound
<1>1. IdenInv => SessionsSound
  <2> SUFFICES ASSUME IdenInv PROVE SessionsSound
    OBVIOUS
  <2>1. NoSessionSurvives
    BY DEF IdenInv, EndedInv, SentAway, NoSessionSurvives, LiveTokens
  <2>2. ExchangedOnce
    <3> SUFFICES ASSUME NEW i \in DOMAIN token, i \notin shared
                 PROVE  Cardinality({j \in DOMAIN token : token[j].of = i}) <= 1
      BY DEF ExchangedOnce
    <3> DEFINE C == {j \in DOMAIN token : token[j].of = i}
    <3>1. \A j, k \in C : j = k
      BY DEF IdenInv, OnceInv
    <3>2. CASE C = {}
      BY <3>2, FS_EmptySet
    <3>3. ASSUME NEW j \in C PROVE Cardinality(C) <= 1
      <4>1. C = {j}
        BY <3>1
      <4>2. Cardinality({j}) = 1
        BY FS_Singleton
      <4> QED BY <4>1, <4>2
    <3> QED BY <3>2, <3>3
  <2>3. LockedForCause
    BY IdentityAssumption DEF IdenInv, RowsInv, CountInv, LockedForCause
  <2> QED BY <2>1, <2>2, <2>3 DEF SessionsSound
<1> QED BY <1>1, IdenInitInv, IdenStep, PTL DEF IdenSpec

(* The types of the rest: failures are counted as far as the bound, and a  *)
(* role somebody holds is there, since only one that nobody holds may be   *)
(* deleted (delete_role).                                                  *)
IdenTyped ==
  /\ holds = [u \in Users |-> holds[u]]
  /\ \A u \in Users : account[u].fails <= MaxWrong /\ holds[u] \subseteq DOMAIN grants
  /\ "ADMIN" \in DOMAIN grants

LEMMA IdenTypedInit == IdenInit => IdenTyped
<1> SUFFICES ASSUME IdenInit PROVE IdenTyped
  OBVIOUS
<1>1. \A u \in Users : account[u].fails = 0
  <2>1. Fresh0.fails = 0 /\ [Fresh0 EXCEPT !.there = FALSE].fails = 0
    BY DEF Fresh0
  <2> QED BY <2>1 DEF IdenInit
<1>2. DOMAIN grants = {"ADMIN"} /\ \A u \in Users : holds[u] \subseteq {"ADMIN"}
  BY DEF IdenInit
<1>3. holds = [u \in Users |-> holds[u]]
  BY DEF IdenInit
<1>4. 0 <= MaxWrong
  BY IdentityAssumption
<1> QED BY <1>1, <1>2, <1>3, <1>4 DEF IdenTyped

(* A row written over, whose failures are within the bound.                *)
LEMMA FailsWritten ==
  ASSUME IdenInv, IdenTyped, NEW u \in Users, NEW a, account' = [account EXCEPT ![u] = a],
         a.fails <= MaxWrong
  PROVE  \A v \in Users : account'[v].fails <= MaxWrong
BY DEF IdenInv, RowsInv, IdenTyped

LEMMA LoginsCount ==
  ASSUME IdenInv, IdenTyped, NEW c \in Clients, LoginWrong(c) \/ LoginRight(c)
  PROVE  \A v \in Users : account'[v].fails <= MaxWrong
<1> DEFINE u == request[c].user
           n == request[c].saw.fails + 1
           m == IF request[c].saw.fails = 0 THEN account[u].fails ELSE 0
           locked == account[u].locked \/ (Locks(n) /\ ~request[c].saw.locked)
<1>1. request[c].at = "login"
  BY DEF LoginWrong, LoginRight
<1>2. u \in Users /\ request[c].saw.fails \in Nat /\ account[u] \in Accounts
      /\ account \in [Users -> Accounts]
  BY <1>1 DEF IdenInv, RowsInv, AskedInv, Requests, Accounts
<1>3. CASE LoginWrong(c)
  <2>1. n <= MaxWrong
    BY <1>3 DEF LoginWrong
  <2>2. account' = [account EXCEPT ![u] = [account[u] EXCEPT !.fails = n, !.locked = locked]]
    BY <1>2, <1>3 DEF LoginWrong, Accounts
  <2> HIDE DEF n, locked, u
  <2>3. [account[u] EXCEPT !.fails = n, !.locked = locked].fails = n
    BY <1>2 DEF Accounts
  <2> QED BY <1>2, <2>1, <2>2, <2>3, FailsWritten
<1>4. CASE LoginRight(c)
  <2>1. m <= MaxWrong
    BY <1>2, IdentityAssumption DEF IdenTyped
  <2>2. account' = [account EXCEPT ![u] = [account[u] EXCEPT !.fails = m]]
    BY <1>2, <1>4 DEF LoginRight
  <2> HIDE DEF m, u
  <2>3. [account[u] EXCEPT !.fails = m].fails = m
    BY <1>2 DEF Accounts
  <2> QED BY <1>2, <2>1, <2>2, <2>3, FailsWritten
<1> QED BY <1>3, <1>4

LEMMA AdminsCount ==
  ASSUME IdenInv, IdenTyped, NEW by, NEW u \in Users,
         \/ ActivateUser(by, u) \/ Unlock(by, u) \/ Deactivate(by, u) \/ ResetPassword(by, u)
         \/ \E rs \in SUBSET RoleNames : CreateUser(by, u, rs)
  PROVE  \A v \in Users : account'[v].fails <= MaxWrong
<1>1. PICK a : /\ account' = [account EXCEPT ![u] = a]
               /\ \/ a \in {Fresh0, [account[u] EXCEPT !.active = TRUE],
                            [account[u] EXCEPT !.active = FALSE]}
                  \/ a \in {[account[u] EXCEPT !.fails = 0],
                            [account[u] EXCEPT !.locked = FALSE, !.fails = 0]}
  BY DEF CreateUser, ActivateUser, Unlock, Deactivate, ResetPassword, Account
<1>2. account[u] \in Accounts
  BY DEF IdenInv, RowsInv
<1>3. a.fails \in {0, account[u].fails}
  <2>1. CASE a = Fresh0
    BY <2>1 DEF Fresh0
  <2>2. CASE a = [account[u] EXCEPT !.active = TRUE] \/ a = [account[u] EXCEPT !.active = FALSE]
    BY <1>2, <2>2 DEF Accounts
  <2>3. CASE a = [account[u] EXCEPT !.fails = 0]
             \/ a = [account[u] EXCEPT !.locked = FALSE, !.fails = 0]
    BY <1>2, <2>3 DEF Accounts
  <2> QED BY <1>1, <2>1, <2>2, <2>3
<1>4. a.fails <= MaxWrong
  BY <1>3, IdentityAssumption DEF IdenTyped
<1> QED BY <1>1, <1>4, FailsWritten

LEMMA RolesStay ==
  ASSUME IdenTyped, NEW by, NEW r,
         \/ \E ps \in SUBSET Perms : CreateRole(by, r, ps) \/ UpdateRole(by, r, ps)
         \/ DeleteRole(by, r)
  PROVE  IdenTyped'
<1>1. UNCHANGED <<account, holds>>
  BY DEF CreateRole, UpdateRole, DeleteRole, RoleRows
<1>2. \/ DOMAIN grants \subseteq DOMAIN grants'
      \/ /\ DOMAIN grants' = DOMAIN grants \ {r} /\ r # "ADMIN"
         /\ \A u \in Users : r \notin holds[u]
  BY DEF CreateRole, UpdateRole, DeleteRole, RoleRows
<1> QED BY <1>1, <1>2 DEF IdenTyped

LEMMA IdenTypedStep == IdenInv /\ IdenTyped /\ [IdenNext]_idenVars => IdenTyped'
<1> SUFFICES ASSUME IdenInv, IdenTyped, [IdenNext]_idenVars PROVE IdenTyped'
  OBVIOUS
<1>1. ASSUME \A v \in Users : account'[v].fails <= MaxWrong, UNCHANGED <<holds, grants>>
      PROVE  IdenTyped'
  BY <1>1 DEF IdenTyped
<1>2. ASSUME NEW c \in Clients, LoginWrong(c) \/ LoginRight(c) PROVE IdenTyped'
  <2>1. UNCHANGED <<holds, grants>>
    BY <1>2 DEF LoginWrong, LoginRight
  <2> QED BY <1>1, <1>2, <2>1, LoginsCount
<1>3. ASSUME NEW by \in Users, NEW u \in Users,
             ActivateUser(by, u) \/ Unlock(by, u) \/ Deactivate(by, u) \/ ResetPassword(by, u)
      PROVE  IdenTyped'
  <2>1. UNCHANGED <<holds, grants>>
    BY <1>3 DEF ActivateUser, Unlock, Deactivate, ResetPassword, Account
  <2> QED BY <1>1, <1>3, <2>1, AdminsCount
<1>4. ASSUME NEW by \in Users, NEW u \in Users, NEW rs \in SUBSET RoleNames,
             CreateUser(by, u, rs) \/ AssignRoles(by, u, rs)
      PROVE  IdenTyped'
  <2>1. rs \subseteq DOMAIN grants /\ grants' = grants /\ holds' = [holds EXCEPT ![u] = rs]
    BY <1>4 DEF CreateUser, AssignRoles
  <2>2. \A v \in Users : account'[v].fails <= MaxWrong
    <3>1. CASE AssignRoles(by, u, rs)
      BY <3>1 DEF AssignRoles, IdenTyped
    <3> QED BY <1>4, <3>1, AdminsCount
  <2> QED BY <2>1, <2>2 DEF IdenTyped
<1>5. ASSUME NEW by \in Users, NEW r \in RoleNames,
             \/ \E ps \in SUBSET Perms : CreateRole(by, r, ps) \/ UpdateRole(by, r, ps)
             \/ DeleteRole(by, r)
      PROVE  IdenTyped'
  BY <1>5, RolesStay
<1>6. ASSUME UNCHANGED <<account, holds, grants>> PROVE IdenTyped'
  BY <1>6 DEF IdenTyped
<1>7. ASSUME NEW c \in Clients,
             \/ \E u : LoginReads(c, u)
             \/ LoginRefused(c)
             \/ \E i : RefreshReads(c, i)
             \/ RefreshChecks(c) \/ RefreshCommits(c)
      PROVE  IdenTyped'
  BY <1>6, <1>7 DEF LoginReads, LoginRefused, RefreshReads, RefreshChecks, RefreshCommits
<1>8. ASSUME NEW i, Logout(i) PROVE IdenTyped'
  BY <1>6, <1>8 DEF Logout
<1>9. CASE UNCHANGED idenVars
  BY <1>6, <1>9 DEF idenVars
<1> QED BY <1>2, <1>3, <1>4, <1>5, <1>7, <1>8, <1>9 DEF IdenNext

LEMMA IdenTypes == IdenInv /\ IdenTyped => IdenTypeOK
<1> SUFFICES ASSUME IdenInv, IdenTyped PROVE IdenTypeOK
  OBVIOUS
<1>1. \A u \in Users : account[u].fails \in 0 .. MaxWrong
  BY IdentityAssumption DEF IdenInv, RowsInv, Accounts, IdenTyped
<1>2. \A c \in Clients : request[c].at \in {"rest", "login", "token", "refresh"}
  BY DEF IdenInv, RowsInv, Requests
<1> QED BY <1>1, <1>2 DEF IdenTyped, IdenTypeOK

-----------------------------------------------------------------------------
(***************************************************************************)
(* Rules, settings and tariffs.  A request writes what it loaded earlier:  *)
(* an edit that began before a publication, and is written after it, was   *)
(* among what was published (RulesInv); while no two requests have         *)
(* overlapped there is one at most, and what it has seen is still so.      *)
(***************************************************************************)
RuleRows == [status : {"DRAFT", "ACTIVE", "DISABLED"}, body : RuleBodies]
Changes == [old : Stored \cup {NoRow}, new : Stored]
InEffect == {t \in Tariffs : tariffs[t] = "ACTIVE"}

TasksInv ==
  /\ office = [a \in Admins |-> office[a]]
  /\ \A a \in Admins :
       /\ office[a].does \in {"edit", "publish", "disable"} =>
            office[a].on \in Rules /\ rule[office[a].on] \in RuleRows
       /\ office[a].does = "edit" => office[a].new \in RuleBodies
       /\ office[a].does = "put" => office[a].new \in Stored
                                    /\ office[a].saw \in Stored \cup {NoRow}

(* What the edits of r that found it out of force are about to write. *)
Pending(r) == {a \in Admins : /\ office[a].does = "edit" /\ office[a].on = r
                              /\ office[a].saw.status # "ACTIVE"}

RulesInv ==
  /\ rule \in [Rules -> RuleRows \cup {NoRule}]
  /\ vetted = [r \in Rules |-> vetted[r]]
  /\ \A r \in Rules : rule[r].status = "ACTIVE" =>
       rule[r].body \in vetted[r] /\ \A a \in Pending(r) : office[a].new \in vetted[r]

AloneInv == ~met => \A a, b \in Admins : office[a] # NoTask /\ office[b] # NoTask => a = b

SettingInv ==
  /\ value \in Stored \cup {NoRow} /\ history \in Seq(Changes)
  /\ value # NoRow => \E i \in DOMAIN history : history[i].new = value
  /\ ~met => /\ history # <<>> => history[Len(history)].new = value
             /\ \A i \in DOMAIN history :
                  history[i].old = IF i = 1 THEN NoRow ELSE history[i - 1].new
             /\ \A a \in Admins : office[a].does = "put" => office[a].saw = value

TariffInv ==
  /\ tariffs \in [Tariffs -> {"ABSENT", "DRAFT", "ACTIVE", "INACTIVE"}]
  /\ ~met => /\ \A t, u \in InEffect : t = u
             /\ \A a \in Admins : office[a].does = "activate" => office[a].saw = InEffect

PolInv == TasksInv /\ RulesInv /\ AloneInv /\ SettingInv /\ TariffInv

LEMMA PolInitInv == PolInit => PolInv
<1> SUFFICES ASSUME PolInit PROVE PolInv
  OBVIOUS
<1>1. office = [a \in Admins |-> office[a]] /\ \A a \in Admins : office[a].does = "rest"
                                               /\ office[a] = NoTask
  BY DEF PolInit, NoTask
<1>2. TasksInv
  BY <1>1 DEF TasksInv
<1>3. RulesInv
  <2>1. NoRule.status = "ABSENT"
    BY DEF NoRule
  <2> QED BY <2>1 DEF PolInit, RulesInv
<1>4. AloneInv
  BY <1>1 DEF AloneInv
<1>5. SettingInv
  <2>1. history = <<>> /\ history \in Seq(Changes) /\ DOMAIN history = {}
    BY EmptySeq DEF PolInit
  <2> QED BY <1>1, <2>1 DEF PolInit, SettingInv
<1>6. TariffInv
  BY <1>1 DEF PolInit, TariffInv, InEffect
<1> QED BY <1>2, <1>3, <1>4, <1>5, <1>6 DEF PolInv

(* A request that loads finds the rows as they are, and is alone unless    *)
(* two have met.                                                           *)
LEMMA LoadKept ==
  ASSUME PolInv, NEW a \in Admins, NEW job, Loads(a, job),
         job.does \in {"edit", "publish", "disable"} =>
           job.on \in Rules /\ rule[job.on] \in RuleRows,
         job.does = "edit" => job.new \in RuleBodies /\ job.saw = rule[job.on],
         job.does = "put" => job.new \in Stored /\ job.saw = value,
         job.does = "activate" => job.saw = InEffect
  PROVE  PolInv'
<1>1. /\ UNCHANGED <<rule, tariffs, value, history, vetted>>
      /\ met' = (met \/ \E b \in Admins : office[b] # NoTask)
      /\ office' = [b \in Admins |-> office'[b]]
      /\ office'[a] = job /\ \A b \in Admins : b # a => office'[b] = office[b]
  BY DEF Loads, PolInv, TasksInv
<1>2. ~met' => ~met /\ \A b \in Admins : b # a => office'[b] = NoTask
  BY <1>1
<1>3. NoTask.does = "rest"
  BY DEF NoTask
<1>4. TasksInv'
  <2>1. value \in Stored \cup {NoRow}
    BY DEF PolInv, SettingInv
  <2> QED BY <1>1, <2>1 DEF PolInv, TasksInv
<1>5. RulesInv'
  <2>1. \A r \in Rules, b \in Admins : rule[r].status = "ACTIVE" /\ b \in Pending(r)' =>
          b \in Pending(r) /\ office'[b] = office[b]
    BY <1>1 DEF Pending
  <2>2. \A r \in Rules : Pending(r)' \subseteq Admins
    BY DEF Pending
  <2> QED BY <1>1, <2>1, <2>2 DEF PolInv, RulesInv
<1>6. AloneInv'
  BY <1>2 DEF AloneInv
<1>7. SettingInv'
  <2>1. ~met' => \A b \in Admins : office'[b].does = "put" => office'[b].saw = value
    BY <1>1, <1>2, <1>3
  <2> QED BY <1>1, <1>2, <2>1 DEF PolInv, SettingInv
<1>8. TariffInv'
  <2>1. ~met' => \A b \in Admins : office'[b].does = "activate" => office'[b].saw = InEffect
    BY <1>1, <1>2, <1>3
  <2>2. InEffect' = InEffect
    BY <1>1 DEF InEffect
  <2> QED BY <1>1, <1>2, <2>1, <2>2 DEF PolInv, TariffInv
<1> QED BY <1>4, <1>5, <1>6, <1>7, <1>8 DEF PolInv

(* A request that ends. *)
LEMMA EndsAlone ==
  ASSUME PolInv, NEW a \in Admins, JobEnds(a)
  PROVE  /\ office' = [b \in Admins |-> office'[b]] /\ office'[a].does = "rest" /\ met' = met
         /\ \A b \in Admins : b # a => office'[b] = office[b]
         /\ AloneInv'
         /\ ~met /\ office[a] # NoTask => \A b \in Admins : office'[b] = NoTask
         /\ NoTask.does = "rest"
<1>1. /\ office' = [b \in Admins |-> office'[b]] /\ office'[a] = NoTask /\ met' = met
      /\ \A b \in Admins : b # a => office'[b] = office[b]
  BY DEF JobEnds, PolInv, TasksInv
<1>2. NoTask.does = "rest"
  BY DEF NoTask
<1>3. AloneInv'
  BY <1>1 DEF PolInv, AloneInv
<1>4. ASSUME ~met, office[a] # NoTask PROVE \A b \in Admins : office'[b] = NoTask
  BY <1>1, <1>4 DEF PolInv, AloneInv
<1> QED BY <1>1, <1>2, <1>3, <1>4

(* A row of rule r is written; what is on record of the others stays.      *)
LEMMA RuleWritten ==
  ASSUME PolInv, NEW r \in Rules, NEW row \in RuleRows, NEW says,
         rule' = [rule EXCEPT ![r] = row], vetted' = [vetted EXCEPT ![r] = says],
         (\E a \in Admins : JobEnds(a)) \/ UNCHANGED <<office, met>>,
         row.status = "ACTIVE" => row.body \in says,
         row.status = "ACTIVE" => \A b \in Pending(r) : office[b].new \in says,
         UNCHANGED <<tariffs, value, history>>
  PROVE  PolInv'
<1>1. /\ office' = [b \in Admins |-> office'[b]] /\ met' = met
      /\ \A b \in Admins : office'[b] = office[b] \/ office'[b].does = "rest"
      /\ AloneInv'
  <2>1. ASSUME NEW a \in Admins, JobEnds(a)
        PROVE  /\ office' = [b \in Admins |-> office'[b]] /\ met' = met
               /\ \A b \in Admins : office'[b] = office[b] \/ office'[b].does = "rest"
               /\ AloneInv'
    BY <2>1, EndsAlone
  <2>2. CASE UNCHANGED <<office, met>>
    BY <2>2 DEF PolInv, AloneInv, TasksInv
  <2> QED BY <2>1, <2>2
<1>2. /\ rule' \in [Rules -> RuleRows \cup {NoRule}] /\ rule'[r] = row
      /\ \A q \in Rules : q # r => rule'[q] = rule[q]
  BY DEF PolInv, RulesInv
<1>3. /\ vetted' = [q \in Rules |-> vetted'[q]] /\ vetted'[r] = says
      /\ \A q \in Rules : q # r => vetted'[q] = vetted[q]
  BY DEF PolInv, RulesInv
<1>4. TasksInv'
  BY <1>1, <1>2 DEF PolInv, TasksInv
<1>5. RulesInv'
  <2>1. \A q \in Rules : \A b \in Pending(q)' : b \in Pending(q) /\ office'[b] = office[b]
    BY <1>1 DEF Pending
  <2>2. ASSUME rule'[r].status = "ACTIVE"
        PROVE  rule'[r].body \in vetted'[r] /\ \A b \in Pending(r)' : office'[b].new \in vetted'[r]
    BY <1>2, <1>3, <2>1, <2>2
  <2>3. ASSUME NEW q \in Rules, q # r, rule'[q].status = "ACTIVE"
        PROVE  rule'[q].body \in vetted'[q] /\ \A b \in Pending(q)' : office'[b].new \in vetted'[q]
    BY <1>2, <1>3, <2>1, <2>3 DEF PolInv, RulesInv
  <2> QED BY <1>2, <1>3, <2>2, <2>3 DEF RulesInv
<1>6. SettingInv'
  BY <1>1 DEF PolInv, SettingInv
<1>7. TariffInv'
  BY <1>1 DEF PolInv, TariffInv, InEffect
<1> QED BY <1>1, <1>4, <1>5, <1>6, <1>7 DEF PolInv

LEMMA CreateRuleStep ==
  ASSUME PolInv, NEW r \in Rules, NEW b \in RuleBodies, create_rule(r, b)
  PROVE  PolInv'
<1> DEFINE row == [status |-> "DRAFT", body |-> b]
<1>1. /\ rule' = [rule EXCEPT ![r] = row]
      /\ UNCHANGED <<tariffs, value, history, office, vetted, met>>
  BY DEF create_rule
<1>2. row \in RuleRows /\ row.status # "ACTIVE"
  BY DEF RuleRows
<1>3. vetted' = [vetted EXCEPT ![r] = vetted[r]]
  BY <1>1 DEF PolInv, RulesInv
<1> HIDE DEF row
<1> QED BY <1>1, <1>2, <1>3, RuleWritten

LEMMA UpdateRuleStep ==
  ASSUME PolInv, NEW a \in Admins, update_rule(a)
  PROVE  PolInv'
<1> DEFINE j == office[a]
           r == j.on
           row == [status |-> Edited(j.saw, rule[r].status),
                   body   |-> IF j.new = j.saw.body THEN rule[r].body ELSE j.new]
<1>1. /\ j.does = "edit" /\ rule' = [rule EXCEPT ![r] = row] /\ JobEnds(a)
      /\ UNCHANGED <<tariffs, value, history, vetted>>
  BY DEF update_rule
<1>2. r \in Rules /\ rule[r] \in RuleRows /\ j.new \in RuleBodies
  BY <1>1 DEF PolInv, TasksInv
<1>3. vetted' = [vetted EXCEPT ![r] = vetted[r]]
  BY <1>1 DEF PolInv, RulesInv
<1>4. row \in RuleRows
  BY <1>2 DEF RuleRows, Edited
<1>5. row.status = "ACTIVE" => rule[r].status = "ACTIVE" /\ j.saw.status # "ACTIVE"
  BY <1>2 DEF Edited
<1>6. row.status = "ACTIVE" => row.body \in vetted[r]
  BY <1>1, <1>2, <1>5 DEF PolInv, RulesInv, Pending
<1>7. row.status = "ACTIVE" => \A b \in Pending(r) : office[b].new \in vetted[r]
  BY <1>2, <1>5 DEF PolInv, RulesInv
<1> HIDE DEF row, r, j
<1> QED BY <1>1, <1>2, <1>3, <1>4, <1>6, <1>7, RuleWritten

LEMMA PublishStep ==
  ASSUME PolInv, NEW a \in Admins, publish_rule(a)
  PROVE  PolInv'
<1> DEFINE j == office[a]
           r == j.on
           row == [rule[r] EXCEPT !.status = IF j.saw.status = "ACTIVE" THEN @ ELSE "ACTIVE"]
           says == {rule[r].body} \union
                   {office[b].new : b \in {c \in Admins : office[c].does = "edit"
                                                          /\ office[c].on = r}}
<1>1. /\ j.does = "publish" /\ JobEnds(a)
      /\ rule' = [rule EXCEPT ![r].status = IF j.saw.status = "ACTIVE" THEN @ ELSE "ACTIVE"]
      /\ vetted' = [vetted EXCEPT ![r] = says]
      /\ UNCHANGED <<tariffs, value, history>>
  BY DEF publish_rule
<1>2. r \in Rules /\ rule[r] \in RuleRows
  BY <1>1 DEF PolInv, TasksInv
<1>3. rule' = [rule EXCEPT ![r] = row]
  BY <1>1
<1>4. row \in RuleRows /\ row.body = rule[r].body
  BY <1>2 DEF RuleRows
<1>5. row.body \in says
      /\ \A b \in Pending(r) : office[b].new \in says
  BY <1>4 DEF Pending
<1> HIDE DEF row, says, r, j
<1> QED BY <1>1, <1>2, <1>3, <1>4, <1>5, RuleWritten

LEMMA DisableStep ==
  ASSUME PolInv, NEW a \in Admins, disable_rule(a)
  PROVE  PolInv'
<1> DEFINE j == office[a]
           r == j.on
           row == [rule[r] EXCEPT !.status = IF j.saw.status = "DISABLED" THEN @ ELSE "DISABLED"]
<1>1. /\ j.does = "disable" /\ JobEnds(a)
      /\ rule' = [rule EXCEPT ![r].status = IF j.saw.status = "DISABLED" THEN @ ELSE "DISABLED"]
      /\ UNCHANGED <<tariffs, value, history, vetted>>
  BY DEF disable_rule
<1>2. r \in Rules /\ rule[r] \in RuleRows
  BY <1>1 DEF PolInv, TasksInv
<1>3. rule' = [rule EXCEPT ![r] = row] /\ vetted' = [vetted EXCEPT ![r] = vetted[r]]
  BY <1>1 DEF PolInv, RulesInv
<1>4. /\ row \in RuleRows /\ row.body = rule[r].body
      /\ row.status = "ACTIVE" => rule[r].status = "ACTIVE"
  BY <1>2 DEF RuleRows
<1>5. /\ row.status = "ACTIVE" => row.body \in vetted[r]
      /\ row.status = "ACTIVE" => \A b \in Pending(r) : office[b].new \in vetted[r]
  BY <1>2, <1>4 DEF PolInv, RulesInv
<1> HIDE DEF row, r, j
<1> QED BY <1>1, <1>2, <1>3, <1>4, <1>5, RuleWritten

(* Settings. The second of two that find no row is refused; otherwise what *)
(* is replaced, as it was seen, and what replaces it go on record.         *)
LEMMA PutStep ==
  ASSUME PolInv, NEW a \in Admins, put_setting(a)
  PROVE  PolInv'
<1> DEFINE j == office[a]
           row == [old |-> j.saw, new |-> j.new]
<1>1. /\ j.does = "put" /\ JobEnds(a) /\ UNCHANGED <<rule, tariffs, vetted>>
      /\ \/ UNCHANGED <<value, history>>
         \/ /\ value' = IF j.new = j.saw THEN value ELSE j.new
            /\ history' = Append(history, row)
  BY DEF put_setting
<1>2. /\ office' = [b \in Admins |-> office'[b]] /\ office'[a].does = "rest" /\ met' = met
      /\ \A b \in Admins : b # a => office'[b] = office[b]
      /\ AloneInv'
      /\ ~met /\ office[a] # NoTask => \A b \in Admins : office'[b] = NoTask
      /\ NoTask.does = "rest"
  BY <1>1, EndsAlone
<1>3. /\ j.new \in Stored /\ j.saw \in Stored \cup {NoRow} /\ j # NoTask
      /\ value \in Stored \cup {NoRow} /\ history \in Seq(Changes)
  BY <1>1, <1>2 DEF PolInv, TasksInv, SettingInv
<1>4. TasksInv'
  BY <1>1, <1>2 DEF PolInv, TasksInv
<1>5. RulesInv'
  <2>1. \A r \in Rules : \A b \in Pending(r)' : b \in Pending(r) /\ office'[b] = office[b]
    BY <1>2 DEF Pending
  <2> QED BY <1>1, <2>1 DEF PolInv, RulesInv
<1>6. TariffInv'
  <2>1. InEffect' = InEffect
    BY <1>1 DEF InEffect
  <2> QED BY <1>1, <1>2, <2>1 DEF PolInv, TariffInv
<1>7. SettingInv'
  <2>1. ~met' => \A b \in Admins : office'[b].does = "put" => office'[b].saw = value'
    BY <1>2, <1>3
  <2>2. CASE UNCHANGED <<value, history>>
    BY <1>2, <2>1, <2>2 DEF PolInv, SettingInv
  <2>3. CASE /\ value' = IF j.new = j.saw THEN value ELSE j.new
             /\ history' = Append(history, row)
    <3> DEFINE n == Len(history)
    <3>1. row \in Changes /\ row.new = j.new /\ row.old = j.saw
      BY <1>3 DEF Changes
    <3>2. history' = Append(history, row)
      BY <2>3
    <3>3. DOMAIN history = 1 .. n /\ n \in Nat
      BY <1>3, LenProperties
    <3>4. value' \in Stored \cup {NoRow} /\ value' \in {value, j.new}
      BY <1>3, <2>3
    <3>5. ~met => j.saw = value /\ value' = j.new
      BY <1>1, <2>3 DEF PolInv, SettingInv
    <3>12. history = <<>> => n = 0
      OBVIOUS
    <3> HIDE DEF row, n
    <3>6. /\ history' \in Seq(Changes) /\ Len(history') = n + 1
          /\ \A i \in 1 .. n : history'[i] = history[i]
          /\ history'[n + 1] = row
      BY <1>3, <3>1, <3>2, <3>3, AppendProperties DEF n
    <3>7. DOMAIN history' = 1 .. n + 1
      BY <3>6, LenProperties
    <3>8. value' # NoRow => \E i \in DOMAIN history' : history'[i].new = value'
      <4>1. CASE value' = value /\ value # NoRow
        <5>1. PICK i \in DOMAIN history : history[i].new = value
          BY <4>1 DEF PolInv, SettingInv
        <5> QED BY <3>3, <3>6, <3>7, <4>1, <5>1
      <4>2. CASE value' = j.new
        BY <3>1, <3>3, <3>6, <3>7, <4>2
      <4> QED BY <3>4, <4>1, <4>2
    <3>9. ~met' => history'[Len(history')].new = value'
      BY <1>2, <3>1, <3>5, <3>6
    <3>10. ASSUME ~met', NEW i \in DOMAIN history'
           PROVE  history'[i].old = IF i = 1 THEN NoRow ELSE history'[i - 1].new
      <4>1. ~met
        BY <1>2, <3>10
      <4>2. CASE i \in 1 .. n
        <5>1. history[i].old = IF i = 1 THEN NoRow ELSE history[i - 1].new
          BY <3>3, <4>1, <4>2 DEF PolInv, SettingInv
        <5>2. i # 1 => i - 1 \in 1 .. n
          BY <3>3, <4>2
        <5> QED BY <3>6, <4>2, <5>1, <5>2
      <4>3. CASE i = n + 1
        <5>1. history'[i].old = value
          BY <3>1, <3>5, <3>6, <4>1, <4>3
        <5>2. CASE n = 0
          <6>1. value = NoRow
            BY <3>3, <5>2 DEF PolInv, SettingInv
          <6> QED BY <4>3, <5>1, <5>2, <6>1
        <5>3. CASE n # 0
          <6>1. i # 1 /\ i - 1 = n /\ n \in 1 .. n
            BY <3>3, <4>3, <5>3
          <6>2. history # <<>>
            BY <3>12, <5>3
          <6>3. history[n].new = value
            BY <4>1, <6>2 DEF PolInv, SettingInv, n
          <6> QED BY <3>6, <5>1, <6>1, <6>3
        <5> QED BY <5>2, <5>3
      <4> QED BY <3>3, <3>7, <4>2, <4>3
    <3> QED BY <2>1, <3>4, <3>6, <3>8, <3>9, <3>10 DEF SettingInv
  <2> QED BY <1>1, <2>2, <2>3
<1> QED BY <1>2, <1>4, <1>5, <1>6, <1>7 DEF PolInv

(* Tariffs. *)
LEMMA TariffKept ==
  ASSUME PolInv, tariffs' \in [Tariffs -> {"ABSENT", "DRAFT", "ACTIVE", "INACTIVE"}],
         UNCHANGED <<rule, value, history, vetted>>,
         \/ UNCHANGED <<office, met>> /\ InEffect' = InEffect
         \/ /\ \E a \in Admins : JobEnds(a) /\ office[a] # NoTask
            /\ ~met => \A t, u \in InEffect' : t = u
  PROVE  PolInv'
<1>1. /\ office' = [b \in Admins |-> office'[b]] /\ met' = met
      /\ \A b \in Admins : office'[b] = office[b] \/ office'[b].does = "rest"
      /\ AloneInv'
  <2>1. ASSUME NEW a \in Admins, JobEnds(a)
        PROVE  /\ office' = [b \in Admins |-> office'[b]] /\ met' = met
               /\ \A b \in Admins : office'[b] = office[b] \/ office'[b].does = "rest"
               /\ AloneInv'
    BY <2>1, EndsAlone
  <2>2. CASE UNCHANGED <<office, met>>
    BY <2>2 DEF PolInv, AloneInv, TasksInv
  <2> QED BY <2>1, <2>2
<1>2. TasksInv'
  BY <1>1 DEF PolInv, TasksInv
<1>3. RulesInv'
  <2>1. \A r \in Rules : \A b \in Pending(r)' : b \in Pending(r) /\ office'[b] = office[b]
    BY <1>1 DEF Pending
  <2> QED BY <1>1, <2>1 DEF PolInv, RulesInv
<1>4. SettingInv'
  BY <1>1 DEF PolInv, SettingInv
<1>5. TariffInv'
  <2>1. CASE UNCHANGED <<office, met>> /\ InEffect' = InEffect
    BY <2>1 DEF PolInv, TariffInv
  <2>2. ASSUME NEW a \in Admins, JobEnds(a), office[a] # NoTask,
               ~met => \A t, u \in InEffect' : t = u
        PROVE  TariffInv'
    <3>1. ~met => \A b \in Admins : office'[b].does = "rest"
      BY <2>2, EndsAlone
    <3> QED BY <1>1, <2>2, <3>1 DEF TariffInv
  <2> QED BY <2>1, <2>2
<1> QED BY <1>1, <1>2, <1>3, <1>4, <1>5 DEF PolInv

LEMMA CreateTariffStep ==
  ASSUME PolInv, NEW t \in Tariffs, create_tariff(t)
  PROVE  PolInv'
<1>1. /\ tariffs[t] = "ABSENT" /\ tariffs' = [tariffs EXCEPT ![t] = "DRAFT"]
      /\ tariffs \in [Tariffs -> {"ABSENT", "DRAFT", "ACTIVE", "INACTIVE"}]
      /\ UNCHANGED <<rule, value, history, office, vetted, met>>
  BY DEF create_tariff, PolInv, TariffInv
<1>2. InEffect' = InEffect
  BY <1>1 DEF InEffect
<1> QED BY <1>1, <1>2, TariffKept

LEMMA ActivateStep ==
  ASSUME PolInv, NEW a \in Admins, activate_tariff(a)
  PROVE  PolInv'
<1> DEFINE j == office[a]
<1>1. /\ j.does = "activate" /\ JobEnds(a) /\ UNCHANGED <<rule, value, history, vetted>>
      /\ tariffs' = [x \in Tariffs |-> IF x = j.on THEN IF x \in j.saw THEN tariffs[x] ELSE "ACTIVE"
                                       ELSE IF x \in j.saw THEN "INACTIVE" ELSE tariffs[x]]
  BY DEF activate_tariff
<1>2. tariffs' \in [Tariffs -> {"ABSENT", "DRAFT", "ACTIVE", "INACTIVE"}]
  BY <1>1 DEF PolInv, TariffInv
<1>3. j # NoTask
  BY <1>1 DEF NoTask
<1>4. ASSUME ~met PROVE \A t, u \in InEffect' : t = u
  <2>1. j.saw = InEffect
    BY <1>1, <1>4 DEF PolInv, TariffInv
  <2>2. \A x \in InEffect' : x = j.on
    BY <1>1, <2>1 DEF InEffect
  <2> QED BY <2>2
<1> HIDE DEF j
<1>5. office[a] # NoTask
  BY <1>3 DEF j
<1> QED BY <1>1, <1>2, <1>4, <1>5, TariffKept

LEMMA PolStep == PolInv /\ [PolNext]_polVars => PolInv'
<1> SUFFICES ASSUME PolInv, [PolNext]_polVars PROVE PolInv'
  OBVIOUS
<1>1. ASSUME NEW a \in Admins, NEW r \in Rules,
             \/ \E b \in RuleBodies : LoadRule(a, r, "edit", b)
             \/ \E k \in {"publish", "disable"} : LoadRule(a, r, k, NoRule)
      PROVE  PolInv'
  <2>1. PICK k \in {"edit", "publish", "disable"}, b \in RuleBodies \cup {NoRule} :
               LoadRule(a, r, k, b) /\ (k = "edit" => b \in RuleBodies)
    BY <1>1
  <2> DEFINE job == [does |-> k, on |-> r, saw |-> rule[r], new |-> b]
  <2>2. Loads(a, job) /\ rule[r] \in RuleRows
    BY <2>1 DEF LoadRule, PolInv, RulesInv
  <2> QED BY <2>1, <2>2, LoadKept
<1>2. ASSUME NEW a \in Admins, NEW v \in Stored, LoadSetting(a, v) PROVE PolInv'
  BY <1>2, LoadKept DEF LoadSetting
<1>3. ASSUME NEW a \in Admins, NEW t \in Tariffs, LoadTariffs(a, t) PROVE PolInv'
  BY <1>3, LoadKept DEF LoadTariffs, InEffect
<1>4. ASSUME NEW a \in Admins,
             \/ update_rule(a) \/ publish_rule(a) \/ disable_rule(a)
             \/ put_setting(a) \/ activate_tariff(a)
      PROVE  PolInv'
  BY <1>4, UpdateRuleStep, PublishStep, DisableStep, PutStep, ActivateStep
<1>5. CASE UNCHANGED <<rule, tariffs, value, history, office, vetted, met>>
  BY <1>5 DEF PolInv, TasksInv, RulesInv, Pending, AloneInv, SettingInv, TariffInv, InEffect
<1>6. ASSUME \/ UNCHANGED polVars
             \/ \E dir \in {"IN", "OUT"}, facts \in SUBSET Facts, now \in 0 .. 1, case \in Decided :
                  apply_rules_for_event(dir, facts, now, case)
      PROVE  PolInv'
  BY <1>5, <1>6 DEF polVars, apply_rules_for_event
<1>7. ASSUME \/ \E r \in Rules, b \in RuleBodies : create_rule(r, b)
             \/ \E t \in Tariffs : create_tariff(t)
      PROVE  PolInv'
  BY <1>7, CreateRuleStep, CreateTariffStep
<1> QED BY <1>1, <1>2, <1>3, <1>4, <1>6, <1>7 DEF PolNext

(* The types of the rest: what is vetted are bodies of rules.              *)
TaskNames == {"rest", "edit", "publish", "disable", "put", "activate"}

PolTyped ==
  /\ \A a \in Admins : office[a].does \in TaskNames
  /\ \A r \in Rules : vetted[r] \subseteq RuleBodies

LEMMA PolTypedInit == PolInit => PolTyped
BY DEF PolInit, PolTyped, NoTask, TaskNames

LEMMA PolTypedStep == PolInv /\ PolTyped /\ [PolNext]_polVars => PolTyped'
<1> SUFFICES ASSUME PolInv, PolTyped, [PolNext]_polVars PROVE PolTyped'
  OBVIOUS
<1>0. NoTask.does = "rest"
  BY DEF NoTask
<1>1. ASSUME NEW a \in Admins, NEW job, Loads(a, job), job.does \in TaskNames PROVE PolTyped'
  <2>1. vetted' = vetted /\ \A b \in Admins : office'[b] = IF b = a THEN job ELSE office[b]
    BY <1>1 DEF Loads, PolInv, TasksInv
  <2> QED BY <1>1, <2>1 DEF PolTyped
<1>2. ASSUME NEW a \in Admins, NEW r \in Rules,
             \/ \E b \in RuleBodies : LoadRule(a, r, "edit", b)
             \/ \E k \in {"publish", "disable"} : LoadRule(a, r, k, NoRule)
      PROVE  PolTyped'
  <2>1. PICK k \in {"edit", "publish", "disable"}, b \in RuleBodies \cup {NoRule} :
               LoadRule(a, r, k, b)
    BY <1>2
  <2> DEFINE job == [does |-> k, on |-> r, saw |-> rule[r], new |-> b]
  <2>2. Loads(a, job) /\ job.does \in TaskNames
    BY <2>1 DEF LoadRule, TaskNames
  <2> HIDE DEF job
  <2> QED BY <1>1, <2>2
<1>3. ASSUME NEW a \in Admins, NEW v \in Stored, LoadSetting(a, v) PROVE PolTyped'
  <2> DEFINE job == [does |-> "put", saw |-> value, new |-> v]
  <2>1. Loads(a, job) /\ job.does \in TaskNames
    BY <1>3 DEF LoadSetting, TaskNames
  <2> HIDE DEF job
  <2> QED BY <1>1, <2>1
<1>4. ASSUME NEW a \in Admins, NEW t \in Tariffs, LoadTariffs(a, t) PROVE PolTyped'
  <2> DEFINE job == [does |-> "activate", on |-> t,
                     saw |-> {x \in Tariffs : tariffs[x] = "ACTIVE"}]
  <2>1. Loads(a, job) /\ job.does \in TaskNames
    BY <1>4 DEF LoadTariffs, TaskNames
  <2> HIDE DEF job
  <2> QED BY <1>1, <2>1
<1>5. ASSUME NEW a \in Admins, JobEnds(a), \A r \in Rules : vetted'[r] \subseteq RuleBodies
      PROVE  PolTyped'
  <2>1. \A b \in Admins : office'[b] = IF b = a THEN NoTask ELSE office[b]
    BY <1>5 DEF JobEnds, PolInv, TasksInv
  <2> QED BY <1>0, <1>5, <2>1 DEF PolTyped, TaskNames
<1>6. ASSUME NEW a \in Admins,
             update_rule(a) \/ disable_rule(a) \/ put_setting(a) \/ activate_tariff(a)
      PROVE  PolTyped'
  <2>1. JobEnds(a) /\ vetted' = vetted
    BY <1>6 DEF update_rule, disable_rule, put_setting, activate_tariff
  <2> QED BY <1>5, <2>1 DEF PolTyped
<1>7. ASSUME NEW a \in Admins, publish_rule(a) PROVE PolTyped'
  <2> DEFINE r == office[a].on
             says == {rule[r].body} \union
                     {office[b].new : b \in {c \in Admins : office[c].does = "edit"
                                                            /\ office[c].on = r}}
  <2>1. office[a].does = "publish" /\ JobEnds(a) /\ vetted' = [vetted EXCEPT ![r] = says]
    BY <1>7 DEF publish_rule
  <2>2. says \subseteq RuleBodies
    <3>1. rule[r] \in RuleRows
      BY <2>1 DEF PolInv, TasksInv
    <3>2. rule[r].body \in RuleBodies
      BY <3>1 DEF RuleRows
    <3>3. \A b \in Admins : office[b].does = "edit" => office[b].new \in RuleBodies
      BY DEF PolInv, TasksInv
    <3> QED BY <3>2, <3>3
  <2> HIDE DEF r, says
  <2>3. \A q \in Rules : vetted'[q] \subseteq RuleBodies
    BY <2>1, <2>2 DEF PolInv, RulesInv, PolTyped
  <2> QED BY <1>5, <2>1, <2>3
<1>8. ASSUME UNCHANGED <<office, vetted>> PROVE PolTyped'
  BY <1>8 DEF PolTyped
<1>9. ASSUME \/ UNCHANGED polVars
             \/ \E dir \in {"IN", "OUT"}, facts \in SUBSET Facts, now \in 0 .. 1, case \in Decided :
                  apply_rules_for_event(dir, facts, now, case)
             \/ \E r \in Rules, b \in RuleBodies : create_rule(r, b)
             \/ \E t \in Tariffs : create_tariff(t)
      PROVE  PolTyped'
  BY <1>8, <1>9 DEF polVars, apply_rules_for_event, create_rule, create_tariff
<1> QED BY <1>2, <1>3, <1>4, <1>6, <1>7, <1>9 DEF PolNext

LEMMA PolTypes == PolInv /\ PolTyped => PolTypeOK
BY DEF PolInv, RulesInv, RuleRows, TariffInv, SettingInv, PolTyped, TaskNames, PolTypeOK

(***************************************************************************)
(* What the engine may say.                                                *)
(***************************************************************************)
\* Among finitely many positions there is a last one.
LEMMA LastOne ==
  ASSUME NEW n \in Nat, NEW S \in SUBSET (1 .. n), S # {}
  PROVE  Max(S) \in S
<1> DEFINE T == {k \in Nat : n - k \in S}
<1>1. PICK s \in S : TRUE
  OBVIOUS
<1>2. n - s \in T
  OBVIOUS
<1>3. OpToRel(<, Nat) = {ss \in Nat \X Nat : ss[1] < ss[2]}
  BY Zenon DEF OpToRel
<1>4. PICK k \in T : \A l \in T : ~ (<<l, k>> \in OpToRel(<, Nat))
  <2>1. T \in SUBSET Nat /\ T # {}
    BY <1>2
  <2> HIDE DEF T
  <2> QED BY <2>1, NatLessThanWellFounded, WFMin
<1>5. \A l \in T : ~ (l < k)
  BY <1>3, <1>4
<1>6. \A y \in S : n - k >= y
  <2> TAKE y \in S
  <2>1. n - y \in T
    OBVIOUS
  <2> QED BY <1>5, <2>1
<1> QED BY <1>4, <1>6 DEF Max

LEMMA VerdictWithin ==
  ASSUME NEW base, NEW why, NEW actions \in Seq(STRING), NEW named, ToSet(actions) \subseteq named
  PROVE  RuleVerdict(base, why, actions) \in {base}
    \union (IF "deny" \in named THEN {"DENY"} ELSE {})
    \union (IF "refer_to_guard" \in named /\ why \notin Guarded
            THEN {"REQUIRE_OPERATOR_APPROVAL"} ELSE {})
    \union (IF /\ "allow_with_warning" \in named /\ why \notin Guarded
               /\ base \notin {"DENY", "REQUIRE_OPERATOR_APPROVAL"}
            THEN {"ALLOW_WITH_WARNING"} ELSE {})
<1> DEFINE heard == {i \in DOMAIN actions : /\ actions[i] \in Deciding
                                            /\ ~(why \in Guarded /\ actions[i] \in Softening)}
<1>1. CASE heard = {}
  BY <1>1 DEF RuleVerdict
<1>2. CASE heard # {}
  <2>1. heard \in SUBSET (1 .. Len(actions)) /\ Len(actions) \in Nat
    BY LenProperties
  <2>2. Max(heard) \in heard
    <3> HIDE DEF heard
    <3> QED BY <1>2, <2>1, LastOne
  <2> DEFINE a == actions[Max(heard)]
  <2>3. /\ a \in Deciding /\ ~(why \in Guarded /\ a \in Softening)
        /\ a \in named
    BY <2>2 DEF ToSet
  <2>4. RuleVerdict(base, why, actions) = Overridden(base, a)
    BY <1>2 DEF RuleVerdict
  <2> HIDE DEF a, heard
  <2> QED BY <2>3, <2>4 DEF Overridden, apply_action, Deciding, Softening
<1> QED BY <1>1, <1>2

LEMMA EngineStep ==
  ASSUME PolInv, EngineWithinGate, [PolNext]_polVars
  PROVE  EngineWithinGate'
<1>1. CASE UNCHANGED engine
  BY <1>1 DEF EngineWithinGate
<1>2. ASSUME NEW dir \in {"IN", "OUT"}, NEW facts \in SUBSET Facts, NEW now \in 0 .. 1,
             NEW case \in Decided, apply_rules_for_event(dir, facts, now, case)
      PROVE  EngineWithinGate'
  <2> DEFINE named == UNION {ToSet(rule[r].body.acts) : r \in InForce(dir)}
  <2>1. PICK v \in Verdicts(dir, facts, now, case[1], case[2]) :
          engine' = [base |-> case[1], why |-> case[2], verdict |-> v, named |-> named]
    BY <1>2 DEF apply_rules_for_event
  <2>2. v = case[1] \/ \E r \in InForce(dir) : v = RuleVerdict(case[1], case[2], rule[r].body.acts)
    BY <2>1 DEF Verdicts
  <2>3. \A r \in InForce(dir) : rule[r].body.acts \in Seq(STRING)
                               /\ ToSet(rule[r].body.acts) \subseteq named
    <3> TAKE r \in InForce(dir)
    <3>1. r \in Rules /\ rule[r].status = "ACTIVE"
      BY DEF InForce
    <3>2. rule[r] \in RuleRows \cup {NoRule}
      BY <3>1 DEF PolInv, RulesInv
    <3>3. rule[r].body \in RuleBodies
      BY <3>1, <3>2 DEF RuleRows, NoRule
    <3> QED BY <3>3, PoliciesAssumption
  <2> HIDE DEF named
  <2>4. CASE v = case[1]
    BY <2>1, <2>4 DEF EngineWithinGate
  <2>5. ASSUME NEW r \in InForce(dir), v = RuleVerdict(case[1], case[2], rule[r].body.acts)
        PROVE  EngineWithinGate'
    <3> DEFINE s == rule[r].body.acts
    <3>1. s \in Seq(STRING) /\ ToSet(s) \subseteq named
      BY <2>3
    <3>2. v = RuleVerdict(case[1], case[2], s)
      BY <2>5
    <3> HIDE DEF s
    <3> QED BY <2>1, <3>1, <3>2, VerdictWithin DEF EngineWithinGate
  <2> QED BY <2>2, <2>4, <2>5
<1> QED
  BY <1>1, <1>2 DEF PolNext, polVars, create_rule, create_tariff, LoadRule, LoadSetting,
     LoadTariffs, Loads, JobEnds, update_rule, publish_rule, disable_rule, put_setting,
     activate_tariff

-----------------------------------------------------------------------------
\* The administration of rules, settings and tariffs keeps its word: nothing
\* is in force that was not published or being written at the publication,
\* the engine stays within what the gate takes it to do, the history ends with
\* the value, activations in turn leave one tariff, and the night begins at an
\* hour of the day.  However many administrators there are, and whatever they
\* have loaded before they write.
THEOREM PoliciesAreKept == PolSpec => []PoliciesSound
<1>1. PolInit => PolInv /\ EngineWithinGate
  BY PolInitInv DEF PolInit, EngineWithinGate, NoReading
<1>2. (PolInv /\ EngineWithinGate) /\ [PolNext]_polVars => (PolInv /\ EngineWithinGate)'
  BY PolStep, EngineStep
<1>3. PolInv /\ EngineWithinGate => PoliciesSound
  <2> SUFFICES ASSUME PolInv, EngineWithinGate PROVE PoliciesSound
    OBVIOUS
  <2>1. NothingUnpublished
    BY DEF PolInv, RulesInv, NothingUnpublished
  <2>2. HistoryTells
    BY DEF PolInv, SettingInv, HistoryTells, Last
  <2>3. ASSUME ~met PROVE Cardinality(InEffect) <= 1
    <3>1. \A t, u \in InEffect : t = u
      BY <2>3 DEF PolInv, TariffInv
    <3>2. CASE InEffect = {}
      BY <3>2, FS_EmptySet
    <3>3. CASE InEffect # {}
      <4>1. PICK t \in InEffect : TRUE
        BY <3>3
      <4>2. InEffect = {t}
        BY <3>1, <4>1
      <4> QED BY <4>2, FS_Singleton
    <3> QED BY <3>2, <3>3
  <2>4. OneTariff
    BY <2>3 DEF OneTariff, InEffect
  <2>5. NightStarts
    <3>1. value \in Stored \/ value = NoRow
      BY DEF PolInv, SettingInv
    <3>2. value.n \in Int
      BY <3>1, PoliciesAssumption DEF NoRow
    <3> QED BY <3>2 DEF NightStarts, resolve_night_start
  <2> QED BY <2>1, <2>2, <2>4, <2>5 DEF PoliciesSound
<1> QED BY <1>1, <1>2, <1>3, PTL DEF PolSpec
=============================================================================
