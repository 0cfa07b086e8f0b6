------------------------------ MODULE AuthTokens ------------------------------
(***************************************************************************)
(* Accounts and refresh tokens: AuthController over AuthService and its two *)
(* repositories.  Every awaited query is a step of its own, so requests of  *)
(* different clients interleave between any two; a query may fail and the   *)
(* process may be killed.  A request that is refused before it changes      *)
(* anything is no step.  No code deletes a user, so the branch "User no     *)
(* longer exists" is never taken.  Definitions marked "Fault" are wrong     *)
(* variants of the one that follows.                                        *)
(***************************************************************************)
EXTENDS Integers, FiniteSets

CONSTANTS
  Requests,      \* slots for requests that are in flight at the same time
  Users,         \* bound: the ids randomUUID gives to users
  Emails,        \* the addresses people register with
  Tokens,        \* bound: the refresh tokens randomBytes generates
  NoAccount,     \* an id without a row in users
  NoToken,       \* a token without a row in refresh_tokens, and no token
  NoUser,        \* a request that has not read its user
  FaultBudget    \* bound: how many queries fail or processes die

ASSUME AuthAssumption ==
  /\ NoAccount \notin [email : Emails]
  /\ NoToken \notin Tokens
  /\ NoToken \notin [owner : Users, revoked : BOOLEAN, expired : BOOLEAN,
                     from : Tokens \cup {NoToken}, late : BOOLEAN]
  /\ NoUser \notin Users
  /\ IsFiniteSet(Requests)
  /\ FaultBudget \in Nat

VARIABLES
  users,         \* MySQL: users
  tokens,        \* MySQL: refresh_tokens; from and late are history
  request,       \* the handler of each request in flight
  registered,    \* history: the users whose registration was answered 201
  known,         \* the tokens that were answered to a client
  retired,       \* history: tokens whose rotation or logout was answered
  loggedOut,     \* history: tokens that logout revoked
  faults         \* faults that may still occur

vars == <<users, tokens, request, registered, known, retired, loggedOut,
          faults>>

db      == <<users, tokens, loggedOut>>
answers == <<registered, known, retired>>

Account == [email : Emails]

\* A row of refresh_tokens, and two facts the table does not hold: the token
\* it replaced, and whether that one was retired when the request read it.
Row == [owner : Users, revoked : BOOLEAN, expired : BOOLEAN,
        from : Tokens \cup {NoToken}, late : BOOLEAN]

Pcs == {"idle", "createUser", "revoke", "owner", "issue", "logout"}

\* A request: its next query, the address it registers, the user it has read,
\* the token it carries, and whether that one was retired when it was read.
Handler(pc, email, user, token, late) ==
  [pc |-> pc, email |-> email, user |-> user, token |-> token, late |-> late]

Idle == Handler("idle", NoAccount, NoUser, NoToken, FALSE)

At(r, pc)  == request[r].pc = pc
Stored     == {t \in Tokens : tokens[t] # NoToken}
Goto(r, h) == request' = [request EXCEPT ![r] = h]
Finish(r)  == Goto(r, Idle)

Init ==
  /\ users = [u \in Users |-> NoAccount]
  /\ tokens = [t \in Tokens |-> NoToken]
  /\ request = [r \in Requests |-> Idle]
  /\ registered = {}
  /\ known = {}
  /\ retired = {}
  /\ loggedOut = {}
  /\ faults = FaultBudget

------------------------------------------------------------------------------
(* POST /auth/register.                                                     *)

Taken(email) == \E u \in Users : users[u] # NoAccount /\ users[u].email = email

\* findByEmail found nobody; a short password or a bad address ends in 400.
FindEmail(r, email) ==
  /\ At(r, "idle")
  /\ ~Taken(email)
  /\ Goto(r, Handler("createUser", email, NoUser, NoToken, FALSE))
  /\ UNCHANGED <<db, answers, faults>>

\* Fault: users.email without its UNIQUE key.
InsertUserAnyway(u, email) ==
  /\ users[u] = NoAccount
  /\ users' = [users EXCEPT ![u] = [email |-> email]]
  /\ UNCHANGED <<tokens, loggedOut>>

\* INSERT under the UNIQUE key of users.email.
InsertUser(u, email) ==
  /\ users[u] = NoAccount
  /\ ~Taken(email)
  /\ users' = [users EXCEPT ![u] = [email |-> email]]
  /\ UNCHANGED <<tokens, loggedOut>>

CreateUser(r) ==
  /\ At(r, "createUser")
  /\ \E u \in Users :
       /\ InsertUser(u, request[r].email)
       /\ registered' = registered \cup {u}
  /\ Finish(r)
  /\ UNCHANGED <<known, retired, faults>>

\* The INSERT throws: somebody else was faster.
CreateUserRefused(r) ==
  /\ At(r, "createUser")
  /\ Taken(request[r].email)
  /\ Finish(r)
  /\ UNCHANGED <<db, answers, faults>>

------------------------------------------------------------------------------
(* POST /auth/login and POST /auth/refresh.                                 *)

\* findByEmail found a row and the password fits.
FindUser(r, u) ==
  /\ At(r, "idle")
  /\ users[u] # NoAccount
  /\ Goto(r, Handler("issue", NoAccount, u, NoToken, FALSE))
  /\ UNCHANGED <<db, answers, faults>>

\* Fault: never looks at revoked.
FindTokenUnchecked(r, t) ==
  /\ At(r, "idle")
  /\ t \in known
  /\ ~tokens[t].expired
  /\ Goto(r, Handler("revoke", NoAccount, NoUser, t, t \in retired))
  /\ UNCHANGED <<db, answers, faults>>

\* findByHash found a row that is neither revoked nor expired.
FindToken(r, t) ==
  /\ At(r, "idle")
  /\ t \in known
  /\ ~tokens[t].revoked
  /\ ~tokens[t].expired
  /\ Goto(r, Handler("revoke", NoAccount, NoUser, t, t \in retired))
  /\ UNCHANGED <<db, answers, faults>>

\* Fault: revokeAllForUser, which ends the sessions on all devices.
RevokeRowOfUser(t) ==
  tokens' = [x \in Tokens |->
               IF tokens[x] # NoToken /\ tokens[x].owner = tokens[t].owner
                 THEN [tokens[x] EXCEPT !.revoked = TRUE] ELSE tokens[x]]

\* RefreshTokenRepository.revoke, unconditional.
RevokeRow(t) == tokens' = [tokens EXCEPT ![t].revoked = TRUE]

\* Fault: see RevokeRowOfUser.
RevokeAll(r) ==
  /\ At(r, "revoke")
  /\ RevokeRowOfUser(request[r].token)
  /\ Goto(r, [request[r] EXCEPT !.pc = "owner"])
  /\ UNCHANGED <<users, loggedOut, answers, faults>>

Revoke(r) ==
  /\ At(r, "revoke")
  /\ RevokeRow(request[r].token)
  /\ Goto(r, [request[r] EXCEPT !.pc = "owner"])
  /\ UNCHANGED <<users, loggedOut, answers, faults>>

\* Fault: issues tokens for a user it has not read.
FindNobody(r) ==
  /\ At(r, "owner")
  /\ Goto(r, [request[r] EXCEPT !.pc = "issue"])
  /\ UNCHANGED <<db, answers, faults>>

\* findById of the token's user.
FindOwner(r) ==
  /\ At(r, "owner")
  /\ Goto(r, [request[r] EXCEPT !.pc = "issue",
                                !.user = tokens[request[r].token].owner])
  /\ UNCHANGED <<db, answers, faults>>

\* _issueTokenPair stores the hash of a new token, which replaces the one the
\* request carries.
InsertToken(r, fresh) ==
  /\ tokens[fresh] = NoToken
  /\ tokens' = [tokens EXCEPT ![fresh] =
                  [owner |-> request[r].user, revoked |-> FALSE,
                   expired |-> FALSE, from |-> request[r].token,
                   late |-> request[r].late]]
  /\ UNCHANGED <<users, loggedOut>>

\* ... and 200 hands it to the client.
Issue(r) ==
  /\ At(r, "issue")
  /\ \E fresh \in Tokens :
       /\ InsertToken(r, fresh)
       /\ known' = known \cup {fresh}
  /\ retired' = retired \cup ({request[r].token} \ {NoToken})
  /\ Finish(r)
  /\ UNCHANGED <<registered, faults>>

------------------------------------------------------------------------------
(* POST /auth/logout.                                                       *)

FindLogout(r, t) ==
  /\ At(r, "idle")
  /\ t \in known
  /\ ~tokens[t].revoked
  /\ Goto(r, Handler("logout", NoAccount, NoUser, t, FALSE))
  /\ UNCHANGED <<db, answers, faults>>

\* The token is revoked already: 204 at once.
LogoutAgain(r, t) ==
  /\ At(r, "idle")
  /\ t \in known
  /\ tokens[t].revoked
  /\ retired' = retired \cup {t}
  /\ UNCHANGED <<db, request, registered, known, faults>>

\* Fault: 204 before the row is revoked.
LogoutUnrevoked(r) ==
  /\ At(r, "logout")
  /\ retired' = retired \cup {request[r].token}
  /\ Finish(r)
  /\ UNCHANGED <<db, registered, known, faults>>

Logout(r) ==
  /\ At(r, "logout")
  /\ RevokeRow(request[r].token)
  /\ loggedOut' = loggedOut \cup {request[r].token}
  /\ retired' = retired \cup {request[r].token}
  /\ Finish(r)
  /\ UNCHANGED <<users, registered, known, faults>>

------------------------------------------------------------------------------
(* Time and failures.                                                       *)

\* expires_at of a token has come.
Expire(t) ==
  /\ t \in Stored
  /\ ~tokens[t].expired
  /\ tokens' = [tokens EXCEPT ![t].expired = TRUE]
  /\ UNCHANGED <<users, request, registered, known, retired, loggedOut, faults>>

Suffer ==
  /\ faults > 0
  /\ faults' = faults - 1

\* What the query a request is at does to the tables.
Statement(r) ==
  \/ At(r, "createUser") /\ \E u \in Users : InsertUser(u, request[r].email)
  \/ At(r, "revoke") /\ RevokeRow(request[r].token) /\ UNCHANGED <<users, loggedOut>>
  \/ At(r, "issue") /\ \E fresh \in Tokens : InsertToken(r, fresh)
  \/ /\ At(r, "logout")
     /\ RevokeRow(request[r].token)
     /\ loggedOut' = loggedOut \cup {request[r].token}
     /\ UNCHANGED users

\* The query throws, after MySQL executed it or without: 400 or 401.
DbError(r) ==
  /\ ~At(r, "idle")
  /\ Suffer
  /\ Statement(r) \/ UNCHANGED db
  /\ Finish(r)
  /\ UNCHANGED answers

\* The API process dies and is restarted; clients get no answer.
Crash ==
  /\ \E r \in Requests : ~At(r, "idle")
  /\ Suffer
  /\ request' = [r \in Requests |-> Idle]
  /\ UNCHANGED <<db, answers>>

Next ==
  \/ \E r \in Requests :
       \/ \E email \in Emails : FindEmail(r, email)
       \/ CreateUser(r) \/ CreateUserRefused(r)
       \/ \E u \in Users : FindUser(r, u)
       \/ \E t \in Tokens : FindToken(r, t) \/ FindLogout(r, t) \/ LogoutAgain(r, t)
       \/ Revoke(r) \/ FindOwner(r) \/ Issue(r) \/ Logout(r) \/ DbError(r)
  \/ \E t \in Tokens : Expire(t)
  \/ Crash

Spec == Init /\ [][Next]_vars

------------------------------------------------------------------------------
\* The tables and the handlers hold what the code puts there: a handler past
\* its first query carries what the later ones need.
TypeOK ==
  /\ users \in [Users -> Account \cup {NoAccount}]
  /\ tokens \in [Tokens -> Row \cup {NoToken}]
  /\ request \in [Requests -> [pc : Pcs, email : Emails \cup {NoAccount},
                               user : Users \cup {NoUser},
                               token : Tokens \cup {NoToken}, late : BOOLEAN]]
  /\ registered \subseteq Users
  /\ known \subseteq Tokens
  /\ retired \subseteq Tokens
  /\ loggedOut \subseteq Tokens
  /\ faults \in 0..FaultBudget
  /\ \A r \in Requests :
       /\ At(r, "createUser") => request[r].email \in Emails
       /\ request[r].pc \in {"revoke", "owner", "logout"} => request[r].token \in Stored
       /\ At(r, "issue") => request[r].user \in Users

\* Whoever was told "201 User created" (routes/authRoutes.js:19-22) owns the
\* only account with that address, however registrations overlap: findByEmail
\* is asked a bcrypt hash before the INSERT.
RegisteredOnce ==
  /\ \A u \in registered : users[u] # NoAccount
  /\ \A u, v \in Users :
       /\ users[u] # NoAccount
       /\ users[v] # NoAccount
       /\ users[u].email = users[v].email
       => u = v

\* A token that a client holds has its row, and a token whose rotation or logout
\* was answered, or whose rotation is past its UPDATE, is revoked there; so no
\* request that passed the checks of services/AuthService.js:51-53 can have read
\* a retired one.
RetiredIsRevoked ==
  /\ known \subseteq Stored
  /\ \A t \in retired : t \in Stored /\ tokens[t].revoked
  /\ \A r \in Requests :
       /\ request[r].pc \in {"owner", "issue"}
       /\ request[r].token # NoToken
       => request[r].token \in Stored /\ tokens[request[r].token].revoked
  /\ \A r \in Requests : ~request[r].late

\* Once a client was told that its token was rotated or logged out, no request
\* that reads the token later gets a new one, whatever else is in flight:
\* tests/auth.test.js:94-98 and :114-118 for every interleaving.
NoLateReissue == \A t \in Stored : ~tokens[t].late

Heirs(t) == {f \in Stored : tokens[f].from = t}

\* A token may be rotated twice, but by no more requests than were in flight
\* at the same time (services/AuthService.js:49-60).
ForksNeedOverlap == \A t \in Stored : Cardinality(Heirs(t)) <= Cardinality(Requests)

\* "A user who stays active never gets logged out" (services/AuthService.js:40):
\* while nothing fails, a token that is revoked was logged out by its owner,
\* has been replaced, or is being replaced.
SessionSurvives ==
  faults = FaultBudget =>
    \A t \in known :
      tokens[t].revoked =>
        \/ t \in loggedOut
        \/ \E f \in known : tokens[f].from = t
        \/ \E r \in Requests : /\ request[r].token = t
                               /\ request[r].pc \in {"owner", "issue"}

\* "The OLD token must now be dead (single use)" (tests/auth.test.js:94): a
\* token is replaced once.
SingleUse == \A t \in Stored : Cardinality(Heirs(t)) <= 1
===============================================================================
