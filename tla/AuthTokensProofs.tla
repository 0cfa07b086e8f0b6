-------------------------- MODULE AuthTokensProofs --------------------------
(***************************************************************************)
(* Proofs about AuthTokens, for any number of requests, users, tokens and   *)
(* faults.  IInv is inductive; each property follows from it or is carried  *)
(* along with it.                                                           *)
(***************************************************************************)
EXTENDS AuthTokens, FiniteSetTheorems, TLAPS

IInv == TypeOK /\ RetiredIsRevoked

LEMMA InitIInv == Init => IInv
BY AuthAssumption DEF Init, IInv, TypeOK, RetiredIsRevoked, Idle, Handler, Pcs, At, Stored

\* What the three statements that change refresh_tokens and users do to them.
LEMMA RevokeRowType ==
  ASSUME TypeOK, NEW t \in Stored, RevokeRow(t)
  PROVE  /\ tokens' \in [Tokens -> Row \cup {NoToken}]
         /\ Stored' = Stored
         /\ tokens'[t].revoked
         /\ \A x \in Stored : /\ tokens[x].revoked => tokens'[x].revoked
                              /\ tokens'[x].from = tokens[x].from
                              /\ tokens'[x].late = tokens[x].late
                              /\ x # t => tokens'[x] = tokens[x]
<1>1. tokens[t] \in Row /\ t \in Tokens
  BY DEF TypeOK, Stored
<1>2. [tokens[t] EXCEPT !.revoked = TRUE] \in Row
  BY <1>1 DEF Row
<1>3. tokens' = [tokens EXCEPT ![t] = [tokens[t] EXCEPT !.revoked = TRUE]]
  BY DEF RevokeRow
<1>4. NoToken \notin Row
  BY AuthAssumption DEF Row
<1> QED
  BY <1>1, <1>2, <1>3, <1>4 DEF TypeOK, Stored, Row

LEMMA InsertTokenType ==
  ASSUME TypeOK, NEW r \in Requests, At(r, "issue"), NEW f \in Tokens,
         InsertToken(r, f)
  PROVE  /\ tokens' \in [Tokens -> Row \cup {NoToken}]
         /\ f \notin Stored
         /\ Stored' = Stored \cup {f}
         /\ tokens'[f].from = request[r].token
         /\ tokens'[f].late = request[r].late
         /\ ~tokens'[f].revoked
         /\ \A x \in Stored : tokens'[x] = tokens[x]
<1> DEFINE row == [owner |-> request[r].user, revoked |-> FALSE,
                   expired |-> FALSE, from |-> request[r].token,
                   late |-> request[r].late]
<1>1. row \in Row
  BY DEF TypeOK, Row, At
<1>2. tokens' = [tokens EXCEPT ![f] = row] /\ tokens[f] = NoToken
  BY DEF InsertToken
<1>3. NoToken \notin Row
  BY AuthAssumption DEF Row
<1> QED
  BY <1>1, <1>2, <1>3 DEF TypeOK, Stored

LEMMA InsertUserType ==
  ASSUME TypeOK, NEW u \in Users, NEW email \in Emails, InsertUser(u, email)
  PROVE  users' \in [Users -> Account \cup {NoAccount}]
BY DEF TypeOK, InsertUser, Account

\* Every step preserves the invariant.
LEMMA NextIInv == IInv /\ [Next]_vars => IInv'
<1> SUFFICES ASSUME IInv, [Next]_vars PROVE IInv'
  OBVIOUS
<1> USE DEF IInv
<1>0. NoToken \notin Row /\ NoToken \notin Tokens
  BY AuthAssumption DEF Row
<1>1. ASSUME NEW r \in Requests, NEW email \in Emails, FindEmail(r, email) PROVE IInv'
  BY <1>1 DEF FindEmail, TypeOK, RetiredIsRevoked, At, Goto, Handler, Pcs, Stored, db, answers
<1>2. ASSUME NEW r \in Requests, CreateUser(r) PROVE IInv'
  <2>1. PICK u \in Users : InsertUser(u, request[r].email) /\ registered' = registered \cup {u}
    BY <1>2 DEF CreateUser
  <2>2. request[r].email \in Emails
    BY <1>2 DEF CreateUser, TypeOK
  <2>3. users' \in [Users -> Account \cup {NoAccount}]
    BY <2>1, <2>2, InsertUserType
  <2> QED
    BY <1>2, <2>1, <2>3 DEF CreateUser, InsertUser, TypeOK, RetiredIsRevoked, At, Goto, Finish, Idle, Handler, Pcs, Stored
<1>3. ASSUME NEW r \in Requests, CreateUserRefused(r) PROVE IInv'
  BY <1>3 DEF CreateUserRefused, TypeOK, RetiredIsRevoked, At, Goto, Finish, Idle, Handler, Pcs, Stored, db, answers
<1>4. ASSUME NEW r \in Requests, NEW u \in Users, FindUser(r, u) PROVE IInv'
  BY <1>4 DEF FindUser, TypeOK, RetiredIsRevoked, At, Goto, Handler, Pcs, Stored, db, answers
<1>5. ASSUME NEW r \in Requests, NEW t \in Tokens, FindToken(r, t) PROVE IInv'
  <2>1. t \in Stored /\ t \notin retired
    BY <1>5 DEF FindToken, RetiredIsRevoked
  <2> QED
    BY <1>5, <2>1 DEF FindToken, TypeOK, RetiredIsRevoked, At, Goto, Handler, Pcs, Stored, db, answers
<1>6. ASSUME NEW r \in Requests, NEW t \in Tokens, FindLogout(r, t) PROVE IInv'
  BY <1>6 DEF FindLogout, TypeOK, RetiredIsRevoked, At, Goto, Handler, Pcs, Stored, db, answers
<1>7. ASSUME NEW r \in Requests, NEW t \in Tokens, LogoutAgain(r, t) PROVE IInv'
  BY <1>7 DEF LogoutAgain, TypeOK, RetiredIsRevoked, At, Stored, db
<1>8. ASSUME NEW r \in Requests, Revoke(r) PROVE IInv'
  <2>1. request[r].token \in Stored
    BY <1>8 DEF Revoke, TypeOK, At
  <2>2. RevokeRow(request[r].token)
    BY <1>8 DEF Revoke
  <2>3. /\ tokens' \in [Tokens -> Row \cup {NoToken}]
        /\ Stored' = Stored
        /\ tokens'[request[r].token].revoked
        /\ \A x \in Stored : tokens[x].revoked => tokens'[x].revoked
    BY <2>1, <2>2, RevokeRowType
  <2>4. request' \in [Requests -> [pc : Pcs, email : Emails \cup {NoAccount},
                                  user : Users \cup {NoUser},
                                  token : Tokens \cup {NoToken}, late : BOOLEAN]]
    BY <1>8 DEF Revoke, TypeOK, Goto, Pcs
  <2>5. /\ request'[r].pc = "owner"
        /\ request'[r].token = request[r].token
        /\ request'[r].late = request[r].late
        /\ \A q \in Requests : q # r => request'[q] = request[q]
    BY <1>8 DEF Revoke, TypeOK, Goto
  <2>6. TypeOK'
    BY <1>8, <2>3, <2>4, <2>5 DEF Revoke, TypeOK, At, answers
  <2>7. RetiredIsRevoked'
    BY <1>8, <2>1, <2>3, <2>5 DEF Revoke, RetiredIsRevoked, answers
  <2> QED
    BY <2>6, <2>7
<1>9. ASSUME NEW r \in Requests, FindOwner(r) PROVE IInv'
  <2>1. request[r].token \in Stored /\ tokens[request[r].token] \in Row
    BY <1>9 DEF FindOwner, TypeOK, At, Stored
  <2>2. tokens[request[r].token].owner \in Users
    BY <2>1 DEF Row
  <2> QED
    BY <1>9, <2>1, <2>2 DEF FindOwner, TypeOK, RetiredIsRevoked, At, Goto, Pcs, Stored, db, answers
<1>10. ASSUME NEW r \in Requests, Issue(r) PROVE IInv'
  <2>1. PICK f \in Tokens : InsertToken(r, f) /\ known' = known \cup {f}
    BY <1>10 DEF Issue
  <2>2. At(r, "issue")
    BY <1>10 DEF Issue
  <2>3. TypeOK'
    <3>1. /\ tokens' \in [Tokens -> Row \cup {NoToken}]
          /\ Stored' = Stored \cup {f}
          /\ UNCHANGED <<users, loggedOut>>
      BY <2>1, <2>2, InsertTokenType DEF InsertToken
    <3>2. retired' \subseteq Tokens
      BY <1>10 DEF Issue, TypeOK
    <3> QED
      BY <1>10, <2>1, <3>1, <3>2 DEF Issue, TypeOK, At, Goto, Finish, Idle, Handler, Pcs
  <2>4. RetiredIsRevoked'
    BY <1>10, <2>1, <2>2, InsertTokenType DEF Issue, TypeOK, RetiredIsRevoked, At, Goto, Finish, Idle, Handler
  <2> QED
    BY <2>3, <2>4
<1>11. ASSUME NEW r \in Requests, Logout(r) PROVE IInv'
  <2>1. request[r].token \in Stored
    BY <1>11 DEF Logout, TypeOK, At
  <2> QED
    BY <1>11, <2>1, RevokeRowType DEF Logout, TypeOK, RetiredIsRevoked, At, Goto, Finish, Idle, Handler, Pcs, Stored
<1>12. ASSUME NEW r \in Requests, DbError(r) PROVE IInv'
  <2>1. faults' \in 0..FaultBudget
    BY <1>12, AuthAssumption DEF DbError, Suffer, TypeOK
  <2>2. CASE UNCHANGED db
    BY <1>12, <2>1, <2>2 DEF DbError, TypeOK, RetiredIsRevoked, At, Goto, Finish, Idle, Handler, Pcs, Stored, db, answers
  <2>3. CASE At(r, "createUser") /\ \E u \in Users : InsertUser(u, request[r].email)
    <3>1. PICK u \in Users : InsertUser(u, request[r].email)
      BY <2>3
    <3>2. users' \in [Users -> Account \cup {NoAccount}]
      BY <2>3, <3>1, InsertUserType DEF TypeOK
    <3> QED
      BY <1>12, <2>1, <3>1, <3>2 DEF DbError, InsertUser, TypeOK, RetiredIsRevoked, At, Goto, Finish, Idle, Handler, Pcs, Stored, answers
  <2>4. CASE At(r, "revoke") /\ RevokeRow(request[r].token) /\ UNCHANGED <<users, loggedOut>>
    <3>1. request[r].token \in Stored
      BY <2>4 DEF TypeOK, At
    <3> QED
      BY <1>12, <2>1, <2>4, <3>1, RevokeRowType DEF DbError, TypeOK, RetiredIsRevoked, At, Goto, Finish, Idle, Handler, Pcs, answers
  <2>5. CASE At(r, "issue") /\ \E f \in Tokens : InsertToken(r, f)
    <3>1. PICK f \in Tokens : InsertToken(r, f)
      BY <2>5
    <3>2. TypeOK'
      <4>1. /\ tokens' \in [Tokens -> Row \cup {NoToken}]
            /\ Stored' = Stored \cup {f}
            /\ UNCHANGED <<users, loggedOut>>
        BY <2>5, <3>1, InsertTokenType DEF InsertToken
      <4> QED
        BY <1>12, <2>1, <4>1 DEF DbError, TypeOK, At, Goto, Finish, Idle, Handler, Pcs, answers
    <3>3. RetiredIsRevoked'
      BY <1>12, <2>5, <3>1, InsertTokenType DEF DbError, TypeOK, RetiredIsRevoked, At, Goto, Finish, Idle, Handler, answers
    <3> QED
      BY <3>2, <3>3
  <2>6. CASE At(r, "logout") /\ RevokeRow(request[r].token)
             /\ loggedOut' = loggedOut \cup {request[r].token} /\ UNCHANGED users
    <3>1. request[r].token \in Stored
      BY <2>6 DEF TypeOK, At
    <3> QED
      BY <1>12, <2>1, <2>6, <3>1, RevokeRowType DEF DbError, TypeOK, RetiredIsRevoked, At, Goto, Finish, Idle, Handler, Pcs, Stored, answers
  <2> QED
    BY <1>12, <2>2, <2>3, <2>4, <2>5, <2>6 DEF DbError, Statement
<1>13. ASSUME NEW t \in Tokens, Expire(t) PROVE IInv'
  <2>1. tokens[t] \in Row
    BY <1>13 DEF Expire, TypeOK, Stored
  <2>2. [tokens[t] EXCEPT !.expired = TRUE] \in Row
    BY <2>1 DEF Row
  <2>3. tokens' = [tokens EXCEPT ![t] = [tokens[t] EXCEPT !.expired = TRUE]]
    BY <1>13 DEF Expire
  <2>4. /\ tokens' \in [Tokens -> Row \cup {NoToken}]
        /\ Stored' = Stored
        /\ \A x \in Stored : tokens'[x].revoked = tokens[x].revoked
    BY <2>1, <2>2, <2>3, <1>0 DEF TypeOK, Stored, Row
  <2> QED
    BY <1>13, <2>4 DEF Expire, TypeOK, RetiredIsRevoked, At
<1>14. CASE Crash
  <2>1. faults' \in 0..FaultBudget
    BY <1>14, AuthAssumption DEF Crash, Suffer, TypeOK
  <2> QED
    BY <1>14, <2>1 DEF Crash, TypeOK, RetiredIsRevoked, At, Idle, Handler, Pcs, Stored, db, answers
<1>15. CASE UNCHANGED vars
  BY <1>15 DEF vars, TypeOK, RetiredIsRevoked, At, Stored
<1> QED
  BY <1>1, <1>2, <1>3, <1>4, <1>5, <1>6, <1>7, <1>8, <1>9, <1>10, <1>11, <1>12,
     <1>13, <1>14, <1>15 DEF Next

\* Type correctness: the tables and the handlers hold what the code puts there,
\* and a handler past its first query carries what the later ones need.
THEOREM TypeCorrect == Spec => []TypeOK
<1> QED
  BY InitIInv, NextIInv, PTL DEF Spec, IInv

\* What was answered as rotated or logged out is revoked in MySQL.
THEOREM RetiredRevoked == Spec => []RetiredIsRevoked
<1> QED
  BY InitIInv, NextIInv, PTL DEF Spec, IInv

------------------------------------------------------------------------------
\* A step leaves the history of the rows alone and adds at most one, for a
\* request that is about to issue it.
LEMMA RowStep ==
  ASSUME IInv, [Next]_vars
  PROVE  \/ /\ Stored' = Stored
            /\ \A t \in Stored : /\ tokens'[t].from = tokens[t].from
                                 /\ tokens'[t].late = tokens[t].late
                                 /\ tokens[t].revoked => tokens'[t].revoked
         \/ \E r \in Requests, f \in Tokens :
              /\ At(r, "issue") /\ request'[r] = Idle
              /\ \A q \in Requests : q # r => request'[q] = request[q]
              /\ InsertToken(r, f)
<1> USE DEF IInv
<1>1. ASSUME UNCHANGED tokens
      PROVE  /\ Stored' = Stored
             /\ \A t \in Stored : /\ tokens'[t].from = tokens[t].from
                                  /\ tokens'[t].late = tokens[t].late
                                  /\ tokens[t].revoked => tokens'[t].revoked
  BY <1>1 DEF Stored
<1>2. ASSUME NEW r \in Requests, request[r].pc \in {"revoke", "logout"},
             RevokeRow(request[r].token)
      PROVE  /\ Stored' = Stored
             /\ \A t \in Stored : /\ tokens'[t].from = tokens[t].from
                                  /\ tokens'[t].late = tokens[t].late
                                  /\ tokens[t].revoked => tokens'[t].revoked
  <2>1. request[r].token \in Stored
    BY <1>2 DEF TypeOK
  <2> QED
    BY <1>2, <2>1, RevokeRowType
<1>3. ASSUME NEW r \in Requests, At(r, "issue"), Finish(r),
             \E f \in Tokens : InsertToken(r, f)
      PROVE  \E f \in Tokens :
               /\ At(r, "issue") /\ request'[r] = Idle
               /\ \A q \in Requests : q # r => request'[q] = request[q]
               /\ InsertToken(r, f)
  BY <1>3 DEF Finish, Goto, TypeOK
<1>4. ASSUME NEW t \in Tokens, Expire(t)
      PROVE  /\ Stored' = Stored
             /\ \A x \in Stored : /\ tokens'[x].from = tokens[x].from
                                  /\ tokens'[x].late = tokens[x].late
                                  /\ tokens[x].revoked => tokens'[x].revoked
  <2>1. tokens[t] \in Row
    BY <1>4 DEF Expire, TypeOK, Stored
  <2>2. [tokens[t] EXCEPT !.expired = TRUE] \in Row /\ NoToken \notin Row
    BY <2>1, AuthAssumption DEF Row
  <2>3. tokens' = [tokens EXCEPT ![t] = [tokens[t] EXCEPT !.expired = TRUE]]
    BY <1>4 DEF Expire
  <2> QED
    BY <2>1, <2>2, <2>3 DEF TypeOK, Stored, Row
<1>5. ASSUME NEW r \in Requests, DbError(r)
      PROVE  \/ UNCHANGED tokens
             \/ request[r].pc \in {"revoke", "logout"} /\ RevokeRow(request[r].token)
             \/ At(r, "issue") /\ Finish(r) /\ \E f \in Tokens : InsertToken(r, f)
  BY <1>5 DEF DbError, Statement, InsertUser, db, At
<1>6. CASE \E r \in Requests : Issue(r)
  BY <1>3, <1>6 DEF Issue
<1>7. CASE \E r \in Requests : DbError(r)
  BY <1>1, <1>2, <1>3, <1>5, <1>7
<1>8. CASE \E r \in Requests : Revoke(r) \/ Logout(r)
  BY <1>2, <1>8 DEF Revoke, Logout, At
<1>9. CASE \E t \in Tokens : Expire(t)
  BY <1>4, <1>9
<1>10. ASSUME ~(\E r \in Requests : Issue(r) \/ DbError(r) \/ Revoke(r) \/ Logout(r)),
              ~(\E t \in Tokens : Expire(t))
       PROVE  UNCHANGED tokens
  BY <1>10 DEF Next, vars, FindEmail, CreateUser, InsertUser, CreateUserRefused,
     FindUser, FindToken, FindLogout, LogoutAgain, FindOwner, Crash, db
<1> QED
  BY <1>1, <1>6, <1>7, <1>8, <1>9, <1>10

\* No token is ever issued to a request that read its token after that one's
\* rotation or logout was answered.
THEOREM NoReissue == Spec => []NoLateReissue
<1>1. Init => NoLateReissue
  BY AuthAssumption DEF Init, NoLateReissue, Stored
<1>2. IInv /\ NoLateReissue /\ [Next]_vars => NoLateReissue'
  <2> SUFFICES ASSUME IInv, NoLateReissue, [Next]_vars PROVE NoLateReissue'
    OBVIOUS
  <2>1. CASE \E r \in Requests, f \in Tokens : At(r, "issue") /\ InsertToken(r, f)
    <3>1. PICK r \in Requests, f \in Tokens : At(r, "issue") /\ InsertToken(r, f)
      BY <2>1
    <3>2. ~request[r].late
      BY DEF IInv, RetiredIsRevoked
    <3> QED
      BY <3>1, <3>2, InsertTokenType DEF IInv, NoLateReissue
  <2> QED
    BY <2>1, RowStep DEF NoLateReissue
<1> QED
  BY <1>1, <1>2, InitIInv, NextIInv, PTL DEF Spec

\* Whoever was answered 201 has the only account with the address.
THEOREM OneAccount == Spec => []RegisteredOnce
<1>1. Init => RegisteredOnce
  BY DEF Init, RegisteredOnce
<1>2. IInv /\ RegisteredOnce /\ [Next]_vars => RegisteredOnce'
  <2> SUFFICES ASSUME IInv, RegisteredOnce, [Next]_vars PROVE RegisteredOnce'
    OBVIOUS
  <2>1. ASSUME NEW u \in Users, NEW email \in Emails, InsertUser(u, email),
               registered' \subseteq registered \cup {u}
        PROVE  RegisteredOnce'
    <3>1. [email |-> email] # NoAccount
      BY AuthAssumption
    <3> QED
      BY <2>1, <3>1 DEF InsertUser, Taken, RegisteredOnce, IInv, TypeOK
  <2>2. CASE \E r \in Requests : CreateUser(r)
    BY <2>1, <2>2 DEF CreateUser, IInv, TypeOK
  <2>3. CASE \E r \in Requests : DbError(r)
    <3>1. PICK r \in Requests : DbError(r)
      BY <2>3
    <3>2. CASE At(r, "createUser") /\ \E u \in Users : InsertUser(u, request[r].email)
      BY <2>1, <3>1, <3>2 DEF DbError, answers, IInv, TypeOK
    <3>3. CASE UNCHANGED users
      BY <3>1, <3>3 DEF DbError, answers, RegisteredOnce
    <3> QED
      BY <3>1, <3>2, <3>3 DEF DbError, Statement, InsertToken, db
  <2>4. CASE UNCHANGED <<users, registered>>
    BY <2>4 DEF RegisteredOnce
  <2> QED
    BY <2>2, <2>3, <2>4 DEF Next, vars, FindEmail, CreateUserRefused, FindUser,
       FindToken, FindLogout, LogoutAgain, Revoke, FindOwner, Issue, InsertToken,
       Logout, Expire, Crash, db, answers
<1> QED
  BY <1>1, <1>2, InitIInv, NextIInv, PTL DEF Spec

\* While nothing fails, a revoked token was logged out, has been replaced, or is
\* being replaced.
THEOREM SessionsSurvive == Spec => []SessionSurvives
<1>1. Init => SessionSurvives
  BY DEF Init, SessionSurvives
<1>2. IInv /\ SessionSurvives /\ [Next]_vars => SessionSurvives'
  <2> SUFFICES ASSUME IInv, SessionSurvives, [Next]_vars, faults' = FaultBudget,
                      NEW t \in known', tokens'[t].revoked
               PROVE  \/ t \in loggedOut'
                      \/ \E f \in known' : tokens'[f].from = t
                      \/ \E r \in Requests : /\ request'[r].token = t
                                             /\ request'[r].pc \in {"owner", "issue"}
    BY DEF SessionSurvives
  <2> USE DEF IInv
  <2>1. faults = FaultBudget
    <3>1. CASE Suffer
      BY <3>1, AuthAssumption DEF Suffer, TypeOK
    <3>2. CASE UNCHANGED faults
      BY <3>2
    <3> QED
      BY <3>1, <3>2 DEF Next, vars, FindEmail, CreateUser, CreateUserRefused, FindUser,
         FindToken, FindLogout, LogoutAgain, Revoke, FindOwner, Issue, Logout, Expire,
         DbError, Crash
  <2>2. ASSUME t \in known, tokens[t].revoked, known \subseteq known',
               loggedOut \subseteq loggedOut',
               \A f \in known : tokens'[f].from = tokens[f].from,
               \A r \in Requests : request[r].pc \in {"owner", "issue"} =>
                 /\ request'[r].token = request[r].token
                 /\ request'[r].pc \in {"owner", "issue"}
        PROVE  \/ t \in loggedOut'
               \/ \E f \in known' : tokens'[f].from = t
               \/ \E r \in Requests : /\ request'[r].token = t
                                      /\ request'[r].pc \in {"owner", "issue"}
    BY <2>1, <2>2 DEF SessionSurvives
  <2>3. ASSUME NEW r \in Requests, At(r, "idle") \/ At(r, "createUser"),
               NEW h, Goto(r, h), UNCHANGED <<tokens, known, loggedOut>>
        PROVE  \/ t \in loggedOut'
               \/ \E f \in known' : tokens'[f].from = t
               \/ \E q \in Requests : /\ request'[q].token = t
                                      /\ request'[q].pc \in {"owner", "issue"}
    BY <2>2, <2>3 DEF Goto, At, TypeOK
  <2>4. CASE \E r \in Requests : Revoke(r)
    <3>1. PICK r \in Requests : Revoke(r)
      BY <2>4
    <3>2. request[r].token \in Stored /\ RevokeRow(request[r].token) /\ known \subseteq Stored
      BY <3>1 DEF Revoke, TypeOK, At, RetiredIsRevoked
    <3>3. CASE t = request[r].token
      BY <3>1, <3>3 DEF Revoke, Goto, TypeOK
    <3>4. CASE t # request[r].token
      <4>1. t \in Stored /\ tokens'[t] = tokens[t]
        BY <3>1, <3>2, <3>4, RevokeRowType DEF Revoke, answers
      <4>2. \A f \in known : tokens'[f].from = tokens[f].from
        BY <3>2, RevokeRowType
      <4> QED
        BY <2>2, <3>1, <4>1, <4>2 DEF Revoke, Goto, At, TypeOK, answers
    <3> QED
      BY <3>3, <3>4
  <2>5. CASE \E r \in Requests : FindOwner(r)
    BY <2>2, <2>5 DEF FindOwner, Goto, At, TypeOK, db, answers
  <2>6. CASE \E r \in Requests : Issue(r)
    <3>1. PICK r \in Requests : Issue(r)
      BY <2>6
    <3>2. PICK f \in Tokens : InsertToken(r, f) /\ known' = known \cup {f}
      BY <3>1 DEF Issue
    <3>3. /\ f \notin Stored /\ ~tokens'[f].revoked
          /\ tokens'[f].from = request[r].token
          /\ \A x \in Stored : tokens'[x] = tokens[x]
          /\ known \subseteq Stored
      BY <3>1, <3>2, InsertTokenType DEF Issue, RetiredIsRevoked
    <3>4. t \in known /\ tokens[t].revoked
      BY <3>2, <3>3
    <3>5. PICK q \in Requests \cup {r} :
            \/ t \in loggedOut \/ \E g \in known : tokens[g].from = t
            \/ request[q].token = t /\ request[q].pc \in {"owner", "issue"}
      BY <2>1, <3>4 DEF SessionSurvives
    <3>6. CASE q = r
      BY <3>1, <3>2, <3>3, <3>5, <3>6 DEF Issue, InsertToken
    <3>7. CASE q # r
      BY <3>1, <3>2, <3>3, <3>5, <3>7 DEF Issue, InsertToken, Finish, Goto, TypeOK
    <3> QED
      BY <3>6, <3>7
  <2>7. CASE \E r \in Requests : Logout(r)
    <3>1. PICK r \in Requests : Logout(r)
      BY <2>7
    <3>2. request[r].token \in Stored /\ RevokeRow(request[r].token) /\ known \subseteq Stored
      BY <3>1 DEF Logout, TypeOK, At, RetiredIsRevoked
    <3>3. CASE t = request[r].token
      BY <3>1, <3>3 DEF Logout
    <3>4. CASE t # request[r].token
      <4>1. t \in Stored /\ tokens'[t] = tokens[t]
        BY <3>1, <3>2, <3>4, RevokeRowType DEF Logout
      <4>2. \A f \in known : tokens'[f].from = tokens[f].from
        BY <3>2, RevokeRowType
      <4> QED
        BY <2>2, <3>1, <4>1, <4>2 DEF Logout, Finish, Goto, At, TypeOK
    <3> QED
      BY <3>3, <3>4
  <2>8. CASE \E x \in Tokens : Expire(x)
    <3>1. PICK x \in Tokens : Expire(x)
      BY <2>8
    <3>2. tokens[x] \in Row /\ tokens' = [tokens EXCEPT ![x] = [tokens[x] EXCEPT !.expired = TRUE]]
      BY <3>1 DEF Expire, TypeOK, Stored
    <3>3. \A y \in Tokens : /\ tokens'[y].from = tokens[y].from
                            /\ tokens'[y].revoked = tokens[y].revoked
      BY <3>2 DEF TypeOK, Row
    <3> QED
      BY <2>2, <3>1, <3>3 DEF Expire, TypeOK
  <2>9. CASE \E r \in Requests, u \in Users : FindUser(r, u)
    BY <2>3, <2>9 DEF FindUser, db, answers
  <2>10. CASE \E r \in Requests, x \in Tokens : FindToken(r, x) \/ FindLogout(r, x)
    BY <2>3, <2>10 DEF FindToken, FindLogout, db, answers
  <2>11. CASE \E r \in Requests, x \in Tokens : LogoutAgain(r, x)
    BY <2>2, <2>11 DEF LogoutAgain, db
  <2>12. CASE \E r \in Requests, email \in Emails : FindEmail(r, email)
    BY <2>3, <2>12 DEF FindEmail, db, answers
  <2>13. CASE \E r \in Requests : CreateUser(r) \/ CreateUserRefused(r)
    BY <2>3, <2>13 DEF CreateUser, CreateUserRefused, InsertUser, Finish, db, answers
  <2>14. ~(\E r \in Requests : DbError(r)) /\ ~Crash
    BY <2>1, AuthAssumption DEF DbError, Crash, Suffer
  <2>15. CASE UNCHANGED vars
    BY <2>2, <2>15 DEF vars
  <2> QED
    BY <2>4, <2>5, <2>6, <2>7, <2>8, <2>9, <2>10, <2>11, <2>12, <2>13, <2>14, <2>15 DEF Next
<1> QED
  BY <1>1, <1>2, InitIInv, NextIInv, PTL DEF Spec

------------------------------------------------------------------------------
\* The requests that are rotating t: each of them may still add an heir.
Rotating(t) == {r \in Requests : /\ request[r].token = t
                                 /\ request[r].pc \in {"revoke", "owner", "issue"}}

\* As long as t is not revoked it has no heir; then the heirs it has and the
\* requests that may still add one are no more than the slots.
ForkInv ==
  \A t \in Stored :
    /\ ~tokens[t].revoked => Heirs(t) = {}
    /\ IsFiniteSet(Heirs(t))
    /\ Cardinality(Heirs(t)) + Cardinality(Rotating(t)) <= Cardinality(Requests)
    /\ tokens[t].from # NoToken => tokens[t].from \in Stored

\* A step that stores no row and puts no request on a revoked token.
LEMMA ForkKept ==
  ASSUME IInv, ForkInv, Stored' = Stored,
         \A t \in Stored : /\ tokens'[t].from = tokens[t].from
                           /\ tokens[t].revoked => tokens'[t].revoked,
         \A t \in Stored : tokens[t].revoked => Rotating(t)' \subseteq Rotating(t)
  PROVE  ForkInv'
<1> SUFFICES ASSUME NEW t \in Stored
             PROVE  /\ ~tokens'[t].revoked => Heirs(t)' = {}
                    /\ IsFiniteSet(Heirs(t)')
                    /\ Cardinality(Heirs(t)') + Cardinality(Rotating(t)')
                         <= Cardinality(Requests)
                    /\ tokens'[t].from # NoToken => tokens'[t].from \in Stored'
  BY DEF ForkInv
<1>1. Heirs(t)' = Heirs(t)
  BY DEF Heirs
<1>2. /\ Rotating(t)' \subseteq Requests /\ Rotating(t) \subseteq Requests
      /\ IsFiniteSet(Requests)
  BY AuthAssumption DEF Rotating
<1>3. /\ IsFiniteSet(Rotating(t)) /\ IsFiniteSet(Rotating(t)')
      /\ Cardinality(Rotating(t)') <= Cardinality(Requests)
      /\ Cardinality(Rotating(t)) \in Nat /\ Cardinality(Rotating(t)') \in Nat
      /\ Cardinality(Requests) \in Nat /\ Cardinality(Heirs(t)) \in Nat
  BY <1>2, FS_Subset, FS_CardinalityType DEF ForkInv
<1>4. CASE tokens[t].revoked
  <2>1. Cardinality(Rotating(t)') <= Cardinality(Rotating(t))
    BY <1>3, <1>4, FS_Subset
  <2> QED
    BY <1>1, <1>3, <1>4, <2>1 DEF ForkInv
<1>5. CASE ~tokens[t].revoked
  <2>1. Heirs(t)' = {} /\ Cardinality(Heirs(t)') = 0
    BY <1>1, <1>5, FS_EmptySet DEF ForkInv
  <2> QED
    BY <1>1, <1>3, <1>5, <2>1 DEF ForkInv
<1> QED
  BY <1>4, <1>5

\* The new row of r, which replaces r's token.
LEMMA ForkIssued ==
  ASSUME IInv, ForkInv, NEW r \in Requests, NEW f \in Tokens,
         At(r, "issue"), request'[r] = Idle, InsertToken(r, f),
         \A q \in Requests : q # r => request'[q] = request[q]
  PROVE  ForkInv'
<1> USE DEF IInv
<1>1. /\ f \notin Stored /\ Stored' = Stored \cup {f}
      /\ tokens'[f].from = request[r].token
      /\ \A x \in Stored : tokens'[x] = tokens[x]
  BY InsertTokenType
<1>2. request[r].token # NoToken => request[r].token \in Stored /\ tokens[request[r].token].revoked
  BY DEF RetiredIsRevoked, At
<1>3. NoToken \notin Tokens /\ IsFiniteSet(Requests)
  BY AuthAssumption
<1>4. \A t \in Tokens : /\ Rotating(t)' = Rotating(t) \ {r}
                        /\ Rotating(t) \subseteq Requests
  BY <1>3 DEF Rotating, Idle, Handler, At
<1>5. \A t \in Tokens : /\ IsFiniteSet(Rotating(t)) /\ IsFiniteSet(Rotating(t)')
                        /\ Cardinality(Rotating(t)) \in Nat
                        /\ Cardinality(Rotating(t)') <= Cardinality(Rotating(t))
                        /\ Cardinality(Rotating(t)') <= Cardinality(Requests)
                        /\ Cardinality(Rotating(t)') \in Nat
  BY <1>3, <1>4, FS_Subset, FS_CardinalityType
<1>6. \A t \in Stored : t \in Tokens /\ (tokens[t].from # NoToken => tokens[t].from \in Stored)
  BY DEF ForkInv, Stored
<1>7. ASSUME NEW t \in Stored', t = f
      PROVE  /\ Heirs(t)' = {}
             /\ tokens'[t].from # NoToken => tokens'[t].from \in Stored'
  BY <1>1, <1>2, <1>3, <1>6, <1>7 DEF Heirs
<1>8. ASSUME NEW t \in Stored, t # request[r].token
      PROVE  Heirs(t)' = Heirs(t)
  BY <1>1, <1>8 DEF Heirs
<1>9. ASSUME NEW t \in Stored, t = request[r].token
      PROVE  /\ Heirs(t)' = Heirs(t) \cup {f} /\ f \notin Heirs(t)
             /\ r \in Rotating(t) /\ tokens[t].revoked
  BY <1>1, <1>2, <1>3, <1>6, <1>9 DEF Heirs, Rotating, At
<1> SUFFICES ASSUME NEW t \in Stored'
             PROVE  /\ ~tokens'[t].revoked => Heirs(t)' = {}
                    /\ IsFiniteSet(Heirs(t)')
                    /\ Cardinality(Heirs(t)') + Cardinality(Rotating(t)')
                         <= Cardinality(Requests)
                    /\ tokens'[t].from # NoToken => tokens'[t].from \in Stored'
  BY DEF ForkInv
<1>10. Cardinality(Requests) \in Nat /\ t \in Tokens
  BY <1>1, <1>3, <1>6, FS_CardinalityType
<1>11. CASE t = f
  <2>1. Cardinality(Heirs(t)') = 0 /\ IsFiniteSet(Heirs(t)')
    BY <1>7, <1>11, FS_EmptySet
  <2> QED
    BY <1>5, <1>7, <1>10, <1>11, <2>1
<1>12. CASE t \in Stored /\ t # request[r].token
  <2>1. IsFiniteSet(Heirs(t)) /\ Cardinality(Heirs(t)) \in Nat
    BY <1>12, FS_CardinalityType DEF ForkInv
  <2> QED
    BY <1>1, <1>5, <1>8, <1>10, <1>12, <2>1 DEF ForkInv
<1>13. CASE t \in Stored /\ t = request[r].token
  <2>1. IsFiniteSet(Heirs(t)) /\ Cardinality(Heirs(t)) \in Nat
    BY <1>13, FS_CardinalityType DEF ForkInv
  <2>2. IsFiniteSet(Heirs(t)') /\ Cardinality(Heirs(t)') = Cardinality(Heirs(t)) + 1
    BY <1>9, <1>13, <2>1, FS_AddElement
  <2>3. Cardinality(Rotating(t)') = Cardinality(Rotating(t)) - 1
    BY <1>4, <1>5, <1>9, <1>10, <1>13, FS_RemoveElement
  <2> QED
    BY <1>1, <1>5, <1>9, <1>10, <1>13, <2>1, <2>2, <2>3 DEF ForkInv
<1> QED
  BY <1>1, <1>11, <1>12, <1>13

\* A token has no more heirs than there are requests in flight at once.
THEOREM ForksBounded == Spec => []ForksNeedOverlap
<1>1. Init => ForkInv
  BY DEF Init, ForkInv, Stored
<1>2. IInv /\ ForkInv /\ [Next]_vars => ForkInv'
  <2> SUFFICES ASSUME IInv, ForkInv, [Next]_vars PROVE ForkInv'
    OBVIOUS
  <2>1. ASSUME NEW t \in Stored, tokens[t].revoked
        PROVE  \A r \in Requests : r \in Rotating(t)' => r \in Rotating(t)
    <3> SUFFICES ASSUME NEW r \in Requests,
                        request[r].token # t \/ request[r].pc \notin {"revoke", "owner", "issue"}
                 PROVE  request'[r].token # t \/ request'[r].pc \notin {"revoke", "owner", "issue"}
      BY DEF Rotating
    <3>1. t # NoToken
      BY AuthAssumption DEF Stored
    <3>2. ASSUME NEW q \in Requests, NEW h, Goto(q, h),
                 h.token # t \/ h.pc \notin {"revoke", "owner", "issue"}
          PROVE  request'[r].token # t \/ request'[r].pc \notin {"revoke", "owner", "issue"}
      BY <3>2 DEF Goto, IInv, TypeOK
    <3>3. CASE \E q \in Requests : CreateUser(q) \/ CreateUserRefused(q) \/ Issue(q) \/ Logout(q) \/ DbError(q)
      BY <3>1, <3>2, <3>3 DEF CreateUser, CreateUserRefused, Issue, Logout, DbError, Finish, Idle, Handler
    <3>4. CASE \E q \in Requests, email \in Emails : FindEmail(q, email)
      BY <3>1, <3>2, <3>4 DEF FindEmail, Handler
    <3>5. CASE \E q \in Requests, u \in Users : FindUser(q, u)
      BY <3>1, <3>2, <3>5 DEF FindUser, Handler
    <3>6. CASE \E q \in Requests, x \in Tokens : FindToken(q, x) \/ FindLogout(q, x)
      BY <2>1, <3>1, <3>2, <3>6 DEF FindToken, FindLogout, Handler
    <3>7. CASE \E q \in Requests : Revoke(q) \/ FindOwner(q)
      <4>1. PICK q \in Requests : Revoke(q) \/ FindOwner(q)
        BY <3>7
      <4>2. request'[q].token = request[q].token /\ request[q].pc \in {"revoke", "owner"}
        BY <4>1 DEF Revoke, FindOwner, Goto, At, IInv, TypeOK
      <4>3. q # r => request'[r] = request[r]
        BY <4>1 DEF Revoke, FindOwner, Goto, IInv, TypeOK
      <4> QED
        BY <4>2, <4>3
    <3>8. CASE Crash
      BY <3>1, <3>8 DEF Crash, Idle, Handler
    <3>9. CASE UNCHANGED request
      BY <3>9
    <3> QED
      BY <3>3, <3>4, <3>5, <3>6, <3>7, <3>8, <3>9 DEF Next, vars, LogoutAgain, Expire
  <2>2. \A t \in Stored : tokens[t].revoked => Rotating(t)' \subseteq Rotating(t)
    BY <2>1 DEF Rotating
  <2> QED
    BY <2>2, RowStep, ForkKept, ForkIssued
<1>3. IInv /\ ForkInv => ForksNeedOverlap
  <2> SUFFICES ASSUME IInv, ForkInv, NEW t \in Stored
               PROVE  Cardinality(Heirs(t)) <= Cardinality(Requests)
    BY DEF ForksNeedOverlap
  <2>1. Rotating(t) \subseteq Requests /\ IsFiniteSet(Requests)
    BY AuthAssumption DEF Rotating
  <2>2. /\ Cardinality(Rotating(t)) \in Nat /\ Cardinality(Heirs(t)) \in Nat
        /\ Cardinality(Requests) \in Nat
    BY <2>1, FS_Subset, FS_CardinalityType DEF ForkInv
  <2> QED
    BY <2>2 DEF ForkInv
<1> QED
  BY <1>1, <1>2, <1>3, InitIInv, NextIInv, PTL DEF Spec
===============================================================================
