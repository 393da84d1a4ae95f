------------------------- MODULE AuthSessionProofs -------------------------
(***************************************************************************)
(* Proofs about AuthSession for every number of users, browsers, requests  *)
(* and tokens.                                                             *)
(*                                                                         *)
(* The inductive invariant IInv follows a token through the request that   *)
(* issues it: until the answer arrives nobody else can present it          *)
(* (NewTokenIsPrivate), so a rotation that retires the old token leaves    *)
(* the new one to its family (NewTokenServes); and a refresh that is past  *)
(* the revocation check belongs to a family no alarm has closed            *)
(* (RacersAreOpen), so what it issues cannot revive a closed one.          *)
(***************************************************************************)
EXTENDS AuthSession, TLAPS

\* Rows that do not exist yet are blank; those that do belong to a user, and to
\* a family of that user.
RowsInFamilies ==
    /\ \A t \in Tokens \ Existing : ~revoked[t] /\ next[t] = NoToken
    /\ \A t \in Existing :
          owner[t] \in Users /\ root[t] \in Existing /\ owner[root[t]] = owner[t]

\* What a request that is under way has found out so far.
RequestsKnow ==
    \A r \in Requests :
        /\ pc[r] = "idle" => presented[r] = NoToken
        /\ pc[r] # "idle" => browser[r] \in Browsers
        /\ pc[r] \in {"find", "reuse", "checkUser", "retire", "logout", "revoke"} =>
              presented[r] \in Existing
        /\ pc[r] \in {"reuse", "checkUser", "issue", "retire"} =>
              user[r] \in Users
        /\ pc[r] \in {"reuse", "checkUser", "issue", "retire"} /\ presented[r] # NoToken =>
              user[r] = owner[presented[r]]
        /\ IF pc[r] \in {"retire", "respond"}
           THEN created[r] \in Existing ELSE created[r] = NoToken

\* The row a request has issued descends from the one it presented.
RotationsLink ==
    \A r \in Requests :
        created[r] # NoToken /\ presented[r] # NoToken =>
              /\ presented[r] < created[r]
              /\ root[created[r]] = root[presented[r]]
              /\ owner[created[r]] = owner[presented[r]]

\* Nobody but its request knows a token before the answer arrives.
NewTokenIsPrivate ==
    \A r \in Requests :
        created[r] # NoToken =>
            /\ \A q \in Requests : presented[q] # created[r]
            /\ \A q \in Requests : q # r => created[q] # created[r]
            /\ \A b \in Browsers : cookie[b] # created[r]

\* Between the check and the new row, a family that an alarm has closed while
\* nothing raced cannot be the one refreshed.
RacersAreOpen ==
    \A r \in Requests :
        pc[r] \in {"checkUser", "issue"} /\ presented[r] # NoToken =>
            root[presented[r]] \notin closed

\* The new row is valid when the old one is retired, or an alarm took both.
NewTokenServes ==
    \A r \in Requests :
        pc[r] = "retire" => ~revoked[created[r]] \/ root[created[r]] \in alarmed

IInv ==
    /\ TypeOK
    /\ RowsInFamilies
    /\ RequestsKnow
    /\ RotationsLink
    /\ NewTokenIsPrivate
    /\ RacersAreOpen
    /\ ReuseEndsFamilies
    /\ NewTokenServes
    /\ FamilyNeverLost
    /\ SuccessorsStayInFamily

----------------------------------------------------------------------------
(* Type correctness. *)

\* Types.
LEMMA TypeStep == TypeOK /\ RowsInFamilies /\ RequestsKnow /\ [Next]_vars => TypeOK'
<1> SUFFICES ASSUME TypeOK, RowsInFamilies, RequestsKnow, [Next]_vars PROVE TypeOK'
  OBVIOUS
<1> USE AuthAssumption DEF TypeOK, PCs, RowsInFamilies, RequestsKnow, rows, locals,
            history, vars, Tokens, Existing, NoToken
<1>1. ASSUME NEW r \in Requests, FindToken(r) PROVE TypeOK'
  <2>1. presented[r] \in Existing /\ owner[presented[r]] \in Users
    BY <1>1 DEF FindToken
  <2>2. CASE Done(r)
    BY <1>1, <2>2 DEF FindToken, Done
  <2>3. CASE /\ pc' = [pc EXCEPT ![r] = AfterFind(presented[r])]
             /\ user' = [user EXCEPT ![r] = owner[presented[r]]]
             /\ UNCHANGED <<browser, presented, created>>
    BY <1>1, <2>1, <2>3 DEF FindToken, AfterFind
  <2> QED
    BY <1>1, <2>2, <2>3 DEF FindToken
<1>2. ASSUME NEW r \in Requests, RevokeAll(r) PROVE TypeOK'
  <2>1. Families(TokensOf(user[r])) \subseteq Existing
    BY DEF Families, TokensOf
  <2>2. alarmed' \subseteq Existing /\ closed' \subseteq Existing
    BY <1>2, <2>1 DEF RevokeAll
  <2> QED
    BY <1>2, <2>2 DEF RevokeAll, Done
<1>3. ASSUME NEW r \in Requests, CheckUser(r) PROVE TypeOK'
  <2>1. CASE Done(r)
    BY <1>3, <2>1 DEF CheckUser, Done
  <2>2. CASE /\ pc' = [pc EXCEPT ![r] = "issue"]
             /\ UNCHANGED <<browser, user, presented, created>>
    BY <1>3, <2>2 DEF CheckUser
  <2> QED
    BY <1>3, <2>1, <2>2 DEF CheckUser
<1>4. ASSUME NEW r \in Requests, Issue(r) PROVE TypeOK'
  BY <1>4 DEF Issue
<1>5. ASSUME NEW r \in Requests, Retire(r) PROVE TypeOK'
  BY <1>5 DEF Retire, RetiredBy, SuccessorOf
<1>6. ASSUME NEW r \in Requests, Respond(r) PROVE TypeOK'
  BY <1>6 DEF Respond, CookieOf, Done
<1>7. ASSUME NEW r \in Requests, LogoutFind(r) PROVE TypeOK'
  BY <1>7 DEF LogoutFind
<1>8. ASSUME NEW r \in Requests, LogoutRevoke(r) PROVE TypeOK'
  <2>1. presented[r] \in Existing /\ root[presented[r]] \in Existing
    BY <1>8 DEF LogoutRevoke
  <2> QED
    BY <1>8, <2>1 DEF LogoutRevoke
<1>9. ASSUME NEW r \in Requests, ClearCookie(r) PROVE TypeOK'
  BY <1>9 DEF ClearCookie, Done
<1>10. ASSUME NEW r \in Requests, Drop(r) PROVE TypeOK'
  BY <1>10 DEF Drop, Done
<1>11. ASSUME NEW r \in Requests, NEW b \in Browsers, Refresh(r, b) PROVE TypeOK'
  BY <1>11 DEF Refresh, Send
<1>12. ASSUME NEW r \in Requests, NEW b \in Browsers, Logout(r, b) PROVE TypeOK'
  BY <1>12 DEF Logout, Send
<1>13. ASSUME NEW r \in Requests, NEW b \in Browsers, NEW u \in Users, Login(r, b,
      u) PROVE TypeOK'
  BY <1>13 DEF Login, Send
<1>14. ASSUME NEW t \in Tokens, Expire(t) PROVE TypeOK'
  BY <1>14 DEF Expire
<1>15. ASSUME NEW u \in Users, SetActive(u) PROVE TypeOK'
  BY <1>15 DEF SetActive
<1>16. CASE UNCHANGED vars
  BY <1>16
<1> QED
  BY <1>1, <1>2, <1>3, <1>4, <1>5, <1>6, <1>7, <1>8, <1>9, <1>10, <1>11,
     <1>12, <1>13, <1>14, <1>15, <1>16 DEF Next

\* A request learns which rows it works on, and for whom.
LEMMA RequestsStep == TypeOK /\ TypeOK' /\ RowsInFamilies /\ RequestsKnow /\
      [Next]_vars => RequestsKnow'
<1> SUFFICES ASSUME TypeOK, TypeOK', RowsInFamilies, RequestsKnow, [Next]_vars PROVE
      RequestsKnow'
  OBVIOUS
<1> USE AuthAssumption DEF TypeOK, PCs, RowsInFamilies, RequestsKnow, rows, locals,
            history, vars, Tokens, Existing, NoToken
<1>1. ASSUME NEW r \in Requests, FindToken(r) PROVE RequestsKnow'
  BY <1>1 DEF FindToken, AfterFind, Done
<1>2. ASSUME NEW r \in Requests, RevokeAll(r) PROVE RequestsKnow'
  BY <1>2 DEF RevokeAll, RevokedByReuse, TokensOf, Families, Racing, Done
<1>3. ASSUME NEW r \in Requests, CheckUser(r) PROVE RequestsKnow'
  BY <1>3 DEF CheckUser, Done
<1>4. ASSUME NEW r \in Requests, Issue(r) PROVE RequestsKnow'
  BY <1>4 DEF Issue
<1>5. ASSUME NEW r \in Requests, Retire(r) PROVE RequestsKnow'
  BY <1>5 DEF Retire, RetiredBy, SuccessorOf
<1>6. ASSUME NEW r \in Requests, Respond(r) PROVE RequestsKnow'
  BY <1>6 DEF Respond, CookieOf, Done
<1>7. ASSUME NEW r \in Requests, LogoutFind(r) PROVE RequestsKnow'
  BY <1>7 DEF LogoutFind
<1>8. ASSUME NEW r \in Requests, LogoutRevoke(r) PROVE RequestsKnow'
  BY <1>8 DEF LogoutRevoke
<1>9. ASSUME NEW r \in Requests, ClearCookie(r) PROVE RequestsKnow'
  BY <1>9 DEF ClearCookie, Done
<1>10. ASSUME NEW r \in Requests, Drop(r) PROVE RequestsKnow'
  BY <1>10 DEF Drop, Done
<1>11. ASSUME NEW r \in Requests, NEW b \in Browsers, Refresh(r, b) PROVE
      RequestsKnow'
  BY <1>11 DEF Refresh, Send
<1>12. ASSUME NEW r \in Requests, NEW b \in Browsers, Logout(r, b) PROVE
      RequestsKnow'
  BY <1>12 DEF Logout, Send
<1>13. ASSUME NEW r \in Requests, NEW b \in Browsers, NEW u \in Users, Login(r, b,
      u) PROVE RequestsKnow'
  BY <1>13 DEF Login, Send
<1>14. ASSUME NEW t \in Tokens, Expire(t) PROVE RequestsKnow'
  BY <1>14 DEF Expire
<1>15. ASSUME NEW u \in Users, SetActive(u) PROVE RequestsKnow'
  BY <1>15 DEF SetActive
<1>16. CASE UNCHANGED vars
  BY <1>16
<1> QED
  BY <1>1, <1>2, <1>3, <1>4, <1>5, <1>6, <1>7, <1>8, <1>9, <1>10, <1>11,
     <1>12, <1>13, <1>14, <1>15, <1>16 DEF Next

\* A row keeps its user and its family, and both fit together.
LEMMA RowsStep == TypeOK /\ RowsInFamilies /\ RequestsKnow /\ RotationsLink /\
      [Next]_vars => RowsInFamilies'
<1> SUFFICES ASSUME TypeOK, RowsInFamilies, RequestsKnow, RotationsLink, [Next]_vars
      PROVE RowsInFamilies'
  OBVIOUS
<1> USE AuthAssumption DEF TypeOK, PCs, RowsInFamilies, RequestsKnow, RotationsLink,
            rows, locals, history, vars, Tokens, Existing, NoToken
<1>1. ASSUME NEW r \in Requests, FindToken(r) PROVE RowsInFamilies'
  BY <1>1 DEF FindToken, AfterFind, Done
<1>2. ASSUME NEW r \in Requests, RevokeAll(r) PROVE RowsInFamilies'
  BY <1>2 DEF RevokeAll, RevokedByReuse, TokensOf, Families, Racing, Done
<1>3. ASSUME NEW r \in Requests, CheckUser(r) PROVE RowsInFamilies'
  BY <1>3 DEF CheckUser, Done
<1>4. ASSUME NEW r \in Requests, Issue(r) PROVE RowsInFamilies'
  BY <1>4 DEF Issue
<1>5. ASSUME NEW r \in Requests, Retire(r) PROVE RowsInFamilies'
  BY <1>5 DEF Retire, RetiredBy, SuccessorOf
<1>6. ASSUME NEW r \in Requests, Respond(r) PROVE RowsInFamilies'
  BY <1>6 DEF Respond, CookieOf, Done
<1>7. ASSUME NEW r \in Requests, LogoutFind(r) PROVE RowsInFamilies'
  BY <1>7 DEF LogoutFind
<1>8. ASSUME NEW r \in Requests, LogoutRevoke(r) PROVE RowsInFamilies'
  BY <1>8 DEF LogoutRevoke
<1>9. ASSUME NEW r \in Requests, ClearCookie(r) PROVE RowsInFamilies'
  BY <1>9 DEF ClearCookie, Done
<1>10. ASSUME NEW r \in Requests, Drop(r) PROVE RowsInFamilies'
  BY <1>10 DEF Drop, Done
<1>11. ASSUME NEW r \in Requests, NEW b \in Browsers, Refresh(r, b) PROVE
      RowsInFamilies'
  BY <1>11 DEF Refresh, Send
<1>12. ASSUME NEW r \in Requests, NEW b \in Browsers, Logout(r, b) PROVE
      RowsInFamilies'
  BY <1>12 DEF Logout, Send
<1>13. ASSUME NEW r \in Requests, NEW b \in Browsers, NEW u \in Users, Login(r, b,
      u) PROVE RowsInFamilies'
  BY <1>13 DEF Login, Send
<1>14. ASSUME NEW t \in Tokens, Expire(t) PROVE RowsInFamilies'
  BY <1>14 DEF Expire
<1>15. ASSUME NEW u \in Users, SetActive(u) PROVE RowsInFamilies'
  BY <1>15 DEF SetActive
<1>16. CASE UNCHANGED vars
  BY <1>16
<1> QED
  BY <1>1, <1>2, <1>3, <1>4, <1>5, <1>6, <1>7, <1>8, <1>9, <1>10, <1>11,
     <1>12, <1>13, <1>14, <1>15, <1>16 DEF Next

\* A rotation issues a later row of the same family and user.
LEMMA LinkStep == TypeOK /\ RowsInFamilies /\ RequestsKnow /\ RotationsLink /\
      [Next]_vars => RotationsLink'
<1> SUFFICES ASSUME TypeOK, RowsInFamilies, RequestsKnow, RotationsLink, [Next]_vars
      PROVE RotationsLink'
  OBVIOUS
<1> USE AuthAssumption DEF TypeOK, PCs, RowsInFamilies, RequestsKnow, RotationsLink,
            rows, locals, history, vars, Tokens, Existing, NoToken
<1>1. ASSUME NEW r \in Requests, FindToken(r) PROVE RotationsLink'
  BY <1>1 DEF FindToken, AfterFind, Done
<1>2. ASSUME NEW r \in Requests, RevokeAll(r) PROVE RotationsLink'
  BY <1>2 DEF RevokeAll, RevokedByReuse, TokensOf, Families, Racing, Done
<1>3. ASSUME NEW r \in Requests, CheckUser(r) PROVE RotationsLink'
  BY <1>3 DEF CheckUser, Done
<1>4. ASSUME NEW r \in Requests, Issue(r) PROVE RotationsLink'
  BY <1>4 DEF Issue
<1>5. ASSUME NEW r \in Requests, Retire(r) PROVE RotationsLink'
  BY <1>5 DEF Retire, RetiredBy, SuccessorOf
<1>6. ASSUME NEW r \in Requests, Respond(r) PROVE RotationsLink'
  BY <1>6 DEF Respond, CookieOf, Done
<1>7. ASSUME NEW r \in Requests, LogoutFind(r) PROVE RotationsLink'
  BY <1>7 DEF LogoutFind
<1>8. ASSUME NEW r \in Requests, LogoutRevoke(r) PROVE RotationsLink'
  BY <1>8 DEF LogoutRevoke
<1>9. ASSUME NEW r \in Requests, ClearCookie(r) PROVE RotationsLink'
  BY <1>9 DEF ClearCookie, Done
<1>10. ASSUME NEW r \in Requests, Drop(r) PROVE RotationsLink'
  BY <1>10 DEF Drop, Done
<1>11. ASSUME NEW r \in Requests, NEW b \in Browsers, Refresh(r, b) PROVE
      RotationsLink'
  BY <1>11 DEF Refresh, Send
<1>12. ASSUME NEW r \in Requests, NEW b \in Browsers, Logout(r, b) PROVE
      RotationsLink'
  BY <1>12 DEF Logout, Send
<1>13. ASSUME NEW r \in Requests, NEW b \in Browsers, NEW u \in Users, Login(r, b,
      u) PROVE RotationsLink'
  BY <1>13 DEF Login, Send
<1>14. ASSUME NEW t \in Tokens, Expire(t) PROVE RotationsLink'
  BY <1>14 DEF Expire
<1>15. ASSUME NEW u \in Users, SetActive(u) PROVE RotationsLink'
  BY <1>15 DEF SetActive
<1>16. CASE UNCHANGED vars
  BY <1>16
<1> QED
  BY <1>1, <1>2, <1>3, <1>4, <1>5, <1>6, <1>7, <1>8, <1>9, <1>10, <1>11,
     <1>12, <1>13, <1>14, <1>15, <1>16 DEF Next

\* Cookies and requests only carry tokens that were delivered.
LEMMA PrivateStep == TypeOK /\ RowsInFamilies /\ RequestsKnow /\ NewTokenIsPrivate
      /\ [Next]_vars => NewTokenIsPrivate'
<1> SUFFICES ASSUME TypeOK, RowsInFamilies, RequestsKnow, NewTokenIsPrivate,
      [Next]_vars PROVE NewTokenIsPrivate'
  OBVIOUS
<1> USE AuthAssumption DEF TypeOK, PCs, RowsInFamilies, RequestsKnow,
            NewTokenIsPrivate, rows, locals, history, vars, Tokens, Existing,
            NoToken
<1>1. ASSUME NEW r \in Requests, FindToken(r) PROVE NewTokenIsPrivate'
  BY <1>1 DEF FindToken, AfterFind, Done
<1>2. ASSUME NEW r \in Requests, RevokeAll(r) PROVE NewTokenIsPrivate'
  BY <1>2 DEF RevokeAll, RevokedByReuse, TokensOf, Families, Racing, Done
<1>3. ASSUME NEW r \in Requests, CheckUser(r) PROVE NewTokenIsPrivate'
  BY <1>3 DEF CheckUser, Done
<1>4. ASSUME NEW r \in Requests, Issue(r) PROVE NewTokenIsPrivate'
  <2>1. /\ \A q \in Requests : presented[q] # issued + 1 /\ created[q] # issued + 1
        /\ \A b \in Browsers : cookie[b] # issued + 1
    <3>1. issued + 1 \notin Existing \cup {NoToken}
      OBVIOUS
    <3>2. \A q \in Requests : /\ presented[q] \in Existing \cup {NoToken}
                             /\ created[q] \in Existing \cup {NoToken}
      OBVIOUS
    <3>3. \A b \in Browsers : cookie[b] \in Existing \cup {NoToken}
      OBVIOUS
    <3> HIDE DEF Existing
    <3> QED
      BY <3>1, <3>2, <3>3
  <2>2. /\ created' = [created EXCEPT ![r] = issued + 1]
        /\ UNCHANGED <<presented, cookie>>
    BY <1>4 DEF Issue
  <2>3. ASSUME NEW q \in Requests, created'[q] # NoToken, q # r
        PROVE  created[q] # NoToken /\ created'[q] = created[q]
    BY <2>2, <2>3
  <2> QED
    BY <2>1, <2>2, <2>3
<1>5. ASSUME NEW r \in Requests, Retire(r) PROVE NewTokenIsPrivate'
  BY <1>5 DEF Retire, RetiredBy, SuccessorOf
<1>6. ASSUME NEW r \in Requests, Respond(r) PROVE NewTokenIsPrivate'
  BY <1>6 DEF Respond, CookieOf, Done
<1>7. ASSUME NEW r \in Requests, LogoutFind(r) PROVE NewTokenIsPrivate'
  BY <1>7 DEF LogoutFind
<1>8. ASSUME NEW r \in Requests, LogoutRevoke(r) PROVE NewTokenIsPrivate'
  BY <1>8 DEF LogoutRevoke
<1>9. ASSUME NEW r \in Requests, ClearCookie(r) PROVE NewTokenIsPrivate'
  BY <1>9 DEF ClearCookie, Done
<1>10. ASSUME NEW r \in Requests, Drop(r) PROVE NewTokenIsPrivate'
  BY <1>10 DEF Drop, Done
<1>11. ASSUME NEW r \in Requests, NEW b \in Browsers, Refresh(r, b) PROVE
      NewTokenIsPrivate'
  BY <1>11 DEF Refresh, Send
<1>12. ASSUME NEW r \in Requests, NEW b \in Browsers, Logout(r, b) PROVE
      NewTokenIsPrivate'
  BY <1>12 DEF Logout, Send
<1>13. ASSUME NEW r \in Requests, NEW b \in Browsers, NEW u \in Users, Login(r, b,
      u) PROVE NewTokenIsPrivate'
  BY <1>13 DEF Login, Send
<1>14. ASSUME NEW t \in Tokens, Expire(t) PROVE NewTokenIsPrivate'
  BY <1>14 DEF Expire
<1>15. ASSUME NEW u \in Users, SetActive(u) PROVE NewTokenIsPrivate'
  BY <1>15 DEF SetActive
<1>16. CASE UNCHANGED vars
  BY <1>16
<1> QED
  BY <1>1, <1>2, <1>3, <1>4, <1>5, <1>6, <1>7, <1>8, <1>9, <1>10, <1>11,
     <1>12, <1>13, <1>14, <1>15, <1>16 DEF Next

\* An alarm that closes families has seen no racing refresh of its user.
LEMMA RacersStep == TypeOK /\ RowsInFamilies /\ RequestsKnow /\ RacersAreOpen /\
      ReuseEndsFamilies /\ [Next]_vars => RacersAreOpen'
<1> SUFFICES ASSUME TypeOK, RowsInFamilies, RequestsKnow, RacersAreOpen,
      ReuseEndsFamilies, [Next]_vars PROVE RacersAreOpen'
  OBVIOUS
<1> USE AuthAssumption DEF TypeOK, PCs, RowsInFamilies, RequestsKnow, RacersAreOpen,
            ReuseEndsFamilies, Live, rows, locals, history, vars, Tokens, Existing,
            NoToken
<1>1. ASSUME NEW r \in Requests, FindToken(r) PROVE RacersAreOpen'
  <2>1. CASE Done(r)
    BY <1>1, <2>1 DEF FindToken, Done
  <2>2. CASE /\ pc' = [pc EXCEPT ![r] = AfterFind(presented[r])]
             /\ user' = [user EXCEPT ![r] = owner[presented[r]]]
             /\ UNCHANGED <<browser, presented, created>>
    <3>1. AfterFind(presented[r]) # "issue"
      BY DEF AfterFind
    <3>2. ASSUME AfterFind(presented[r]) = "checkUser"
          PROVE  root[presented[r]] \notin closed
      <4>1. presented[r] \in Existing
        BY <1>1 DEF FindToken
      <4>2. ~revoked[presented[r]]
        BY <3>2 DEF AfterFind
      <4> QED
        BY <4>1, <4>2
    <3> QED
      BY <1>1, <2>2, <3>1, <3>2 DEF FindToken
  <2> QED
    BY <1>1, <2>1, <2>2 DEF FindToken
<1>2. ASSUME NEW r \in Requests, RevokeAll(r) PROVE RacersAreOpen'
  BY <1>2, SMTT(60) DEF RevokeAll, RevokedByReuse, TokensOf, Families, Racing, Done
<1>3. ASSUME NEW r \in Requests, CheckUser(r) PROVE RacersAreOpen'
  BY <1>3 DEF CheckUser, Done
<1>4. ASSUME NEW r \in Requests, Issue(r) PROVE RacersAreOpen'
  BY <1>4 DEF Issue
<1>5. ASSUME NEW r \in Requests, Retire(r) PROVE RacersAreOpen'
  BY <1>5 DEF Retire, RetiredBy, SuccessorOf
<1>6. ASSUME NEW r \in Requests, Respond(r) PROVE RacersAreOpen'
  BY <1>6 DEF Respond, CookieOf, Done
<1>7. ASSUME NEW r \in Requests, LogoutFind(r) PROVE RacersAreOpen'
  BY <1>7 DEF LogoutFind
<1>8. ASSUME NEW r \in Requests, LogoutRevoke(r) PROVE RacersAreOpen'
  BY <1>8 DEF LogoutRevoke
<1>9. ASSUME NEW r \in Requests, ClearCookie(r) PROVE RacersAreOpen'
  BY <1>9 DEF ClearCookie, Done
<1>10. ASSUME NEW r \in Requests, Drop(r) PROVE RacersAreOpen'
  BY <1>10 DEF Drop, Done
<1>11. ASSUME NEW r \in Requests, NEW b \in Browsers, Refresh(r, b) PROVE
      RacersAreOpen'
  BY <1>11 DEF Refresh, Send
<1>12. ASSUME NEW r \in Requests, NEW b \in Browsers, Logout(r, b) PROVE
      RacersAreOpen'
  BY <1>12 DEF Logout, Send
<1>13. ASSUME NEW r \in Requests, NEW b \in Browsers, NEW u \in Users, Login(r, b,
      u) PROVE RacersAreOpen'
  BY <1>13 DEF Login, Send
<1>14. ASSUME NEW t \in Tokens, Expire(t) PROVE RacersAreOpen'
  BY <1>14 DEF Expire
<1>15. ASSUME NEW u \in Users, SetActive(u) PROVE RacersAreOpen'
  BY <1>15 DEF SetActive
<1>16. CASE UNCHANGED vars
  BY <1>16
<1> QED
  BY <1>1, <1>2, <1>3, <1>4, <1>5, <1>6, <1>7, <1>8, <1>9, <1>10, <1>11,
     <1>12, <1>13, <1>14, <1>15, <1>16 DEF Next

\* What is issued descends from a family that is not closed.
LEMMA ReuseStep == TypeOK /\ RowsInFamilies /\ RequestsKnow /\ RacersAreOpen /\
      ReuseEndsFamilies /\ [Next]_vars => ReuseEndsFamilies'
<1> SUFFICES ASSUME TypeOK, RowsInFamilies, RequestsKnow, RacersAreOpen,
      ReuseEndsFamilies, [Next]_vars PROVE ReuseEndsFamilies'
  OBVIOUS
<1> USE AuthAssumption DEF TypeOK, PCs, RowsInFamilies, RequestsKnow, RacersAreOpen,
            ReuseEndsFamilies, Live, rows, locals, history, vars, Tokens, Existing,
            NoToken
<1>1. ASSUME NEW r \in Requests, FindToken(r) PROVE ReuseEndsFamilies'
  BY <1>1 DEF FindToken, AfterFind, Done
<1>2. ASSUME NEW r \in Requests, RevokeAll(r) PROVE ReuseEndsFamilies'
  <2> SUFFICES ASSUME NEW t \in Tokens, Live(t)' PROVE root[t] \notin closed'
    BY <1>2 DEF RevokeAll
  <2>1. t \in Existing /\ ~revoked[t] /\ t \notin TokensOf(user[r])
    BY <1>2 DEF RevokeAll, RevokedByReuse
  <2>2. root[t] \notin Families(TokensOf(user[r]))
    BY <2>1 DEF Families, TokensOf
  <2> QED
    BY <1>2, <2>1, <2>2 DEF RevokeAll
<1>3. ASSUME NEW r \in Requests, CheckUser(r) PROVE ReuseEndsFamilies'
  BY <1>3 DEF CheckUser, Done
<1>4. ASSUME NEW r \in Requests, Issue(r) PROVE ReuseEndsFamilies'
  BY <1>4 DEF Issue
<1>5. ASSUME NEW r \in Requests, Retire(r) PROVE ReuseEndsFamilies'
  BY <1>5 DEF Retire, RetiredBy, SuccessorOf
<1>6. ASSUME NEW r \in Requests, Respond(r) PROVE ReuseEndsFamilies'
  BY <1>6 DEF Respond, CookieOf, Done
<1>7. ASSUME NEW r \in Requests, LogoutFind(r) PROVE ReuseEndsFamilies'
  BY <1>7 DEF LogoutFind
<1>8. ASSUME NEW r \in Requests, LogoutRevoke(r) PROVE ReuseEndsFamilies'
  BY <1>8 DEF LogoutRevoke
<1>9. ASSUME NEW r \in Requests, ClearCookie(r) PROVE ReuseEndsFamilies'
  BY <1>9 DEF ClearCookie, Done
<1>10. ASSUME NEW r \in Requests, Drop(r) PROVE ReuseEndsFamilies'
  BY <1>10 DEF Drop, Done
<1>11. ASSUME NEW r \in Requests, NEW b \in Browsers, Refresh(r, b) PROVE
      ReuseEndsFamilies'
  BY <1>11 DEF Refresh, Send
<1>12. ASSUME NEW r \in Requests, NEW b \in Browsers, Logout(r, b) PROVE
      ReuseEndsFamilies'
  BY <1>12 DEF Logout, Send
<1>13. ASSUME NEW r \in Requests, NEW b \in Browsers, NEW u \in Users, Login(r, b,
      u) PROVE ReuseEndsFamilies'
  BY <1>13 DEF Login, Send
<1>14. ASSUME NEW t \in Tokens, Expire(t) PROVE ReuseEndsFamilies'
  BY <1>14 DEF Expire
<1>15. ASSUME NEW u \in Users, SetActive(u) PROVE ReuseEndsFamilies'
  BY <1>15 DEF SetActive
<1>16. CASE UNCHANGED vars
  BY <1>16
<1> QED
  BY <1>1, <1>2, <1>3, <1>4, <1>5, <1>6, <1>7, <1>8, <1>9, <1>10, <1>11,
     <1>12, <1>13, <1>14, <1>15, <1>16 DEF Next

\* Only an alarm revokes a token that was not delivered.
LEMMA ServesStep == TypeOK /\ RowsInFamilies /\ RequestsKnow /\ RotationsLink /\
      NewTokenIsPrivate /\ NewTokenServes /\ [Next]_vars => NewTokenServes'
<1> SUFFICES ASSUME TypeOK, RowsInFamilies, RequestsKnow, RotationsLink,
      NewTokenIsPrivate, NewTokenServes, [Next]_vars PROVE NewTokenServes'
  OBVIOUS
<1> USE AuthAssumption DEF TypeOK, PCs, RowsInFamilies, RequestsKnow, RotationsLink,
            NewTokenIsPrivate, NewTokenServes, rows, locals, history, vars, Tokens,
            Existing, NoToken
<1>1. ASSUME NEW r \in Requests, FindToken(r) PROVE NewTokenServes'
  BY <1>1 DEF FindToken, AfterFind, Done
<1>2. ASSUME NEW r \in Requests, RevokeAll(r) PROVE NewTokenServes'
  BY <1>2, SMTT(60) DEF RevokeAll, RevokedByReuse, TokensOf, Families, Racing, Done
<1>3. ASSUME NEW r \in Requests, CheckUser(r) PROVE NewTokenServes'
  BY <1>3 DEF CheckUser, Done
<1>4. ASSUME NEW r \in Requests, Issue(r) PROVE NewTokenServes'
  BY <1>4 DEF Issue
<1>5. ASSUME NEW r \in Requests, Retire(r) PROVE NewTokenServes'
  <2>1. \A q \in Requests : pc[q] = "retire" => created[q] # presented[r]
    OBVIOUS
  <2> QED
    BY <1>5, <2>1 DEF Retire, RetiredBy
<1>6. ASSUME NEW r \in Requests, Respond(r) PROVE NewTokenServes'
  BY <1>6 DEF Respond, CookieOf, Done
<1>7. ASSUME NEW r \in Requests, LogoutFind(r) PROVE NewTokenServes'
  BY <1>7 DEF LogoutFind
<1>8. ASSUME NEW r \in Requests, LogoutRevoke(r) PROVE NewTokenServes'
  <2>1. \A q \in Requests : pc[q] = "retire" => created[q] # presented[r]
    OBVIOUS
  <2> QED
    BY <1>8, <2>1 DEF LogoutRevoke
<1>9. ASSUME NEW r \in Requests, ClearCookie(r) PROVE NewTokenServes'
  BY <1>9 DEF ClearCookie, Done
<1>10. ASSUME NEW r \in Requests, Drop(r) PROVE NewTokenServes'
  BY <1>10 DEF Drop, Done
<1>11. ASSUME NEW r \in Requests, NEW b \in Browsers, Refresh(r, b) PROVE
      NewTokenServes'
  BY <1>11 DEF Refresh, Send
<1>12. ASSUME NEW r \in Requests, NEW b \in Browsers, Logout(r, b) PROVE
      NewTokenServes'
  BY <1>12 DEF Logout, Send
<1>13. ASSUME NEW r \in Requests, NEW b \in Browsers, NEW u \in Users, Login(r, b,
      u) PROVE NewTokenServes'
  BY <1>13 DEF Login, Send
<1>14. ASSUME NEW t \in Tokens, Expire(t) PROVE NewTokenServes'
  BY <1>14 DEF Expire
<1>15. ASSUME NEW u \in Users, SetActive(u) PROVE NewTokenServes'
  BY <1>15 DEF SetActive
<1>16. CASE UNCHANGED vars
  BY <1>16
<1> QED
  BY <1>1, <1>2, <1>3, <1>4, <1>5, <1>6, <1>7, <1>8, <1>9, <1>10, <1>11,
     <1>12, <1>13, <1>14, <1>15, <1>16 DEF Next

\* A family keeps a valid token.
LEMMA FamilyStep == TypeOK /\ RowsInFamilies /\ RequestsKnow /\ RotationsLink /\
      NewTokenServes /\ FamilyNeverLost /\ [Next]_vars => FamilyNeverLost'
<1> SUFFICES ASSUME TypeOK, RowsInFamilies, RequestsKnow, RotationsLink,
      NewTokenServes, FamilyNeverLost, [Next]_vars PROVE FamilyNeverLost'
  OBVIOUS
<1> USE AuthAssumption DEF TypeOK, PCs, RowsInFamilies, RequestsKnow, RotationsLink,
            NewTokenServes, FamilyNeverLost, Live, rows, locals, history, vars,
            Tokens, Existing, NoToken
<1>1. ASSUME NEW r \in Requests, FindToken(r) PROVE FamilyNeverLost'
  BY <1>1 DEF FindToken, AfterFind, Done
<1>2. ASSUME NEW r \in Requests, RevokeAll(r) PROVE FamilyNeverLost'
  <2> SUFFICES ASSUME NEW t \in Existing, root[t] \notin loggedOut \cup alarmed'
               PROVE  \E s \in Existing : root[s] = root[t] /\ Live(s)'
    BY <1>2 DEF RevokeAll
  <2>1. PICK s \in Existing : root[s] = root[t] /\ ~revoked[s]
    BY <1>2 DEF RevokeAll
  <2>2. s \notin TokensOf(user[r])
    <3> SUFFICES ASSUME s \in TokensOf(user[r]) PROVE FALSE
      OBVIOUS
    <3>1. root[s] \in Families(TokensOf(user[r]))
      BY DEF Families
    <3> QED
      BY <1>2, <2>1, <3>1 DEF RevokeAll
  <2>3. Live(s)'
    BY <1>2, <2>1, <2>2 DEF RevokeAll, RevokedByReuse
  <2> QED
    BY <2>1, <2>3
<1>3. ASSUME NEW r \in Requests, CheckUser(r) PROVE FamilyNeverLost'
  BY <1>3 DEF CheckUser, Done
<1>4. ASSUME NEW r \in Requests, Issue(r) PROVE FamilyNeverLost'
  <2>0. PICK n \in Tokens : n = issued + 1
    BY <1>4 DEF Issue
  <2>1. /\ Existing' = Existing \cup {n} /\ n \in Tokens \ Existing
        /\ \A t \in Existing : root'[t] = root[t]
        /\ UNCHANGED <<revoked, loggedOut, alarmed>>
    BY <1>4, <2>0 DEF Issue
  <2>2. \A s \in Existing : ~revoked[s] => Live(s)'
    BY <2>1
  <2>3. Live(n)'
    BY <2>1
  <2>4. ASSUME NEW t \in Existing, root[t] \notin loggedOut \cup alarmed
        PROVE  \E s \in Existing' : root'[s] = root'[t] /\ Live(s)'
    BY <2>1, <2>2, <2>4
  <2>5. root'[n] = n \/ \E t \in Existing : root'[n] = root[t]
    BY <1>4, <2>0, <2>1 DEF Issue
  <2> QED
    BY <2>1, <2>3, <2>4, <2>5
<1>5. ASSUME NEW r \in Requests, Retire(r) PROVE FamilyNeverLost'
  <2> SUFFICES ASSUME NEW t \in Existing, root[t] \notin loggedOut \cup alarmed
               PROVE  \E s \in Existing : root[s] = root[t] /\ Live(s)'
    BY <1>5 DEF Retire
  <2>1. PICK s \in Existing : root[s] = root[t] /\ ~revoked[s]
    OBVIOUS
  <2>2. CASE s # presented[r]
    BY <1>5, <2>1, <2>2 DEF Retire, RetiredBy
  <2>3. CASE s = presented[r]
    <3>1. /\ created[r] \in Existing /\ created[r] # presented[r]
          /\ root[created[r]] = root[t]
      <4>1. presented[r] \in Existing /\ created[r] \in Existing
        BY <1>5 DEF Retire
      <4>2. presented[r] # NoToken /\ created[r] # NoToken
        BY <4>1
      <4>3. presented[r] < created[r] /\ root[created[r]] = root[presented[r]]
        BY <4>2
      <4> QED
        BY <2>1, <2>3, <4>1, <4>3
    <3>2. ~revoked[created[r]]
      BY <1>5, <3>1 DEF Retire
    <3>3. Live(created[r])'
      <4>1. created' = created /\ issued' = issued
        BY <1>5 DEF Retire
      <4>2. ~revoked'[created[r]]
        BY <1>5, <3>1, <3>2 DEF Retire, RetiredBy
      <4> QED
        BY <3>1, <4>1, <4>2
    <3> QED
      BY <1>5, <3>1, <3>3 DEF Retire
  <2> QED
    BY <2>2, <2>3
<1>6. ASSUME NEW r \in Requests, Respond(r) PROVE FamilyNeverLost'
  BY <1>6 DEF Respond, CookieOf, Done
<1>7. ASSUME NEW r \in Requests, LogoutFind(r) PROVE FamilyNeverLost'
  BY <1>7 DEF LogoutFind
<1>8. ASSUME NEW r \in Requests, LogoutRevoke(r) PROVE FamilyNeverLost'
  <2> SUFFICES ASSUME NEW t \in Existing, root[t] \notin loggedOut' \cup alarmed
               PROVE  \E s \in Existing : root[s] = root[t] /\ Live(s)'
    BY <1>8 DEF LogoutRevoke
  <2>1. PICK s \in Existing : root[s] = root[t] /\ ~revoked[s]
    BY <1>8 DEF LogoutRevoke
  <2>2. s # presented[r]
    BY <1>8, <2>1 DEF LogoutRevoke
  <2> QED
    BY <1>8, <2>1, <2>2 DEF LogoutRevoke
<1>9. ASSUME NEW r \in Requests, ClearCookie(r) PROVE FamilyNeverLost'
  BY <1>9 DEF ClearCookie, Done
<1>10. ASSUME NEW r \in Requests, Drop(r) PROVE FamilyNeverLost'
  BY <1>10 DEF Drop, Done
<1>11. ASSUME NEW r \in Requests, NEW b \in Browsers, Refresh(r, b) PROVE
      FamilyNeverLost'
  BY <1>11 DEF Refresh, Send
<1>12. ASSUME NEW r \in Requests, NEW b \in Browsers, Logout(r, b) PROVE
      FamilyNeverLost'
  BY <1>12 DEF Logout, Send
<1>13. ASSUME NEW r \in Requests, NEW b \in Browsers, NEW u \in Users, Login(r, b,
      u) PROVE FamilyNeverLost'
  BY <1>13 DEF Login, Send
<1>14. ASSUME NEW t \in Tokens, Expire(t) PROVE FamilyNeverLost'
  BY <1>14 DEF Expire
<1>15. ASSUME NEW u \in Users, SetActive(u) PROVE FamilyNeverLost'
  BY <1>15 DEF SetActive
<1>16. CASE UNCHANGED vars
  BY <1>16
<1> QED
  BY <1>1, <1>2, <1>3, <1>4, <1>5, <1>6, <1>7, <1>8, <1>9, <1>10, <1>11,
     <1>12, <1>13, <1>14, <1>15, <1>16 DEF Next

\* Every write of replaced_by_id links rows of one family.
LEMMA SuccessorStep == TypeOK /\ RowsInFamilies /\ RequestsKnow /\ RotationsLink /\
      SuccessorsStayInFamily /\ [Next]_vars => SuccessorsStayInFamily'
<1> SUFFICES ASSUME TypeOK, RowsInFamilies, RequestsKnow, RotationsLink,
      SuccessorsStayInFamily, [Next]_vars PROVE SuccessorsStayInFamily'
  OBVIOUS
<1> USE AuthAssumption DEF TypeOK, PCs, RowsInFamilies, RequestsKnow, RotationsLink,
            SuccessorsStayInFamily, rows, locals, history, vars, Tokens, Existing,
            NoToken
<1>1. ASSUME NEW r \in Requests, FindToken(r) PROVE SuccessorsStayInFamily'
  BY <1>1 DEF FindToken, AfterFind, Done
<1>2. ASSUME NEW r \in Requests, RevokeAll(r) PROVE SuccessorsStayInFamily'
  BY <1>2 DEF RevokeAll, RevokedByReuse, TokensOf, Families, Racing, Done
<1>3. ASSUME NEW r \in Requests, CheckUser(r) PROVE SuccessorsStayInFamily'
  BY <1>3 DEF CheckUser, Done
<1>4. ASSUME NEW r \in Requests, Issue(r) PROVE SuccessorsStayInFamily'
  <2>1. /\ Existing' = Existing \cup {issued + 1} /\ issued + 1 \in Tokens \ Existing
        /\ \A t \in Existing : root'[t] = root[t] /\ owner'[t] = owner[t]
        /\ UNCHANGED next
    BY <1>4 DEF Issue
  <2>2. \A t \in Existing : next[t] \in Existing \cup {NoToken}
    OBVIOUS
  <2>3. next[issued + 1] = NoToken
    BY <2>1
  <2>4. \A t \in Existing' : next'[t] # NoToken =>
          t \in Existing /\ next[t] # NoToken /\ next'[t] = next[t] /\ next[t] \in Existing
    BY <2>1, <2>2, <2>3
  <2>5. \A t \in Existing : next[t] # NoToken =>
          next[t] > t /\ root[next[t]] = root[t] /\ owner[next[t]] = owner[t]
    OBVIOUS
  <2>6. \A t \in Existing' : next'[t] # NoToken =>
          /\ next'[t] > t
          /\ root'[next'[t]] = root'[t]
          /\ owner'[next'[t]] = owner'[t]
    <3> HIDE DEF TypeOK, RowsInFamilies, RequestsKnow, RotationsLink,
                 SuccessorsStayInFamily, Existing, Tokens, NoToken
    <3> QED
      BY <2>1, <2>4, <2>5
  <2> HIDE DEF TypeOK, RowsInFamilies, RequestsKnow, RotationsLink, Existing, Tokens
  <2> QED
    BY <2>6
<1>5. ASSUME NEW r \in Requests, Retire(r) PROVE SuccessorsStayInFamily'
  <2>1. /\ presented[r] \in Existing /\ created[r] > presented[r]
        /\ root[created[r]] = root[presented[r]]
        /\ owner[created[r]] = owner[presented[r]]
    BY <1>5 DEF Retire
  <2>2. next' = [next EXCEPT ![presented[r]] = created[r]]
    BY <1>5 DEF Retire, SuccessorOf
  <2>3. UNCHANGED <<issued, root, owner>>
    BY <1>5 DEF Retire
  <2> QED
    BY <2>1, <2>2, <2>3
<1>6. ASSUME NEW r \in Requests, Respond(r) PROVE SuccessorsStayInFamily'
  BY <1>6 DEF Respond, CookieOf, Done
<1>7. ASSUME NEW r \in Requests, LogoutFind(r) PROVE SuccessorsStayInFamily'
  BY <1>7 DEF LogoutFind
<1>8. ASSUME NEW r \in Requests, LogoutRevoke(r) PROVE SuccessorsStayInFamily'
  BY <1>8 DEF LogoutRevoke
<1>9. ASSUME NEW r \in Requests, ClearCookie(r) PROVE SuccessorsStayInFamily'
  BY <1>9 DEF ClearCookie, Done
<1>10. ASSUME NEW r \in Requests, Drop(r) PROVE SuccessorsStayInFamily'
  BY <1>10 DEF Drop, Done
<1>11. ASSUME NEW r \in Requests, NEW b \in Browsers, Refresh(r, b) PROVE
      SuccessorsStayInFamily'
  BY <1>11 DEF Refresh, Send
<1>12. ASSUME NEW r \in Requests, NEW b \in Browsers, Logout(r, b) PROVE
      SuccessorsStayInFamily'
  BY <1>12 DEF Logout, Send
<1>13. ASSUME NEW r \in Requests, NEW b \in Browsers, NEW u \in Users, Login(r, b,
      u) PROVE SuccessorsStayInFamily'
  BY <1>13 DEF Login, Send
<1>14. ASSUME NEW t \in Tokens, Expire(t) PROVE SuccessorsStayInFamily'
  BY <1>14 DEF Expire
<1>15. ASSUME NEW u \in Users, SetActive(u) PROVE SuccessorsStayInFamily'
  BY <1>15 DEF SetActive
<1>16. CASE UNCHANGED vars
  BY <1>16
<1> QED
  BY <1>1, <1>2, <1>3, <1>4, <1>5, <1>6, <1>7, <1>8, <1>9, <1>10, <1>11,
     <1>12, <1>13, <1>14, <1>15, <1>16 DEF Next

----------------------------------------------------------------------------
(* The inductive invariant, and the theorems. *)

\* IInv holds initially.
LEMMA InitHolds == Init => IInv
<1> SUFFICES ASSUME Init PROVE IInv
  OBVIOUS
<1> USE AuthAssumption DEF Init, Tokens, Existing, NoToken
<1>1. TypeOK
  <2>1. issued \in 0 .. MaxTokens /\ Existing = {}
    OBVIOUS
  <2> QED
    BY <2>1 DEF TypeOK, PCs
<1>2. RowsInFamilies /\ RequestsKnow /\ RotationsLink /\ NewTokenIsPrivate
  BY DEF RowsInFamilies, RequestsKnow, RotationsLink, NewTokenIsPrivate
<1>3. RacersAreOpen /\ ReuseEndsFamilies /\ NewTokenServes
  BY DEF RacersAreOpen, ReuseEndsFamilies, NewTokenServes, Live
<1>4. FamilyNeverLost /\ SuccessorsStayInFamily
  BY DEF FamilyNeverLost, SuccessorsStayInFamily
<1> QED
  BY <1>1, <1>2, <1>3, <1>4 DEF IInv

\* Every step preserves IInv.
LEMMA StepHolds == IInv /\ [Next]_vars => IInv'
<1> SUFFICES ASSUME IInv, [Next]_vars PROVE IInv'
  OBVIOUS
<1>1. TypeOK' /\ RowsInFamilies'
  BY TypeStep, RowsStep DEF IInv
<1>2. RequestsKnow' /\ RotationsLink' /\ NewTokenIsPrivate'
  BY <1>1, RequestsStep, LinkStep, PrivateStep DEF IInv
<1>3. RacersAreOpen' /\ ReuseEndsFamilies' /\ NewTokenServes'
  BY RacersStep, ReuseStep, ServesStep DEF IInv
<1>4. FamilyNeverLost' /\ SuccessorsStayInFamily'
  BY FamilyStep, SuccessorStep DEF IInv
<1> QED
  BY <1>1, <1>2, <1>3, <1>4 DEF IInv

\* The invariant of sessions: what the rows, the cookies and the requests under
\* way know of each other.
THEOREM Invariance == Spec => []IInv
  BY InitHolds, StepHolds, PTL DEF Spec

\* Every variable has its type in every reachable state of AuthSession.
THEOREM TypeCorrect == Spec => []TypeOK
  BY Invariance, PTL DEF IInv

\* A reuse alarm that no refresh raced with ends the families of its user for good.
THEOREM ReuseEndsFamiliesAlways == Spec => []ReuseEndsFamilies
  BY Invariance, PTL DEF IInv

\* No interleaving of refreshes and no crash in one takes the last valid token of
\* a family that was not ended.
THEOREM FamilyNeverLostAlways == Spec => []FamilyNeverLost
  BY Invariance, PTL DEF IInv

\* replaced_by_id always leads to a later token of the same family and user.
THEOREM SuccessorsStayInFamilyAlways == Spec => []SuccessorsStayInFamily
  BY Invariance, PTL DEF IInv

----------------------------------------------------------------------------
(* Browsers that wait for the answer to one request before they send the     *)
(* next (~overlapped).  Requests of different browsers still interleave in   *)
(* every way, and any of them can be cut short between two statements.       *)
(*                                                                           *)
(* A request of such a browser presents what the browser still holds when    *)
(* it is answered (PresentsCookie), and no two browsers hold tokens of one   *)
(* family (FamilyInOneJar).  So what one browser rotates or logs out is      *)
(* never a token another one lives on.                                       *)

\* One request of a browser at a time.
BrowsersWait ==
    ~overlapped =>
        \A q, r \in Requests : pc[q] # "idle" /\ pc[r] # "idle" /\ browser[q] = browser[r] => q = r

\* Cookies come from answers.
CookiesDelivered == \A b \in Browsers : cookie[b] # NoToken => cookie[b] \in delivered

PresentsCookie ==
    ~overlapped =>
        \A r \in Requests : presented[r] # NoToken => presented[r] = cookie[browser[r]]

FamilyInOneJar ==
    ~overlapped =>
        \A b, c \in Browsers :
            cookie[b] # NoToken /\ cookie[c] # NoToken /\ root[cookie[b]] = root[cookie[c]] => b = c

\* The token of a login that is not answered yet is alone in its family, which
\* nobody can have logged out.
LoginIsNew ==
    \A r \in Requests :
        created[r] # NoToken /\ presented[r] = NoToken =>
            /\ root[created[r]] = created[r] /\ created[r] \notin loggedOut
            /\ \A t \in Existing : root[t] = created[r] => t = created[r]

\* No valid token that was delivered for the session of a cookie is elsewhere.
CookieIsLast ==
    ~overlapped =>
        \A b \in Browsers, t \in delivered :
            cookie[b] # NoToken /\ Live(t) /\ root[t] = root[cookie[b]] => t = cookie[b]

\* A refresh past the revocation check belongs to a session that is logged in.
RefreshesAreOpen ==
    ~overlapped =>
        \A r \in Requests :
            pc[r] \in {"checkUser", "issue", "retire", "respond"} /\ presented[r] # NoToken =>
                root[presented[r]] \notin loggedOut

\* A retired refresh token has left the presented one behind.
RetiredIsRevoked ==
    \A r \in Requests :
        pc[r] = "respond" /\ presented[r] # NoToken => revoked[presented[r]]

\* Without alarms and lost answers, a revoked cookie is about to be replaced, and
\* by a valid token.
RevokedIsReplaced ==
    ~overlapped /\ ~lost =>
        /\ \A b \in Browsers :
              cookie[b] # NoToken /\ revoked[cookie[b]] =>
                  \E r \in Requests : pc[r] \in {"respond", "clear"} /\ browser[r] = b
        /\ \A r \in Requests : created[r] # NoToken => ~revoked[created[r]]

WInv ==
    /\ BrowsersWait
    /\ CookiesDelivered
    /\ PresentsCookie
    /\ FamilyInOneJar
    /\ LoginIsNew
    /\ CookieIsLast
    /\ RefreshesAreOpen
    /\ RetiredIsRevoked
    /\ RevokedIsReplaced
    /\ OneUsableToken
    /\ LogoutEndsSession
    /\ NoFalseAlarm

----------------------------------------------------------------------------
(* Preservation. *)

\* A request that is sent before another one of its browser has ended sets
\* overlapped.
LEMMA SendWaits ==
    ASSUME TypeOK, BrowsersWait,
           NEW r \in Requests, NEW b \in Browsers, NEW u, NEW to, Send(r, b, u, to)
    PROVE  BrowsersWait'
<1>1. pc \in [Requests -> PCs] /\ browser \in [Requests -> Browsers \cup {NoBrowser}]
  BY DEF TypeOK
<1>2. \A q \in Requests \ {r} : pc'[q] = pc[q] /\ browser'[q] = browser[q]
  BY <1>1 DEF Send
<1>3. /\ browser'[r] = b /\ pc[r] = "idle"
      /\ overlapped' = (overlapped \/ \E q \in Requests : pc[q] # "idle" /\ browser[q] = b)
  BY <1>1 DEF Send
<1>4. ASSUME ~overlapped', NEW q \in Requests, NEW s \in Requests,
             pc'[q] # "idle", pc'[s] # "idle", browser'[q] = browser'[s]
      PROVE  q = s
  <2>1. ~overlapped /\ \A x \in Requests : pc[x] # "idle" => browser[x] # b
    BY <1>3, <1>4
  <2>2. CASE q = r
    BY <1>2, <1>3, <1>4, <2>1, <2>2
  <2>3. CASE s = r
    BY <1>2, <1>3, <1>4, <2>1, <2>3
  <2>4. CASE q # r /\ s # r
    BY <1>2, <1>4, <2>1, <2>4 DEF BrowsersWait
  <2> QED
    BY <2>2, <2>3, <2>4
<1> QED
  BY <1>4 DEF BrowsersWait

\* Browsers that wait have one request each.
LEMMA WaitStep == TypeOK /\ RowsInFamilies /\ RequestsKnow /\ BrowsersWait /\
      [Next]_vars => BrowsersWait'
<1> SUFFICES ASSUME TypeOK, RowsInFamilies, RequestsKnow, BrowsersWait, [Next]_vars
      PROVE BrowsersWait'
  OBVIOUS
<1> USE AuthAssumption DEF TypeOK, PCs, RowsInFamilies, RequestsKnow, BrowsersWait,
            rows, locals, history, vars, Tokens, Existing, NoToken
<1>1. ASSUME NEW r \in Requests, FindToken(r) PROVE BrowsersWait'
  <2>1. \A q \in Requests : pc'[q] # "idle" => pc[q] # "idle" /\ browser'[q] = browser[q]
    BY <1>1 DEF FindToken, Done
  <2>2. overlapped' = overlapped
    BY <1>1 DEF FindToken
  <2> QED
    BY <2>1, <2>2
<1>2. ASSUME NEW r \in Requests, RevokeAll(r) PROVE BrowsersWait'
  BY <1>2 DEF RevokeAll, RevokedByReuse, TokensOf, Families, Racing, Done
<1>3. ASSUME NEW r \in Requests, CheckUser(r) PROVE BrowsersWait'
  BY <1>3 DEF CheckUser, Done
<1>4. ASSUME NEW r \in Requests, Issue(r) PROVE BrowsersWait'
  BY <1>4 DEF Issue
<1>5. ASSUME NEW r \in Requests, Retire(r) PROVE BrowsersWait'
  BY <1>5 DEF Retire, RetiredBy, SuccessorOf
<1>6. ASSUME NEW r \in Requests, Respond(r) PROVE BrowsersWait'
  BY <1>6 DEF Respond, CookieOf, Done
<1>7. ASSUME NEW r \in Requests, LogoutFind(r) PROVE BrowsersWait'
  BY <1>7 DEF LogoutFind
<1>8. ASSUME NEW r \in Requests, LogoutRevoke(r) PROVE BrowsersWait'
  BY <1>8 DEF LogoutRevoke
<1>9. ASSUME NEW r \in Requests, ClearCookie(r) PROVE BrowsersWait'
  BY <1>9 DEF ClearCookie, Done
<1>10. ASSUME NEW r \in Requests, Drop(r) PROVE BrowsersWait'
  BY <1>10 DEF Drop, Done
<1>11. ASSUME NEW r \in Requests, NEW b \in Browsers, Refresh(r, b) PROVE
      BrowsersWait'
  BY <1>11, SendWaits DEF Refresh
<1>12. ASSUME NEW r \in Requests, NEW b \in Browsers, Logout(r, b) PROVE
      BrowsersWait'
  BY <1>12, SendWaits DEF Logout
<1>13. ASSUME NEW r \in Requests, NEW b \in Browsers, NEW u \in Users, Login(r, b,
      u) PROVE BrowsersWait'
  BY <1>13, SendWaits DEF Login
<1>14. ASSUME NEW t \in Tokens, Expire(t) PROVE BrowsersWait'
  BY <1>14 DEF Expire
<1>15. ASSUME NEW u \in Users, SetActive(u) PROVE BrowsersWait'
  BY <1>15 DEF SetActive
<1>16. CASE UNCHANGED vars
  BY <1>16
<1> QED
  BY <1>1, <1>2, <1>3, <1>4, <1>5, <1>6, <1>7, <1>8, <1>9, <1>10, <1>11,
     <1>12, <1>13, <1>14, <1>15, <1>16 DEF Next

\* An answer that arrives sets the cookie.
LEMMA DeliveredStep == TypeOK /\ RowsInFamilies /\ RequestsKnow /\ CookiesDelivered
      /\ [Next]_vars => CookiesDelivered'
<1> SUFFICES ASSUME TypeOK, RowsInFamilies, RequestsKnow, CookiesDelivered,
      [Next]_vars PROVE CookiesDelivered'
  OBVIOUS
<1> USE AuthAssumption DEF TypeOK, PCs, RowsInFamilies, RequestsKnow,
            CookiesDelivered, rows, locals, history, vars, Tokens, Existing, NoToken
<1>1. ASSUME NEW r \in Requests, FindToken(r) PROVE CookiesDelivered'
  BY <1>1 DEF FindToken, AfterFind, Done
<1>2. ASSUME NEW r \in Requests, RevokeAll(r) PROVE CookiesDelivered'
  BY <1>2 DEF RevokeAll, RevokedByReuse, TokensOf, Families, Racing, Done
<1>3. ASSUME NEW r \in Requests, CheckUser(r) PROVE CookiesDelivered'
  BY <1>3 DEF CheckUser, Done
<1>4. ASSUME NEW r \in Requests, Issue(r) PROVE CookiesDelivered'
  BY <1>4 DEF Issue
<1>5. ASSUME NEW r \in Requests, Retire(r) PROVE CookiesDelivered'
  BY <1>5 DEF Retire, RetiredBy, SuccessorOf
<1>6. ASSUME NEW r \in Requests, Respond(r) PROVE CookiesDelivered'
  BY <1>6 DEF Respond, CookieOf, Done
<1>7. ASSUME NEW r \in Requests, LogoutFind(r) PROVE CookiesDelivered'
  BY <1>7 DEF LogoutFind
<1>8. ASSUME NEW r \in Requests, LogoutRevoke(r) PROVE CookiesDelivered'
  BY <1>8 DEF LogoutRevoke
<1>9. ASSUME NEW r \in Requests, ClearCookie(r) PROVE CookiesDelivered'
  BY <1>9 DEF ClearCookie, Done
<1>10. ASSUME NEW r \in Requests, Drop(r) PROVE CookiesDelivered'
  BY <1>10 DEF Drop, Done
<1>11. ASSUME NEW r \in Requests, NEW b \in Browsers, Refresh(r, b) PROVE
      CookiesDelivered'
  BY <1>11 DEF Refresh, Send
<1>12. ASSUME NEW r \in Requests, NEW b \in Browsers, Logout(r, b) PROVE
      CookiesDelivered'
  BY <1>12 DEF Logout, Send
<1>13. ASSUME NEW r \in Requests, NEW b \in Browsers, NEW u \in Users, Login(r, b,
      u) PROVE CookiesDelivered'
  BY <1>13 DEF Login, Send
<1>14. ASSUME NEW t \in Tokens, Expire(t) PROVE CookiesDelivered'
  BY <1>14 DEF Expire
<1>15. ASSUME NEW u \in Users, SetActive(u) PROVE CookiesDelivered'
  BY <1>15 DEF SetActive
<1>16. CASE UNCHANGED vars
  BY <1>16
<1> QED
  BY <1>1, <1>2, <1>3, <1>4, <1>5, <1>6, <1>7, <1>8, <1>9, <1>10, <1>11,
     <1>12, <1>13, <1>14, <1>15, <1>16 DEF Next

\* The cookie of a browser only changes when its own request is answered.
LEMMA PresentsStep == TypeOK /\ RowsInFamilies /\ RequestsKnow /\ BrowsersWait /\
      PresentsCookie /\ [Next]_vars => PresentsCookie'
<1> SUFFICES ASSUME TypeOK, RowsInFamilies, RequestsKnow, BrowsersWait,
      PresentsCookie, [Next]_vars PROVE PresentsCookie'
  OBVIOUS
<1> USE AuthAssumption DEF TypeOK, PCs, RowsInFamilies, RequestsKnow, BrowsersWait,
            PresentsCookie, rows, locals, history, vars, Tokens, Existing, NoToken
<1>1. ASSUME NEW r \in Requests, FindToken(r) PROVE PresentsCookie'
  BY <1>1 DEF FindToken, AfterFind, Done
<1>2. ASSUME NEW r \in Requests, RevokeAll(r) PROVE PresentsCookie'
  BY <1>2 DEF RevokeAll, RevokedByReuse, TokensOf, Families, Racing, Done
<1>3. ASSUME NEW r \in Requests, CheckUser(r) PROVE PresentsCookie'
  BY <1>3 DEF CheckUser, Done
<1>4. ASSUME NEW r \in Requests, Issue(r) PROVE PresentsCookie'
  BY <1>4 DEF Issue
<1>5. ASSUME NEW r \in Requests, Retire(r) PROVE PresentsCookie'
  BY <1>5 DEF Retire, RetiredBy, SuccessorOf
<1>6. ASSUME NEW r \in Requests, Respond(r) PROVE PresentsCookie'
  BY <1>6 DEF Respond, CookieOf, Done
<1>7. ASSUME NEW r \in Requests, LogoutFind(r) PROVE PresentsCookie'
  BY <1>7 DEF LogoutFind
<1>8. ASSUME NEW r \in Requests, LogoutRevoke(r) PROVE PresentsCookie'
  BY <1>8 DEF LogoutRevoke
<1>9. ASSUME NEW r \in Requests, ClearCookie(r) PROVE PresentsCookie'
  BY <1>9 DEF ClearCookie, Done
<1>10. ASSUME NEW r \in Requests, Drop(r) PROVE PresentsCookie'
  BY <1>10 DEF Drop, Done
<1>11. ASSUME NEW r \in Requests, NEW b \in Browsers, Refresh(r, b) PROVE
      PresentsCookie'
  BY <1>11 DEF Refresh, Send
<1>12. ASSUME NEW r \in Requests, NEW b \in Browsers, Logout(r, b) PROVE
      PresentsCookie'
  BY <1>12 DEF Logout, Send
<1>13. ASSUME NEW r \in Requests, NEW b \in Browsers, NEW u \in Users, Login(r, b,
      u) PROVE PresentsCookie'
  BY <1>13 DEF Login, Send
<1>14. ASSUME NEW t \in Tokens, Expire(t) PROVE PresentsCookie'
  BY <1>14 DEF Expire
<1>15. ASSUME NEW u \in Users, SetActive(u) PROVE PresentsCookie'
  BY <1>15 DEF SetActive
<1>16. CASE UNCHANGED vars
  BY <1>16
<1> QED
  BY <1>1, <1>2, <1>3, <1>4, <1>5, <1>6, <1>7, <1>8, <1>9, <1>10, <1>11,
     <1>12, <1>13, <1>14, <1>15, <1>16 DEF Next

\* A rotation stays in the browser it came from, and a login starts a family.
LEMMA JarStep == TypeOK /\ RowsInFamilies /\ RequestsKnow /\ BrowsersWait /\
      PresentsCookie /\ LoginIsNew /\ CookiesDelivered /\ NewTokenIsPrivate /\
      RotationsLink /\ FamilyInOneJar /\ [Next]_vars => FamilyInOneJar'
<1> SUFFICES ASSUME TypeOK, RowsInFamilies, RequestsKnow, BrowsersWait,
      PresentsCookie, LoginIsNew, CookiesDelivered, NewTokenIsPrivate,
      RotationsLink, FamilyInOneJar, [Next]_vars PROVE FamilyInOneJar'
  OBVIOUS
<1> USE AuthAssumption DEF TypeOK, PCs, RowsInFamilies, RequestsKnow, BrowsersWait,
            PresentsCookie, LoginIsNew, CookiesDelivered, NewTokenIsPrivate,
            RotationsLink, FamilyInOneJar, rows, locals, history, vars, Tokens,
            Existing, NoToken
<1>1. ASSUME NEW r \in Requests, FindToken(r) PROVE FamilyInOneJar'
  BY <1>1 DEF FindToken, AfterFind, Done
<1>2. ASSUME NEW r \in Requests, RevokeAll(r) PROVE FamilyInOneJar'
  BY <1>2 DEF RevokeAll, RevokedByReuse, TokensOf, Families, Racing, Done
<1>3. ASSUME NEW r \in Requests, CheckUser(r) PROVE FamilyInOneJar'
  BY <1>3 DEF CheckUser, Done
<1>4. ASSUME NEW r \in Requests, Issue(r) PROVE FamilyInOneJar'
  BY <1>4 DEF Issue
<1>5. ASSUME NEW r \in Requests, Retire(r) PROVE FamilyInOneJar'
  BY <1>5 DEF Retire, RetiredBy, SuccessorOf
<1>6. ASSUME NEW r \in Requests, Respond(r) PROVE FamilyInOneJar'
  BY <1>6 DEF Respond, CookieOf, Done
<1>7. ASSUME NEW r \in Requests, LogoutFind(r) PROVE FamilyInOneJar'
  BY <1>7 DEF LogoutFind
<1>8. ASSUME NEW r \in Requests, LogoutRevoke(r) PROVE FamilyInOneJar'
  BY <1>8 DEF LogoutRevoke
<1>9. ASSUME NEW r \in Requests, ClearCookie(r) PROVE FamilyInOneJar'
  BY <1>9 DEF ClearCookie, Done
<1>10. ASSUME NEW r \in Requests, Drop(r) PROVE FamilyInOneJar'
  BY <1>10 DEF Drop, Done
<1>11. ASSUME NEW r \in Requests, NEW b \in Browsers, Refresh(r, b) PROVE
      FamilyInOneJar'
  BY <1>11 DEF Refresh, Send
<1>12. ASSUME NEW r \in Requests, NEW b \in Browsers, Logout(r, b) PROVE
      FamilyInOneJar'
  BY <1>12 DEF Logout, Send
<1>13. ASSUME NEW r \in Requests, NEW b \in Browsers, NEW u \in Users, Login(r, b,
      u) PROVE FamilyInOneJar'
  BY <1>13 DEF Login, Send
<1>14. ASSUME NEW t \in Tokens, Expire(t) PROVE FamilyInOneJar'
  BY <1>14 DEF Expire
<1>15. ASSUME NEW u \in Users, SetActive(u) PROVE FamilyInOneJar'
  BY <1>15 DEF SetActive
<1>16. CASE UNCHANGED vars
  BY <1>16
<1> QED
  BY <1>1, <1>2, <1>3, <1>4, <1>5, <1>6, <1>7, <1>8, <1>9, <1>10, <1>11,
     <1>12, <1>13, <1>14, <1>15, <1>16 DEF Next

\* What descends from a login is issued to who presents its token.
LEMMA LoginStep == TypeOK /\ RowsInFamilies /\ RequestsKnow /\ NewTokenIsPrivate /\
      RotationsLink /\ LoginIsNew /\ [Next]_vars => LoginIsNew'
<1> SUFFICES ASSUME TypeOK, RowsInFamilies, RequestsKnow, NewTokenIsPrivate,
      RotationsLink, LoginIsNew, [Next]_vars PROVE LoginIsNew'
  OBVIOUS
<1> USE AuthAssumption DEF TypeOK, PCs, RowsInFamilies, RequestsKnow,
            NewTokenIsPrivate, RotationsLink, LoginIsNew, rows, locals, history,
            vars, Tokens, Existing, NoToken
<1>1. ASSUME NEW r \in Requests, FindToken(r) PROVE LoginIsNew'
  BY <1>1 DEF FindToken, AfterFind, Done
<1>2. ASSUME NEW r \in Requests, RevokeAll(r) PROVE LoginIsNew'
  BY <1>2 DEF RevokeAll, RevokedByReuse, TokensOf, Families, Racing, Done
<1>3. ASSUME NEW r \in Requests, CheckUser(r) PROVE LoginIsNew'
  <2>1. /\ created[r] = NoToken /\ created' = created
        /\ \A q \in Requests : q # r => presented'[q] = presented[q]
        /\ UNCHANGED <<issued, root, loggedOut>>
    BY <1>3 DEF CheckUser, Done
  <2> QED
    BY <2>1
<1>4. ASSUME NEW r \in Requests, Issue(r) PROVE LoginIsNew'
  BY <1>4, SMTT(60) DEF Issue
<1>5. ASSUME NEW r \in Requests, Retire(r) PROVE LoginIsNew'
  BY <1>5 DEF Retire, RetiredBy, SuccessorOf
<1>6. ASSUME NEW r \in Requests, Respond(r) PROVE LoginIsNew'
  BY <1>6 DEF Respond, CookieOf, Done
<1>7. ASSUME NEW r \in Requests, LogoutFind(r) PROVE LoginIsNew'
  BY <1>7 DEF LogoutFind
<1>8. ASSUME NEW r \in Requests, LogoutRevoke(r) PROVE LoginIsNew'
  BY <1>8 DEF LogoutRevoke
<1>9. ASSUME NEW r \in Requests, ClearCookie(r) PROVE LoginIsNew'
  BY <1>9 DEF ClearCookie, Done
<1>10. ASSUME NEW r \in Requests, Drop(r) PROVE LoginIsNew'
  BY <1>10 DEF Drop, Done
<1>11. ASSUME NEW r \in Requests, NEW b \in Browsers, Refresh(r, b) PROVE
      LoginIsNew'
  BY <1>11 DEF Refresh, Send
<1>12. ASSUME NEW r \in Requests, NEW b \in Browsers, Logout(r, b) PROVE LoginIsNew'
  BY <1>12 DEF Logout, Send
<1>13. ASSUME NEW r \in Requests, NEW b \in Browsers, NEW u \in Users, Login(r, b,
      u) PROVE LoginIsNew'
  BY <1>13 DEF Login, Send
<1>14. ASSUME NEW t \in Tokens, Expire(t) PROVE LoginIsNew'
  BY <1>14 DEF Expire
<1>15. ASSUME NEW u \in Users, SetActive(u) PROVE LoginIsNew'
  BY <1>15 DEF SetActive
<1>16. CASE UNCHANGED vars
  BY <1>16
<1> QED
  BY <1>1, <1>2, <1>3, <1>4, <1>5, <1>6, <1>7, <1>8, <1>9, <1>10, <1>11,
     <1>12, <1>13, <1>14, <1>15, <1>16 DEF Next

\* The token that is delivered follows the one that was retired.
LEMMA LastStep == TypeOK /\ RowsInFamilies /\ RequestsKnow /\ CookiesDelivered /\
      PresentsCookie /\ BrowsersWait /\ FamilyInOneJar /\ LoginIsNew /\
      RetiredIsRevoked /\ NewTokenIsPrivate /\ RotationsLink /\ CookieIsLast /\
      [Next]_vars => CookieIsLast'
<1> SUFFICES ASSUME TypeOK, RowsInFamilies, RequestsKnow, CookiesDelivered,
      PresentsCookie, BrowsersWait, FamilyInOneJar, LoginIsNew, RetiredIsRevoked,
      NewTokenIsPrivate, RotationsLink, CookieIsLast, [Next]_vars PROVE
      CookieIsLast'
  OBVIOUS
<1> USE AuthAssumption DEF TypeOK, PCs, RowsInFamilies, RequestsKnow,
            CookiesDelivered, PresentsCookie, BrowsersWait, FamilyInOneJar,
            LoginIsNew, RetiredIsRevoked, NewTokenIsPrivate, RotationsLink,
            CookieIsLast, Live, rows, locals, history, vars, Tokens, Existing,
            NoToken
<1>1. ASSUME NEW r \in Requests, FindToken(r) PROVE CookieIsLast'
  BY <1>1 DEF FindToken, AfterFind, Done
<1>2. ASSUME NEW r \in Requests, RevokeAll(r) PROVE CookieIsLast'
  BY <1>2, SMTT(60) DEF RevokeAll, RevokedByReuse, TokensOf, Families, Racing, Done
<1>3. ASSUME NEW r \in Requests, CheckUser(r) PROVE CookieIsLast'
  BY <1>3 DEF CheckUser, Done
<1>4. ASSUME NEW r \in Requests, Issue(r) PROVE CookieIsLast'
  BY <1>4, SMTT(60) DEF Issue
<1>5. ASSUME NEW r \in Requests, Retire(r) PROVE CookieIsLast'
  BY <1>5 DEF Retire, RetiredBy, SuccessorOf
<1>6. ASSUME NEW r \in Requests, Respond(r) PROVE CookieIsLast'
  <2> DEFINE b0 == browser[r]
             c == created[r]
             p == presented[r]
  <2>1. /\ cookie' = [cookie EXCEPT ![b0] = c] /\ delivered' = delivered \cup {c}
        /\ UNCHANGED <<issued, revoked, expired, root, overlapped>>
        /\ b0 \in Browsers /\ c \in Existing /\ pc[r] = "respond"
    BY <1>6 DEF Respond, CookieOf
  <2>2. SUFFICES ASSUME ~overlapped, NEW b \in Browsers, NEW t \in delivered \cup {c},
                        cookie'[b] # NoToken, Live(t), root[t] = root[cookie'[b]],
                        t # cookie'[b]
                 PROVE  FALSE
    BY <2>1
  <2>3. CASE p = NoToken
    <3>1. root[c] = c /\ \A u \in Existing : root[u] = c => u = c
      <4>1. c # NoToken
        BY <2>1
      <4> HIDE DEF TypeOK, RowsInFamilies, RequestsKnow, CookiesDelivered,
                   PresentsCookie, BrowsersWait, FamilyInOneJar, RetiredIsRevoked,
                   NewTokenIsPrivate, RotationsLink, CookieIsLast, Existing, NoToken
      <4> QED
        BY <2>3, <4>1
    <3>2. t \in Existing
      BY <2>1
    <3>3. CASE b = b0
      <4>1. cookie'[b] = c
        BY <2>1, <3>3
      <4>2. root[t] = c /\ t # c
        BY <2>2, <3>1, <4>1
      <4> QED
        BY <3>1, <3>2, <4>2
    <3>4. CASE b # b0
      <4>1. cookie'[b] = cookie[b] /\ cookie[b] \in Existing /\ cookie[b] # c
        BY <2>1, <2>2, <3>4
      <4>2. t # c
        BY <2>2, <3>1, <3>2, <4>1
      <4> QED
        BY <2>2, <4>1, <4>2
    <3> QED
      BY <3>3, <3>4
  <2>4. CASE p # NoToken
    <3>1. p = cookie[b0] /\ root[c] = root[p] /\ revoked[p]
      BY <2>1, <2>2, <2>4
    <3>2. CASE b = b0
      <4>1. t \in delivered /\ root[t] = root[cookie[b0]]
        BY <2>1, <2>2, <3>1, <3>2
      <4>2. t = p
        BY <2>1, <2>2, <2>4, <3>1, <4>1
      <4> QED
        BY <2>2, <3>1, <4>2
    <3>3. CASE b # b0
      <4>1. cookie'[b] = cookie[b]
        BY <2>1, <3>3
      <4>2. t # c
        BY <2>1, <2>2, <2>4, <3>1, <3>3, <4>1
      <4> QED
        BY <2>2, <4>1, <4>2
    <3> QED
      BY <3>2, <3>3
  <2> QED
    BY <2>3, <2>4
<1>7. ASSUME NEW r \in Requests, LogoutFind(r) PROVE CookieIsLast'
  BY <1>7 DEF LogoutFind
<1>8. ASSUME NEW r \in Requests, LogoutRevoke(r) PROVE CookieIsLast'
  BY <1>8 DEF LogoutRevoke
<1>9. ASSUME NEW r \in Requests, ClearCookie(r) PROVE CookieIsLast'
  BY <1>9 DEF ClearCookie, Done
<1>10. ASSUME NEW r \in Requests, Drop(r) PROVE CookieIsLast'
  BY <1>10 DEF Drop, Done
<1>11. ASSUME NEW r \in Requests, NEW b \in Browsers, Refresh(r, b) PROVE
      CookieIsLast'
  BY <1>11 DEF Refresh, Send
<1>12. ASSUME NEW r \in Requests, NEW b \in Browsers, Logout(r, b) PROVE
      CookieIsLast'
  BY <1>12 DEF Logout, Send
<1>13. ASSUME NEW r \in Requests, NEW b \in Browsers, NEW u \in Users, Login(r, b,
      u) PROVE CookieIsLast'
  BY <1>13 DEF Login, Send
<1>14. ASSUME NEW t \in Tokens, Expire(t) PROVE CookieIsLast'
  BY <1>14 DEF Expire
<1>15. ASSUME NEW u \in Users, SetActive(u) PROVE CookieIsLast'
  BY <1>15 DEF SetActive
<1>16. CASE UNCHANGED vars
  BY <1>16
<1> QED
  BY <1>1, <1>2, <1>3, <1>4, <1>5, <1>6, <1>7, <1>8, <1>9, <1>10, <1>11,
     <1>12, <1>13, <1>14, <1>15, <1>16 DEF Next

\* What passes the revocation check was not logged out, and only the browser that
\* holds a session ends it.
LEMMA OpenStep == TypeOK /\ RowsInFamilies /\ RequestsKnow /\ BrowsersWait /\
      PresentsCookie /\ FamilyInOneJar /\ CookiesDelivered /\ LogoutEndsSession /\
      NewTokenIsPrivate /\ RefreshesAreOpen /\ [Next]_vars => RefreshesAreOpen'
<1> SUFFICES ASSUME TypeOK, RowsInFamilies, RequestsKnow, BrowsersWait,
      PresentsCookie, FamilyInOneJar, CookiesDelivered, LogoutEndsSession,
      NewTokenIsPrivate, RefreshesAreOpen, [Next]_vars PROVE RefreshesAreOpen'
  OBVIOUS
<1> USE AuthAssumption DEF TypeOK, PCs, RowsInFamilies, RequestsKnow, BrowsersWait,
            PresentsCookie, FamilyInOneJar, CookiesDelivered, LogoutEndsSession,
            NewTokenIsPrivate, RefreshesAreOpen, Live, rows, locals, history, vars,
            Tokens, Existing, NoToken
<1>1. ASSUME NEW r \in Requests, FindToken(r) PROVE RefreshesAreOpen'
  BY <1>1 DEF FindToken, AfterFind, Done
<1>2. ASSUME NEW r \in Requests, RevokeAll(r) PROVE RefreshesAreOpen'
  BY <1>2 DEF RevokeAll, RevokedByReuse, TokensOf, Families, Racing, Done
<1>3. ASSUME NEW r \in Requests, CheckUser(r) PROVE RefreshesAreOpen'
  BY <1>3 DEF CheckUser, Done
<1>4. ASSUME NEW r \in Requests, Issue(r) PROVE RefreshesAreOpen'
  BY <1>4 DEF Issue
<1>5. ASSUME NEW r \in Requests, Retire(r) PROVE RefreshesAreOpen'
  BY <1>5 DEF Retire, RetiredBy, SuccessorOf
<1>6. ASSUME NEW r \in Requests, Respond(r) PROVE RefreshesAreOpen'
  BY <1>6 DEF Respond, CookieOf, Done
<1>7. ASSUME NEW r \in Requests, LogoutFind(r) PROVE RefreshesAreOpen'
  BY <1>7 DEF LogoutFind
<1>8. ASSUME NEW r \in Requests, LogoutRevoke(r) PROVE RefreshesAreOpen'
  <2> SUFFICES ASSUME ~overlapped, NEW q \in Requests, presented[q] # NoToken,
                      pc[q] \in {"checkUser", "issue", "retire", "respond"}
               PROVE  root[presented[q]] # root[presented[r]]
    BY <1>8 DEF LogoutRevoke
  <2>1. presented[q] = cookie[browser[q]] /\ presented[r] = cookie[browser[r]] /\ presented[r] # NoToken
    BY <1>8 DEF LogoutRevoke
  <2>2. browser[q] \in Browsers /\ browser[r] \in Browsers /\ browser[q] # browser[r]
    BY <1>8 DEF LogoutRevoke
  <2> QED
    BY <2>1, <2>2
<1>9. ASSUME NEW r \in Requests, ClearCookie(r) PROVE RefreshesAreOpen'
  BY <1>9 DEF ClearCookie, Done
<1>10. ASSUME NEW r \in Requests, Drop(r) PROVE RefreshesAreOpen'
  BY <1>10 DEF Drop, Done
<1>11. ASSUME NEW r \in Requests, NEW b \in Browsers, Refresh(r, b) PROVE
      RefreshesAreOpen'
  BY <1>11 DEF Refresh, Send
<1>12. ASSUME NEW r \in Requests, NEW b \in Browsers, Logout(r, b) PROVE
      RefreshesAreOpen'
  BY <1>12 DEF Logout, Send
<1>13. ASSUME NEW r \in Requests, NEW b \in Browsers, NEW u \in Users, Login(r, b,
      u) PROVE RefreshesAreOpen'
  BY <1>13 DEF Login, Send
<1>14. ASSUME NEW t \in Tokens, Expire(t) PROVE RefreshesAreOpen'
  BY <1>14 DEF Expire
<1>15. ASSUME NEW u \in Users, SetActive(u) PROVE RefreshesAreOpen'
  BY <1>15 DEF SetActive
<1>16. CASE UNCHANGED vars
  BY <1>16
<1> QED
  BY <1>1, <1>2, <1>3, <1>4, <1>5, <1>6, <1>7, <1>8, <1>9, <1>10, <1>11,
     <1>12, <1>13, <1>14, <1>15, <1>16 DEF Next

\* A revoked token stays revoked.
LEMMA RetiredStep == TypeOK /\ RowsInFamilies /\ RequestsKnow /\ RetiredIsRevoked /\
      [Next]_vars => RetiredIsRevoked'
<1> SUFFICES ASSUME TypeOK, RowsInFamilies, RequestsKnow, RetiredIsRevoked,
      [Next]_vars PROVE RetiredIsRevoked'
  OBVIOUS
<1> USE AuthAssumption DEF TypeOK, PCs, RowsInFamilies, RequestsKnow,
            RetiredIsRevoked, rows, locals, history, vars, Tokens, Existing, NoToken
<1>1. ASSUME NEW r \in Requests, FindToken(r) PROVE RetiredIsRevoked'
  BY <1>1 DEF FindToken, AfterFind, Done
<1>2. ASSUME NEW r \in Requests, RevokeAll(r) PROVE RetiredIsRevoked'
  BY <1>2 DEF RevokeAll, RevokedByReuse, TokensOf, Families, Racing, Done
<1>3. ASSUME NEW r \in Requests, CheckUser(r) PROVE RetiredIsRevoked'
  BY <1>3 DEF CheckUser, Done
<1>4. ASSUME NEW r \in Requests, Issue(r) PROVE RetiredIsRevoked'
  BY <1>4 DEF Issue
<1>5. ASSUME NEW r \in Requests, Retire(r) PROVE RetiredIsRevoked'
  <2>1. revoked'[presented[r]] /\ \A t \in Tokens : revoked[t] => revoked'[t]
    <3>1. revoked' = [t \in Tokens |-> revoked[t] \/ t \in {presented[r]}]
      BY <1>5 DEF Retire, RetiredBy
    <3>2. presented[r] \in Tokens
      BY <1>5 DEF Retire
    <3> QED
      BY <3>1, <3>2
  <2>2. \A q \in Requests \ {r} : pc'[q] = pc[q]
    BY <1>5 DEF Retire
  <2>3. \A q \in Requests : presented'[q] = presented[q] /\ presented[q] \in Tokens \cup {NoToken}
    BY <1>5 DEF Retire
  <2> QED
    BY <2>1, <2>2, <2>3
<1>6. ASSUME NEW r \in Requests, Respond(r) PROVE RetiredIsRevoked'
  BY <1>6 DEF Respond, CookieOf, Done
<1>7. ASSUME NEW r \in Requests, LogoutFind(r) PROVE RetiredIsRevoked'
  BY <1>7 DEF LogoutFind
<1>8. ASSUME NEW r \in Requests, LogoutRevoke(r) PROVE RetiredIsRevoked'
  BY <1>8 DEF LogoutRevoke
<1>9. ASSUME NEW r \in Requests, ClearCookie(r) PROVE RetiredIsRevoked'
  BY <1>9 DEF ClearCookie, Done
<1>10. ASSUME NEW r \in Requests, Drop(r) PROVE RetiredIsRevoked'
  BY <1>10 DEF Drop, Done
<1>11. ASSUME NEW r \in Requests, NEW b \in Browsers, Refresh(r, b) PROVE
      RetiredIsRevoked'
  BY <1>11 DEF Refresh, Send
<1>12. ASSUME NEW r \in Requests, NEW b \in Browsers, Logout(r, b) PROVE
      RetiredIsRevoked'
  BY <1>12 DEF Logout, Send
<1>13. ASSUME NEW r \in Requests, NEW b \in Browsers, NEW u \in Users, Login(r, b,
      u) PROVE RetiredIsRevoked'
  BY <1>13 DEF Login, Send
<1>14. ASSUME NEW t \in Tokens, Expire(t) PROVE RetiredIsRevoked'
  BY <1>14 DEF Expire
<1>15. ASSUME NEW u \in Users, SetActive(u) PROVE RetiredIsRevoked'
  BY <1>15 DEF SetActive
<1>16. CASE UNCHANGED vars
  BY <1>16
<1> QED
  BY <1>1, <1>2, <1>3, <1>4, <1>5, <1>6, <1>7, <1>8, <1>9, <1>10, <1>11,
     <1>12, <1>13, <1>14, <1>15, <1>16 DEF Next

\* Rotations and logouts revoke the cookie of the browser they come from, and no
\* other.
LEMMA ReplacedStep == TypeOK /\ RowsInFamilies /\ RequestsKnow /\ NoFalseAlarm /\
      BrowsersWait /\ PresentsCookie /\ FamilyInOneJar /\ NewTokenIsPrivate /\
      RotationsLink /\ RevokedIsReplaced /\ [Next]_vars => RevokedIsReplaced'
<1> SUFFICES ASSUME TypeOK, RowsInFamilies, RequestsKnow, NoFalseAlarm,
      BrowsersWait, PresentsCookie, FamilyInOneJar, NewTokenIsPrivate,
      RotationsLink, RevokedIsReplaced, [Next]_vars PROVE RevokedIsReplaced'
  OBVIOUS
<1> USE AuthAssumption DEF TypeOK, PCs, RowsInFamilies, RequestsKnow, NoFalseAlarm,
            BrowsersWait, PresentsCookie, FamilyInOneJar, NewTokenIsPrivate,
            RotationsLink, RevokedIsReplaced, rows, locals, history, vars, Tokens,
            Existing, NoToken
<1>1. ASSUME NEW r \in Requests, FindToken(r) PROVE RevokedIsReplaced'
  <2>1. \A q \in Requests : pc[q] \in {"respond", "clear"} => pc'[q] = pc[q] /\ browser'[q] = browser[q]
    BY <1>1 DEF FindToken, AfterFind, Done
  <2>2. UNCHANGED <<revoked, cookie, overlapped, lost>>
    BY <1>1 DEF FindToken
  <2>3. \A q \in Requests : created'[q] # NoToken => created'[q] = created[q]
    BY <1>1 DEF FindToken, AfterFind, Done
  <2>4. ASSUME ~overlapped, ~lost, NEW b \in Browsers, cookie[b] # NoToken, revoked[cookie[b]]
        PROVE  \E q \in Requests : pc'[q] \in {"respond", "clear"} /\ browser'[q] = b
    <3>1. PICK q \in Requests : pc[q] \in {"respond", "clear"} /\ browser[q] = b
      BY <2>4
    <3> QED
      BY <2>1, <3>1
  <2> QED
    BY <2>2, <2>3, <2>4
<1>2. ASSUME NEW r \in Requests, RevokeAll(r) PROVE RevokedIsReplaced'
  BY <1>2 DEF RevokeAll, RevokedByReuse, TokensOf, Families, Racing, Done
<1>3. ASSUME NEW r \in Requests, CheckUser(r) PROVE RevokedIsReplaced'
  <2>1. \A q \in Requests : pc[q] \in {"respond", "clear"} => pc'[q] = pc[q] /\ browser'[q] = browser[q]
    BY <1>3 DEF CheckUser, Done
  <2>2. UNCHANGED <<revoked, cookie, overlapped, lost>>
    BY <1>3 DEF CheckUser
  <2>3. \A q \in Requests : created'[q] # NoToken => created'[q] = created[q]
    BY <1>3 DEF CheckUser, Done
  <2>4. ASSUME ~overlapped, ~lost, NEW b \in Browsers, cookie[b] # NoToken, revoked[cookie[b]]
        PROVE  \E q \in Requests : pc'[q] \in {"respond", "clear"} /\ browser'[q] = b
    <3>1. PICK q \in Requests : pc[q] \in {"respond", "clear"} /\ browser[q] = b
      BY <2>4
    <3> QED
      BY <2>1, <3>1
  <2> QED
    BY <2>2, <2>3, <2>4
<1>4. ASSUME NEW r \in Requests, Issue(r) PROVE RevokedIsReplaced'
  <2>1. \A q \in Requests : pc[q] \in {"respond", "clear"} => pc'[q] = pc[q] /\ browser'[q] = browser[q]
    BY <1>4 DEF Issue
  <2>2. UNCHANGED <<revoked, cookie, overlapped, lost>>
    BY <1>4 DEF Issue
  <2>3. created' = [created EXCEPT ![r] = issued + 1] /\ ~revoked[issued + 1]
    BY <1>4 DEF Issue
  <2>4. ASSUME ~overlapped, ~lost, NEW q \in Requests, created'[q] # NoToken
        PROVE  ~revoked[created'[q]]
    BY <2>3, <2>4
  <2>5. ASSUME ~overlapped, ~lost, NEW b \in Browsers, cookie[b] # NoToken, revoked[cookie[b]]
        PROVE  \E q \in Requests : pc'[q] \in {"respond", "clear"} /\ browser'[q] = b
    <3>1. PICK q \in Requests : pc[q] \in {"respond", "clear"} /\ browser[q] = b
      BY <2>5
    <3> QED
      BY <2>1, <3>1
  <2> QED
    BY <2>2, <2>4, <2>5
<1>5. ASSUME NEW r \in Requests, Retire(r) PROVE RevokedIsReplaced'
  BY <1>5 DEF Retire, RetiredBy, SuccessorOf
<1>6. ASSUME NEW r \in Requests, Respond(r) PROVE RevokedIsReplaced'
  BY <1>6 DEF Respond, CookieOf, Done
<1>7. ASSUME NEW r \in Requests, LogoutFind(r) PROVE RevokedIsReplaced'
  BY <1>7 DEF LogoutFind
<1>8. ASSUME NEW r \in Requests, LogoutRevoke(r) PROVE RevokedIsReplaced'
  BY <1>8 DEF LogoutRevoke
<1>9. ASSUME NEW r \in Requests, ClearCookie(r) PROVE RevokedIsReplaced'
  BY <1>9 DEF ClearCookie, Done
<1>10. ASSUME NEW r \in Requests, Drop(r) PROVE RevokedIsReplaced'
  BY <1>10 DEF Drop, Done
<1>11. ASSUME NEW r \in Requests, NEW b \in Browsers, Refresh(r, b) PROVE
      RevokedIsReplaced'
  BY <1>11 DEF Refresh, Send
<1>12. ASSUME NEW r \in Requests, NEW b \in Browsers, Logout(r, b) PROVE
      RevokedIsReplaced'
  BY <1>12 DEF Logout, Send
<1>13. ASSUME NEW r \in Requests, NEW b \in Browsers, NEW u \in Users, Login(r, b,
      u) PROVE RevokedIsReplaced'
  BY <1>13 DEF Login, Send
<1>14. ASSUME NEW t \in Tokens, Expire(t) PROVE RevokedIsReplaced'
  BY <1>14 DEF Expire
<1>15. ASSUME NEW u \in Users, SetActive(u) PROVE RevokedIsReplaced'
  BY <1>15 DEF SetActive
<1>16. CASE UNCHANGED vars
  BY <1>16
<1> QED
  BY <1>1, <1>2, <1>3, <1>4, <1>5, <1>6, <1>7, <1>8, <1>9, <1>10, <1>11,
     <1>12, <1>13, <1>14, <1>15, <1>16 DEF Next

\* What a rotation delivers, it has retired the predecessor of.
LEMMA UsableStep == TypeOK /\ RowsInFamilies /\ RequestsKnow /\ CookieIsLast /\
      PresentsCookie /\ CookiesDelivered /\ LoginIsNew /\ RetiredIsRevoked /\
      RotationsLink /\ NewTokenIsPrivate /\ OneUsableToken /\ [Next]_vars =>
      OneUsableToken'
<1> SUFFICES ASSUME TypeOK, RowsInFamilies, RequestsKnow, CookieIsLast,
      PresentsCookie, CookiesDelivered, LoginIsNew, RetiredIsRevoked, RotationsLink,
      NewTokenIsPrivate, OneUsableToken, [Next]_vars PROVE OneUsableToken'
  OBVIOUS
<1> USE AuthAssumption DEF TypeOK, PCs, RowsInFamilies, RequestsKnow, CookieIsLast,
            PresentsCookie, CookiesDelivered, LoginIsNew, RetiredIsRevoked,
            RotationsLink, NewTokenIsPrivate, OneUsableToken, Live, rows, locals,
            history, vars, Tokens, Existing, NoToken
<1>1. ASSUME NEW r \in Requests, FindToken(r) PROVE OneUsableToken'
  BY <1>1 DEF FindToken, AfterFind, Done
<1>2. ASSUME NEW r \in Requests, RevokeAll(r) PROVE OneUsableToken'
  BY <1>2 DEF RevokeAll, RevokedByReuse, TokensOf, Families, Racing, Done
<1>3. ASSUME NEW r \in Requests, CheckUser(r) PROVE OneUsableToken'
  BY <1>3 DEF CheckUser, Done
<1>4. ASSUME NEW r \in Requests, Issue(r) PROVE OneUsableToken'
  BY <1>4 DEF Issue
<1>5. ASSUME NEW r \in Requests, Retire(r) PROVE OneUsableToken'
  BY <1>5 DEF Retire, RetiredBy, SuccessorOf
<1>6. ASSUME NEW r \in Requests, Respond(r) PROVE OneUsableToken'
  <2>1. created[r] \in Existing /\ delivered' = delivered \cup {created[r]}
    BY <1>6 DEF Respond, CookieOf
  <2>2. UNCHANGED <<issued, revoked, root, overlapped>>
    BY <1>6 DEF Respond
  <2>3. ASSUME ~overlapped, NEW t \in delivered, Live(t), root[t] = root[created[r]]
        PROVE  t = created[r]
    <3>1. CASE presented[r] = NoToken
      BY <2>1, <2>3, <3>1
    <3>2. CASE presented[r] # NoToken
      <4>1. root[created[r]] = root[presented[r]] /\ revoked[presented[r]]
        BY <1>6, <2>1, <3>2 DEF Respond
      <4>2. presented[r] = cookie[browser[r]] /\ browser[r] \in Browsers
        BY <1>6, <2>3, <3>2 DEF Respond
      <4>3. t = presented[r]
        BY <2>3, <3>2, <4>1, <4>2
      <4> QED
        BY <2>3, <4>1, <4>3
    <3> QED
      BY <3>1, <3>2
  <2> QED
    BY <2>1, <2>2, <2>3
<1>7. ASSUME NEW r \in Requests, LogoutFind(r) PROVE OneUsableToken'
  BY <1>7 DEF LogoutFind
<1>8. ASSUME NEW r \in Requests, LogoutRevoke(r) PROVE OneUsableToken'
  BY <1>8 DEF LogoutRevoke
<1>9. ASSUME NEW r \in Requests, ClearCookie(r) PROVE OneUsableToken'
  BY <1>9 DEF ClearCookie, Done
<1>10. ASSUME NEW r \in Requests, Drop(r) PROVE OneUsableToken'
  BY <1>10 DEF Drop, Done
<1>11. ASSUME NEW r \in Requests, NEW b \in Browsers, Refresh(r, b) PROVE
      OneUsableToken'
  BY <1>11 DEF Refresh, Send
<1>12. ASSUME NEW r \in Requests, NEW b \in Browsers, Logout(r, b) PROVE
      OneUsableToken'
  BY <1>12 DEF Logout, Send
<1>13. ASSUME NEW r \in Requests, NEW b \in Browsers, NEW u \in Users, Login(r, b,
      u) PROVE OneUsableToken'
  BY <1>13 DEF Login, Send
<1>14. ASSUME NEW t \in Tokens, Expire(t) PROVE OneUsableToken'
  BY <1>14 DEF Expire
<1>15. ASSUME NEW u \in Users, SetActive(u) PROVE OneUsableToken'
  BY <1>15 DEF SetActive
<1>16. CASE UNCHANGED vars
  BY <1>16
<1> QED
  BY <1>1, <1>2, <1>3, <1>4, <1>5, <1>6, <1>7, <1>8, <1>9, <1>10, <1>11,
     <1>12, <1>13, <1>14, <1>15, <1>16 DEF Next

\* A logout revokes the last valid token of its session.
LEMMA LogoutStep == TypeOK /\ RowsInFamilies /\ RequestsKnow /\ CookieIsLast /\
      PresentsCookie /\ RefreshesAreOpen /\ LoginIsNew /\ RotationsLink /\
      NewTokenIsPrivate /\ LogoutEndsSession /\ [Next]_vars => LogoutEndsSession'
<1> SUFFICES ASSUME TypeOK, RowsInFamilies, RequestsKnow, CookieIsLast,
      PresentsCookie, RefreshesAreOpen, LoginIsNew, RotationsLink,
      NewTokenIsPrivate, LogoutEndsSession, [Next]_vars PROVE LogoutEndsSession'
  OBVIOUS
<1> USE AuthAssumption DEF TypeOK, PCs, RowsInFamilies, RequestsKnow, CookieIsLast,
            PresentsCookie, RefreshesAreOpen, LoginIsNew, RotationsLink,
            NewTokenIsPrivate, LogoutEndsSession, Live, rows, locals, history, vars,
            Tokens, Existing, NoToken
<1>1. ASSUME NEW r \in Requests, FindToken(r) PROVE LogoutEndsSession'
  BY <1>1 DEF FindToken, AfterFind, Done
<1>2. ASSUME NEW r \in Requests, RevokeAll(r) PROVE LogoutEndsSession'
  BY <1>2 DEF RevokeAll, RevokedByReuse, TokensOf, Families, Racing, Done
<1>3. ASSUME NEW r \in Requests, CheckUser(r) PROVE LogoutEndsSession'
  BY <1>3 DEF CheckUser, Done
<1>4. ASSUME NEW r \in Requests, Issue(r) PROVE LogoutEndsSession'
  BY <1>4 DEF Issue
<1>5. ASSUME NEW r \in Requests, Retire(r) PROVE LogoutEndsSession'
  BY <1>5 DEF Retire, RetiredBy, SuccessorOf
<1>6. ASSUME NEW r \in Requests, Respond(r) PROVE LogoutEndsSession'
  <2>1. created[r] \in Existing /\ delivered' = delivered \cup {created[r]}
    BY <1>6 DEF Respond, CookieOf
  <2>2. UNCHANGED <<issued, revoked, root, overlapped, loggedOut>>
    BY <1>6 DEF Respond
  <2>3. ~overlapped => root[created[r]] \notin loggedOut
    <3>1. CASE presented[r] = NoToken
      <4>1. root[created[r]] = created[r] /\ created[r] \notin loggedOut
        BY <2>1, <3>1
      <4> QED
        BY <4>1
    <3>2. CASE presented[r] # NoToken
      <4>1. root[created[r]] = root[presented[r]]
        <5>1. created[r] # NoToken
          BY <2>1
        <5> QED
          BY <3>2, <5>1 DEF RotationsLink
      <4> QED
        BY <1>6, <3>2, <4>1 DEF Respond
    <3> QED
      BY <3>1, <3>2
  <2> QED
    BY <2>1, <2>2, <2>3
<1>7. ASSUME NEW r \in Requests, LogoutFind(r) PROVE LogoutEndsSession'
  BY <1>7 DEF LogoutFind
<1>8. ASSUME NEW r \in Requests, LogoutRevoke(r) PROVE LogoutEndsSession'
  <2>1. presented[r] \in Existing /\ browser[r] \in Browsers
    BY <1>8 DEF LogoutRevoke
  <2>2. ~overlapped => presented[r] = cookie[browser[r]]
    BY <2>1
  <2>3. /\ revoked' = [revoked EXCEPT ![presented[r]] = TRUE]
        /\ loggedOut' = loggedOut \cup {root[presented[r]]}
        /\ UNCHANGED <<issued, root, overlapped, delivered>>
    BY <1>8 DEF LogoutRevoke
  <2>4. ASSUME ~overlapped, NEW t \in delivered, Live(t)' PROVE root[t] \notin loggedOut'
    <3>1. Live(t) /\ t # presented[r]
      BY <2>1, <2>3, <2>4
    <3>2. cookie[browser[r]] # NoToken /\ presented[r] = cookie[browser[r]]
      BY <2>1, <2>2, <2>4
    <3>3. root[t] # root[presented[r]]
      BY <2>1, <2>4, <3>1, <3>2
    <3> QED
      BY <2>3, <2>4, <3>1, <3>3
  <2> QED
    BY <2>3, <2>4
<1>9. ASSUME NEW r \in Requests, ClearCookie(r) PROVE LogoutEndsSession'
  BY <1>9 DEF ClearCookie, Done
<1>10. ASSUME NEW r \in Requests, Drop(r) PROVE LogoutEndsSession'
  BY <1>10 DEF Drop, Done
<1>11. ASSUME NEW r \in Requests, NEW b \in Browsers, Refresh(r, b) PROVE
      LogoutEndsSession'
  BY <1>11 DEF Refresh, Send
<1>12. ASSUME NEW r \in Requests, NEW b \in Browsers, Logout(r, b) PROVE
      LogoutEndsSession'
  BY <1>12 DEF Logout, Send
<1>13. ASSUME NEW r \in Requests, NEW b \in Browsers, NEW u \in Users, Login(r, b,
      u) PROVE LogoutEndsSession'
  BY <1>13 DEF Login, Send
<1>14. ASSUME NEW t \in Tokens, Expire(t) PROVE LogoutEndsSession'
  BY <1>14 DEF Expire
<1>15. ASSUME NEW u \in Users, SetActive(u) PROVE LogoutEndsSession'
  BY <1>15 DEF SetActive
<1>16. CASE UNCHANGED vars
  BY <1>16
<1> QED
  BY <1>1, <1>2, <1>3, <1>4, <1>5, <1>6, <1>7, <1>8, <1>9, <1>10, <1>11,
     <1>12, <1>13, <1>14, <1>15, <1>16 DEF Next

\* A revoked cookie is about to be replaced by the only request of its browser.
LEMMA AlarmStep == TypeOK /\ RowsInFamilies /\ RequestsKnow /\ RevokedIsReplaced /\
      PresentsCookie /\ BrowsersWait /\ NoFalseAlarm /\ [Next]_vars => NoFalseAlarm'
<1> SUFFICES ASSUME TypeOK, RowsInFamilies, RequestsKnow, RevokedIsReplaced,
      PresentsCookie, BrowsersWait, NoFalseAlarm, [Next]_vars PROVE NoFalseAlarm'
  OBVIOUS
<1> USE AuthAssumption DEF TypeOK, PCs, RowsInFamilies, RequestsKnow,
            RevokedIsReplaced, PresentsCookie, BrowsersWait, NoFalseAlarm, rows,
            locals, history, vars, Tokens, Existing, NoToken
<1>1. ASSUME NEW r \in Requests, FindToken(r) PROVE NoFalseAlarm'
  <2> SUFFICES ASSUME ~overlapped, ~lost, pc'[r] = "reuse" PROVE FALSE
    BY <1>1 DEF FindToken, Done
  <2>1. presented[r] \in Existing /\ browser[r] \in Browsers /\ pc[r] = "find"
    BY <1>1 DEF FindToken
  <2>2. revoked[presented[r]] /\ presented[r] = cookie[browser[r]]
    BY <1>1, <2>1 DEF FindToken, AfterFind, Done
  <2>3. PICK q \in Requests : pc[q] \in {"respond", "clear"} /\ browser[q] = browser[r]
    BY <2>1, <2>2
  <2>4. q = r
    BY <2>1, <2>3
  <2> QED
    BY <2>1, <2>3, <2>4
<1>2. ASSUME NEW r \in Requests, RevokeAll(r) PROVE NoFalseAlarm'
  BY <1>2 DEF RevokeAll, RevokedByReuse, TokensOf, Families, Racing, Done
<1>3. ASSUME NEW r \in Requests, CheckUser(r) PROVE NoFalseAlarm'
  BY <1>3 DEF CheckUser, Done
<1>4. ASSUME NEW r \in Requests, Issue(r) PROVE NoFalseAlarm'
  BY <1>4 DEF Issue
<1>5. ASSUME NEW r \in Requests, Retire(r) PROVE NoFalseAlarm'
  BY <1>5 DEF Retire, RetiredBy, SuccessorOf
<1>6. ASSUME NEW r \in Requests, Respond(r) PROVE NoFalseAlarm'
  BY <1>6 DEF Respond, CookieOf, Done
<1>7. ASSUME NEW r \in Requests, LogoutFind(r) PROVE NoFalseAlarm'
  BY <1>7 DEF LogoutFind
<1>8. ASSUME NEW r \in Requests, LogoutRevoke(r) PROVE NoFalseAlarm'
  BY <1>8 DEF LogoutRevoke
<1>9. ASSUME NEW r \in Requests, ClearCookie(r) PROVE NoFalseAlarm'
  BY <1>9 DEF ClearCookie, Done
<1>10. ASSUME NEW r \in Requests, Drop(r) PROVE NoFalseAlarm'
  BY <1>10 DEF Drop, Done
<1>11. ASSUME NEW r \in Requests, NEW b \in Browsers, Refresh(r, b) PROVE
      NoFalseAlarm'
  BY <1>11 DEF Refresh, Send
<1>12. ASSUME NEW r \in Requests, NEW b \in Browsers, Logout(r, b) PROVE
      NoFalseAlarm'
  BY <1>12 DEF Logout, Send
<1>13. ASSUME NEW r \in Requests, NEW b \in Browsers, NEW u \in Users, Login(r, b,
      u) PROVE NoFalseAlarm'
  BY <1>13 DEF Login, Send
<1>14. ASSUME NEW t \in Tokens, Expire(t) PROVE NoFalseAlarm'
  BY <1>14 DEF Expire
<1>15. ASSUME NEW u \in Users, SetActive(u) PROVE NoFalseAlarm'
  BY <1>15 DEF SetActive
<1>16. CASE UNCHANGED vars
  BY <1>16
<1> QED
  BY <1>1, <1>2, <1>3, <1>4, <1>5, <1>6, <1>7, <1>8, <1>9, <1>10, <1>11,
     <1>12, <1>13, <1>14, <1>15, <1>16 DEF Next

----------------------------------------------------------------------------
(* The theorems. *)

\* WInv holds initially.
LEMMA WaitingInit == Init => WInv
<1> SUFFICES ASSUME Init PROVE WInv
  OBVIOUS
<1> USE DEF Init, Existing, NoToken
<1>1. BrowsersWait /\ CookiesDelivered /\ PresentsCookie /\ FamilyInOneJar /\ LoginIsNew
  BY DEF BrowsersWait, CookiesDelivered, PresentsCookie, FamilyInOneJar, LoginIsNew
<1>2. CookieIsLast /\ RefreshesAreOpen /\ RetiredIsRevoked /\ RevokedIsReplaced
  BY DEF CookieIsLast, RefreshesAreOpen, RetiredIsRevoked, RevokedIsReplaced
<1>3. OneUsableToken /\ LogoutEndsSession /\ NoFalseAlarm
  BY DEF OneUsableToken, LogoutEndsSession, NoFalseAlarm
<1> QED
  BY <1>1, <1>2, <1>3 DEF WInv

\* Every step preserves WInv.
LEMMA WaitingStep == IInv /\ WInv /\ [Next]_vars => WInv'
<1> SUFFICES ASSUME IInv, WInv, [Next]_vars PROVE WInv'
  OBVIOUS
<1> USE DEF IInv, WInv
<1>1. BrowsersWait' /\ CookiesDelivered' /\ PresentsCookie'
  BY WaitStep, DeliveredStep, PresentsStep
<1>2. FamilyInOneJar' /\ LoginIsNew' /\ CookieIsLast'
  BY JarStep, LoginStep, LastStep
<1>3. RefreshesAreOpen' /\ RetiredIsRevoked' /\ RevokedIsReplaced'
  BY OpenStep, RetiredStep, ReplacedStep
<1>4. OneUsableToken' /\ LogoutEndsSession' /\ NoFalseAlarm'
  BY UsableStep, LogoutStep, AlarmStep
<1> QED
  BY <1>1, <1>2, <1>3, <1>4

\* What browsers that wait for their answers can count on.
THEOREM WaitingInvariance == Spec => []WInv
  BY Invariance, WaitingInit, WaitingStep, PTL DEF Spec

\* A browser that waits holds at most one valid token of a session, even when a
\* rotation was cut short between its two statements.
THEOREM OneUsableTokenAlways == Spec => []OneUsableToken
  BY WaitingInvariance, PTL DEF WInv

\* A logout that nothing overlapped leaves no browser a valid token of the session.
THEOREM LogoutEndsSessionAlways == Spec => []LogoutEndsSession
  BY WaitingInvariance, PTL DEF WInv

\* A browser that waits, and gets its answers, is never taken for a thief.
THEOREM NoFalseAlarmAlways == Spec => []NoFalseAlarm
  BY WaitingInvariance, PTL DEF WInv
============================================================================
