---------------------------- MODULE AuthSession ----------------------------
(***************************************************************************)
(* Dashboard sessions: the refresh_tokens rows, the HttpOnly cookies of    *)
(* the browsers, and the login, refresh and logout requests that           *)
(* AuthService serves concurrently.  A step is the code between two        *)
(* awaits, so requests of one user, or of one browser, interleave at every *)
(* database statement.                                                     *)
(*                                                                         *)
(* Tokens are numbered in the order their rows are created.  A family is   *)
(* the tokens that descend by rotation from one login; the code keeps no   *)
(* family column, so root, like the other history variables, is only       *)
(* recorded here and no action reads it.                                   *)
(***************************************************************************)
EXTENDS Naturals, FiniteSets

CONSTANTS Users,
          NoUser,
          Browsers,   \* cookie jars
          NoBrowser,
          Requests,   \* HTTP requests that may be under way at a time
          MaxTokens,  \* bound on the refresh tokens ever issued
          MaxExpired  \* bound on those that expire

ASSUME AuthAssumption ==
    MaxTokens \in Nat /\ MaxExpired \in Nat /\ NoUser \notin Users /\ NoBrowser \notin Browsers

Tokens == 1 .. MaxTokens
NoToken == 0

VARIABLES
    active,     \* users.status = 'active' and not deleted
    issued,     \* the rows of refresh_tokens are 1 .. issued
    owner,      \* user_id
    revoked,    \* revoked_at is set
    expired,    \* expires_at has passed
    next,       \* replaced_by_id
    cookie,     \* the refresh cookie of each browser
    pc,         \* where each request is
    browser,    \* the browser that sent it
    user,       \* the user it was found to act for
    presented,  \* `stored`: the row of the cookie it carries
    created,    \* the row it has issued
    root,       \* history: the login token each token descends from
    delivered,  \* history: the tokens that reached a browser
    loggedOut,  \* history: the families a logout has revoked a token of
    alarmed,    \* history: the families a reuse alarm has revoked
    closed,     \* history: the same, while no other refresh of the user raced
    overlapped, \* history: some browser sent a request before another ended
    lost        \* history: some response that changes a cookie was lost

rows == <<issued, owner, revoked, expired, next>>
locals == <<pc, browser, user, presented, created>>
history == <<root, delivered, loggedOut, alarmed, closed, overlapped, lost>>
vars == <<active, rows, cookie, locals, history>>

PCs == {"idle", "find", "reuse", "checkUser", "issue", "retire", "respond",
        "logout", "revoke", "clear"}

Existing == 1 .. issued
TokensOf(u) == {t \in Existing : owner[t] = u}
Families(ts) == {root[t] : t \in ts}

Init ==
    /\ active = [u \in Users |-> TRUE]
    /\ issued = 0
    /\ owner = [t \in Tokens |-> NoUser]
    /\ revoked = [t \in Tokens |-> FALSE]
    /\ expired = [t \in Tokens |-> FALSE]
    /\ next = [t \in Tokens |-> NoToken]
    /\ cookie = [b \in Browsers |-> NoToken]
    /\ pc = [r \in Requests |-> "idle"]
    /\ browser = [r \in Requests |-> NoBrowser]
    /\ user = [r \in Requests |-> NoUser]
    /\ presented = [r \in Requests |-> NoToken]
    /\ created = [r \in Requests |-> NoToken]
    /\ root = [t \in Tokens |-> NoToken]
    /\ delivered = {} /\ loggedOut = {} /\ alarmed = {} /\ closed = {}
    /\ overlapped = FALSE /\ lost = FALSE

----------------------------------------------------------------------------
(* A browser sends a request with the cookie it has.                        *)

Send(r, b, u, to) ==
    /\ pc[r] = "idle"
    /\ pc' = [pc EXCEPT ![r] = to]
    /\ browser' = [browser EXCEPT ![r] = b]
    /\ user' = [user EXCEPT ![r] = u]
    /\ overlapped' = (overlapped \/ \E q \in Requests : pc[q] # "idle" /\ browser[q] = b)
    /\ UNCHANGED <<active, rows, cookie, created, root, delivered, loggedOut,
                   alarmed, closed, lost>>

\* login, up to issueSession: the credentials are right and the user is active.
Login(r, b, u) ==
    /\ active[u]
    /\ Send(r, b, u, "issue")
    /\ UNCHANGED presented

\* refresh with a cookie.  Without one the controller refuses at once.
Refresh(r, b) ==
    /\ cookie[b] # NoToken
    /\ Send(r, b, NoUser, "find")
    /\ presented' = [presented EXCEPT ![r] = cookie[b]]

\* logout, which needs no cookie.
Logout(r, b) ==
    /\ Send(r, b, NoUser, IF cookie[b] = NoToken THEN "clear" ELSE "logout")
    /\ presented' = [presented EXCEPT ![r] = cookie[b]]

\* The request leaves the server, answered or not.
Done(r) ==
    /\ pc' = [pc EXCEPT ![r] = "idle"]
    /\ browser' = [browser EXCEPT ![r] = NoBrowser]
    /\ user' = [user EXCEPT ![r] = NoUser]
    /\ presented' = [presented EXCEPT ![r] = NoToken]
    /\ created' = [created EXCEPT ![r] = NoToken]

\* The rest of the handler is lost: a statement throws, the process ends, or
\* the answer does not arrive.  What earlier statements wrote stays.
Drop(r) ==
    /\ pc[r] # "idle"
    /\ Done(r)
    /\ lost' = (lost \/ pc[r] \in {"respond", "clear"})
    /\ UNCHANGED <<active, rows, cookie, root, delivered, loggedOut, alarmed,
                   closed, overlapped>>

----------------------------------------------------------------------------
(* AuthService.refresh.                                                     *)

\* Where the checks of the stored row lead, in the order they are made.
AfterFind(t) == IF revoked[t] THEN "reuse"
                ELSE IF expired[t] THEN "idle" ELSE "checkUser"

\* findRefreshTokenByHash, and the checks of the row it returns.
FindToken(r) ==
    LET t == presented[r] IN
    /\ pc[r] = "find"
    /\ \/ AfterFind(t) = "idle" /\ Done(r)
       \/ /\ AfterFind(t) # "idle"
          /\ pc' = [pc EXCEPT ![r] = AfterFind(t)]
          /\ user' = [user EXCEPT ![r] = owner[t]]
          /\ UNCHANGED <<browser, presented, created>>
    /\ UNCHANGED <<active, rows, cookie, history>>

\* A refresh of u that is past the revocation check and has not issued yet.
Racing(q, u) == pc[q] \in {"checkUser", "issue"} /\ presented[q] # NoToken /\ user[q] = u

\* Mutation: the tokens issued after the one that was presented survive.
RevokedByReuse_Older(r) == {t \in TokensOf(user[r]) : t <= presented[r]}

\* The rows that revokeAllUserRefreshTokens updates.
RevokedByReuse(r) == TokensOf(user[r])

\* revokeAllUserRefreshTokens, then 401.
RevokeAll(r) ==
    LET fs == Families(TokensOf(user[r])) IN
    /\ pc[r] = "reuse"
    /\ revoked' = [t \in Tokens |-> revoked[t] \/ t \in RevokedByReuse(r)]
    /\ alarmed' = alarmed \cup fs
    /\ closed' = closed \cup (IF \E q \in Requests : Racing(q, user[r]) THEN {} ELSE fs)
    /\ Done(r)
    /\ UNCHANGED <<active, issued, owner, expired, next, cookie, root,
                   delivered, loggedOut, overlapped, lost>>

\* findUserById.
CheckUser(r) ==
    /\ pc[r] = "checkUser"
    /\ \/ ~active[user[r]] /\ Done(r)
       \/ /\ active[user[r]]
          /\ pc' = [pc EXCEPT ![r] = "issue"]
          /\ UNCHANGED <<browser, user, presented, created>>
    /\ UNCHANGED <<active, rows, cookie, history>>

\* issueSession: the row of the new refresh token.
Issue(r) ==
    LET t == issued + 1
        p == presented[r]
    IN
    /\ pc[r] = "issue"
    /\ issued < MaxTokens
    /\ issued' = t
    /\ owner' = [owner EXCEPT ![t] = user[r]]
    /\ root' = [root EXCEPT ![t] = IF p = NoToken THEN t ELSE root[p]]
    /\ created' = [created EXCEPT ![r] = t]
    /\ pc' = [pc EXCEPT ![r] = IF p = NoToken THEN "respond" ELSE "retire"]
    /\ UNCHANGED <<active, revoked, expired, next, cookie, browser, user, presented,
                   delivered, loggedOut, alarmed, closed, overlapped, lost>>

\* Mutation: the presented token is left as it is.
RetiredBy_None(r) == {}

\* Mutation: rotation revokes as the reuse alarm does.
RetiredBy_All(r) == TokensOf(user[r])

\* The row that revokeRefreshToken updates.
RetiredBy(r) == {presented[r]}

\* The row found by the hash of the new token.
SuccessorOf(r) == created[r]

\* revokeRefreshToken(stored.id, created.id): update where id, whatever the row
\* has become since it was read.
Retire(r) ==
    /\ pc[r] = "retire"
    /\ revoked' = [t \in Tokens |-> revoked[t] \/ t \in RetiredBy(r)]
    /\ next' = [next EXCEPT ![presented[r]] = SuccessorOf(r)]
    /\ pc' = [pc EXCEPT ![r] = "respond"]
    /\ UNCHANGED <<active, issued, owner, expired, cookie, browser, user, presented,
                   created, history>>

\* Mutation: refresh answers without a new cookie.
CookieOf_LoginOnly(r) == IF presented[r] = NoToken THEN created[r] ELSE presented[r]

\* The token setRefreshCookie sends.
CookieOf(r) == created[r]

\* The answer to login and refresh arrives.
Respond(r) ==
    /\ pc[r] = "respond"
    /\ cookie' = [cookie EXCEPT ![browser[r]] = CookieOf(r)]
    /\ delivered' = delivered \cup {CookieOf(r)}
    /\ Done(r)
    /\ UNCHANGED <<active, rows, root, loggedOut, alarmed, closed, overlapped, lost>>

----------------------------------------------------------------------------
(* AuthService.logout.                                                      *)

\* findRefreshTokenByHash: a token revoked before is left alone.
LogoutFind(r) ==
    /\ pc[r] = "logout"
    /\ pc' = [pc EXCEPT ![r] = IF revoked[presented[r]] THEN "clear" ELSE "revoke"]
    /\ UNCHANGED <<active, rows, cookie, browser, user, presented, created, history>>

\* revokeRefreshToken(stored.id): replaced_by_id becomes null.
LogoutRevoke(r) ==
    LET t == presented[r] IN
    /\ pc[r] = "revoke"
    /\ revoked' = [revoked EXCEPT ![t] = TRUE]
    /\ next' = [next EXCEPT ![t] = NoToken]
    /\ loggedOut' = loggedOut \cup {root[t]}
    /\ pc' = [pc EXCEPT ![r] = "clear"]
    /\ UNCHANGED <<active, issued, owner, expired, cookie, browser, user, presented,
                   created, root, delivered, alarmed, closed, overlapped, lost>>

\* clearRefreshCookie arrives.
ClearCookie(r) ==
    /\ pc[r] = "clear"
    /\ cookie' = [cookie EXCEPT ![browser[r]] = NoToken]
    /\ Done(r)
    /\ UNCHANGED <<active, rows, history>>

----------------------------------------------------------------------------
(* Time and administrators.                                                 *)

Expire(t) ==
    /\ t \in Existing /\ ~expired[t]
    /\ Cardinality({s \in Tokens : expired[s]}) < MaxExpired
    /\ expired' = [expired EXCEPT ![t] = TRUE]
    /\ UNCHANGED <<active, issued, owner, revoked, next, cookie, locals, history>>

\* UsersService changes the status, or deletes the user.
SetActive(u) ==
    /\ active' = [active EXCEPT ![u] = ~@]
    /\ UNCHANGED <<rows, cookie, locals, history>>

Next ==
    \/ \E r \in Requests, b \in Browsers :
        Refresh(r, b) \/ Logout(r, b) \/ \E u \in Users : Login(r, b, u)
    \/ \E r \in Requests :
        \/ FindToken(r) \/ RevokeAll(r) \/ CheckUser(r) \/ Issue(r)
        \/ Retire(r) \/ Respond(r)
        \/ LogoutFind(r) \/ LogoutRevoke(r) \/ ClearCookie(r)
        \/ Drop(r)
    \/ \E t \in Tokens : Expire(t)
    \/ \E u \in Users : SetActive(u)

Spec == Init /\ [][Next]_vars

----------------------------------------------------------------------------
(* Properties.                                                              *)

Live(t) == t \in Existing /\ ~revoked[t]

TypeOK ==
    /\ active \in [Users -> BOOLEAN]
    /\ issued \in 0 .. MaxTokens
    /\ owner \in [Tokens -> Users \cup {NoUser}]
    /\ revoked \in [Tokens -> BOOLEAN]
    /\ expired \in [Tokens -> BOOLEAN]
    /\ next \in [Tokens -> Existing \cup {NoToken}]
    /\ cookie \in [Browsers -> Existing \cup {NoToken}]
    /\ pc \in [Requests -> PCs]
    /\ browser \in [Requests -> Browsers \cup {NoBrowser}]
    /\ user \in [Requests -> Users \cup {NoUser}]
    /\ presented \in [Requests -> Existing \cup {NoToken}]
    /\ created \in [Requests -> Existing \cup {NoToken}]
    /\ root \in [Tokens -> Existing \cup {NoToken}]
    /\ delivered \subseteq Existing /\ loggedOut \subseteq Existing
    /\ alarmed \subseteq Existing /\ closed \subseteq Existing
    /\ overlapped \in BOOLEAN /\ lost \in BOOLEAN

\* A reuse alarm ends every session of its user for good: no token of a family
\* that existed then is valid ever again, unless a refresh that had already read
\* its row was under way (the claim without that condition is below).
ReuseEndsFamilies == \A t \in Tokens : Live(t) => root[t] \notin closed

\* Rotation never costs the session: whatever statement of refresh is the last
\* one to run, and however many refreshes of one token run at once, a family
\* that no logout and no alarm has ended keeps a token that is not revoked.
FamilyNeverLost ==
    \A t \in Existing :
        root[t] \notin loggedOut \cup alarmed => \E s \in Existing : root[s] = root[t] /\ Live(s)

\* Browsers that wait for an answer before the next request hold at most one
\* valid token of a family, even when rotations were cut short between the new
\* row and the retirement of the old one.
OneUsableToken ==
    ~overlapped =>
        \A s, t \in delivered : Live(s) /\ Live(t) /\ root[s] = root[t] => s = t

\* After a logout that nothing overlapped, no browser holds a valid token of
\* that session, although logout only revokes the row of the one it was sent.
LogoutEndsSession ==
    ~overlapped => \A t \in delivered : Live(t) => root[t] \notin loggedOut

\* The reuse alarm is never raised against a browser that waits for its answers
\* and receives those that change its cookie.  In particular a refresh cut
\* short before the old token is retired can be repeated.
NoFalseAlarm == ~overlapped /\ ~lost => \A r \in Requests : pc[r] # "reuse"

\* replaced_by_id leads to a later token of the same family and user, although
\* concurrent refreshes and logouts overwrite it.
SuccessorsStayInFamily ==
    \A t \in Existing :
        next[t] # NoToken =>
            /\ next[t] > t
            /\ root[next[t]] = root[t]
            /\ owner[next[t]] = owner[t]
=============================================================================
