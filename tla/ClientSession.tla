--------------------------- MODULE ClientSession ---------------------------
(***************************************************************************)
(* The session of the dashboard in one browser: the store of the access    *)
(* token, the router with its guards, the shell, and the interceptor that  *)
(* answers a 401 with one refresh shared by all who met it and a replay.   *)
(*                                                                         *)
(* Nothing is cancelled when a screen is left or a session ends but the    *)
(* refresh of a guard whose navigation is superseded.  What the server     *)
(* does with refresh tokens is AuthSession: here it grants or refuses.     *)
(***************************************************************************)
EXTENDS Permissions

CONSTANTS None, Users,
          Home,      \* the company of a user, None for a global administrator
          Granted,   \* the permissions of his role
          Companies, Locales,
          BrowserLocale, \* what is shown before a session is known
          FirstPreferred,
          LogIn,     \* bound: the users whose credentials are typed
          Clicked,   \* bound: the links that are followed, the entries of the history
          MaxOps,    \* bound: how far each of them goes on
          MaxCalls,  \* bound: the calls he leaves under way when he goes on
          Hasty      \* bound: whether he logs in while he is leaving the login page

ASSUME ClientSessionAssumption ==
    /\ None \notin Users \cup Companies \cup Paths \cup {"login"}
    /\ None \notin [user : Users \cup {None}, locale : Locales \cup {None}]
    /\ Home \in [Users -> Companies \cup {None}]
    /\ Granted \in [Users -> SUBSET AllPermissions]
    /\ BrowserLocale \in Locales /\ FirstPreferred \in [Users -> Locales]
    /\ LogIn \subseteq Users /\ Clicked \subseteq Paths /\ MaxOps \in [Users \cup {None} -> Nat]
    /\ MaxCalls \in Nat /\ Hasty \in BOOLEAN

VARIABLES
    store,     \* SessionStore: whose token it has, user and activeTenantId
    locale,    \* activeLocale
    route,     \* the screen shown: a path, "login", or None while the page loads
    nav,       \* where a navigation under way leads, None if there is none
    calls,     \* HTTP calls, in the order sent
    cookie,    \* server: the user whose refresh token the browser has
    preferred, \* server: preferredLocale
    ops,
    listening, \* whether the dashboard was shown: it listens to changes of the
               \* company even after it is left
    shownTo,   \* history: the user the screen was shown to, None once his
               \* session has ended
    turned,    \* history: without a session, the user turned from the way to
               \* the login page
    deselected,\* history: the user left no company selected on this screen
    astray     \* history: the locale last came from an answer that had been
               \* overtaken by a change, or a change of it was lost

seen == <<shownTo, turned, deselected>>
vars == <<store, locale, route, nav, calls, cookie, preferred, ops, listening, seen, astray>>

Global(u) == u # None /\ Home[u] = None
May(permission, u) == u # None /\ Holds(permission, Granted[u], Global(u))

Empty == [token |-> None, user |-> None, tenant |-> None]

Tries(kind) == \E i \in DOMAIN calls : calls[i].kind = kind
Waits(kind) == \E i \in DOMAIN calls : calls[i].kind = kind /\ calls[i].waited

\* The header jwtInterceptor and a replay send.
Header(s) == IF Global(s.user) THEN s.tenant ELSE None

Call(kind) == [kind |-> kind, answer |-> None, late |-> FALSE]

\* A call that goes through errorInterceptor.
Load(tenants, needsCompany, allowed, s) ==
    [kind |-> "load", answer |-> None, late |-> FALSE, tenants |-> tenants,
     needsCompany |-> needsCompany, allowed |-> allowed, replayed |-> FALSE,
     waiting |-> FALSE, token |-> s.token, header |-> Header(s)]

\* What requirePermission and the like ask of the user of a call, and with it
\* what requireTenantContext asks of the company the call is about.
Grants(op, u) == u # None /\ Allowed(op, Granted[u], Global(u))
Serves(op, u, company) == Grants(op, u) /\ (NeedsCompany(op) /\ Global(u) => company # None)

\* One call stands for those of a screen: it needs whatever one of them needs.
\* Tables and charts load whoever looks at them.
GrantedTo(u) == IF u = None THEN {} ELSE Granted[u]
LoadsOf(p, s) ==
    LET asked == Opens(p, GrantedTo(s.user), Global(s.user))
    IN  <<Load(FALSE, \E op \in asked : NeedsCompany(op),
                 \A op \in asked : Grants(op, s.token), s)>>

Tenants(s) == Load(TRUE, FALSE, Global(s.token), s)

\* The calls of s at the places of K, in their order.
Rank(K, j) == Cardinality({i \in K : i <= j})
Kept(s, K) ==
    IF K = DOMAIN s THEN s
    ELSE [k \in 1 .. Cardinality(K) |-> s[CHOOSE j \in K : Rank(K, j) = k]]

-----------------------------------------------------------------------------
\* The page is loaded at some address, with or without a cookie.
Init ==
    /\ store = Empty
    /\ locale = BrowserLocale
    /\ route = None /\ nav \in Paths \cup {"login"}
    /\ calls = <<>>
    /\ cookie \in Users \cup {None}
    /\ preferred = FirstPreferred
    /\ ops = 0 /\ listening = FALSE /\ astray = FALSE
    /\ shownTo = None /\ turned = FALSE /\ deselected = FALSE

-----------------------------------------------------------------------------
(* SessionStore.                                                            *)

SetSession(u, l) ==
    /\ store' = [token |-> u, user |-> u, tenant |-> IF Global(u) THEN store.tenant ELSE Home[u]]
    /\ locale' = l
    /\ turned' = FALSE /\ UNCHANGED <<shownTo, deselected>>

\* clear: the language stays, it was cached when it was last shown.
Clear ==
    /\ store' = Empty /\ UNCHANGED locale
    /\ shownTo' = None /\ turned' = FALSE /\ deselected' = FALSE

\* A navigation supersedes the one under way, with the refresh of its guard.
Navigate(p, rest) ==
    /\ nav' = p
    /\ calls' = Kept(rest, {j \in DOMAIN rest : rest[j].kind # "guard"})

\* Mutation: the session is cleared where the user is.
Ended_Here(rest) == Clear /\ calls' = rest /\ UNCHANGED nav

\* Logout, a refresh that failed and a replay that failed end alike.
Ended(rest) == Clear /\ Navigate("login", rest)

-----------------------------------------------------------------------------
(* The router.                                                              *)

Landing(u) == IF May(<<"price-catalog", "read">>, u) THEN "price-catalog" ELSE "dashboard"

\* Mutation: whoever lacks a permission is sent to the dashboard.
Denied_Dashboard(u) == "dashboard"

\* Where permissionGuard and globalAdminGuard send a user who may not enter.
Denied(u) == Landing(u)

\* Where the guards of a route send the user instead, None if he may enter:
\* tenantGuard goes before permissionGuard.
SentTo(p) ==
    IF p = "companies" THEN IF Global(store.user) THEN None ELSE Denied(store.user)
    ELSE IF Global(store.user) /\ store.tenant = None THEN "companies"
    ELSE IF May(<<p, "read">>, store.user) THEN None ELSE Denied(store.user)

\* The shell waits for a language it saves and the login page for a login it
\* sends, and neither for what was sent before it was entered.
WaitsNoMore(kind) ==
    [i \in DOMAIN calls |-> IF calls[i].kind = kind THEN [calls[i] EXCEPT !.waited = FALSE]
                            ELSE calls[i]]

\* A screen is shown.  The shell, when it is entered, asks for the companies.
Show(p) ==
    /\ route' = p /\ nav' = None
    /\ shownTo' = store.user /\ turned' = FALSE /\ deselected' = FALSE
    /\ listening' = (listening \/ p = "dashboard")
    /\ calls' = IF p = "login" THEN WaitsNoMore("locale")
                ELSE WaitsNoMore("login")
                        \o (IF route \in Paths \/ ~Global(store.user) THEN <<>>
                            ELSE <<Tenants(store)>>)
                        \o LoadsOf(p, store)

Redirect(p) == nav' = p /\ UNCHANGED <<route, calls, listening, seen>>

\* guestGuard, and authGuard when the shell is entered, then the other guards.
Guards ==
    /\ nav # None /\ ~Tries("guard")
    /\ CASE nav = route -> Redirect(None)
         [] nav = "login" /\ nav # route ->
               IF store.token = None THEN Show("login") ELSE Redirect(Landing(store.user))
         [] nav \in Paths /\ route \notin Paths /\ store.token = None ->
               /\ calls' = Append(calls, Call("guard"))
               /\ UNCHANGED <<route, nav, listening, seen>>
         [] OTHER -> IF SentTo(nav) = None THEN Show(nav) ELSE Redirect(SentTo(nav))
    /\ UNCHANGED <<store, locale, cookie, preferred, ops, astray>>

-----------------------------------------------------------------------------
(* What is done at the keyboard.                                            *)

User ==
    /\ ops < MaxOps[store.user] /\ Len(calls) <= MaxCalls /\ ops' = ops + 1
    /\ UNCHANGED <<route, cookie, preferred, listening, shownTo>>

\* A navigation of the user's own, which supersedes the one to the login page as
\* well as any other.
Turns(p) ==
    /\ Navigate(p, calls)
    /\ turned' = (turned \/ (route \in Paths /\ nav = "login" /\ p # "login"
                                            /\ store.token = None))
    /\ UNCHANGED <<store, locale, deselected, astray>>

\* The sidebar shows what the user may read, the dashboard its links to anyone.
Links ==
    (IF store.user = None THEN {} ELSE NavItems(Granted[store.user], Global(store.user)))
    \cup (IF route = "dashboard" THEN DashboardLinks ELSE {})

Follow(p) == User /\ route \in Paths /\ p \in Links /\ Turns(p)

\* Back and forward.  The history reaches back to what was shown before the page
\* was loaded.
Browse(p) == User /\ Turns(p)

\* A search, a page, a form.
Ask ==
    /\ User
    /\ route \in Paths
    /\ calls' = calls \o LoadsOf(route, store)
    /\ UNCHANGED <<store, locale, nav, turned, deselected, astray>>

Login(u) ==
    /\ User
    /\ route = "login" /\ ~Waits("login") /\ (nav # None => Hasty)
    /\ calls' = Append(calls, [kind |-> "login", answer |-> None, late |-> FALSE,
                               user |-> u, waited |-> TRUE])
    /\ UNCHANGED <<store, locale, nav, turned, deselected, astray>>

Logout ==
    /\ User
    /\ route \in Paths
    /\ calls' = Append(calls, Call("logout"))
    /\ UNCHANGED <<store, locale, nav, turned, deselected, astray>>

\* changeLanguage shows the language before it is saved.
ChangeLanguage(l) ==
    /\ User
    /\ route \in Paths
    /\ ~Waits("locale")
    /\ l # locale /\ locale' = l
    /\ calls' = Append(calls, [kind |-> "locale", answer |-> None, late |-> FALSE,
                               user |-> store.token, wanted |-> l, previous |-> locale,
                               astray |-> astray \/ Tries("locale"), waited |-> TRUE])
    /\ UNCHANGED <<store, nav, turned, deselected, astray>>

\* TenantContextService.select: the tables, the catalog and the dashboard ask
\* again; one load stands for those of the screen and of a dashboard left.
Selected(t, rest) ==
    LET s == [store EXCEPT !.tenant = t] IN
    /\ store' = s
    /\ calls' = rest \o IF route \in Paths \ {"settings"} THEN LoadsOf(route, s)
                        ELSE IF listening THEN LoadsOf("dashboard", s) ELSE <<>>

SelectTenant(t) ==
    /\ User
    /\ route \in Paths /\ Global(store.user) /\ t # store.tenant
    /\ Selected(t, calls) /\ deselected' = (t = None)
    /\ UNCHANGED <<locale, nav, turned, astray>>

-----------------------------------------------------------------------------
(* The server.                                                              *)

AnswerTo(i, a) == calls' = [calls EXCEPT ![i].answer = a]

Refused == [user |-> None, locale |-> None]
As(u, prefs) == [user |-> u, locale |-> prefs[u]]

\* Whatever brings a locale and was answered before a change was made is late,
\* and so is another change under way, and this one if its answer is lost.
Changed(i, a, lost) ==
    calls' = [j \in DOMAIN calls |->
                 IF j = i THEN [calls[j] EXCEPT !.answer = a, !.late = lost]
                 ELSE [calls[j] EXCEPT !.late = calls[j].late \/ calls[j].answer # None
                                                     \/ calls[j].kind = "locale"]]

\* A refresh: granted; refused, whether the token has expired, was revoked or is
\* met again; or not answered.
Refreshes(i) ==
    \/ cookie # None /\ AnswerTo(i, As(cookie, preferred)) /\ UNCHANGED cookie
    \/ AnswerTo(i, Refused) /\ cookie' \in {cookie, None}

Serve(i) ==
    /\ calls[i].answer = None
    /\ CASE calls[i].kind \in {"refresh", "guard"} -> Refreshes(i) /\ UNCHANGED preferred
         [] calls[i].kind = "login" ->
               /\ \/ AnswerTo(i, As(calls[i].user, preferred)) /\ cookie' = calls[i].user
                  \/ AnswerTo(i, Refused) /\ cookie' \in {cookie, calls[i].user}
               /\ UNCHANGED preferred
         [] calls[i].kind = "logout" ->
               AnswerTo(i, Refused) /\ cookie' \in {cookie, None} /\ UNCHANGED preferred
         [] calls[i].kind = "locale" ->
               /\ \/ /\ calls[i].user # None
                     /\ preferred' = [preferred EXCEPT ![calls[i].user] = calls[i].wanted]
                     /\ Changed(i, As(calls[i].user, preferred'), FALSE) \/ Changed(i, Refused, TRUE)
                  \/ AnswerTo(i, Refused) /\ UNCHANGED preferred
               /\ UNCHANGED cookie
         [] calls[i].kind = "load" -> FALSE
    /\ UNCHANGED <<store, locale, route, nav, ops, listening, seen, astray>>

-----------------------------------------------------------------------------
(* Answers.                                                                 *)

Lands(i) == calls[i].answer # None /\ UNCHANGED <<route, cookie, preferred, ops, listening>>

Without(i) == RemoveAt(calls, i)

Failed(c) == c.answer.user = None

LoginLands(i) ==
    LET c == calls[i] IN
    /\ Lands(i) /\ c.kind = "login"
    /\ IF Failed(c) THEN calls' = Without(i) /\ UNCHANGED <<store, locale, nav, seen, astray>>
       ELSE /\ SetSession(c.answer.user, c.answer.locale) /\ astray' = c.late
            /\ Navigate("dashboard", Without(i))

LogoutLands(i) ==
    /\ Lands(i) /\ calls[i].kind = "logout"
    /\ Ended(Without(i)) /\ UNCHANGED astray

GuardLands(i) ==
    LET c == calls[i] IN
    /\ Lands(i) /\ c.kind = "guard"
    /\ calls' = Without(i)
    /\ IF Failed(c) THEN nav' = "login" /\ UNCHANGED <<store, locale, seen, astray>>
       ELSE SetSession(c.answer.user, c.answer.locale) /\ astray' = c.late /\ UNCHANGED nav

\* Mutation: who waits for a refresh that fails is forgotten.
Given_Forgotten(rest) == rest

\* A failed refresh fails whoever waits for it.
Given(rest) == Kept(rest, {j \in DOMAIN rest : ~(rest[j].kind = "load" /\ rest[j].waiting)})

\* What a replay sends: setHeaders puts a company in place of the one the call was
\* sent with, and leaves that one where there is none.
HeaderAgain(w, s) == IF Header(s) # None THEN Header(s) ELSE w.header

\* It is shared: whoever waits for it replays its call with what the session has
\* by now, or leaves for the login page.
RefreshLands(i) ==
    LET c == calls[i] IN
    /\ Lands(i) /\ c.kind = "refresh"
    /\ IF Failed(c) THEN Ended(Given(Without(i))) /\ UNCHANGED astray
       ELSE /\ SetSession(c.answer.user, c.answer.locale) /\ astray' = c.late
            /\ calls' = [j \in DOMAIN Without(i) |->
                            LET w == Without(i)[j] IN
                            IF w.kind = "load" /\ w.waiting
                            THEN [w EXCEPT !.waiting = FALSE, !.replayed = TRUE,
                                           !.token = store'.token, !.header = HeaderAgain(w, store')]
                            ELSE w]
            /\ UNCHANGED nav

\* Mutation: the language shown before the answer stays.
RolledBack_Not(c) == locale

RolledBack(c) == c.previous

\* patchUser, whoever is logged in by now, or the language before.
LocaleLands(i) ==
    LET c == calls[i] IN
    /\ Lands(i) /\ c.kind = "locale"
    /\ calls' = Without(i)
    /\ IF Failed(c)
       THEN /\ locale' = RolledBack(c)
            /\ astray' = (astray \/ c.astray \/ c.late \/ c.user # store.token)
            /\ UNCHANGED store
       ELSE /\ store' = [store EXCEPT !.user = c.answer.user]
            /\ locale' = c.answer.locale
            /\ astray' = (c.late \/ c.user # store.token)
    /\ UNCHANGED <<nav, seen>>

\* Without a token, without a company where one is needed, or with an expired
\* token the answer is a 401; a header that is not his is refused.
Answers(c) ==
    IF c.token = None \/ (c.needsCompany /\ Global(c.token) /\ c.header = None)
    THEN {"401", "error"}
    ELSE {"401", "error"} \cup IF c.allowed /\ (c.header # None => Global(c.token)) THEN {"ok"} ELSE {}

\* errorInterceptor: the catch behind the replay is met by whatever goes wrong.
LoadLands(i) ==
    LET c == calls[i] IN
    /\ c.kind = "load" /\ ~c.waiting
    /\ \E a \in Answers(c) :
          CASE a = "401" /\ ~c.replayed ->
                  /\ calls' = [calls EXCEPT ![i].waiting = TRUE]
                                 \o IF Tries("refresh") THEN <<>> ELSE <<Call("refresh")>>
                  /\ UNCHANGED <<store, locale, nav, seen>>
            [] a # "ok" /\ c.replayed -> Ended(Without(i))
            [] a = "ok" /\ c.tenants /\ store.tenant = None ->
                  \E t \in Companies \cup {None} :
                     /\ IF t = None THEN UNCHANGED <<store, deselected>> /\ calls' = Without(i)
                        ELSE Selected(t, Without(i)) /\ deselected' = FALSE
                     /\ UNCHANGED <<locale, nav, shownTo, turned>>
            [] OTHER -> calls' = Without(i) /\ UNCHANGED <<store, locale, nav, seen>>
    /\ UNCHANGED <<route, cookie, preferred, ops, listening, astray>>

-----------------------------------------------------------------------------
Answer ==
    \E i \in DOMAIN calls :
        \/ Serve(i) \/ LoadLands(i) \/ LoginLands(i) \/ LogoutLands(i)
        \/ GuardLands(i) \/ RefreshLands(i) \/ LocaleLands(i)

Next ==
    \/ Guards \/ Answer
    \/ \E p \in Clicked : Follow(p)
    \/ \E p \in Clicked \cup {"login"} : Browse(p)
    \/ \E u \in LogIn : Login(u)
    \/ \E l \in Locales : ChangeLanguage(l)
    \/ \E t \in Companies \cup {None} : SelectTenant(t)
    \/ Ask \/ Logout

\* Calls are answered and the router goes on.
Fairness == WF_vars(Answer) /\ WF_vars(Guards)

Spec == Init /\ [][Next]_vars /\ Fairness

-----------------------------------------------------------------------------
(* Properties.                                                              *)

Settled == calls = <<>> /\ nav = None

\* However answers, refreshes, a logout and a login overlap, a page without a
\* session comes to rest at the login page and nowhere else, unless the user turned
\* back on the way there himself, which no guard stops, or a change of language
\* that landed after the end has brought him back without a token.
SessionEndsAtLogin ==
    Settled /\ store.token = None /\ store.user = None => route = "login" \/ turned

Seeded(u) == Granted[u] \in {SystemRole[r] : r \in DOMAIN SystemRole}

\* A global administrator on the screen of the companies before he has one.
StillWithoutCompany(op) ==
    route = "companies" /\ store.tenant = None /\ op = <<"currencies", "read">>

\* Routes, sidebar, buttons and API were written apart: whatever a user of a
\* seeded role is shown of a screen, the API does not refuse him, neither for a
\* permission nor for want of a company, unless he has deselected the company on
\* that screen, or it is the currencies for the form of the first company; as long
\* as the session he entered it with goes on, and is not another one's by now.
ScreensAreServed ==
    LET u == store.user IN
    u # None /\ {store.token, shownTo} = {u} /\ Seeded(u) /\ route \in Paths =>
        \A op \in Opens(route, Granted[u], Global(u)) \cup Offers(route, Granted[u], Global(u)) :
            \/ Serves(op, u, store.tenant)
            \/ Grants(op, u) /\ (deselected \/ StillWithoutCompany(op))

\* Once all has landed, and unless an answer was overtaken or lost, the
\* language shown is the one the server has for the user: a refresh, a login
\* and a change that is rolled back may overlap.
LocaleIsPreferred ==
    Settled /\ store.token # None /\ ~astray => locale = preferred[store.token]

\* A browser never presents its cookie twice at a time for calls that have met a
\* 401, nor twice for a guard, and no call waits for a refresh that is not under
\* way, whatever a logout or a login has done to the session meanwhile.  Of the
\* one kind and of the other there can be one each, when the user goes back from
\* the login page while a call from before is refused.
RefreshIsShared ==
    /\ \A k \in {"refresh", "guard"} :
          \A i, j \in DOMAIN calls : calls[i].kind = k /\ calls[j].kind = k => i = j
    /\ \A i \in DOMAIN calls : calls[i].kind = "load" /\ calls[i].waiting => Tries("refresh")

\* A navigation ends, unless the user may read neither the catalog nor the
\* dashboard, or has turned from the way to the login page and so is nobody: guards
\* that send anyone else to each other must not go on for ever.
NavigationSettles ==
    nav # None ~> \/ nav = None \/ turned
                  \/ /\ store.user # None
                     /\ ~May(<<"price-catalog", "read">>, store.user)
                     /\ ~May(<<"dashboard", "read">>, store.user)

\* A guard that sends to the route it guards: the router does nothing else.
GoesRound ==
    /\ nav \in Paths \ {route} /\ SentTo(nav) = nav
    /\ route \in Paths \/ store.token # None

\* Every call ends, those that wait for the refresh of another one included, as
\* long as the router leaves the page the time to hear of it.
EveryCallSettles == calls # <<>> ~> calls = <<>> \/ GoesRound
=============================================================================
