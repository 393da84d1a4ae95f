------------------------ MODULE ClientSessionProofs ------------------------
(***************************************************************************)
(* Proofs about ClientSession for every set of users, companies and        *)
(* languages, whatever permissions the users have, and for any number of   *)
(* calls under way.                                                        *)
(***************************************************************************)
EXTENDS ClientSession, TLAPS, SequenceTheorems, FiniteSetTheorems

----------------------------------------------------------------------------
(* Permissions: what is needed of a role for its screens to be served.      *)


\* Who may read a screen may read what its select fields are filled from; who is
\* shown a panel may do what the panel asks for.
SourcesIn(g) ==
    /\ <<"price-lists", "read">> \in g => <<"currencies", "read">> \in g
    /\ <<"products", "read">> \in g => <<"currencies", "read">> \in g
    /\ <<"settings", "read">> \in g => <<"currencies", "read">> \in g
    /\ <<"users", "read">> \in g => <<"roles", "read">> \in g
    /\ <<"discounts", "read">> \in g =>
          /\ <<"products", "read">> \in g /\ <<"price-lists", "read">> \in g
          /\ <<"marketplaces", "read">> \in g
    /\ <<"prices", "read">> \in g =>
          /\ <<"products", "read">> \in g /\ <<"price-lists", "read">> \in g
          /\ <<"marketplaces", "read">> \in g /\ <<"currencies", "read">> \in g

PanelsIn(g) ==
    /\ <<"price-list-access", "manage">> \in g =>
          <<"price-list-access", "read">> \in g /\ <<"price-lists", "read">> \in g
    /\ <<"price-lists", "update">> \in g => <<"marketplaces", "read">> \in g
    /\ <<"roles", "assign-permissions">> \in g =>
          <<"roles", "read">> \in g /\ <<"permissions", "read">> \in g
    /\ <<"prices", "create">> \in g => <<"prices", "calculate">> \in g
    /\ <<"prices", "update">> \in g => <<"prices", "calculate">> \in g
    /\ <<"api-keys", "read">> \in g => <<"api-keys", "revoke">> \in g

LEMMA SeededRoles ==
    ASSUME NEW r \in DOMAIN SystemRole
    PROVE  SourcesIn(SystemRole[r]) /\ PanelsIn(SystemRole[r])
<1>1. PICK g : g = SystemRole[r]
  OBVIOUS
<1>2. CASE r = "global_admin" \/ r = "tenant_admin"
  <2>1. g = AllPermissions \/ g = AllPermissions \ On("tenants", {"create", "update", "delete", "switch"})
    BY <1>1, <1>2 DEF SystemRole
  <2>2. \A p \in AllPermissions : p[1] # "tenants" => p \in g
    BY <2>1 DEF On
  <2>3. SourcesIn(g)
    <3>1. /\ <<"currencies", "read">> \in AllPermissions /\ <<"roles", "read">> \in AllPermissions
          /\ <<"products", "read">> \in AllPermissions /\ <<"price-lists", "read">> \in AllPermissions
          /\ <<"marketplaces", "read">> \in AllPermissions
      BY DEF AllPermissions, On, Crud
    <3> QED
      BY <2>2, <3>1 DEF SourcesIn
  <2>4. PanelsIn(g)
    <3>1. /\ <<"price-list-access", "read">> \in AllPermissions
          /\ <<"price-lists", "read">> \in AllPermissions
          /\ <<"marketplaces", "read">> \in AllPermissions /\ <<"roles", "read">> \in AllPermissions
          /\ <<"permissions", "read">> \in AllPermissions
          /\ <<"prices", "calculate">> \in AllPermissions
          /\ <<"api-keys", "revoke">> \in AllPermissions
      BY DEF AllPermissions, On, Crud
    <3> QED
      BY <2>2, <3>1 DEF PanelsIn
  <2> QED
    BY <1>1, <2>3, <2>4
<1>3. CASE r = "tenant_user" \/ r = "readonly_user"
  <2>1. /\ ReadOnly \subseteq g
        /\ \A p \in g : p[2] = "read" => p \in ReadOnly
        /\ \A p \in g : p[1] \in {"products", "marketplaces", "price-lists", "prices", "discounts",
                                  "price-history", "currencies", "dashboard"}
        /\ r = "readonly_user" => g = ReadOnly
        /\ r = "tenant_user" => <<"prices", "calculate">> \in g
    BY <1>1, <1>3 DEF SystemRole, ReadOnly, Operated, On
  <2>2. /\ <<"currencies", "read">> \in g /\ <<"products", "read">> \in g
        /\ <<"price-lists", "read">> \in g /\ <<"marketplaces", "read">> \in g
    BY <2>1 DEF ReadOnly
  <2>3. SourcesIn(g)
    BY <2>1, <2>2 DEF SourcesIn
  <2>4. PanelsIn(g)
    <3>1. /\ <<"price-list-access", "manage">> \notin g /\ <<"roles", "assign-permissions">> \notin g
          /\ <<"api-keys", "read">> \notin g
      BY <2>1
    <3>2. r = "readonly_user" => <<"prices", "create">> \notin g /\ <<"prices", "update">> \notin g
      BY <2>1 DEF ReadOnly
    <3> QED
      BY <1>3, <2>1, <2>2, <3>1, <3>2 DEF PanelsIn
  <2> QED
    BY <1>1, <2>3, <2>4
<1>4. CASE r = "price_catalog_viewer"
  <2>1. \A p \in g : p[1] = "price-catalog"
    BY <1>1, <1>4 DEF SystemRole, On
  <2> QED
    BY <1>1, <2>1 DEF SourcesIn, PanelsIn
<1> QED
  BY <1>2, <1>3, <1>4 DEF SystemRole

\* An operation that needs the permission of its own name.
LEMMA NeedsItself ==
    ASSUME NEW a, NEW b, NEW g,
           a \notin {"tenants", "role-permissions", "price-list-marketplaces", "price-list-products",
                     "catalog-exports", "time-zone"},
           <<a, b>> \in g
    PROVE  Allowed(<<a, b>>, g, FALSE)
  BY DEF Allowed, ForGlobalAdmin, Needs

\* What a screen asks for when it is shown to a user of a company.
LEMMA OpensServed ==
    ASSUME NEW g, SourcesIn(g), NEW p \in Paths \ {"companies"}, <<p, "read">> \in g,
           NEW op \in Opens(p, g, FALSE)
    PROVE  Allowed(op, g, FALSE)
<1>1. CASE p = "dashboard"
  <2>1. op = <<"dashboard", "read">>
    BY <1>1 DEF Opens
  <2> QED
    BY <1>1, <2>1, NeedsItself
<1>2. CASE p = "settings"
  <2>1. op = <<"currencies", "read">> \/ op = <<"own-tenant", "read">>
    BY <1>2 DEF Opens, SettingsOpens
  <2>2. <<"currencies", "read">> \in g
    BY <1>2 DEF SourcesIn
  <2>3. Allowed(<<"currencies", "read">>, g, FALSE) /\ Allowed(<<"own-tenant", "read">>, g, FALSE)
    BY <2>2, NeedsItself DEF Allowed
  <2> QED
    BY <2>1, <2>3
<1>3. CASE p = "price-catalog"
  <2>1. \/ op = <<"price-catalog", "read">>
        \/ op = <<"catalog-exports", "read">> /\ <<"price-catalog", "export">> \in g
    BY <1>3 DEF Opens, CatalogOpens, Holds
  <2>2. Allowed(<<"price-catalog", "read">>, g, FALSE)
    BY <1>3, NeedsItself
  <2>3. <<"price-catalog", "export">> \in g => Allowed(<<"catalog-exports", "read">>, g, FALSE)
    BY DEF Allowed, ForGlobalAdmin, Needs
  <2> QED
    BY <2>1, <2>2, <2>3
<1>4. CASE p \notin {"dashboard", "settings", "price-catalog"}
  <2>1. PICK r \in {p} \cup SelectSources(p) : op = <<r, "read">>
    BY <1>4 DEF Opens, Resource
  <2>2. r = p \/ r \in {"currencies", "roles", "products", "price-lists", "marketplaces"}
    BY <2>1 DEF SelectSources
  <2>3. <<r, "read">> \in g
    <3>1. CASE p = "users"
      BY <2>1, <3>1 DEF SelectSources, SourcesIn
    <3>2. CASE p = "price-lists" \/ p = "products"
      BY <2>1, <3>2 DEF SelectSources, SourcesIn
    <3>3. CASE p = "discounts"
      BY <2>1, <3>3 DEF SelectSources, SourcesIn
    <3>4. CASE p = "prices"
      BY <2>1, <3>4 DEF SelectSources, SourcesIn
    <3>5. CASE p \notin {"users", "price-lists", "products", "discounts", "prices"}
      BY <2>1, <3>5 DEF SelectSources
    <3> QED
      BY <3>1, <3>2, <3>3, <3>4, <3>5
  <2> QED
    BY <2>1, <2>2, <2>3, NeedsItself DEF Paths
<1> QED
  BY <1>1, <1>2, <1>3, <1>4

\* What the buttons and panels of a screen ask for when its user is of a company.
LEMMA OffersServed ==
    ASSUME NEW g, PanelsIn(g), NEW p \in Paths \ {"companies"}, <<p, "read">> \in g,
           NEW op \in Offers(p, g, FALSE)
    PROVE  Allowed(op, g, FALSE)
<1>1. ASSUME op \in Forms(p, g, FALSE) PROVE Allowed(op, g, FALSE)
  <2>1. PICK a \in Crud \ {"read"} : op \in If(Shows(<<Resource(p), a>>, g, FALSE), {<<Resource(p), a>>})
    BY <1>1 DEF Forms
  <2>2. op = <<p, a>> /\ <<p, a>> \in g
    BY <2>1 DEF If, Shows, Holds, Resource
  <2> QED
    BY <2>2, NeedsItself DEF Paths
<1>2. CASE p = "settings"
  <2>1. op = <<"time-zone", "update">> /\ <<"settings", "update">> \in g
    BY <1>2 DEF Offers, SettingsOffer, If, Shows, Holds
  <2> QED
    BY <2>1 DEF Allowed, ForGlobalAdmin, Needs
<1>3. CASE p = "price-catalog"
  <2>1. \E a \in {"read", "create"} : op = <<"catalog-exports", a>>
    BY <1>3 DEF Offers, CatalogOffer, If, Shows, Holds, On
  <2>2. <<"price-catalog", "export">> \in g
    BY <1>3 DEF Offers, CatalogOffer, If, Shows, Holds
  <2> QED
    BY <2>1, <2>2 DEF Allowed, ForGlobalAdmin, Needs
<1>4. CASE p = "users"
  <2>1. \/ op \in Forms(p, g, FALSE)
        \/ /\ <<"price-list-access", "manage">> \in g
           /\ \/ op = <<"price-list-access", "read">> \/ op = <<"price-list-access", "manage">>
              \/ op = <<"price-lists", "read">>
    BY <1>4 DEF Offers, UsersOffer, If, Shows, Holds, On
  <2>2. <<"price-list-access", "manage">> \in g =>
           /\ Allowed(<<"price-list-access", "read">>, g, FALSE)
           /\ Allowed(<<"price-list-access", "manage">>, g, FALSE)
           /\ Allowed(<<"price-lists", "read">>, g, FALSE)
    BY NeedsItself DEF PanelsIn
  <2> QED
    BY <1>1, <2>1, <2>2
<1>5. CASE p = "price-lists"
  <2>1. \/ op \in Forms(p, g, FALSE)
        \/ /\ <<"price-lists", "update">> \in g
           /\ op = <<"price-list-marketplaces", "update">> \/ op = <<"marketplaces", "read">>
    BY <1>5 DEF Offers, PriceListsOffer, If, Shows, Holds
  <2>2. <<"price-lists", "update">> \in g => Allowed(<<"marketplaces", "read">>, g, FALSE)
    BY NeedsItself DEF PanelsIn
  <2>3. <<"price-lists", "update">> \in g => Allowed(<<"price-list-marketplaces", "update">>, g, FALSE)
    BY DEF Allowed, ForGlobalAdmin, Needs
  <2> QED
    BY <1>1, <2>1, <2>2, <2>3
<1>6. CASE p = "roles"
  <2>1. \/ op \in Forms(p, g, FALSE)
        \/ /\ <<"roles", "assign-permissions">> \in g
           /\ \/ op = <<"role-permissions", "read">> \/ op = <<"role-permissions", "update">>
              \/ op = <<"permissions", "read">>
    BY <1>6 DEF Offers, RolesOffer, If, Shows, Holds, On
  <2>2. <<"roles", "assign-permissions">> \in g => Allowed(<<"permissions", "read">>, g, FALSE)
    BY NeedsItself DEF PanelsIn
  <2>3. <<"roles", "assign-permissions">> \in g =>
           /\ Allowed(<<"role-permissions", "read">>, g, FALSE)
           /\ Allowed(<<"role-permissions", "update">>, g, FALSE)
    BY DEF Allowed, ForGlobalAdmin, Needs, PanelsIn
  <2> QED
    BY <1>1, <2>1, <2>2, <2>3
<1>7. CASE p = "prices"
  <2>1. \/ op \in Forms(p, g, FALSE)
        \/ /\ <<"prices", "create">> \in g \/ <<"prices", "update">> \in g
           /\ op = <<"prices", "calculate">>
    BY <1>7 DEF Offers, PricesOffer, If, Shows, Holds
  <2>2. <<"prices", "create">> \in g \/ <<"prices", "update">> \in g =>
           Allowed(<<"prices", "calculate">>, g, FALSE)
    BY NeedsItself DEF PanelsIn
  <2> QED
    BY <1>1, <2>1, <2>2
<1>8. CASE p = "api-keys"
  <2>1. op \in Forms(p, g, FALSE) \/ op = <<"api-keys", "revoke">>
    BY <1>8 DEF Offers, ApiKeysOffer
  <2>2. Allowed(<<"api-keys", "revoke">>, g, FALSE)
    BY <1>8, NeedsItself DEF PanelsIn
  <2> QED
    BY <1>1, <2>1, <2>2
<1>9. CASE p \notin {"settings", "price-catalog", "users", "price-lists", "roles", "prices", "api-keys"}
  <2>1. op \in Forms(p, g, FALSE)
    BY <1>9 DEF Offers
  <2> QED
    BY <1>1, <2>1
<1> QED
  BY <1>2, <1>3, <1>4, <1>5, <1>6, <1>7, <1>8, <1>9

\* Who was let through the guards of a screen is served.
EntersAs(p, u) == u # None /\ (Global(u) \/ (p # "companies" /\ <<p, "read">> \in Granted[u]))

LEMMA EnteredIsServed ==
    ASSUME NEW u, Seeded(u), NEW p \in Paths, EntersAs(p, u),
           NEW op \in Opens(p, Granted[u], Global(u)) \cup Offers(p, Granted[u], Global(u))
    PROVE  Grants(op, u)
<1>1. PICK g : g = Granted[u]
  OBVIOUS
<1>2. u # None
  BY DEF EntersAs
<1>3. CASE Global(u)
  <2>1. Allowed(op, Granted[u], Global(u))
    BY <1>3 DEF Allowed
  <2> QED
    BY <1>2, <2>1 DEF Grants
<1>4. CASE ~Global(u)
  <2>1. Global(u) = FALSE
    BY <1>4 DEF Global
  <2>2. SourcesIn(g) /\ PanelsIn(g)
    BY <1>1, SeededRoles DEF Seeded
  <2>3. p \in Paths \ {"companies"} /\ <<p, "read">> \in g
    BY <1>1, <1>4 DEF EntersAs
  <2>4. op \in Opens(p, g, FALSE) \/ op \in Offers(p, g, FALSE)
    BY <1>1, <2>1
  <2>5. Allowed(op, g, FALSE)
    BY <2>2, <2>3, <2>4, OpensServed, OffersServed
  <2> QED
    BY <1>1, <1>2, <2>1, <2>5 DEF Grants
<1> QED
  BY <1>3, <1>4

\* The screen of the companies asks for what needs no company, but for the currencies.
LEMMA CompaniesAsk ==
    ASSUME NEW g, NEW b, NEW op \in Opens("companies", g, b) \cup Offers("companies", g, b)
    PROVE  ~NeedsCompany(op) \/ op = <<"currencies", "read">>
<1>1. CASE op \in Opens("companies", g, b)
  <2>1. op = <<"tenants", "read">> \/ op = <<"currencies", "read">>
    BY <1>1 DEF Opens, Resource, SelectSources
  <2> QED
    BY <2>1 DEF NeedsCompany, ForGlobalAdmin
<1>2. CASE op \in Offers("companies", g, b)
  <2>1. op \in Forms("companies", g, b)
    BY <1>2 DEF Offers
  <2>2. PICK a \in Crud : op = <<"tenants", a>>
    BY <2>1 DEF Forms, If, Resource
  <2> QED
    BY <2>2 DEF NeedsCompany, ForGlobalAdmin
<1> QED
  BY <1>1, <1>2

----------------------------------------------------------------------------
(* The screen and the session.                                              *)

Places == Paths \cup {"login", None}

IsStore(s) == s \in [token : Users \cup {None}, user : Users \cup {None}, tenant : {s.tenant}]

\* The screen was shown to somebody its guards let through.
ScreenOk(s, r, n, shown) ==
    /\ IsStore(s) /\ r \in Places /\ n \in Places /\ shown \in Users \cup {None}
    /\ s.user = None => s.token = None
    /\ r \in Paths /\ shown # None => EntersAs(r, shown)

\* Without a user the router is on its way to the login page, or there, or the
\* page is being loaded.
WayOk(s, r, n) ==
    s.user = None => /\ r \in Paths => n = "login"
                     /\ n = None => r = "login"

\* Who was let through without a company of his own had one selected.
CompanyOk(s, r, shown) == Global(shown) /\ r \in Paths \ {"companies"} => s.tenant # None

ScreenInv ==
    /\ ScreenOk(store, route, nav, shownTo) /\ cookie \in Users \cup {None}
    /\ turned \/ WayOk(store, route, nav)
    /\ deselected \/ CompanyOk(store, route, shownTo)

----------------------------------------------------------------------------
(* The calls under way.                                                     *)

Kinds == {"refresh", "guard", "login", "logout", "locale", "load"}

IsCall(c) ==
    /\ c = [x \in DOMAIN c |-> c[x]] /\ {"kind", "answer", "late"} \subseteq DOMAIN c
    /\ c.kind \in Kinds /\ c.late \in BOOLEAN
    /\ c.kind = "login" => {"user", "waited"} \subseteq DOMAIN c /\ c.user \in Users
    /\ c.kind = "locale" =>
          /\ {"user", "wanted", "previous", "astray", "waited"} \subseteq DOMAIN c
          /\ c.user \in Users \cup {None} /\ c.wanted \in Locales /\ c.astray \in BOOLEAN
    /\ c.kind = "load" => "waiting" \in DOMAIN c /\ c.waiting \in BOOLEAN

\* The answer brings a user and his language.
Brings(c) == c.answer # None /\ c.answer.user # None

\* What it brings is what the server has, unless it was overtaken.
AnswerOk(c, prefs) ==
    Brings(c) =>
        /\ c.answer.user \in Users
        /\ ~c.late => c.answer.locale = prefs[c.answer.user]
        /\ c.kind = "locale" => c.answer.user = c.user

\* What a change that fails goes back to is what the server has, unless it was
\* made while another was under way, or the answer was lost.
PreviousOk(c, prefs) ==
    c.kind = "locale" /\ ~c.late /\ ~c.astray /\ c.user # None /\ ~Brings(c) =>
        c.previous = prefs[c.user]

CallOk(c, prefs) == IsCall(c) /\ AnswerOk(c, prefs) /\ PreviousOk(c, prefs)

CallsOk(q, prefs) == \E S : q \in Seq(S) /\ \A c \in S : CallOk(c, prefs)

HasLocale(q) == \E k \in DOMAIN q : q[k].kind = "locale"

\* q comes of r, and no change of language is forgotten.
Follows(q, r, prefs) == CallsOk(q, prefs) /\ (HasLocale(r) => HasLocale(q))

LEMMA CallsFacts ==
    ASSUME NEW prefs, NEW q, CallsOk(q, prefs)
    PROVE  /\ Len(q) \in Nat /\ DOMAIN q = 1 .. Len(q) /\ \A k \in DOMAIN q : CallOk(q[k], prefs)
  BY DEF CallsOk

LEMMA SeqOfCalls ==
    ASSUME NEW prefs, NEW n \in Nat, NEW q, NEW S, q \in [1 .. n -> S], \A k \in 1 .. n : CallOk(q[k], prefs)
    PROVE  CallsOk(q, prefs) /\ DOMAIN q = 1 .. n
<1>1. PICK T : T = {q[k] : k \in 1 .. n}
  OBVIOUS
<1>2. q \in [1 .. n -> T] /\ \A c \in T : CallOk(c, prefs)
  BY <1>1
<1>3. q \in Seq(T)
  BY <1>2
<1> QED
  BY <1>2, <1>3 DEF CallsOk

\* Calls are sent.
LEMMA Added ==
    ASSUME NEW prefs, NEW r, CallsOk(r, prefs), NEW s, CallsOk(s, prefs)
    PROVE  Follows(r \o s, r, prefs)
<1>1. PICK S, T : r \in Seq(S) /\ (\A c \in S : CallOk(c, prefs)) /\ s \in Seq(T) /\ \A c \in T : CallOk(c, prefs)
  BY DEF CallsOk
<1>2. PICK U : U = S \cup T
  OBVIOUS
<1>3. r \in Seq(U) /\ s \in Seq(U) /\ \A c \in U : CallOk(c, prefs)
  BY <1>1, <1>2
<1>4. /\ r \o s \in Seq(U) /\ Len(r \o s) = Len(r) + Len(s)
      /\ \A k \in 1 .. Len(r) + Len(s) : (r \o s)[k] = IF k <= Len(r) THEN r[k] ELSE s[k - Len(r)]
  BY <1>3, ConcatProperties
<1>5. CallsOk(r \o s, prefs)
  BY <1>3, <1>4 DEF CallsOk
<1>6. ASSUME NEW k \in DOMAIN r PROVE k \in DOMAIN (r \o s) /\ (r \o s)[k] = r[k]
  BY <1>3, <1>4
<1> QED
  BY <1>5, <1>6 DEF Follows, HasLocale

LEMMA Single ==
    ASSUME NEW prefs, NEW c, CallOk(c, prefs)
    PROVE  CallsOk(<<c>>, prefs) /\ CallsOk(<<>>, prefs)
<1>1. PICK S : S = {c}
  OBVIOUS
<1>2. <<c>> \in Seq(S) /\ <<>> \in Seq(S) /\ \A d \in S : CallOk(d, prefs)
  BY <1>1
<1> QED
  BY <1>2 DEF CallsOk

LEMMA Appended ==
    ASSUME NEW prefs, NEW r, CallsOk(r, prefs), NEW c, CallOk(c, prefs)
    PROVE  Follows(Append(r, c), r, prefs) /\ (c.kind = "locale" => HasLocale(Append(r, c)))
<1>1. PICK S : r \in Seq(S) /\ \A d \in S : CallOk(d, prefs)
  BY DEF CallsOk
<1>2. PICK U : U = S \cup {c}
  OBVIOUS
<1>3. r \in Seq(U) /\ c \in U /\ \A d \in U : CallOk(d, prefs)
  BY <1>1, <1>2
<1>4. /\ Append(r, c) \in Seq(U) /\ Len(Append(r, c)) = Len(r) + 1
      /\ \A k \in 1 .. Len(r) : Append(r, c)[k] = r[k]
      /\ Append(r, c)[Len(r) + 1] = c
  BY <1>3, AppendProperties
<1>5. CallsOk(Append(r, c), prefs)
  BY <1>3, <1>4 DEF CallsOk
<1>6. ASSUME NEW k \in DOMAIN r PROVE k \in DOMAIN Append(r, c) /\ Append(r, c)[k] = r[k]
  BY <1>3, <1>4
<1>7. Len(r) + 1 \in DOMAIN Append(r, c)
  BY <1>3, <1>4
<1> QED
  BY <1>4, <1>5, <1>6, <1>7 DEF Follows, HasLocale

\* A call has landed.
LEMMA Landed ==
    ASSUME NEW prefs, NEW r, CallsOk(r, prefs), NEW i \in DOMAIN r
    PROVE  CallsOk(RemoveAt(r, i), prefs) /\ (r[i].kind # "locale" => Follows(RemoveAt(r, i), r, prefs))
<1>1. PICK S : r \in Seq(S) /\ \A d \in S : CallOk(d, prefs)
  BY DEF CallsOk
<1>2. PICK a, b : a = SubSeq(r, 1, i - 1) /\ b = SubSeq(r, i + 1, Len(r))
  OBVIOUS
<1>3. /\ a \in Seq(S) /\ Len(a) = i - 1 /\ \A k \in 1 .. i - 1 : a[k] = r[k]
  BY <1>1, <1>2, SubSeqProperties
<1>4. /\ b \in Seq(S) /\ Len(b) = Len(r) - i /\ \A k \in 1 .. Len(r) - i : b[k] = r[i + k]
  <2>1. /\ b \in Seq(S) /\ Len(b) = Len(r) - i
        /\ \A k \in 1 .. Len(r) - i : b[k] = r[(i + 1) + k - 1]
    BY <1>1, <1>2, SubSeqProperties
  <2>2. \A k \in 1 .. Len(r) - i : (i + 1) + k - 1 = i + k
    BY <1>1
  <2> QED
    BY <2>1, <2>2
<1>5. PICK q : q = a \o b
  OBVIOUS
<1>6. /\ q \in Seq(S) /\ Len(q) = Len(a) + Len(b)
      /\ \A k \in 1 .. Len(a) + Len(b) : q[k] = IF k <= Len(a) THEN a[k] ELSE b[k - Len(a)]
  BY <1>3, <1>4, <1>5, ConcatProperties
<1>7. RemoveAt(r, i) = q
  BY <1>2, <1>5 DEF RemoveAt
<1>8. CallsOk(q, prefs)
  BY <1>1, <1>6 DEF CallsOk
<1>9. ASSUME NEW j \in DOMAIN r, j # i PROVE \E k \in DOMAIN q : q[k] = r[j]
  <2>1. PICK n \in Nat : n = Len(r)
    BY <1>1
  <2>2. j \in 1 .. n /\ i \in 1 .. n
    BY <1>1, <2>1
  <2>3. PICK m \in Nat : m = i - 1
    BY <2>2
  <2>4. PICK o \in Nat : o = n - i
    BY <2>2
  <2>5. Len(a) = m /\ Len(b) = o
    BY <1>3, <1>4, <2>1, <2>3, <2>4
  <2>6. DOMAIN q = 1 .. m + o /\ \A k \in 1 .. m + o : q[k] = IF k <= m THEN a[k] ELSE b[k - m]
    BY <1>6, <2>5
  <2>7. (\A k \in 1 .. m : a[k] = r[k]) /\ \A k \in 1 .. o : b[k] = r[i + k]
    BY <1>3, <1>4, <2>1, <2>3, <2>4
  <2>8. CASE j < i
    <3>1. j \in 1 .. m + o /\ j <= m /\ j \in 1 .. m
      BY <2>2, <2>3, <2>4, <2>8
    <3> QED
      BY <2>6, <2>7, <3>1
  <2>9. CASE j > i
    <3>1. /\ j - 1 \in 1 .. m + o /\ ~(j - 1 <= m) /\ (j - 1) - m = j - i
          /\ j - i \in 1 .. o /\ i + (j - i) = j
      BY <2>2, <2>3, <2>4, <2>9
    <3> QED
      BY <2>6, <2>7, <3>1
  <2> QED
    BY <1>9, <2>2, <2>8, <2>9
<1>10. ASSUME r[i].kind # "locale", HasLocale(r) PROVE HasLocale(q)
  BY <1>9, <1>10 DEF HasLocale
<1> QED
  BY <1>7, <1>8, <1>10 DEF Follows

\* The places of K are numbered from one on without a gap.
LEMMA Ranked ==
    ASSUME NEW n \in Nat, NEW K \in SUBSET (1 .. n)
    PROVE  /\ Cardinality(K) \in Nat
           /\ \A i, j \in K : Rank(K, i) = Rank(K, j) => i = j
           /\ \A j \in K : Rank(K, j) \in 1 .. Cardinality(K)
           /\ \A k \in 1 .. Cardinality(K) : \E j \in K : Rank(K, j) = k
<1>1. IsFiniteSet(K)
  <2>1. IsFiniteSet(1 .. n)
    BY FS_Interval
  <2> QED
    BY <2>1, FS_Subset
<1>2. PICK m \in Nat : m = Cardinality(K)
  BY <1>1, FS_CardinalityType
<1>3. ASSUME NEW j \in K PROVE Rank(K, j) \in 1 .. m
  <2>1. PICK D : D = {i \in K : i <= j}
    OBVIOUS
  <2>2. D \in SUBSET K /\ j \in D
    BY <2>1
  <2>3. IsFiniteSet(D) /\ Cardinality(D) <= m
    BY <1>1, <1>2, <2>2, FS_Subset
  <2>4. Cardinality(D) \in Nat /\ Cardinality(D) # 0
    BY <2>2, <2>3, FS_CardinalityType, FS_EmptySet
  <2> QED
    BY <2>1, <2>3, <2>4 DEF Rank
<1>4. ASSUME NEW i \in K, NEW j \in K, i < j PROVE Rank(K, i) # Rank(K, j)
  <2>1. PICK D, E : D = {k \in K : k <= i} /\ E = {k \in K : k <= j}
    OBVIOUS
  <2>2. D \in SUBSET E /\ j \in E /\ j \notin D /\ E \in SUBSET K
    <3>1. j <= j /\ ~(j <= i)
      BY <1>4
    <3>2. \A k \in K : k \in 1 .. n /\ (k <= i => k <= j)
      BY <1>4
    <3> QED
      BY <2>1, <3>1, <3>2
  <2>3. IsFiniteSet(E)
    BY <1>1, <2>2, FS_Subset
  <2>4. Cardinality(E) # Cardinality(D)
    BY <2>2, <2>3, FS_Subset
  <2> QED
    BY <2>1, <2>4 DEF Rank
<1>5. ASSUME NEW i \in K, NEW j \in K, Rank(K, i) = Rank(K, j) PROVE i = j
  <2>1. i < j \/ j < i \/ i = j
    <3>1. i \in 1 .. n /\ j \in 1 .. n
      OBVIOUS
    <3> QED
      BY <3>1
  <2> QED
    BY <1>4, <1>5, <2>1
<1>6. ASSUME NEW k \in 1 .. m PROVE \E j \in K : Rank(K, j) = k
  <2>1. PICK f : f = [j \in K |-> Rank(K, j)]
    OBVIOUS
  <2>2. f \in [K -> 1 .. m]
    BY <1>3, <2>1
  <2>3. f \in Injection(K, 1 .. m)
    BY <1>5, <2>1, <2>2 DEF Injection, IsInjective
  <2>4. IsFiniteSet(1 .. m) /\ Cardinality(1 .. m) = m
    BY FS_Interval
  <2>5. f \in Surjection(K, 1 .. m)
    BY <1>2, <2>3, <2>4, FS_Injection
  <2>6. PICK j \in K : f[j] = k
    BY <2>5 DEF Surjection
  <2> QED
    BY <2>1, <2>6
<1> QED
  BY <1>2, <1>3, <1>5, <1>6

\* Calls are given up.
LEMMA KeptCalls ==
    ASSUME NEW prefs, NEW r, CallsOk(r, prefs), NEW K \in SUBSET DOMAIN r
    PROVE  /\ CallsOk(Kept(r, K), prefs)
           /\ (\A k \in DOMAIN r : r[k].kind = "locale" => k \in K) => Follows(Kept(r, K), r, prefs)
<1>1. CASE K = DOMAIN r
  BY <1>1 DEF Kept, Follows
<1>2. CASE K # DOMAIN r
  <2>1. PICK S : r \in Seq(S) /\ \A d \in S : CallOk(d, prefs)
    BY DEF CallsOk
  <2>2. PICK n \in Nat : n = Len(r)
    BY <2>1
  <2>3. DOMAIN r = 1 .. n /\ \A k \in 1 .. n : r[k] \in S
    BY <2>1, <2>2
  <2>4. PICK m \in Nat : m = Cardinality(K)
    BY <2>3, Ranked
  <2>5. /\ \A i, j \in K : Rank(K, i) = Rank(K, j) => i = j
        /\ \A j \in K : Rank(K, j) \in 1 .. m
        /\ \A k \in 1 .. m : \E j \in K : Rank(K, j) = k
    <3>1. K \in SUBSET (1 .. n)
      BY <2>3
    <3> QED
      BY <2>4, <3>1, Ranked
  <2>6. PICK q : q = Kept(r, K)
    OBVIOUS
  <2>7. q = [k \in 1 .. m |-> r[CHOOSE j \in K : Rank(K, j) = k]]
    BY <1>2, <2>4, <2>6 DEF Kept
  <2>8. ASSUME NEW k \in 1 .. m
        PROVE  \E j \in K : Rank(K, j) = k /\ q[k] = r[j]
    <3>1. PICK j : j = CHOOSE h \in K : Rank(K, h) = k
      OBVIOUS
    <3>2. j \in K /\ Rank(K, j) = k
      BY <2>5, <3>1
    <3>3. q[k] = r[j]
      BY <2>7, <3>1
    <3> QED
      BY <3>2, <3>3
  <2>9. q \in [1 .. m -> S] /\ \A k \in 1 .. m : CallOk(q[k], prefs)
    <3>1. \A k \in 1 .. m : q[k] \in S
      BY <2>3, <2>8
    <3>2. q \in [1 .. m -> S]
      BY <2>7, <3>1
    <3> QED
      BY <2>1, <3>1, <3>2
  <2>10. CallsOk(q, prefs) /\ DOMAIN q = 1 .. m
    BY <2>9, SeqOfCalls
  <2>11. ASSUME NEW j \in K PROVE \E k \in DOMAIN q : q[k] = r[j]
    <3>1. PICK k \in 1 .. m : k = Rank(K, j)
      BY <2>5
    <3>2. PICK o \in K : Rank(K, o) = k /\ q[k] = r[o]
      BY <2>8
    <3>3. o = j
      BY <2>5, <3>1, <3>2
    <3> QED
      BY <2>10, <3>2, <3>3
  <2>12. ASSUME \A k \in DOMAIN r : r[k].kind = "locale" => k \in K, HasLocale(r)
         PROVE  HasLocale(q)
    BY <2>11, <2>12 DEF HasLocale
  <2> QED
    BY <2>6, <2>10, <2>12 DEF Follows
<1> QED
  BY <1>1, <1>2

\* Calls are marked.
LEMMA Mapped ==
    ASSUME NEW prefs, NEW next, NEW r, CallsOk(r, prefs), NEW q, q = [j \in DOMAIN r |-> q[j]],
           \A j \in DOMAIN r : CallOk(q[j], next) /\ (r[j].kind = "locale" => q[j].kind = "locale")
    PROVE  Follows(q, r, next)
<1>1. PICK n \in Nat : n = Len(r)
  BY DEF CallsOk
<1>2. DOMAIN r = 1 .. n
  BY <1>1 DEF CallsOk
<1>3. PICK S : S = {q[j] : j \in 1 .. n}
  OBVIOUS
<1>4. q \in [1 .. n -> S] /\ \A k \in 1 .. n : CallOk(q[k], next)
  BY <1>2, <1>3
<1>5. CallsOk(q, next) /\ DOMAIN q = 1 .. n
  BY <1>4, SeqOfCalls
<1> QED
  BY <1>2, <1>5 DEF Follows, HasLocale

LEMMA FreshCalls ==
    ASSUME NEW prefs
    PROVE  /\ \A k \in {"refresh", "guard", "logout"} : CallOk(Call(k), prefs)
           /\ \A p, s : CallsOk(LoadsOf(p, s), prefs)
           /\ \A s : CallsOk(<<Tenants(s)>>, prefs)
<1>1. ASSUME NEW k \in {"refresh", "guard", "logout"} PROVE CallOk(Call(k), prefs)
  BY DEF Call, CallOk, IsCall, Kinds, AnswerOk, PreviousOk, Brings
<1>2. ASSUME NEW t, NEW n, NEW a, NEW s PROVE CallOk(Load(t, n, a, s), prefs)
  BY DEF Load, CallOk, IsCall, Kinds, AnswerOk, PreviousOk, Brings
<1>3. ASSUME NEW p, NEW s PROVE CallsOk(LoadsOf(p, s), prefs)
  <2>1. PICK n, a : LoadsOf(p, s) = <<Load(FALSE, n, a, s)>>
    BY Zenon DEF LoadsOf
  <2> QED
    BY <1>2, <2>1, Single
<1>4. ASSUME NEW s PROVE CallsOk(<<Tenants(s)>>, prefs)
  BY <1>2, Single DEF Tenants
<1> QED
  BY <1>1, <1>3, <1>4

----------------------------------------------------------------------------
(* The invariant and what the session's operations do to it.                *)

\* Once no change of language is under way the language shown is the user's.
LocaleOk(s, l, prefs, q, a) ==
    s.token # None /\ ~a /\ ~HasLocale(q) => l = prefs[s.token]

CallsInv ==
    /\ preferred \in [Users -> Locales] /\ CallsOk(calls, preferred)
    /\ LocaleOk(store, locale, preferred, calls, astray)

SessionInv == ScreenInv /\ CallsInv

LEMMA Quiet ==
    ASSUME CallsInv, UNCHANGED <<locale, preferred, astray>>, store'.token = store.token,
           Follows(calls', calls, preferred)
    PROVE  CallsInv'
  BY DEF CallsInv, LocaleOk, Follows

LEMMA Navigated ==
    ASSUME NEW p, NEW rest, CallsOk(rest, preferred), Navigate(p, rest)
    PROVE  nav' = p /\ Follows(calls', rest, preferred)
<1>1. PICK K \in SUBSET DOMAIN rest :
          /\ calls' = Kept(rest, K)
          /\ \A k \in DOMAIN rest : rest[k].kind = "locale" => k \in K
  BY DEF Navigate
<1> QED
  BY <1>1, KeptCalls DEF Navigate

LEMMA SessionEnds ==
    ASSUME SessionInv, NEW rest, CallsOk(rest, preferred), Ended(rest),
           UNCHANGED <<route, cookie, preferred>>
    PROVE  SessionInv'
<1>1. /\ nav' = "login" /\ CallsOk(calls', preferred) /\ store' = Empty /\ shownTo' = None
      /\ "login" # None
  BY Navigated, ClientSessionAssumption DEF Ended, Clear, Follows
<1>2. ScreenInv'
  <2>1. IsStore(store') /\ store'.token = None /\ store'.user = None
    BY <1>1 DEF IsStore, Empty
  <2>2. ScreenOk(store', route', nav', shownTo') /\ cookie' \in Users \cup {None}
    BY <1>1, <2>1 DEF SessionInv, ScreenInv, ScreenOk, Places
  <2>3. WayOk(store', route', nav') /\ CompanyOk(store', route', shownTo')
    BY <1>1 DEF WayOk, CompanyOk, Global
  <2> QED
    BY <2>2, <2>3 DEF ScreenInv
<1>3. CallsInv'
  BY <1>1 DEF SessionInv, CallsInv, LocaleOk, Empty
<1> QED
  BY <1>2, <1>3 DEF SessionInv

LEMMA SessionSet ==
    ASSUME SessionInv, NEW u \in Users, NEW l, SetSession(u, l), nav' \in Places,
           UNCHANGED <<route, cookie, preferred>>,
           CallsOk(calls', preferred), ~astray' => l = preferred[u]
    PROVE  SessionInv'
<1>1. u # None
  BY ClientSessionAssumption
<1>2. /\ store'.token = u /\ store'.user = u /\ locale' = l
      /\ store'.tenant = IF Global(u) THEN store.tenant ELSE Home[u]
      /\ UNCHANGED <<shownTo, deselected>>
  BY DEF SetSession
<1>3. IsStore(store')
  <2>1. PICK t : store' = [token |-> u, user |-> u, tenant |-> t]
    BY DEF SetSession
  <2> QED
    BY <2>1 DEF IsStore
<1>4. ScreenInv'
  <2>1. ScreenOk(store', route', nav', shownTo') /\ cookie' \in Users \cup {None}
    BY <1>1, <1>2, <1>3 DEF SessionInv, ScreenInv, ScreenOk
  <2>2. WayOk(store', route', nav')
    BY <1>1, <1>2 DEF WayOk
  <2>3. store.tenant # None => store'.tenant # None
    BY <1>1, <1>2 DEF Global
  <2>4. deselected' \/ CompanyOk(store', route', shownTo')
    BY <1>2, <2>3 DEF SessionInv, ScreenInv, CompanyOk
  <2> QED
    BY <2>1, <2>2, <2>4 DEF ScreenInv
<1>5. CallsInv'
  BY <1>2 DEF SessionInv, CallsInv, LocaleOk
<1> QED
  BY <1>4, <1>5 DEF SessionInv

----------------------------------------------------------------------------
(* The router and the keyboard.                                             *)

\* Nothing but that it is waited for changes of a call that was sent before.
LEMMA NoLongerWaited ==
    ASSUME CallsOk(calls, preferred), NEW kind, NEW q, q = WaitsNoMore(kind)
    PROVE  /\ DOMAIN q = DOMAIN calls /\ q = [i \in DOMAIN calls |-> q[i]]
           /\ \A i \in DOMAIN calls : CallOk(q[i], preferred) /\ q[i].kind = calls[i].kind
           /\ \A i \in DOMAIN calls : q[i].kind = "load" => q[i].waiting = calls[i].waiting
           /\ Follows(q, calls, preferred)
<1>1. q = [i \in DOMAIN calls |-> IF calls[i].kind = kind
                                  THEN [calls[i] EXCEPT !.waited = FALSE] ELSE calls[i]]
  BY DEF WaitsNoMore
<1>2. ASSUME NEW i \in DOMAIN calls
      PROVE  /\ CallOk(q[i], preferred) /\ q[i].kind = calls[i].kind
             /\ q[i].kind = "load" => q[i].waiting = calls[i].waiting
  <2>1. PICK c : c = calls[i]
    OBVIOUS
  <2>2. CallOk(c, preferred)
    BY <2>1, CallsFacts
  <2>3. CASE c.kind = kind
    <3>1. PICK d : d = [c EXCEPT !.waited = FALSE]
      OBVIOUS
    <3>2. q[i] = d
      BY <1>1, <2>1, <2>3, <3>1
    <3>3. /\ IsCall(d) /\ d.kind = c.kind /\ d.answer = c.answer /\ d.late = c.late
          /\ c.kind = "load" => d.waiting = c.waiting
          /\ c.kind = "locale" => d.user = c.user /\ d.astray = c.astray /\ d.previous = c.previous
      BY <2>2, <3>1 DEF CallOk, IsCall
    <3> QED
      BY <2>1, <2>2, <3>2, <3>3 DEF CallOk, AnswerOk, PreviousOk, Brings
  <2>4. CASE c.kind # kind
    BY <1>1, <2>1, <2>2, <2>4
  <2> QED
    BY <2>3, <2>4
<1>3. DOMAIN q = DOMAIN calls /\ q = [i \in DOMAIN calls |-> q[i]]
  BY <1>1
<1>4. Follows(q, calls, preferred)
  BY <1>2, <1>3, Mapped
<1> QED
  BY <1>2, <1>3, <1>4

LEMMA Shown ==
    ASSUME SessionInv, NEW p, Show(p)
    PROVE  Follows(calls', calls, preferred)
<1>1. CallsOk(calls, preferred)
  BY DEF SessionInv, CallsInv
<1>2. CASE p = "login"
  <2>1. calls' = WaitsNoMore("locale")
    BY <1>2 DEF Show
  <2> QED
    BY <1>1, <2>1, NoLongerWaited
<1>3. CASE p # "login"
  <2>1. PICK q : q = WaitsNoMore("login")
    OBVIOUS
  <2>2. PICK t : /\ calls' = (q \o t) \o LoadsOf(p, store)
                 /\ t = <<>> \/ t = <<Tenants(store)>>
    BY <1>3, <2>1 DEF Show
  <2>3. Follows(q, calls, preferred)
    BY <1>1, <2>1, NoLongerWaited
  <2>4. CallsOk(t, preferred)
    BY <2>2, FreshCalls, Single
  <2>5. Follows(q \o t, q, preferred)
    BY <2>3, <2>4, Added DEF Follows
  <2>6. Follows((q \o t) \o LoadsOf(p, store), q \o t, preferred)
    BY <2>5, FreshCalls, Added DEF Follows
  <2> QED
    BY <2>2, <2>3, <2>5, <2>6 DEF Follows
<1> QED
  BY <1>2, <1>3

\* Nobody is let through the guards of a screen whom the screen is not for.
LEMMA LetThrough ==
    ASSUME NEW p \in Paths, SentTo(p) = None
    PROVE  EntersAs(p, store.user) /\ (Global(store.user) /\ p # "companies" => store.tenant # None)
<1>1. None \notin Paths
  BY ClientSessionAssumption
<1>2. Denied(store.user) # None /\ "companies" # None
  BY <1>1 DEF Denied, Landing, Paths
<1>3. CASE p = "companies"
  <2>1. Global(store.user)
    BY <1>2, <1>3 DEF SentTo
  <2> QED
    BY <1>3, <2>1 DEF EntersAs, Global
<1>4. CASE p # "companies"
  <2>1. /\ Global(store.user) \/ May(<<p, "read">>, store.user)
        /\ Global(store.user) => store.tenant # None
    BY <1>2, <1>4 DEF SentTo
  <2> QED
    BY <1>4, <2>1 DEF EntersAs, May, Holds, Global
<1> QED
  BY <1>3, <1>4

LEMMA SentSomewhere ==
    ASSUME NEW p \in Paths
    PROVE  SentTo(p) \in Places
  BY DEF SentTo, Denied, Landing, Places, Paths

LEMMA GuardsKeep ==
    ASSUME SessionInv, Guards
    PROVE  SessionInv'
<1>1. /\ nav # None /\ UNCHANGED <<store, locale, cookie, preferred, astray>>
      /\ ScreenOk(store, route, nav, shownTo) /\ cookie \in Users \cup {None}
      /\ turned \/ WayOk(store, route, nav)
      /\ deselected \/ CompanyOk(store, route, shownTo)
      /\ CallsInv /\ CallsOk(calls, preferred)
  BY DEF Guards, SessionInv, ScreenInv, CallsInv
<1>2. None \notin Paths /\ None # "login" /\ "login" \notin Paths
  BY ClientSessionAssumption DEF Paths
<1>3. ASSUME NEW p, p \in Places, Redirect(p), turned \/ WayOk(store, route, p)
      PROVE  SessionInv'
  <2>1. nav' = p /\ UNCHANGED <<route, calls, shownTo, turned, deselected>>
    BY <1>3 DEF Redirect, seen
  <2>2. ScreenInv'
    BY <1>1, <1>3, <2>1 DEF ScreenInv, ScreenOk
  <2>3. Follows(calls', calls, preferred)
    BY <1>1, <2>1 DEF Follows
  <2> QED
    BY <1>1, <2>2, <2>3, Quiet DEF SessionInv
<1>4. ASSUME NEW p, p \in Places \ {None}, Show(p),
             p \in Paths => EntersAs(p, store.user),
             p \in Paths \ {"companies"} => (Global(store.user) => store.tenant # None)
      PROVE  SessionInv'
  <2>1. route' = p /\ nav' = None /\ shownTo' = store.user
    BY <1>4 DEF Show
  <2>2. ScreenOk(store', route', nav', shownTo')
    BY <1>1, <1>4, <2>1 DEF ScreenOk, IsStore, Places
  <2>3. WayOk(store', route', nav')
    BY <1>1, <1>2, <1>4, <2>1 DEF WayOk, EntersAs, Places
  <2>4. CompanyOk(store', route', shownTo')
    BY <1>1, <1>4, <2>1 DEF CompanyOk
  <2>5. ScreenInv'
    BY <1>1, <2>2, <2>3, <2>4 DEF ScreenInv
  <2> QED
    BY <1>1, <1>4, <2>5, Shown, Quiet DEF SessionInv
<1>5. CASE nav = route
  <2>1. Redirect(None)
    BY <1>5 DEF Guards
  <2>2. turned \/ WayOk(store, route, None)
    BY <1>1, <1>2, <1>5 DEF WayOk, ScreenOk, Places
  <2> QED
    BY <1>3, <2>1, <2>2 DEF Places
<1>6. CASE nav = "login" /\ nav # route /\ store.token = None
  <2>1. Show("login")
    BY <1>2, <1>6 DEF Guards
  <2> QED
    BY <1>2, <1>4, <2>1 DEF Places
<1>7. CASE nav = "login" /\ nav # route /\ store.token # None
  <2>1. Redirect(Landing(store.user))
    BY <1>2, <1>7 DEF Guards
  <2>2. store.user # None /\ Landing(store.user) \in Places
    BY <1>1, <1>7 DEF ScreenOk, Landing, Places, Paths
  <2> QED
    BY <1>3, <2>1, <2>2 DEF WayOk
<1>8. CASE nav # route /\ nav \in Paths /\ route \notin Paths /\ store.token = None
  <2>1. /\ calls' = Append(calls, Call("guard"))
        /\ UNCHANGED <<route, nav, shownTo, turned, deselected>>
    BY <1>2, <1>8 DEF Guards, seen
  <2>2. ScreenInv'
    BY <1>1, <2>1 DEF ScreenInv
  <2>3. Follows(calls', calls, preferred)
    BY <1>1, <2>1, FreshCalls, Appended
  <2> QED
    BY <1>1, <2>2, <2>3, Quiet DEF SessionInv
<1>9. CASE nav # route /\ nav \in Paths /\ (route \in Paths \/ store.token # None)
  <2>1. IF SentTo(nav) = None THEN Show(nav) ELSE Redirect(SentTo(nav))
    BY <1>2, <1>9 DEF Guards
  <2>2. CASE SentTo(nav) = None
    <3>1. /\ Show(nav) /\ EntersAs(nav, store.user)
          /\ Global(store.user) /\ nav # "companies" => store.tenant # None
      BY <1>9, <2>1, <2>2, LetThrough
    <3> QED
      BY <1>2, <1>4, <1>9, <3>1 DEF Places
  <2>3. CASE SentTo(nav) # None
    <3>1. Redirect(SentTo(nav)) /\ SentTo(nav) \in Places
      BY <1>9, <2>1, <2>3, SentSomewhere
    <3>2. turned \/ WayOk(store, route, SentTo(nav))
      BY <1>1, <1>2, <1>9, <2>3 DEF WayOk, ScreenOk
    <3> QED
      BY <1>3, <3>1, <3>2
  <2> QED
    BY <2>2, <2>3
<1> QED
  BY <1>1, <1>5, <1>6, <1>7, <1>8, <1>9 DEF ScreenOk, Places

\* TenantContextService.select changes only the company.
LEMMA SelectionKeeps ==
    ASSUME NEW t, NEW rest, CallsOk(rest, preferred), Selected(t, rest), ScreenInv,
           deselected' \/ t # None, UNCHANGED <<route, nav, cookie, shownTo, turned>>
    PROVE  /\ store'.token = store.token /\ Follows(calls', rest, preferred)
           /\ ScreenInv'
<1>1. store' = [store EXCEPT !.tenant = t]
  BY DEF Selected
<1>2. /\ store'.token = store.token /\ store'.user = store.user /\ IsStore(store')
      /\ store'.tenant = t
  BY <1>1 DEF ScreenInv, ScreenOk, IsStore
<1>3. ScreenOk(store', route', nav', shownTo') /\ cookie' \in Users \cup {None}
  BY <1>2 DEF ScreenInv, ScreenOk
<1>4. turned' \/ WayOk(store', route', nav')
  BY <1>2 DEF ScreenInv, WayOk
<1>5. deselected' \/ CompanyOk(store', route', shownTo')
  BY <1>2 DEF CompanyOk
<1>6. PICK q : calls' = rest \o q /\ (q = <<>> \/ \E p, s : q = LoadsOf(p, s))
  BY DEF Selected
<1>7. CallsOk(q, preferred)
  BY <1>6, FreshCalls, Single
<1> QED
  BY <1>2, <1>3, <1>4, <1>5, <1>6, <1>7, Added DEF ScreenInv

\* Who turns from the way to the login page without a session is known to have.
LEMMA TurnsKeeps ==
    ASSUME SessionInv, NEW p \in Places \ {None}, Turns(p),
           UNCHANGED <<route, cookie, preferred, shownTo>>
    PROVE  SessionInv'
<1>1. /\ ScreenOk(store, route, nav, shownTo) /\ CallsInv /\ CallsOk(calls, preferred)
      /\ UNCHANGED <<store, locale, astray, deselected>>
  BY DEF SessionInv, ScreenInv, CallsInv, Turns
<1>2. nav' = p /\ Follows(calls', calls, preferred)
  BY <1>1, Navigated DEF Turns
<1>3. turned' \/ WayOk(store', route', nav')
  <2>1. CASE turned
    BY <2>1 DEF Turns
  <2>2. CASE ~turned
    <3>1. WayOk(store, route, nav)
      BY <2>2 DEF SessionInv, ScreenInv
    <3>2. turned' <=> (route \in Paths /\ nav = "login" /\ p # "login" /\ store.token = None)
      BY <2>2 DEF Turns
    <3> QED
      BY <1>1, <1>2, <3>1, <3>2 DEF WayOk, ScreenOk
  <2> QED
    BY <2>1, <2>2
<1>4. ScreenInv'
  BY <1>1, <1>2, <1>3 DEF SessionInv, ScreenInv, ScreenOk
<1> QED
  BY <1>1, <1>2, <1>4, Quiet DEF SessionInv

\* What is done at the keyboard changes neither whose session it is nor, but for
\* the change of language, the language.
LEMMA KeyboardKeeps ==
    ASSUME SessionInv,
           \/ \E p \in Clicked : Follow(p)
           \/ \E p \in Clicked \cup {"login"} : Browse(p)
           \/ \E u \in LogIn : Login(u)
           \/ \E t \in Companies \cup {None} : SelectTenant(t)
           \/ Ask \/ Logout
    PROVE  SessionInv'
<1>1. ScreenInv /\ CallsInv /\ CallsOk(calls, preferred)
  BY DEF SessionInv, CallsInv
<1>2. UNCHANGED <<route, cookie, preferred, shownTo, locale, astray>>
  BY DEF Follow, Browse, Turns, Login, SelectTenant, Ask, Logout, User
<1>3. ASSUME UNCHANGED <<store, nav, turned, deselected>>, Follows(calls', calls, preferred)
      PROVE  SessionInv'
  <2>1. ScreenInv'
    BY <1>1, <1>2, <1>3 DEF ScreenInv
  <2> QED
    BY <1>1, <1>2, <1>3, <2>1, Quiet DEF SessionInv
<1>4. ASSUME NEW p \in Clicked \cup {"login"}, Follow(p) \/ Browse(p) PROVE SessionInv'
  <2>1. p \in Places \ {None}
    BY ClientSessionAssumption DEF Places
  <2>2. Turns(p)
    BY <1>4 DEF Follow, Browse
  <2> QED
    BY <1>2, <2>1, <2>2, TurnsKeeps
<1>5. ASSUME NEW u \in LogIn, Login(u) PROVE SessionInv'
  <2>1. PICK c : c = [kind |-> "login", answer |-> None, late |-> FALSE, user |-> u, waited |-> TRUE]
    OBVIOUS
  <2>2. u \in Users
    BY ClientSessionAssumption
  <2>3. CallOk(c, preferred)
    BY <2>1, <2>2 DEF CallOk, IsCall, Kinds, AnswerOk, PreviousOk, Brings
  <2>4. calls' = Append(calls, c) /\ UNCHANGED <<store, nav, turned, deselected>>
    BY <1>5, <2>1 DEF Login
  <2> QED
    BY <1>1, <1>3, <2>3, <2>4, Appended
<1>6. ASSUME NEW t \in Companies \cup {None}, SelectTenant(t) PROVE SessionInv'
  <2>1. Selected(t, calls) /\ UNCHANGED <<nav, turned>> /\ (deselected' \/ t # None)
    BY <1>6 DEF SelectTenant
  <2>2. store'.token = store.token /\ Follows(calls', calls, preferred) /\ ScreenInv'
    BY <1>1, <1>2, <2>1, SelectionKeeps
  <2> QED
    BY <1>1, <1>2, <2>2, Quiet DEF SessionInv
<1>7. ASSUME Ask PROVE SessionInv'
  <2>1. calls' = calls \o LoadsOf(route, store) /\ UNCHANGED <<store, nav, turned, deselected>>
    BY <1>7 DEF Ask
  <2>2. Follows(calls', calls, preferred)
    BY <1>1, <2>1, FreshCalls, Added
  <2> QED
    BY <1>3, <2>1, <2>2
<1>8. ASSUME Logout PROVE SessionInv'
  <2>1. calls' = Append(calls, Call("logout")) /\ UNCHANGED <<store, nav, turned, deselected>>
    BY <1>8 DEF Logout
  <2>2. Follows(calls', calls, preferred)
    BY <1>1, <2>1, FreshCalls, Appended
  <2> QED
    BY <1>3, <2>1, <2>2
<1> QED
  BY <1>4, <1>5, <1>6, <1>7, <1>8

\* The language shown before is kept with the change to be gone back to.
LEMMA LanguageKeeps ==
    ASSUME SessionInv, NEW l \in Locales, ChangeLanguage(l)
    PROVE  SessionInv'
<1>1. /\ ScreenOk(store, route, nav, shownTo) /\ cookie \in Users \cup {None}
      /\ CallsInv /\ CallsOk(calls, preferred) /\ LocaleOk(store, locale, preferred, calls, astray)
  BY DEF SessionInv, ScreenInv, CallsInv
<1>2. UNCHANGED <<store, route, nav, cookie, preferred, seen, astray>>
  BY DEF ChangeLanguage, User, seen
<1>3. PICK c : c = [kind |-> "locale", answer |-> None, late |-> FALSE,
                    user |-> store.token, wanted |-> l, previous |-> locale,
                    astray |-> astray \/ Tries("locale"), waited |-> TRUE]
  OBVIOUS
<1>4. store.token \in Users \cup {None}
  BY <1>1 DEF ScreenOk, IsStore
<1>5. IsCall(c)
  BY <1>3, <1>4 DEF IsCall, Kinds
<1>6. ~c.astray /\ c.user # None => c.previous = preferred[c.user]
  BY <1>1, <1>3 DEF LocaleOk, HasLocale, Tries
<1>7. CallOk(c, preferred)
  BY <1>3, <1>5, <1>6 DEF CallOk, AnswerOk, PreviousOk, Brings
<1>8. calls' = Append(calls, c)
  BY <1>3 DEF ChangeLanguage
<1>9. CallsOk(calls', preferred) /\ HasLocale(calls')
  BY <1>1, <1>3, <1>7, <1>8, Appended DEF Follows
<1>10. ScreenInv'
  BY <1>2 DEF SessionInv, ScreenInv, seen
<1>11. CallsInv'
  BY <1>1, <1>2, <1>9 DEF CallsInv, LocaleOk
<1> QED
  BY <1>10, <1>11 DEF SessionInv

----------------------------------------------------------------------------
(* The server.                                                              *)

\* An answer is never mistaken for none.
LEMMA Answered ==
    ASSUME preferred \in [Users -> Locales]
    PROVE  /\ Refused # None /\ Refused.user = None
           /\ \A u \in Users : As(u, preferred) # None /\ As(u, preferred).user = u
                               /\ As(u, preferred).locale = preferred[u]
<1>1. Refused \in [user : Users \cup {None}, locale : Locales \cup {None}]
  BY DEF Refused
<1>2. ASSUME NEW u \in Users PROVE As(u, preferred) \in [user : Users \cup {None}, locale : Locales \cup {None}]
  BY DEF As
<1>3. None \notin [user : Users \cup {None}, locale : Locales \cup {None}]
  BY ClientSessionAssumption
<1> QED
  BY <1>1, <1>2, <1>3 DEF Refused, As

LEMMA AnsweredCall ==
    ASSUME CallsInv, NEW i \in DOMAIN calls, NEW a, AnswerTo(i, a), calls[i].answer = None,
           \/ a = Refused
           \/ /\ calls[i].kind # "locale"
              /\ \E u \in Users : a = As(u, preferred)
    PROVE  Follows(calls', calls, preferred)
<1>1. CallsOk(calls, preferred) /\ preferred \in [Users -> Locales]
  BY DEF CallsInv
<1>2. PICK q : q = calls'
  OBVIOUS
<1>3. PICK c : c = calls[i]
  OBVIOUS
<1>4. CallOk(c, preferred) /\ c.answer = None
  BY <1>1, <1>3, CallsFacts
<1>5. q = [j \in DOMAIN calls |-> IF j = i THEN [c EXCEPT !.answer = a] ELSE calls[j]]
  BY <1>1, <1>2, <1>3, CallsFacts DEF AnswerTo
<1>6. PICK d : d = [c EXCEPT !.answer = a]
  OBVIOUS
<1>7. IsCall(d) /\ d.kind = c.kind /\ d.answer = a
  BY <1>4, <1>6 DEF CallOk, IsCall
<1>8. CallOk(d, preferred)
  <2>1. CASE a = Refused
    <3>1. ~Brings(d) /\ ~Brings(c)
      BY <1>1, <1>4, <1>7, <2>1, Answered DEF Brings
    <3>2. PreviousOk(d, preferred)
      <4>1. c.kind = "locale" => d.late = c.late /\ d.astray = c.astray /\ d.user = c.user
                                 /\ d.previous = c.previous
        BY <1>4, <1>6 DEF CallOk, IsCall
      <4> QED
        BY <1>4, <1>7, <3>1, <4>1 DEF CallOk, PreviousOk
    <3> QED
      BY <1>7, <3>1, <3>2 DEF CallOk, AnswerOk
  <2>2. CASE c.kind # "locale" /\ \E u \in Users : a = As(u, preferred)
    <3>1. PICK u \in Users : a = As(u, preferred)
      BY <2>2
    <3>2. d.answer.user = u /\ d.answer.locale = preferred[u]
      BY <1>1, <1>7, <3>1, Answered
    <3> QED
      BY <1>7, <2>2, <3>2 DEF CallOk, AnswerOk, PreviousOk
  <2> QED
    BY <1>3, <2>1, <2>2
<1>9. \A j \in DOMAIN calls : CallOk(q[j], preferred) /\ q[j].kind = calls[j].kind
  BY <1>1, <1>3, <1>5, <1>6, <1>7, <1>8, CallsFacts
<1> QED
  BY <1>1, <1>2, <1>5, <1>9, Mapped

\* A change of language is made: whatever brings the one before is late.
Marked(j, i, a, lost) ==
    IF j = i THEN [calls[j] EXCEPT !.answer = a, !.late = lost]
    ELSE [calls[j] EXCEPT !.late = calls[j].late \/ calls[j].answer # None
                                          \/ calls[j].kind = "locale"]

LEMMA ChangedCalls ==
    ASSUME CallsInv, NEW i \in DOMAIN calls, calls[i].answer = None, calls[i].kind = "locale",
           calls[i].user # None, preferred' = [preferred EXCEPT ![calls[i].user] = calls[i].wanted],
           Changed(i, As(calls[i].user, preferred'), FALSE) \/ Changed(i, Refused, TRUE)
    PROVE  preferred' \in [Users -> Locales] /\ CallsOk(calls', preferred') /\ HasLocale(calls')
<1>1. CallsOk(calls, preferred) /\ preferred \in [Users -> Locales]
  BY DEF CallsInv
<1>2. PICK q, next, c : q = calls' /\ next = preferred' /\ c = calls[i]
  OBVIOUS
<1>3. CallOk(c, preferred) /\ c.answer = None /\ c.kind = "locale" /\ c.user \in Users /\ c.wanted \in Locales
  BY <1>1, <1>2, CallsFacts DEF CallOk, IsCall
<1>4. next \in [Users -> Locales]
  BY <1>1, <1>2, <1>3
<1>5. PICK a, lost :
          /\ Changed(i, a, lost) /\ lost \in BOOLEAN
          /\ \/ ~lost /\ a.user = c.user /\ a.locale = next[c.user] /\ a # None
             \/ lost /\ a.user = None
  <2>1. Refused.user = None
    BY DEF Refused
  <2>2. PICK b : b = As(c.user, next)
    OBVIOUS
  <2>3. b # None
    <3>1. b \in [user : Users \cup {None}, locale : Locales \cup {None}]
      BY <1>3, <1>4, <2>2 DEF As
    <3> QED
      BY <3>1, ClientSessionAssumption
  <2>4. b.user = c.user /\ b.locale = next[c.user]
    BY <2>2 DEF As
  <2>5. Changed(i, b, FALSE) \/ Changed(i, Refused, TRUE)
    BY <1>2, <2>2
  <2> QED
    BY <2>1, <2>3, <2>4, <2>5
<1>6. /\ q = [j \in DOMAIN calls |-> q[j]]
      /\ q[i] = [c EXCEPT !.answer = a, !.late = lost]
      /\ \A j \in DOMAIN calls \ {i} :
            q[j] = [calls[j] EXCEPT !.late = calls[j].late \/ calls[j].answer # None
                                                        \/ calls[j].kind = "locale"]
  <2>1. Changed(i, a, lost)
    BY <1>5
  <2>2. q = [j \in DOMAIN calls |-> Marked(j, i, a, lost)]
    BY <1>2, <2>1, Zenon DEF Changed, Marked
  <2>3. /\ q = [j \in DOMAIN calls |-> q[j]]
        /\ \A j \in DOMAIN calls : q[j] = Marked(j, i, a, lost)
    BY <2>2
  <2>4. q[i] = [c EXCEPT !.answer = a, !.late = lost]
    BY <1>2, <2>3, Zenon DEF Marked
  <2>5. ASSUME NEW j \in DOMAIN calls \ {i}
        PROVE  q[j] = [calls[j] EXCEPT !.late = calls[j].late \/ calls[j].answer # None
                                                        \/ calls[j].kind = "locale"]
    <3>1. j \in DOMAIN calls /\ j # i
      OBVIOUS
    <3> QED
      BY <2>3, <3>1, Zenon DEF Marked
  <2> QED
    BY <2>3, <2>4, <2>5
<1>7. PICK d : d = [c EXCEPT !.answer = a, !.late = lost]
  OBVIOUS
<1>8. CallOk(d, next) /\ d.kind = "locale"
  <2>1. PICK e : e = [c EXCEPT !.answer = a]
    OBVIOUS
  <2>2. IsCall(e) /\ e.kind = "locale" /\ e.answer = a /\ e.user = c.user
    BY <1>3, <2>1 DEF CallOk, IsCall
  <2>3. d = [e EXCEPT !.late = lost]
    BY <1>7, <2>1
  <2>4. IsCall(d) /\ d.kind = "locale" /\ d.answer = a /\ d.late = lost /\ d.user = c.user
    BY <1>5, <2>2, <2>3 DEF IsCall
  <2> QED
    BY <1>3, <1>5, <2>4 DEF CallOk, AnswerOk, PreviousOk, Brings
<1>9. ASSUME NEW j \in DOMAIN calls, j # i PROVE CallOk(q[j], next) /\ q[j].kind = calls[j].kind
  <2>1. PICK e, late : e = calls[j] /\ late = (e.late \/ e.answer # None \/ e.kind = "locale")
    OBVIOUS
  <2>2. CallOk(e, preferred)
    BY <1>1, <2>1, CallsFacts
  <2>3. late \in BOOLEAN
    BY <2>1
  <2>4. PICK f : f = [e EXCEPT !.late = late]
    OBVIOUS
  <2>5. q[j] = f
    BY <1>6, <1>9, <2>1, <2>4
  <2>6. IsCall(f) /\ f.kind = e.kind /\ f.late = late /\ f.answer = e.answer
        /\ (e.kind = "locale" => f.user = e.user)
    BY <2>2, <2>3, <2>4 DEF CallOk, IsCall
  <2>7. AnswerOk(f, next)
    BY <2>1, <2>2, <2>6 DEF CallOk, AnswerOk, Brings
  <2>8. PreviousOk(f, next)
    BY <2>1, <2>6 DEF PreviousOk
  <2> QED
    BY <2>1, <2>5, <2>6, <2>7, <2>8 DEF CallOk
<1>10. \A j \in DOMAIN calls : CallOk(q[j], next) /\ q[j].kind = calls[j].kind
  <2>1. q[i] = d
    BY <1>6, <1>7
  <2> QED
    BY <1>2, <1>3, <1>8, <1>9, <2>1
<1>11. Follows(q, calls, next)
  <2>1. q = [j \in DOMAIN calls |-> q[j]]
    BY <1>6
  <2> QED
    BY <1>1, <1>10, <2>1, Mapped
<1> QED
  BY <1>2, <1>4, <1>11 DEF Follows, HasLocale

LEMMA ServeKeeps ==
    ASSUME SessionInv, NEW i \in DOMAIN calls, Serve(i)
    PROVE  SessionInv'
<1>1. /\ ScreenOk(store, route, nav, shownTo) /\ cookie \in Users \cup {None} /\ CallsInv
      /\ preferred \in [Users -> Locales] /\ CallOk(calls[i], preferred)
  BY CallsFacts DEF SessionInv, ScreenInv, CallsInv
<1>2. calls[i].answer = None /\ UNCHANGED <<store, locale, route, nav, seen, astray>>
  BY DEF Serve
<1>3. ASSUME cookie' \in Users \cup {None}, Follows(calls', calls, preferred), UNCHANGED preferred
      PROVE  SessionInv'
  <2>1. ScreenInv'
    BY <1>1, <1>2, <1>3 DEF SessionInv, ScreenInv, seen
  <2> QED
    BY <1>1, <1>2, <1>3, <2>1, Quiet DEF SessionInv
<1>4. ASSUME NEW u \in Users, calls[i].kind # "locale", AnswerTo(i, As(u, preferred))
      PROVE  Follows(calls', calls, preferred)
  BY <1>1, <1>2, <1>4, AnsweredCall
<1>5. ASSUME AnswerTo(i, Refused)
      PROVE  Follows(calls', calls, preferred)
  BY <1>1, <1>2, <1>5, AnsweredCall
<1>6. CASE calls[i].kind \in {"refresh", "guard"}
  <2>1. Refreshes(i) /\ UNCHANGED preferred
    BY <1>6 DEF Serve
  <2>2. cookie' \in Users \cup {None} /\ Follows(calls', calls, preferred)
    BY <1>1, <1>4, <1>5, <1>6, <2>1 DEF Refreshes
  <2> QED
    BY <1>3, <2>1, <2>2
<1>7. CASE calls[i].kind = "login"
  <2>1. /\ \/ AnswerTo(i, As(calls[i].user, preferred)) /\ cookie' = calls[i].user
           \/ AnswerTo(i, Refused) /\ cookie' \in {cookie, calls[i].user}
        /\ UNCHANGED preferred
    BY <1>7 DEF Serve
  <2>2. calls[i].user \in Users
    BY <1>1, <1>7 DEF CallOk, IsCall
  <2>3. cookie' \in Users \cup {None} /\ Follows(calls', calls, preferred)
    BY <1>1, <1>4, <1>5, <1>7, <2>1, <2>2
  <2> QED
    BY <1>3, <2>1, <2>3
<1>8. CASE calls[i].kind = "logout"
  <2>1. AnswerTo(i, Refused) /\ cookie' \in {cookie, None} /\ UNCHANGED preferred
    BY <1>8 DEF Serve
  <2> QED
    BY <1>1, <1>3, <1>5, <2>1
<1>9. CASE calls[i].kind = "locale"
  <2>1. /\ \/ /\ calls[i].user # None
              /\ preferred' = [preferred EXCEPT ![calls[i].user] = calls[i].wanted]
              /\ Changed(i, As(calls[i].user, preferred'), FALSE) \/ Changed(i, Refused, TRUE)
           \/ AnswerTo(i, Refused) /\ UNCHANGED preferred
        /\ UNCHANGED cookie
    BY <1>9, Zenon DEF Serve
  <2>2. CASE AnswerTo(i, Refused) /\ UNCHANGED preferred
    BY <1>1, <1>3, <1>5, <2>1, <2>2
  <2>3. CASE /\ calls[i].user # None
             /\ preferred' = [preferred EXCEPT ![calls[i].user] = calls[i].wanted]
             /\ Changed(i, As(calls[i].user, preferred'), FALSE) \/ Changed(i, Refused, TRUE)
    <3>1. preferred' \in [Users -> Locales] /\ CallsOk(calls', preferred') /\ HasLocale(calls')
      BY <1>1, <1>2, <1>9, <2>3, ChangedCalls
    <3>2. CallsInv'
      BY <3>1 DEF CallsInv, LocaleOk
    <3>3. ScreenInv'
      BY <1>1, <1>2, <2>1 DEF SessionInv, ScreenInv, seen
    <3> QED
      BY <3>2, <3>3 DEF SessionInv
  <2> QED
    BY <2>1, <2>2, <2>3
<1>10. CASE calls[i].kind = "load"
  BY <1>10 DEF Serve
<1>11. calls[i].kind \in Kinds
  BY <1>1 DEF CallOk, IsCall
<1> QED
  BY <1>6, <1>7, <1>8, <1>9, <1>10, <1>11 DEF Kinds

----------------------------------------------------------------------------
(* Answers.                                                                 *)

\* What lands was answered, and is as late as its call says.
LEMMA LandingFacts ==
    ASSUME SessionInv, NEW i \in DOMAIN calls, Lands(i)
    PROVE  /\ UNCHANGED <<route, cookie, preferred>>
           /\ CallOk(calls[i], preferred)
           /\ CallsOk(Without(i), preferred)
           /\ calls[i].kind # "locale" => Follows(Without(i), calls, preferred)
           /\ ~Failed(calls[i]) => /\ Brings(calls[i]) /\ calls[i].answer.user \in Users
                                   /\ ~calls[i].late => calls[i].answer.locale = preferred[calls[i].answer.user]
<1>1. CallsOk(calls, preferred)
  BY DEF SessionInv, CallsInv
<1>2. CallOk(calls[i], preferred)
  BY <1>1, CallsFacts
<1>3. CallsOk(Without(i), preferred) /\ (calls[i].kind # "locale" => Follows(Without(i), calls, preferred))
  BY <1>1, Landed DEF Without
<1>4. ~Failed(calls[i]) => Brings(calls[i])
  BY DEF Failed, Brings, Lands
<1> QED
  BY <1>2, <1>3, <1>4 DEF Lands, CallOk, AnswerOk

LEMMA LoginLandsKeeps ==
    ASSUME SessionInv, NEW i \in DOMAIN calls, LoginLands(i)
    PROVE  SessionInv'
<1>1. Lands(i) /\ calls[i].kind = "login"
  BY DEF LoginLands
<1>2. CASE Failed(calls[i])
  <2>1. calls' = Without(i) /\ UNCHANGED <<store, locale, nav, seen, astray>>
    BY <1>2 DEF LoginLands
  <2>2. ScreenInv'
    BY <1>1, <2>1, LandingFacts DEF SessionInv, ScreenInv, seen
  <2>3. CallsInv'
    BY <1>1, <2>1, LandingFacts, Quiet DEF SessionInv
  <2> QED
    BY <2>2, <2>3 DEF SessionInv
<1>3. CASE ~Failed(calls[i])
  <2>1. PICK u, l : u = calls[i].answer.user /\ l = calls[i].answer.locale
    OBVIOUS
  <2>2. SetSession(u, l) /\ astray' = calls[i].late /\ Navigate("dashboard", Without(i))
    BY <1>3, <2>1 DEF LoginLands
  <2>3. nav' \in Places /\ CallsOk(calls', preferred)
    <3>1. nav' = "dashboard" /\ Follows(calls', Without(i), preferred)
      BY <1>1, <2>2, LandingFacts, Navigated
    <3> QED
      BY <3>1 DEF Places, Paths, Follows
  <2>4. u \in Users /\ (~astray' => l = preferred[u])
    BY <1>1, <1>3, <2>1, <2>2, LandingFacts
  <2> QED
    BY <1>1, <2>2, <2>3, <2>4, LandingFacts, SessionSet
<1> QED
  BY <1>2, <1>3

LEMMA LogoutLandsKeeps ==
    ASSUME SessionInv, NEW i \in DOMAIN calls, LogoutLands(i)
    PROVE  SessionInv'
  BY LandingFacts, SessionEnds DEF LogoutLands

LEMMA GuardLandsKeeps ==
    ASSUME SessionInv, NEW i \in DOMAIN calls, GuardLands(i)
    PROVE  SessionInv'
<1>1. Lands(i) /\ calls[i].kind = "guard" /\ calls' = Without(i)
  BY DEF GuardLands
<1>2. CASE Failed(calls[i])
  <2>1. nav' = "login" /\ UNCHANGED <<store, locale, seen, astray>>
    BY <1>2 DEF GuardLands
  <2>2. None # "login"
    BY ClientSessionAssumption
  <2>3. ScreenInv'
    BY <1>1, <2>1, <2>2, LandingFacts
       DEF SessionInv, ScreenInv, ScreenOk, WayOk, Places, seen
  <2>4. CallsInv'
    BY <1>1, <2>1, LandingFacts, Quiet DEF SessionInv
  <2> QED
    BY <2>3, <2>4 DEF SessionInv
<1>3. CASE ~Failed(calls[i])
  <2>1. PICK u, l : u = calls[i].answer.user /\ l = calls[i].answer.locale
    OBVIOUS
  <2>2. SetSession(u, l) /\ astray' = calls[i].late /\ UNCHANGED nav
    BY <1>3, <2>1 DEF GuardLands
  <2>3. nav' \in Places /\ CallsOk(calls', preferred)
    BY <1>1, <2>2, LandingFacts DEF SessionInv, ScreenInv, ScreenOk
  <2>4. u \in Users /\ (~astray' => l = preferred[u])
    BY <1>1, <1>3, <2>1, <2>2, LandingFacts
  <2> QED
    BY <1>1, <2>2, <2>3, <2>4, LandingFacts, SessionSet
<1> QED
  BY <1>2, <1>3

\* A call that waited is replayed.
Replayed(w) ==
    IF w.kind = "load" /\ w.waiting
    THEN [w EXCEPT !.waiting = FALSE, !.replayed = TRUE,
                   !.token = store'.token, !.header = HeaderAgain(w, store')]
    ELSE w

LEMMA ReplayedCall ==
    ASSUME NEW prefs, NEW w, CallOk(w, prefs)
    PROVE  /\ CallOk(Replayed(w), prefs) /\ Replayed(w).kind = w.kind
           /\ w.kind = "load" => Replayed(w).waiting = FALSE
<1>1. ASSUME NEW c, CallOk(c, prefs), c.kind = "load", NEW d, NEW v,
             \/ d = [c EXCEPT !.waiting = FALSE]
             \/ /\ c.waiting = FALSE
                /\ \/ d = [c EXCEPT !.replayed = v] \/ d = [c EXCEPT !.token = v]
                   \/ d = [c EXCEPT !.header = v]
      PROVE  CallOk(d, prefs) /\ d.kind = "load" /\ d.waiting = FALSE
  <2>1. IsCall(c) /\ AnswerOk(c, prefs)
    BY <1>1 DEF CallOk
  <2>2. IsCall(d) /\ d.kind = "load" /\ d.answer = c.answer /\ d.late = c.late /\ d.waiting = FALSE
    BY <1>1, <2>1 DEF IsCall
  <2> QED
    BY <1>1, <2>1, <2>2 DEF CallOk, AnswerOk, PreviousOk, Brings
<1>2. CASE w.kind = "load" /\ w.waiting
  <2>1. PICK c : c = [w EXCEPT !.waiting = FALSE]
    OBVIOUS
  <2>2. PICK d : d = [c EXCEPT !.replayed = TRUE]
    OBVIOUS
  <2>3. PICK e : e = [d EXCEPT !.token = store'.token]
    OBVIOUS
  <2>4. PICK f : f = [e EXCEPT !.header = HeaderAgain(w, store')]
    OBVIOUS
  <2>5. Replayed(w) = f
    BY <1>2, <2>1, <2>2, <2>3, <2>4, Zenon DEF Replayed
  <2>6. CallOk(c, prefs) /\ c.kind = "load" /\ c.waiting = FALSE
    BY <1>1, <1>2, <2>1
  <2>7. CallOk(d, prefs) /\ d.kind = "load" /\ d.waiting = FALSE
    BY <1>1, <2>2, <2>6
  <2>8. CallOk(e, prefs) /\ e.kind = "load" /\ e.waiting = FALSE
    BY <1>1, <2>3, <2>7
  <2>9. CallOk(f, prefs) /\ f.kind = "load" /\ f.waiting = FALSE
    BY <1>1, <2>4, <2>8
  <2> QED
    BY <1>2, <2>5, <2>9
<1>3. CASE ~(w.kind = "load" /\ w.waiting)
  <2>1. Replayed(w) = w
    BY <1>3, Zenon DEF Replayed
  <2> QED
    BY <1>3, <2>1 DEF CallOk, IsCall
<1> QED
  BY <1>2, <1>3

LEMMA RefreshLandsKeeps ==
    ASSUME SessionInv, NEW i \in DOMAIN calls, RefreshLands(i)
    PROVE  SessionInv'
<1>1. Lands(i) /\ calls[i].kind = "refresh"
  BY Zenon DEF RefreshLands
<1>2. PICK r : r = Without(i)
  OBVIOUS
<1>3. CallsOk(r, preferred) /\ UNCHANGED <<route, cookie, preferred>>
  BY <1>1, <1>2, LandingFacts
<1>4. CASE Failed(calls[i])
  <2>1. Ended(Given(r))
    BY <1>2, <1>4, Zenon DEF RefreshLands
  <2>2. CallsOk(Given(r), preferred)
    <3>1. PICK K \in SUBSET DOMAIN r : Given(r) = Kept(r, K)
      BY DEF Given
    <3> QED
      BY <1>3, <3>1, KeptCalls
  <2> QED
    BY <1>3, <2>1, <2>2, SessionEnds
<1>5. CASE ~Failed(calls[i])
  <2>1. PICK u, l : u = calls[i].answer.user /\ l = calls[i].answer.locale
    OBVIOUS
  <2>2. SetSession(u, l) /\ astray' = calls[i].late /\ UNCHANGED nav
    BY <1>5, <2>1, Zenon DEF RefreshLands
  <2>3. calls' = [j \in DOMAIN r |-> Replayed(r[j])]
    BY <1>2, <1>5, Zenon DEF RefreshLands, Replayed
  <2>4. CallsOk(calls', preferred)
    <3>1. PICK q : q = calls'
      OBVIOUS
    <3>2. q = [j \in DOMAIN r |-> q[j]] /\ \A j \in DOMAIN r : q[j] = Replayed(r[j])
      BY <2>3, <3>1
    <3>3. \A j \in DOMAIN r : CallOk(q[j], preferred) /\ q[j].kind = r[j].kind
      BY <1>3, <3>2, CallsFacts, ReplayedCall
    <3>4. Follows(q, r, preferred)
      BY <1>3, <3>2, <3>3, Mapped
    <3> QED
      BY <3>1, <3>4 DEF Follows
  <2>5. nav' \in Places
    BY <2>2 DEF SessionInv, ScreenInv, ScreenOk
  <2>6. u \in Users /\ (~astray' => l = preferred[u])
    BY <1>1, <1>5, <2>1, <2>2, LandingFacts
  <2> QED
    BY <1>3, <2>2, <2>4, <2>5, <2>6, SessionSet
<1> QED
  BY <1>4, <1>5

LEMMA LocaleLandsKeeps ==
    ASSUME SessionInv, NEW i \in DOMAIN calls, LocaleLands(i)
    PROVE  SessionInv'
<1>1. Lands(i) /\ calls[i].kind = "locale" /\ calls' = Without(i) /\ UNCHANGED <<nav, seen>>
  BY Zenon DEF LocaleLands
<1>2. PICK c : c = calls[i]
  OBVIOUS
<1>3. /\ UNCHANGED <<route, cookie, preferred>> /\ CallsOk(calls', preferred)
      /\ CallOk(c, preferred) /\ c.kind = "locale" /\ c.late \in BOOLEAN /\ c.astray \in BOOLEAN
  BY <1>1, <1>2, LandingFacts DEF CallOk, IsCall
<1>4. CASE Failed(c)
  <2>1. /\ locale' = c.previous /\ UNCHANGED store
        /\ astray' = (astray \/ c.astray \/ c.late \/ c.user # store.token)
    BY <1>2, <1>4, Zenon DEF LocaleLands, RolledBack
  <2>2. ScreenInv'
    BY <1>1, <1>3, <2>1 DEF SessionInv, ScreenInv, seen
  <2>3. LocaleOk(store', locale', preferred', calls', astray')
    <3>1. ~Brings(c)
      BY <1>4 DEF Failed, Brings
    <3> QED
      BY <1>3, <2>1, <3>1 DEF LocaleOk, CallOk, PreviousOk
  <2> QED
    BY <1>3, <2>2, <2>3 DEF SessionInv, CallsInv
<1>5. CASE ~Failed(c)
  <2>1. /\ store' = [store EXCEPT !.user = c.answer.user] /\ locale' = c.answer.locale
        /\ astray' = (c.late \/ c.user # store.token)
    BY <1>2, <1>5, Zenon DEF LocaleLands
  <2>2. /\ c.answer.user \in Users /\ c.answer.user = c.user
        /\ ~c.late => c.answer.locale = preferred[c.answer.user]
    <3>1. Brings(c)
      BY <1>1, <1>2, <1>5, LandingFacts
    <3> QED
      BY <1>3, <3>1 DEF CallOk, AnswerOk
  <2>3. c.answer.user # None
    BY <2>2, ClientSessionAssumption
  <2>4. /\ IsStore(store') /\ store'.user = c.answer.user /\ store'.token = store.token
        /\ store'.tenant = store.tenant
    BY <2>1, <2>2 DEF SessionInv, ScreenInv, ScreenOk, IsStore
  <2>5. ScreenInv'
    BY <1>1, <1>3, <2>3, <2>4 DEF SessionInv, ScreenInv, ScreenOk, WayOk, CompanyOk, seen
  <2>6. LocaleOk(store', locale', preferred', calls', astray')
    BY <1>3, <2>1, <2>2, <2>4 DEF LocaleOk
  <2> QED
    BY <1>3, <2>5, <2>6 DEF SessionInv, CallsInv
<1> QED
  BY <1>4, <1>5

\* A call that meets a 401 waits for the refresh.
LEMMA Meets401 ==
    ASSUME SessionInv, NEW i \in DOMAIN calls, calls[i].kind = "load",
           NEW q, q = <<>> \/ q = <<Call("refresh")>>,
           calls' = [calls EXCEPT ![i].waiting = TRUE] \o q
    PROVE  Follows(calls', calls, preferred)
<1>1. CallsOk(calls, preferred)
  BY DEF SessionInv, CallsInv
<1>2. PICK w : w = [calls EXCEPT ![i].waiting = TRUE]
  OBVIOUS
<1>3. PICK c : c = calls[i]
  OBVIOUS
<1>4. CallOk(c, preferred) /\ c.kind = "load"
  BY <1>1, <1>3, CallsFacts
<1>5. PICK d : d = [c EXCEPT !.waiting = TRUE]
  OBVIOUS
<1>6. CallOk(d, preferred) /\ d.kind = "load"
  <2>1. IsCall(d) /\ d.kind = "load" /\ d.answer = c.answer /\ d.late = c.late
    BY <1>4, <1>5 DEF CallOk, IsCall
  <2> QED
    BY <1>4, <2>1 DEF CallOk, AnswerOk, PreviousOk, Brings
<1>7. w = [j \in DOMAIN calls |-> IF j = i THEN d ELSE calls[j]]
  BY <1>1, <1>2, <1>3, <1>5, CallsFacts
<1>8. \A j \in DOMAIN calls : CallOk(w[j], preferred) /\ w[j].kind = calls[j].kind
  BY <1>1, <1>3, <1>4, <1>6, <1>7, CallsFacts
<1>9. Follows(w, calls, preferred)
  <2>1. w = [j \in DOMAIN calls |-> w[j]]
    BY <1>7
  <2> QED
    BY <1>1, <1>8, <2>1, Mapped
<1>10. CallsOk(q, preferred)
  BY FreshCalls, Single
<1>11. Follows(w \o q, w, preferred)
  BY <1>9, <1>10, Added DEF Follows
<1> QED
  BY <1>2, <1>9, <1>11 DEF Follows

LEMMA LoadLandsKeeps ==
    ASSUME SessionInv, NEW i \in DOMAIN calls, LoadLands(i)
    PROVE  SessionInv'
<1>1. /\ calls[i].kind = "load"
      /\ UNCHANGED <<route, cookie, preferred, astray>>
  BY Zenon DEF LoadLands
<1>2. PICK c, r : c = calls[i] /\ r = Without(i)
  OBVIOUS
<1>3. PICK a :
          CASE a = "401" /\ ~c.replayed ->
                  /\ calls' = [calls EXCEPT ![i].waiting = TRUE]
                                 \o IF Tries("refresh") THEN <<>> ELSE <<Call("refresh")>>
                  /\ UNCHANGED <<store, locale, nav, seen>>
            [] a # "ok" /\ c.replayed -> Ended(r)
            [] a = "ok" /\ c.tenants /\ store.tenant = None ->
                  \E t \in Companies \cup {None} :
                     /\ IF t = None THEN UNCHANGED <<store, deselected>> /\ calls' = r
                        ELSE Selected(t, r) /\ deselected' = FALSE
                     /\ UNCHANGED <<locale, nav, shownTo, turned>>
            [] OTHER -> calls' = r /\ UNCHANGED <<store, locale, nav, seen>>
  BY <1>2, Zenon DEF LoadLands
<1>4. ScreenInv /\ CallsInv /\ CallsOk(calls, preferred)
  BY DEF SessionInv, CallsInv
<1>5. Follows(r, calls, preferred) /\ CallsOk(r, preferred)
  BY <1>1, <1>2, <1>4, Landed DEF Without, Follows
<1>6. ASSUME UNCHANGED <<store, locale, nav, seen>>, Follows(calls', calls, preferred) PROVE SessionInv'
  <2>1. ScreenInv'
    BY <1>1, <1>4, <1>6 DEF ScreenInv, seen
  <2> QED
    BY <1>1, <1>4, <1>6, <2>1, Quiet DEF SessionInv
<1>7. CASE a = "401" /\ ~c.replayed
  <2>1. PICK q : /\ q = <<>> \/ q = <<Call("refresh")>>
                 /\ calls' = [calls EXCEPT ![i].waiting = TRUE] \o q
                 /\ UNCHANGED <<store, locale, nav, seen>>
    BY <1>3, <1>7
  <2> QED
    BY <1>1, <1>6, <2>1, Meets401
<1>8. CASE a # "ok" /\ c.replayed
  <2>1. Ended(r)
    BY <1>3, <1>8
  <2> QED
    BY <1>1, <1>5, <2>1, SessionEnds
<1>9. CASE a = "ok" /\ c.tenants /\ store.tenant = None
  <2>1. PICK t \in Companies \cup {None} :
            /\ IF t = None THEN UNCHANGED <<store, deselected>> /\ calls' = r
               ELSE Selected(t, r) /\ deselected' = FALSE
            /\ UNCHANGED <<locale, nav, shownTo, turned>>
    BY <1>3, <1>9
  <2>2. CASE t = None
    BY <1>5, <1>6, <2>1, <2>2 DEF seen
  <2>3. CASE t # None
    <3>1. store'.token = store.token /\ Follows(calls', r, preferred) /\ ScreenInv'
      BY <1>1, <1>4, <1>5, <2>1, <2>3, SelectionKeeps
    <3>2. Follows(calls', calls, preferred)
      BY <1>5, <3>1 DEF Follows
    <3> QED
      BY <1>1, <1>4, <2>1, <3>1, <3>2, Quiet DEF SessionInv
  <2> QED
    BY <2>2, <2>3
<1>10. CASE /\ ~(a = "401" /\ ~c.replayed) /\ ~(a # "ok" /\ c.replayed)
            /\ ~(a = "ok" /\ c.tenants /\ store.tenant = None)
  <2>1. calls' = r /\ UNCHANGED <<store, locale, nav, seen>>
    BY <1>3, <1>10
  <2> QED
    BY <1>5, <1>6, <2>1
<1> QED
  BY <1>7, <1>8, <1>9, <1>10

----------------------------------------------------------------------------
(* Refreshes, and who waits for one.                                        *)

Renews(c) == c.kind \in {"refresh", "guard"}
Awaits(c) == c.kind = "load" /\ c.waiting

\* One at most for calls that have met a 401, and one for a guard.
AtMostOne(q) == \A i, j \in DOMAIN q : Renews(q[i]) /\ q[j].kind = q[i].kind => i = j
Has(q, k) == \E i \in DOMAIN q : q[i].kind = k
Awaiting(q) == \E i \in DOMAIN q : Awaits(q[i])

\* q comes of r without another refresh or another call that waits for one, and
\* with the refresh r has.
Keeps(q, r) ==
    /\ AtMostOne(r) => AtMostOne(q)
    /\ Has(r, "refresh") => Has(q, "refresh")
    /\ Awaiting(q) => Awaiting(r)

LEMMA KeepsOn ==
    ASSUME NEW q, NEW r, NEW s, Keeps(q, r), Keeps(r, s)
    PROVE  Keeps(q, s)
  BY DEF Keeps

\* The calls of q are at places of their own in r, and all refreshes are in q.
LEMMA KeepsPlaces ==
    ASSUME NEW q, NEW r, NEW at,
           \A k \in DOMAIN q : at[k] \in DOMAIN r /\ q[k] = r[at[k]],
           \A k, h \in DOMAIN q : at[k] = at[h] => k = h,
           \A j \in DOMAIN r : r[j].kind = "refresh" => \E k \in DOMAIN q : at[k] = j
    PROVE  Keeps(q, r)
<1>1. AtMostOne(r) => AtMostOne(q)
  BY DEF AtMostOne
<1>2. Has(r, "refresh") => Has(q, "refresh")
  BY DEF Has
<1>3. Awaiting(q) => Awaiting(r)
  BY DEF Awaiting
<1> QED
  BY <1>1, <1>2, <1>3 DEF Keeps

\* Calls that are marked keep what they are.
LEMMA KeepsMarked ==
    ASSUME NEW q, NEW r, DOMAIN q = DOMAIN r,
           \A k \in DOMAIN r : q[k].kind = r[k].kind /\ (Awaits(q[k]) => Awaits(r[k]))
    PROVE  Keeps(q, r)
<1>1. AtMostOne(r) => AtMostOne(q)
  BY DEF AtMostOne, Renews
<1>2. Has(r, "refresh") => Has(q, "refresh")
  BY DEF Has
<1>3. Awaiting(q) => Awaiting(r)
  BY DEF Awaiting
<1> QED
  BY <1>1, <1>2, <1>3 DEF Keeps

\* So does what is left when other calls are given up.
LEMMA KeepsKept ==
    ASSUME NEW prefs, NEW r, CallsOk(r, prefs), NEW K \in SUBSET DOMAIN r,
           \A j \in DOMAIN r : r[j].kind = "refresh" => j \in K
    PROVE  Keeps(Kept(r, K), r) /\ \A k \in DOMAIN Kept(r, K) : \E j \in K : Kept(r, K)[k] = r[j]
<1>1. CASE K = DOMAIN r
  BY <1>1 DEF Kept, Keeps
<1>2. CASE K # DOMAIN r
  <2>1. PICK n \in Nat : DOMAIN r = 1 .. n
    BY CallsFacts
  <2>2. PICK m \in Nat : m = Cardinality(K)
    BY <2>1, Ranked
  <2>3. /\ \A i, j \in K : Rank(K, i) = Rank(K, j) => i = j
        /\ \A j \in K : Rank(K, j) \in 1 .. m
        /\ \A k \in 1 .. m : \E j \in K : Rank(K, j) = k
    <3>1. K \in SUBSET (1 .. n)
      BY <2>1
    <3> QED
      BY <2>2, <3>1, Ranked
  <2>4. PICK at : at = [k \in 1 .. m |-> CHOOSE j \in K : Rank(K, j) = k]
    OBVIOUS
  <2>5. ASSUME NEW k \in 1 .. m PROVE at[k] \in K /\ Rank(K, at[k]) = k
    BY <2>3, <2>4
  <2>6. PICK q : q = Kept(r, K)
    OBVIOUS
  <2>7. q = [k \in 1 .. m |-> r[CHOOSE j \in K : Rank(K, j) = k]]
    BY <1>2, <2>2, <2>6 DEF Kept
  <2>8. DOMAIN q = 1 .. m /\ \A k \in 1 .. m : q[k] = r[at[k]]
    BY <2>4, <2>7
  <2>9. \A k, h \in 1 .. m : at[k] = at[h] => k = h
    BY <2>5
  <2>10. ASSUME NEW j \in K PROVE \E k \in 1 .. m : at[k] = j
    BY <2>3, <2>5
  <2>11. Keeps(q, r)
    BY <2>5, <2>8, <2>9, <2>10, KeepsPlaces
  <2> QED
    BY <2>5, <2>6, <2>8, <2>11
<1> QED
  BY <1>1, <1>2

\* A call lands.
LEMMA KeepsRest ==
    ASSUME NEW prefs, NEW r, CallsOk(r, prefs), NEW i \in DOMAIN r
    PROVE  /\ r[i].kind # "refresh" => Keeps(RemoveAt(r, i), r)
           /\ AtMostOne(r) => AtMostOne(RemoveAt(r, i))
<1>1. PICK S : r \in Seq(S) /\ \A d \in S : CallOk(d, prefs)
  BY DEF CallsOk
<1>2. PICK n \in Nat : n = Len(r) /\ DOMAIN r = 1 .. n
  BY <1>1
<1>3. PICK a, b : a = SubSeq(r, 1, i - 1) /\ b = SubSeq(r, i + 1, n)
  OBVIOUS
<1>4. /\ a \in Seq(S) /\ Len(a) = i - 1 /\ \A k \in 1 .. i - 1 : a[k] = r[k]
  BY <1>1, <1>2, <1>3, SubSeqProperties
<1>5. /\ b \in Seq(S) /\ Len(b) = n - i /\ \A k \in 1 .. n - i : b[k] = r[i + k]
  <2>1. /\ b \in Seq(S) /\ Len(b) = n - i
        /\ \A k \in 1 .. n - i : b[k] = r[(i + 1) + k - 1]
    BY <1>1, <1>2, <1>3, SubSeqProperties
  <2>2. \A k \in 1 .. n - i : (i + 1) + k - 1 = i + k
    BY <1>2
  <2> QED
    BY <2>1, <2>2
<1>6. PICK q : q = a \o b
  OBVIOUS
<1>7. /\ q \in Seq(S) /\ Len(q) = Len(a) + Len(b)
      /\ \A k \in 1 .. Len(a) + Len(b) : q[k] = IF k <= Len(a) THEN a[k] ELSE b[k - Len(a)]
  BY <1>4, <1>5, <1>6, ConcatProperties
<1>8. RemoveAt(r, i) = q
  BY <1>2, <1>3, <1>6 DEF RemoveAt
<1>9. DOMAIN q = 1 .. n - 1
  BY <1>2, <1>4, <1>5, <1>7
<1>10. PICK at : at = [k \in 1 .. n - 1 |-> IF k < i THEN k ELSE k + 1]
  OBVIOUS
<1>11. ASSUME NEW k \in 1 .. n - 1 PROVE at[k] \in DOMAIN r /\ at[k] # i /\ q[k] = r[at[k]]
  <2>1. CASE k < i
    <3>1. k \in 1 .. Len(a) + Len(b) /\ k <= Len(a) /\ k \in 1 .. i - 1
      BY <1>2, <1>4, <1>5, <2>1
    <3> QED
      BY <1>2, <1>4, <1>7, <1>10, <2>1, <3>1
  <2>2. CASE k >= i
    <3>1. /\ k \in 1 .. Len(a) + Len(b) /\ ~(k <= Len(a)) /\ k - Len(a) = k - (i - 1)
          /\ k - (i - 1) \in 1 .. n - i /\ i + (k - (i - 1)) = k + 1
      BY <1>2, <1>4, <1>5, <2>2
    <3>2. q[k] = b[k - (i - 1)]
      BY <1>7, <3>1
    <3>3. q[k] = r[k + 1]
      BY <1>5, <3>1, <3>2
    <3>4. at[k] = k + 1 /\ k + 1 \in DOMAIN r /\ k + 1 # i
      BY <1>2, <1>10, <2>2
    <3> QED
      BY <3>3, <3>4
  <2> QED
    BY <1>2, <2>1, <2>2
<1>12. \A k, h \in 1 .. n - 1 : at[k] = at[h] => k = h
  BY <1>2, <1>10
<1>13. ASSUME NEW j \in DOMAIN r, j # i PROVE \E k \in 1 .. n - 1 : at[k] = j
  <2>1. CASE j < i
    <3>1. j \in 1 .. n - 1 /\ at[j] = j
      BY <1>2, <1>10, <2>1
    <3> QED
      BY <3>1
  <2>2. CASE j > i
    <3>1. j - 1 \in 1 .. n - 1 /\ at[j - 1] = j
      BY <1>2, <1>10, <2>2
    <3> QED
      BY <3>1
  <2> QED
    BY <1>2, <1>13, <2>1, <2>2
<1>14. r[i].kind # "refresh" => Keeps(q, r)
  <2> SUFFICES ASSUME r[i].kind # "refresh" PROVE Keeps(q, r)
    OBVIOUS
  <2>1. \A j \in DOMAIN r : r[j].kind = "refresh" => \E k \in DOMAIN q : at[k] = j
    BY <1>9, <1>13
  <2> QED
    BY <1>9, <1>11, <1>12, <2>1, KeepsPlaces
<1>15. AtMostOne(r) => AtMostOne(q)
  BY <1>9, <1>11, <1>12 DEF AtMostOne
<1> QED
  BY <1>8, <1>14, <1>15

\* Other calls are sent.
LEMMA KeepsSent ==
    ASSUME NEW prefs, NEW r, CallsOk(r, prefs), NEW s, CallsOk(s, prefs),
           \A k \in DOMAIN s : ~Renews(s[k]) /\ ~Awaits(s[k])
    PROVE  Keeps(r \o s, r)
<1>1. PICK S, T : r \in Seq(S) /\ s \in Seq(T)
  BY DEF CallsOk
<1>2. PICK U : U = S \cup T
  OBVIOUS
<1>3. r \in Seq(U) /\ s \in Seq(U)
  BY <1>1, <1>2
<1>4. PICK n, m \in Nat : n = Len(r) /\ m = Len(s)
  BY <1>3
<1>5. PICK q : q = r \o s
  OBVIOUS
<1>6. /\ q \in Seq(U) /\ Len(q) = n + m
      /\ \A k \in 1 .. n + m : q[k] = IF k <= n THEN r[k] ELSE s[k - n]
  BY <1>3, <1>4, <1>5, ConcatProperties
<1>7. DOMAIN q = 1 .. n + m /\ DOMAIN r = 1 .. n /\ DOMAIN s = 1 .. m
  BY <1>3, <1>4, <1>6
<1>8. \A k \in 1 .. n : k \in DOMAIN q /\ q[k] = r[k]
  BY <1>4, <1>6, <1>7
<1>9. ASSUME NEW k \in DOMAIN q PROVE (k \in DOMAIN r /\ q[k] = r[k]) \/ (~Renews(q[k]) /\ ~Awaits(q[k]))
  <2>1. CASE k <= n
    BY <1>4, <1>6, <1>7, <2>1
  <2>2. CASE ~(k <= n)
    <3>1. k - n \in DOMAIN s
      BY <1>4, <1>7, <2>2
    <3> QED
      BY <1>6, <1>7, <2>2, <3>1
  <2> QED
    BY <2>1, <2>2
<1>10. AtMostOne(r) => AtMostOne(q)
  BY <1>9 DEF AtMostOne, Renews
<1>11. Has(r, "refresh") => Has(q, "refresh")
  BY <1>7, <1>8 DEF Has
<1>12. Awaiting(q) => Awaiting(r)
  BY <1>9 DEF Awaiting
<1> QED
  BY <1>5, <1>10, <1>11, <1>12 DEF Keeps

\* Calls that neither are a refresh nor wait for one.
Plain(s) == \A k \in DOMAIN s : ~Renews(s[k]) /\ ~Awaits(s[k])

LEMMA PlainLoads ==
    /\ Plain(<<>>)
    /\ \A p, s : Plain(LoadsOf(p, s))
    /\ \A s : Plain(<<Tenants(s)>>)
<1>1. Plain(<<>>)
  BY DEF Plain
<1>2. ASSUME NEW t, NEW n, NEW a, NEW s PROVE Plain(<<Load(t, n, a, s)>>)
  <2>1. PICK c : c = Load(t, n, a, s)
    OBVIOUS
  <2>2. c.kind = "load" /\ c.waiting = FALSE
    BY <2>1 DEF Load
  <2>3. ~Renews(c) /\ ~Awaits(c)
    BY <2>2 DEF Renews, Awaits
  <2>4. Plain(<<c>>)
    BY <2>3 DEF Plain
  <2> QED
    BY <2>1, <2>4
<1>3. ASSUME NEW p, NEW s PROVE Plain(LoadsOf(p, s))
  <2>1. PICK n, a : LoadsOf(p, s) = <<Load(FALSE, n, a, s)>>
    BY Zenon DEF LoadsOf
  <2> QED
    BY <1>2, <2>1
<1>4. ASSUME NEW s PROVE Plain(<<Tenants(s)>>)
  BY <1>2 DEF Tenants
<1> QED
  BY <1>1, <1>3, <1>4

LEMMA KeepsAppended ==
    ASSUME NEW prefs, NEW r, CallsOk(r, prefs), NEW c, CallOk(c, prefs)
    PROVE  /\ Append(r, c) = r \o <<c>>
           /\ ~Renews(c) /\ ~Awaits(c) => Keeps(Append(r, c), r)
<1>1. PICK S : r \in Seq(S)
  BY DEF CallsOk
<1>2. PICK U : U = S \cup {c}
  OBVIOUS
<1>3. r \in Seq(U) /\ c \in U
  BY <1>1, <1>2
<1>4. Append(r, c) = r \o <<c>>
  BY <1>3, AppendIsConcat
<1>5. CallsOk(<<c>>, prefs)
  BY Single
<1>6. ~Renews(c) /\ ~Awaits(c) => Plain(<<c>>)
  BY DEF Plain
<1> QED
  BY <1>4, <1>5, <1>6, KeepsSent DEF Plain

\* A navigation gives up the refresh of a guard and no other.
LEMMA KeepsNavigated ==
    ASSUME NEW p, NEW rest, CallsOk(rest, preferred), Navigate(p, rest)
    PROVE  Keeps(calls', rest)
<1>1. PICK K \in SUBSET DOMAIN rest :
          /\ calls' = Kept(rest, K)
          /\ \A k \in DOMAIN rest : rest[k].kind = "refresh" => k \in K
  BY DEF Navigate
<1> QED
  BY <1>1, KeepsKept

LEMMA KeepsSelected ==
    ASSUME NEW t, NEW rest, CallsOk(rest, preferred), Selected(t, rest)
    PROVE  Keeps(calls', rest)
<1>1. PICK q : calls' = rest \o q /\ (q = <<>> \/ \E p, s : q = LoadsOf(p, s))
  BY DEF Selected
<1>2. CallsOk(q, preferred) /\ Plain(q)
  BY <1>1, FreshCalls, Single, PlainLoads
<1> QED
  BY <1>1, <1>2, KeepsSent DEF Plain

LEMMA KeepsNoLongerWaited ==
    ASSUME CallsOk(calls, preferred), NEW kind, NEW q, q = WaitsNoMore(kind)
    PROVE  Keeps(q, calls)
<1>1. DOMAIN q = DOMAIN calls
  BY NoLongerWaited
<1>2. ASSUME NEW k \in DOMAIN calls
      PROVE  q[k].kind = calls[k].kind /\ (Awaits(q[k]) => Awaits(calls[k]))
  BY NoLongerWaited DEF Awaits
<1> QED
  BY <1>1, <1>2, KeepsMarked

LEMMA KeepsShown ==
    ASSUME CallsOk(calls, preferred), NEW p, Show(p)
    PROVE  Keeps(calls', calls)
<1>1. CASE p = "login"
  <2>1. calls' = WaitsNoMore("locale")
    BY <1>1 DEF Show
  <2> QED
    BY <2>1, KeepsNoLongerWaited
<1>2. CASE p # "login"
  <2>1. PICK q : q = WaitsNoMore("login")
    OBVIOUS
  <2>2. PICK t : /\ calls' = (q \o t) \o LoadsOf(p, store)
                 /\ t = <<>> \/ t = <<Tenants(store)>>
    BY <1>2, <2>1 DEF Show
  <2>3. CallsOk(q, preferred) /\ Keeps(q, calls)
    BY <2>1, NoLongerWaited, KeepsNoLongerWaited DEF Follows
  <2>4. CallsOk(t, preferred) /\ Plain(t)
    BY <2>2, FreshCalls, Single, PlainLoads
  <2>5. CallsOk(q \o t, preferred) /\ Keeps(q \o t, q)
    BY <2>3, <2>4, Added, KeepsSent DEF Follows, Plain
  <2>6. CallsOk(LoadsOf(p, store), preferred) /\ Plain(LoadsOf(p, store))
    BY FreshCalls, PlainLoads
  <2>7. Keeps((q \o t) \o LoadsOf(p, store), q \o t)
    BY <2>5, <2>6, KeepsSent DEF Plain
  <2>8. Keeps(calls', q)
    BY <2>2, <2>5, <2>7, KeepsOn
  <2> QED
    BY <2>3, <2>8, KeepsOn
<1> QED
  BY <1>1, <1>2

\* What the server does changes no call but for its answer.
LEMMA KeepsServed ==
    ASSUME CallsOk(calls, preferred), NEW i \in DOMAIN calls, Serve(i)
    PROVE  /\ Keeps(calls', calls) /\ DOMAIN calls' = DOMAIN calls
           /\ \A k \in DOMAIN calls : calls'[k].kind = calls[k].kind
<1>1. PICK a, l : AnswerTo(i, a) \/ Changed(i, a, l)
  <2>1. PICK c : c = calls[i]
    OBVIOUS
  <2>2. c.kind \in Kinds
    BY <2>1, CallsFacts DEF CallOk, IsCall
  <2>3. CASE c.kind \in {"refresh", "guard"}
    BY <2>1, <2>3 DEF Serve, Refreshes
  <2>4. CASE c.kind = "login"
    BY <2>1, <2>4 DEF Serve
  <2>5. CASE c.kind = "logout"
    BY <2>1, <2>5 DEF Serve
  <2>6. CASE c.kind = "locale"
    <3>1. \/ Changed(i, As(calls[i].user, preferred'), FALSE) \/ Changed(i, Refused, TRUE)
          \/ AnswerTo(i, Refused)
      BY <2>1, <2>6, Zenon DEF Serve
    <3> QED
      BY <3>1, Zenon
  <2>7. CASE c.kind = "load"
    BY <2>1, <2>7 DEF Serve
  <2> QED
    BY <2>2, <2>3, <2>4, <2>5, <2>6, <2>7 DEF Kinds
<1>2. PICK q : q = calls'
  OBVIOUS
<1>3. ASSUME NEW c, CallOk(c, preferred), NEW d, NEW v,
             \/ d = c \/ d = [c EXCEPT !.answer = v] \/ d = [c EXCEPT !.late = v]
      PROVE  d.kind = c.kind /\ (Awaits(d) => Awaits(c))
  BY <1>3 DEF CallOk, IsCall, Awaits
<1>4. CASE AnswerTo(i, a)
  <2>1. PICK e : e = [calls[i] EXCEPT !.answer = a]
    OBVIOUS
  <2>2. q = [calls EXCEPT ![i] = e]
    BY <1>2, <1>4, <2>1 DEF AnswerTo
  <2>3. DOMAIN q = DOMAIN calls /\ \A k \in DOMAIN calls : q[k] = IF k = i THEN e ELSE calls[k]
    BY <2>2
  <2>4. ASSUME NEW k \in DOMAIN calls
        PROVE  q[k].kind = calls[k].kind /\ (Awaits(q[k]) => Awaits(calls[k]))
    <3>1. CallOk(calls[k], preferred)
      BY CallsFacts
    <3> QED
      BY <1>3, <2>1, <2>3, <3>1
  <2>5. Keeps(q, calls)
    BY <2>3, <2>4, KeepsMarked
  <2> QED
    BY <1>2, <2>3, <2>4, <2>5
<1>5. CASE Changed(i, a, l)
  <2>1. q = [j \in DOMAIN calls |-> Marked(j, i, a, l)]
    BY <1>2, <1>5, Zenon DEF Changed, Marked
  <2>2. DOMAIN q = DOMAIN calls /\ \A k \in DOMAIN calls : q[k] = Marked(k, i, a, l)
    BY <2>1
  <2>3. ASSUME NEW k \in DOMAIN calls
        PROVE  q[k].kind = calls[k].kind /\ (Awaits(q[k]) => Awaits(calls[k]))
    <3>1. CallOk(calls[k], preferred)
      BY CallsFacts
    <3>2. CASE k = i
      <4>1. q[k] = [calls[k] EXCEPT !.answer = a, !.late = l]
        BY <2>2, <3>2, Zenon DEF Marked
      <4>2. PICK c : c = calls[k]
        OBVIOUS
      <4>3. PICK d : d = [c EXCEPT !.answer = a, !.late = l]
        OBVIOUS
      <4>4. d.kind = c.kind /\ (Awaits(d) => Awaits(c))
        BY <3>1, <4>2, <4>3 DEF CallOk, IsCall, Awaits
      <4> QED
        BY <4>1, <4>2, <4>3, <4>4
    <3>3. CASE k # i
      <4>1. PICK c, v : c = calls[k] /\ v = (c.late \/ c.answer # None \/ c.kind = "locale")
        OBVIOUS
      <4>2. PICK d : d = [c EXCEPT !.late = v]
        OBVIOUS
      <4>3. q[k] = d
        BY <2>2, <3>3, <4>1, <4>2, Zenon DEF Marked
      <4> QED
        BY <1>3, <3>1, <4>1, <4>2, <4>3
    <3> QED
      BY <3>2, <3>3
  <2>4. Keeps(q, calls)
    BY <2>2, <2>3, KeepsMarked
  <2> QED
    BY <1>2, <2>2, <2>3, <2>4
<1> QED
  BY <1>1, <1>4, <1>5

\* Whoever waits for a refresh waits for one that is under way.
RefreshInv == AtMostOne(calls) /\ (Awaiting(calls) => Has(calls, "refresh"))

LEMMA Carried ==
    ASSUME RefreshInv, Keeps(calls', calls)
    PROVE  RefreshInv'
  BY DEF RefreshInv, Keeps

\* A refresh is sent when none of its kind is under way.
LEMMA Started ==
    ASSUME NEW prefs, NEW r, CallsOk(r, prefs), AtMostOne(r), NEW k \in {"refresh", "guard"},
           ~Has(r, k), NEW q, q = Append(r, Call(k))
    PROVE  /\ AtMostOne(q) /\ Has(q, k)
           /\ Has(r, "refresh") => Has(q, "refresh")
           /\ Awaiting(q) => Awaiting(r)
<1>1. PICK S : r \in Seq(S)
  BY DEF CallsOk
<1>2. PICK c : c = Call(k)
  OBVIOUS
<1>3. c.kind = k
  BY <1>2 DEF Call
<1>4. PICK U : U = S \cup {c}
  OBVIOUS
<1>5. r \in Seq(U) /\ c \in U
  BY <1>1, <1>4
<1>6. PICK n \in Nat : n = Len(r) /\ DOMAIN r = 1 .. n
  BY <1>1
<1>7. DOMAIN q = 1 .. n + 1 /\ q[n + 1] = c /\ \A j \in 1 .. n : q[j] = r[j]
  BY <1>2, <1>5, <1>6, AppendProperties
<1>8. n + 1 \in DOMAIN q /\ \A j \in DOMAIN q : j = n + 1 \/ (j \in DOMAIN r /\ q[j] = r[j])
  BY <1>6, <1>7
<1>9. \A j \in DOMAIN r : j \in DOMAIN q /\ q[j] = r[j] /\ r[j].kind # k
  BY <1>6, <1>7 DEF Has
<1>10. AtMostOne(q)
  <2> SUFFICES ASSUME NEW i \in DOMAIN q, NEW j \in DOMAIN q, Renews(q[i]), q[j].kind = q[i].kind
               PROVE  i = j
    BY DEF AtMostOne
  <2>1. CASE i = n + 1
    BY <1>3, <1>7, <1>8, <1>9, <2>1
  <2>2. CASE j = n + 1
    BY <1>3, <1>7, <1>8, <1>9, <2>2
  <2>3. CASE i # n + 1 /\ j # n + 1
    BY <1>8, <2>3 DEF AtMostOne
  <2> QED
    BY <2>1, <2>2, <2>3
<1>11. Has(q, k)
  BY <1>3, <1>7, <1>8 DEF Has
<1>12. Has(r, "refresh") => Has(q, "refresh")
  BY <1>9 DEF Has
<1>13. Awaiting(q) => Awaiting(r)
  BY <1>3, <1>7, <1>8 DEF Awaiting, Awaits
<1> QED
  BY <1>10, <1>11, <1>12, <1>13

LEMMA GuardsShare ==
    ASSUME SessionInv, RefreshInv, Guards
    PROVE  RefreshInv'
<1>1. nav # None /\ ~Has(calls, "guard") /\ CallsOk(calls, preferred)
  BY DEF Guards, Tries, Has, SessionInv, CallsInv
<1>2. \/ \E p : Redirect(p) \/ Show(p)
      \/ calls' = Append(calls, Call("guard"))
  BY DEF Guards
<1>3. ASSUME NEW p, Redirect(p) PROVE RefreshInv'
  BY <1>3 DEF Redirect, RefreshInv
<1>4. ASSUME NEW p, Show(p) PROVE RefreshInv'
  BY <1>1, <1>4, KeepsShown, Carried
<1>5. CASE calls' = Append(calls, Call("guard"))
  BY <1>1, <1>5, Started DEF RefreshInv
<1> QED
  BY <1>2, <1>3, <1>4, <1>5

LEMMA KeyboardShares ==
    ASSUME SessionInv, RefreshInv,
           \/ \E p \in Clicked : Follow(p)
           \/ \E p \in Clicked \cup {"login"} : Browse(p)
           \/ \E u \in LogIn : Login(u)
           \/ \E t \in Companies \cup {None} : SelectTenant(t)
           \/ \E l \in Locales : ChangeLanguage(l)
           \/ Ask \/ Logout
    PROVE  RefreshInv'
<1>1. CallsOk(calls, preferred) /\ ScreenOk(store, route, nav, shownTo)
  BY DEF SessionInv, ScreenInv, CallsInv
<1>2. ASSUME NEW c, CallOk(c, preferred), c.kind \notin {"refresh", "guard", "load"},
             calls' = Append(calls, c)
      PROVE  RefreshInv'
  BY <1>1, <1>2, KeepsAppended, Carried DEF Renews, Awaits
<1>3. ASSUME NEW p, Follow(p) \/ Browse(p) PROVE RefreshInv'
  <2>1. Navigate(p, calls)
    BY <1>3 DEF Follow, Browse, Turns
  <2> QED
    BY <1>1, <2>1, KeepsNavigated, Carried
<1>4. ASSUME NEW u \in LogIn, Login(u) PROVE RefreshInv'
  <2>1. PICK c : c = [kind |-> "login", answer |-> None, late |-> FALSE, user |-> u, waited |-> TRUE]
    OBVIOUS
  <2>2. u \in Users
    BY ClientSessionAssumption
  <2>3. CallOk(c, preferred) /\ c.kind = "login"
    BY <2>1, <2>2 DEF CallOk, IsCall, Kinds, AnswerOk, PreviousOk, Brings
  <2>4. calls' = Append(calls, c)
    BY <1>4, <2>1 DEF Login
  <2> QED
    BY <1>2, <2>3, <2>4
<1>5. ASSUME NEW t \in Companies \cup {None}, SelectTenant(t) PROVE RefreshInv'
  BY <1>1, <1>5, KeepsSelected, Carried DEF SelectTenant
<1>6. ASSUME NEW l \in Locales, ChangeLanguage(l) PROVE RefreshInv'
  <2>1. PICK c : c = [kind |-> "locale", answer |-> None, late |-> FALSE,
                      user |-> store.token, wanted |-> l, previous |-> locale,
                      astray |-> astray \/ Tries("locale"), waited |-> TRUE]
    OBVIOUS
  <2>2. calls' = Append(calls, c) /\ c.kind = "locale"
    BY <1>6, <2>1 DEF ChangeLanguage
  <2>3. CallsInv /\ LocaleOk(store, locale, preferred, calls, astray) /\ store.token \in Users \cup {None}
    BY <1>1 DEF SessionInv, CallsInv, ScreenOk, IsStore
  <2>4. ~c.astray /\ c.user # None => c.previous = preferred[c.user]
    BY <2>1, <2>3 DEF LocaleOk, HasLocale, Tries
  <2>5. CallOk(c, preferred)
    BY <2>1, <2>3, <2>4 DEF CallOk, IsCall, Kinds, AnswerOk, PreviousOk, Brings
  <2> QED
    BY <1>2, <2>2, <2>5
<1>7. ASSUME Ask PROVE RefreshInv'
  <2>1. calls' = calls \o LoadsOf(route, store)
    BY <1>7 DEF Ask
  <2>2. Keeps(calls', calls)
    BY <1>1, <2>1, FreshCalls, PlainLoads, KeepsSent DEF Plain
  <2> QED
    BY <2>2, Carried
<1>8. ASSUME Logout PROVE RefreshInv'
  <2>1. PICK c : c = Call("logout")
    OBVIOUS
  <2>2. c.kind = "logout" /\ CallOk(c, preferred)
    BY <2>1, FreshCalls DEF Call
  <2>3. calls' = Append(calls, c)
    BY <1>8, <2>1 DEF Logout
  <2> QED
    BY <1>2, <2>2, <2>3
<1> QED
  BY <1>3, <1>4, <1>5, <1>6, <1>7, <1>8

LEMMA ServeShares ==
    ASSUME SessionInv, RefreshInv, NEW i \in DOMAIN calls, Serve(i)
    PROVE  RefreshInv'
<1>1. CallsOk(calls, preferred)
  BY DEF SessionInv, CallsInv
<1> QED
  BY <1>1, KeepsServed, Carried

\* What is no shared refresh leaves it under way when it lands.
LEMMA RestShares ==
    ASSUME SessionInv, RefreshInv, NEW i \in DOMAIN calls
    PROVE  /\ CallsOk(Without(i), preferred) /\ AtMostOne(Without(i))
           /\ calls[i].kind # "refresh" => Keeps(Without(i), calls)
<1>1. CallsOk(calls, preferred) /\ AtMostOne(calls)
  BY DEF SessionInv, CallsInv, RefreshInv
<1> QED
  BY <1>1, Landed, KeepsRest DEF Without

\* A session ends: whoever waits for a refresh goes on waiting for it.
LEMMA EndedKeeps ==
    ASSUME NEW rest, CallsOk(rest, preferred), Ended(rest)
    PROVE  Keeps(calls', rest)
  BY KeepsNavigated DEF Ended

LEMMA AnswerShares ==
    ASSUME SessionInv, RefreshInv, NEW i \in DOMAIN calls,
           LoginLands(i) \/ LogoutLands(i) \/ LocaleLands(i) \/ GuardLands(i)
    PROVE  RefreshInv'
<1>1. calls[i].kind \in {"login", "logout", "locale", "guard"}
  BY Zenon DEF LoginLands, LogoutLands, LocaleLands, GuardLands
<1>2. CallsOk(Without(i), preferred) /\ Keeps(Without(i), calls)
  BY <1>1, RestShares
<1>3. CASE LoginLands(i)
  <2>1. calls' = Without(i) \/ Navigate("dashboard", Without(i))
    BY <1>3 DEF LoginLands
  <2> QED
    BY <1>2, <2>1, KeepsNavigated, KeepsOn, Carried
<1>4. CASE LogoutLands(i)
  BY <1>2, <1>4, EndedKeeps, KeepsOn, Carried DEF LogoutLands
<1>5. CASE LocaleLands(i)
  <2>1. calls' = Without(i)
    BY <1>5, Zenon DEF LocaleLands
  <2> QED
    BY <1>2, <2>1, Carried
<1>6. CASE GuardLands(i)
  BY <1>2, <1>6, Carried DEF GuardLands
<1> QED
  BY <1>3, <1>4, <1>5, <1>6

\* A refresh that lands leaves nobody waiting, whether it was granted or not.
LEMMA RefreshLandsShares ==
    ASSUME SessionInv, RefreshInv, NEW i \in DOMAIN calls, RefreshLands(i)
    PROVE  RefreshInv'
<1>1. PICK r : r = Without(i)
  OBVIOUS
<1>2. CallsOk(r, preferred) /\ AtMostOne(r)
  BY <1>1, RestShares
<1>3. CASE Failed(calls[i])
  <2>1. Ended(Given(r))
    BY <1>1, <1>3, Zenon DEF RefreshLands
  <2>2. PICK K \in SUBSET DOMAIN r : K = {j \in DOMAIN r : ~Awaits(r[j])} /\ Given(r) = Kept(r, K)
    BY DEF Given, Awaits
  <2>3. PICK g : g = Kept(r, K)
    OBVIOUS
  <2>4. CallsOk(g, preferred)
    BY <1>2, <2>2, <2>3, KeptCalls
  <2>5. \A j \in DOMAIN r : r[j].kind = "refresh" => j \in K
    BY <2>2 DEF Awaits
  <2>6. Keeps(Kept(r, K), r) /\ \A k \in DOMAIN Kept(r, K) : \E j \in K : Kept(r, K)[k] = r[j]
    BY <1>2, <2>5, KeepsKept
  <2>7. AtMostOne(g) /\ ~Awaiting(g)
    BY <1>2, <2>2, <2>3, <2>6 DEF Keeps, Awaiting
  <2>8. Keeps(calls', g)
    BY <2>1, <2>2, <2>3, <2>4, EndedKeeps
  <2> QED
    BY <2>7, <2>8 DEF Keeps, RefreshInv
<1>4. CASE ~Failed(calls[i])
  <2>1. calls' = [j \in DOMAIN r |-> Replayed(r[j])]
    BY <1>1, <1>4, Zenon DEF RefreshLands, Replayed
  <2>2. PICK q : q = calls'
    OBVIOUS
  <2>3. DOMAIN q = DOMAIN r /\ \A k \in DOMAIN r : q[k] = Replayed(r[k])
    BY <2>1, <2>2
  <2>4. ASSUME NEW k \in DOMAIN r PROVE q[k].kind = r[k].kind /\ ~Awaits(q[k])
    <3>1. CallOk(r[k], preferred) /\ q[k] = Replayed(r[k])
      BY <1>2, <2>3, CallsFacts
    <3>2. q[k].kind = r[k].kind /\ (r[k].kind = "load" => q[k].waiting = FALSE)
      BY <3>1, ReplayedCall
    <3> QED
      BY <3>2 DEF Awaits
  <2>5. AtMostOne(q)
    BY <1>2, <2>3, <2>4, KeepsMarked DEF Keeps
  <2>6. ~Awaiting(q)
    BY <2>3, <2>4 DEF Awaiting
  <2> QED
    BY <2>2, <2>5, <2>6 DEF RefreshInv
<1> QED
  BY <1>3, <1>4

\* Who meets a 401 starts the refresh unless another call has.
LEMMA WaitingShares ==
    ASSUME SessionInv, RefreshInv, NEW i \in DOMAIN calls, calls[i].kind = "load",
           calls' = [calls EXCEPT ![i].waiting = TRUE]
                       \o IF Tries("refresh") THEN <<>> ELSE <<Call("refresh")>>
    PROVE  RefreshInv'
<1>1. CallsOk(calls, preferred) /\ AtMostOne(calls)
  BY DEF SessionInv, CallsInv, RefreshInv
<1>2. PICK w : w = [calls EXCEPT ![i].waiting = TRUE]
  OBVIOUS
<1>3. calls' = w \o IF Tries("refresh") THEN <<>> ELSE <<Call("refresh")>>
  BY <1>2
<1>4. PICK d : d = [calls[i] EXCEPT !.waiting = TRUE]
  OBVIOUS
<1>5. CallOk(d, preferred) /\ d.kind = "load"
  <2>1. PICK c : c = calls[i]
    OBVIOUS
  <2>2. CallOk(c, preferred) /\ c.kind = "load" /\ d = [c EXCEPT !.waiting = TRUE]
    BY <1>1, <1>4, <2>1, CallsFacts
  <2>3. IsCall(d) /\ d.kind = "load" /\ d.answer = c.answer /\ d.late = c.late
    BY <2>2 DEF CallOk, IsCall
  <2> QED
    BY <2>2, <2>3 DEF CallOk, AnswerOk, PreviousOk, Brings
<1>6. w = [j \in DOMAIN calls |-> IF j = i THEN d ELSE calls[j]]
  BY <1>1, <1>2, <1>4, CallsFacts
<1>7. ASSUME NEW j \in DOMAIN calls PROVE CallOk(w[j], preferred) /\ w[j].kind = calls[j].kind
  BY <1>1, <1>5, <1>6, CallsFacts
<1>8. DOMAIN w = DOMAIN calls
  BY <1>6
<1>9. CallsOk(w, preferred)
  <2>1. w = [j \in DOMAIN calls |-> w[j]]
    BY <1>6
  <2>2. Follows(w, calls, preferred)
    BY <1>1, <1>7, <2>1, Mapped
  <2> QED
    BY <2>2 DEF Follows
<1>10. AtMostOne(w)
  BY <1>1, <1>7, <1>8 DEF AtMostOne, Renews
<1>11. Has(w, "refresh") <=> Tries("refresh")
  BY <1>7, <1>8 DEF Has, Tries
<1>12. PICK S : w \in Seq(S)
  BY <1>9 DEF CallsOk
<1>13. CASE Tries("refresh")
  <2>1. calls' = w \o <<>>
    BY <1>3, <1>13
  <2>2. w \o <<>> = w
    BY <1>12, ConcatEmptySeq
  <2> QED
    BY <1>10, <1>11, <1>13, <2>1, <2>2 DEF RefreshInv
<1>14. CASE ~Tries("refresh")
  <2>1. PICK c : c = Call("refresh")
    OBVIOUS
  <2>2. calls' = w \o <<c>>
    BY <1>3, <1>14, <2>1
  <2>3. CallOk(c, preferred)
    BY <2>1, FreshCalls
  <2>4. calls' = Append(w, Call("refresh"))
    BY <1>9, <2>1, <2>2, <2>3, KeepsAppended
  <2>5. AtMostOne(calls') /\ Has(calls', "refresh")
    BY <1>9, <1>10, <1>11, <1>14, <2>4, Started
  <2> QED
    BY <2>5 DEF RefreshInv
<1> QED
  BY <1>13, <1>14

LEMMA LoadLandsShares ==
    ASSUME SessionInv, RefreshInv, NEW i \in DOMAIN calls, LoadLands(i)
    PROVE  RefreshInv'
<1>1. calls[i].kind = "load"
  BY Zenon DEF LoadLands
<1>2. PICK r : r = Without(i)
  OBVIOUS
<1>3. CallsOk(r, preferred) /\ Keeps(r, calls)
  BY <1>1, <1>2, RestShares
<1>4. \/ calls' = [calls EXCEPT ![i].waiting = TRUE]
                      \o IF Tries("refresh") THEN <<>> ELSE <<Call("refresh")>>
      \/ Ended(r)
      \/ \E t : Selected(t, r)
      \/ calls' = r
  BY <1>2, Zenon DEF LoadLands
<1>5. CASE calls' = [calls EXCEPT ![i].waiting = TRUE]
                       \o IF Tries("refresh") THEN <<>> ELSE <<Call("refresh")>>
  BY <1>1, <1>5, WaitingShares
<1>6. CASE Ended(r)
  BY <1>3, <1>6, EndedKeeps, KeepsOn, Carried
<1>7. ASSUME NEW t, Selected(t, r) PROVE RefreshInv'
  BY <1>3, <1>7, KeepsSelected, KeepsOn, Carried
<1>8. CASE calls' = r
  BY <1>3, <1>8, Carried
<1> QED
  BY <1>4, <1>5, <1>6, <1>7, <1>8

----------------------------------------------------------------------------
(* The theorems.                                                            *)

LEMMA SessionStarts ==
    ASSUME Init
    PROVE  SessionInv
<1>1. None # "login" /\ None \notin Paths
  BY ClientSessionAssumption
<1>2. ScreenInv
  BY <1>1 DEF Init, Empty, ScreenInv, ScreenOk, IsStore, Places, WayOk, CompanyOk
<1>3. CallsOk(calls, preferred)
  <2>1. calls = <<>> /\ <<>> \in Seq({})
    BY DEF Init
  <2> QED
    BY <2>1 DEF CallsOk
<1>4. preferred \in [Users -> Locales]
  BY ClientSessionAssumption DEF Init
<1>5. LocaleOk(store, locale, preferred, calls, astray)
  BY DEF Init, Empty, LocaleOk
<1> QED
  BY <1>2, <1>3, <1>4, <1>5 DEF SessionInv, CallsInv

\* The screen, the session and the calls under way hold together, whatever links
\* and entries of the history are followed: whoever the screen was shown to was let
\* through its guards, with a company unless he deselected it, a page without a user
\* is on its way to the login page unless he turned from it, and what a call brings
\* is what the server has unless the call is marked as overtaken.
THEOREM SessionHolds == Spec => []SessionInv
<1>1. Init => SessionInv
  BY SessionStarts
<1>2. SessionInv /\ [Next]_vars => SessionInv'
  <2> SUFFICES ASSUME SessionInv, [Next]_vars PROVE SessionInv'
    OBVIOUS
  <2>1. CASE Guards
    BY <2>1, GuardsKeep
  <2>2. CASE \/ \E p \in Clicked : Follow(p)
             \/ \E p \in Clicked \cup {"login"} : Browse(p)
             \/ \E u \in LogIn : Login(u)
             \/ \E t \in Companies \cup {None} : SelectTenant(t)
             \/ Ask \/ Logout
    BY <2>2, KeyboardKeeps
  <2>3. CASE \E l \in Locales : ChangeLanguage(l)
    BY <2>3, LanguageKeeps
  <2>4. CASE Answer
    <3>1. PICK i \in DOMAIN calls :
              \/ Serve(i) \/ LoadLands(i) \/ LoginLands(i) \/ LogoutLands(i)
              \/ GuardLands(i) \/ RefreshLands(i) \/ LocaleLands(i)
      BY <2>4, Zenon DEF Answer
    <3> QED
      BY <3>1, ServeKeeps, LoadLandsKeeps, LoginLandsKeeps, LogoutLandsKeeps,
         GuardLandsKeeps, RefreshLandsKeeps, LocaleLandsKeeps
  <2>5. CASE UNCHANGED vars
    BY <2>5 DEF vars, seen, SessionInv, ScreenInv, CallsInv
  <2> QED
    BY <2>1, <2>2, <2>3, <2>4, <2>5, Zenon DEF Next
<1> QED
  BY <1>1, <1>2, PTL DEF Spec

\* However answers, refreshes, a logout and a login overlap, a page without a
\* session comes to rest at the login page and nowhere else unless the user turned
\* back on the way there, for any number of calls under way (SessionStore.clear,
\* errorInterceptor, authGuard).
THEOREM SessionAlwaysEndsAtLogin == Spec => []SessionEndsAtLogin
<1>1. SessionInv => SessionEndsAtLogin
  BY DEF SessionInv, ScreenInv, WayOk, SessionEndsAtLogin, Settled
<1> QED
  BY <1>1, SessionHolds, PTL

\* Whatever a user of a seeded role is shown of a screen the API does not refuse
\* him: no screen, panel or button asks for what its role does not grant, nor
\* without a company for what needs one, but where he has deselected the company
\* himself and for the currencies of the screen of the companies; for any users,
\* companies and roles among the seeded ones.
THEOREM ScreensAreAlwaysServed == Spec => []ScreensAreServed
<1>1. SessionInv => ScreensAreServed
  <2> SUFFICES ASSUME SessionInv,
                      NEW u, u = store.user, u # None, {store.token, shownTo} = {u}, Seeded(u),
                      route \in Paths,
                      NEW op \in Opens(route, Granted[u], Global(u)) \cup Offers(route, Granted[u], Global(u))
               PROVE  \/ Serves(op, u, store.tenant)
                      \/ Grants(op, u) /\ (deselected \/ StillWithoutCompany(op))
    BY DEF ScreensAreServed
  <2>1. EntersAs(route, u)
    BY DEF SessionInv, ScreenInv, ScreenOk
  <2>2. Grants(op, u)
    BY <2>1, EnteredIsServed
  <2>3. CASE route # "companies"
    <3>1. deselected \/ (Global(u) => store.tenant # None)
      BY <2>3 DEF SessionInv, ScreenInv, CompanyOk
    <3> QED
      BY <2>2, <3>1 DEF Serves
  <2>4. CASE route = "companies"
    <3>1. ~NeedsCompany(op) \/ op = <<"currencies", "read">>
      BY <2>4, CompaniesAsk
    <3> QED
      BY <2>2, <2>4, <3>1 DEF Serves, StillWithoutCompany
  <2> QED
    BY <2>3, <2>4
<1> QED
  BY <1>1, SessionHolds, PTL

\* Once all has landed, and unless an answer was overtaken or lost, the language
\* shown is the one the server has for the user, however many refreshes, logins
\* and changes that are rolled back have overlapped.
THEOREM LocaleIsAlwaysPreferred == Spec => []LocaleIsPreferred
<1>1. SessionInv => LocaleIsPreferred
  <2>1. calls = <<>> => ~HasLocale(calls)
    BY DEF HasLocale
  <2> QED
    BY <2>1 DEF SessionInv, CallsInv, LocaleOk, LocaleIsPreferred, Settled
<1> QED
  BY <1>1, SessionHolds, PTL

\* Never are two calls to the refresh under way for calls that met a 401, nor two
\* for guards, and no call waits for a refresh that nobody has sent: the interceptor
\* shares one among all that meet a 401, a navigation that supersedes another gives
\* up the refresh of its guard, and neither a logout, a login nor a navigation gives
\* up a refresh that calls wait for (errorInterceptor, authGuard).
THEOREM RefreshIsAlwaysShared == Spec => []RefreshIsShared
<1>1. Init => RefreshInv
  BY DEF Init, RefreshInv, AtMostOne, Awaiting
<1>2. SessionInv /\ RefreshInv /\ [Next]_vars => RefreshInv'
  <2> SUFFICES ASSUME SessionInv, RefreshInv, [Next]_vars PROVE RefreshInv'
    OBVIOUS
  <2>1. CASE Guards
    BY <2>1, GuardsShare
  <2>2. CASE \/ \E p \in Clicked : Follow(p)
             \/ \E p \in Clicked \cup {"login"} : Browse(p)
             \/ \E u \in LogIn : Login(u)
             \/ \E t \in Companies \cup {None} : SelectTenant(t)
             \/ \E l \in Locales : ChangeLanguage(l)
             \/ Ask \/ Logout
    BY <2>2, KeyboardShares
  <2>3. CASE Answer
    <3>1. PICK i \in DOMAIN calls :
              \/ Serve(i) \/ LoadLands(i) \/ LoginLands(i) \/ LogoutLands(i)
              \/ GuardLands(i) \/ RefreshLands(i) \/ LocaleLands(i)
      BY <2>3, Zenon DEF Answer
    <3> QED
      BY <3>1, ServeShares, LoadLandsShares, AnswerShares, RefreshLandsShares
  <2>4. CASE UNCHANGED vars
    BY <2>4 DEF vars, RefreshInv
  <2> QED
    BY <2>1, <2>2, <2>3, <2>4, Zenon DEF Next
<1>3. RefreshInv => RefreshIsShared
  BY DEF RefreshInv, AtMostOne, Renews, Awaiting, Awaits, Has, Tries, RefreshIsShared
<1> QED
  BY <1>1, <1>2, <1>3, SessionHolds, PTL DEF Spec
=============================================================================
