--------------------------- MODULE CatalogAccess ---------------------------
(***************************************************************************)
(* Who may read which prices: price lists and marketplaces of companies,   *)
(* the marketplaces a list is sold on, the lists assigned to a user, and   *)
(* the requests that read and write them concurrently.                     *)
(*                                                                         *)
(* Every statement of a request is a step, because none of the reads runs  *)
(* in a transaction: PriceCatalogService asserts that a list is visible,   *)
(* then looks up the marketplace, the relation and the prices; before that *)
(* the user and what his role grants are two statements; the repository    *)
(* looks a row up and then writes it by id; and an assignment is checked   *)
(* before the transaction that replaces it.                                *)
(***************************************************************************)
EXTENDS Naturals, FiniteSets

CONSTANTS Requests,   \* HTTP requests that may be under way at a time
          Readers,    \* bound: those that may be reads
          Tenants,    \* companies
          Managed,    \* bound: those whose lists and marketplaces change
          NoTenant,   \* the tenant of a user who belongs to none
          Users, Lists, Markets,
          UserTenant, \* users.tenant_id
          Roles,
          AdminRoles, \* the role global_admin
          Grants,     \* bound: what roles are given of Permissions
          FirstRole,  \* the role users have at first,
          FirstGrant, \* and what every role grants then
          TenantOf,   \* tenant_id of a list or a marketplace
          Nothing     \* an argument a request does not have

Items == Lists \cup Markets

Permissions == {"read", "export", "all"}   \* price-catalog:read, :export, :read-all

ASSUME CatalogAssumption ==
    /\ Readers \subseteq Requests
    /\ NoTenant \notin Tenants /\ Managed \subseteq Tenants
    /\ Lists \cap Markets = {} /\ Nothing \notin Items \cup Users
    /\ UserTenant \in [Users -> Tenants \cup {NoTenant}]
    /\ TenantOf \in [Items -> Tenants]
    /\ AdminRoles \subseteq Roles /\ Grants \subseteq SUBSET Permissions
    /\ FirstRole \in [Users -> Roles] /\ FirstGrant \in Grants

VARIABLES
    rows,     \* status and deleted_at of the lists and the marketplaces
    users,    \* status of the users
    role,     \* of the users
    grants,   \* role_permissions
    granted,  \* user_price_list_access
    carried,  \* price_list_marketplaces
    pc,       \* the next statement of a request
    req,      \* what it is about
    answer,   \* what it has found
    held      \* history: what was true at some moment since it was authenticated

vars == <<rows, users, role, grants, granted, carried, pc, req, answer, held>>
world == <<rows, users, role, grants, granted, carried>>

UserStatuses == {"active", "inactive", "deleted"}
Row == [status : {"active", "inactive"}, deleted : BOOLEAN]
Reads == {"priceLists", "marketplaces", "catalog", "export"}
Writes == {"assign", "relate", "update", "delete"}
PCs == {"idle", "permissions", "visible", "listing", "markets", "market", "relation", "prices",
        "answer", "checkLists", "grant", "checkMarkets", "relate", "write", "remove"}
FactNames == {"active", "holder", "permitted", "visible", "onSale", "carried"}

Arguments == [kind : Reads \cup Writes, user : Users \cup {Nothing},
              tenant : Tenants \cup {NoTenant}, role : Roles \cup {Nothing}, all : BOOLEAN,
              list : Lists \cup {Nothing}, item : Items \cup {Nothing},
              ids : SUBSET Items, status : {"active", "inactive"}]
NoRequest == [kind |-> "catalog", user |-> Nothing, tenant |-> NoTenant,
              role |-> Nothing, all |-> FALSE,
              list |-> Nothing, item |-> Nothing, ids |-> {}, status |-> "active"]

Init ==
    /\ rows = [i \in Items |-> [status |-> "active", deleted |-> FALSE]]
    /\ users = [u \in Users |-> "active"]
    /\ role = FirstRole /\ grants = [g \in Roles |-> FirstGrant]
    /\ granted = {} /\ carried = {}
    /\ pc = [r \in Requests |-> "idle"]
    /\ req = [r \in Requests |-> NoRequest]
    /\ answer = [r \in Requests |-> {}]
    /\ held = [r \in Requests |-> {}]

-----------------------------------------------------------------------------
(* The where clauses.                                                        *)

\* baseWhere: the company, and not deleted.
Exists(i, t) == TenantOf[i] = t /\ ~rows[i].deleted

Served(i, t) == Exists(i, t) /\ rows[i].status = "active"

\* What requirePermission asks of the route.
Needed(k) == IF k = "export" THEN "export" ELSE "read"

\* requirePermission, for a user with role g.
Permitted(g, k) == g \in AdminRoles \/ Needed(k) \in grants[g]

\* canReadAll
CanReadAll(g) == g \in AdminRoles \/ "all" \in grants[g]

\* Mutation: the status of an assigned list is not looked at.
CanSee_Assigned(u, t, all, l) ==
    IF all THEN Exists(l, t) ELSE <<u, l>> \in granted /\ Exists(l, t)

\* assertVisible.  Reading all, one reads inactive lists too.
CanSee(u, t, all, l) ==
    IF all THEN Exists(l, t) ELSE <<u, l>> \in granted /\ Served(l, t)

\* visiblePriceLists
Listed(u, t, all) == {l \in Lists : Served(l, t) /\ (all \/ <<u, l>> \in granted)}

\* Mutation: X-Tenant-Id counts for everyone.
TenantsFor_Header(u, g) == Tenants

\* resolveTenant, requireTenant: the companies a user with role g can act for.
TenantsFor(u, g) == IF g \in AdminRoles THEN Tenants ELSE {UserTenant[u]} \cap Tenants

-----------------------------------------------------------------------------
(* What is true of a request at a moment, for the history.                   *)

Facts(r) ==
    LET c == req[r] IN
    {f \in FactNames :
        /\ c.kind \in Reads
        /\ \/ f = "active"    /\ users[c.user] = "active"
           \/ f = "holder"    /\ role[c.user] = c.role
           \/ f = "permitted" /\ Permitted(c.role, c.kind)
           \/ f = "visible"   /\ c.list # Nothing /\ Exists(c.list, c.tenant)
                              /\ \/ CanReadAll(c.role)
                                 \/ <<c.user, c.list>> \in granted /\ Served(c.list, c.tenant)
           \/ f = "onSale"    /\ c.item # Nothing /\ Served(c.item, c.tenant)
           \/ f = "carried"   /\ c.item # Nothing /\ <<c.list, c.item>> \in carried}

Remember ==
    held' = [r \in Requests |-> IF pc'[r] = "idle" THEN {} ELSE held[r] \cup Facts(r)']

Begin(r, c, first) ==
    /\ pc[r] = "idle"
    /\ req' = [req EXCEPT ![r] = c]
    /\ pc' = [pc EXCEPT ![r] = first]
    /\ UNCHANGED answer

Go(r, next) == pc' = [pc EXCEPT ![r] = next] /\ UNCHANGED <<req, answer>>

Found(r, what) ==
    /\ pc' = [pc EXCEPT ![r] = "answer"]
    /\ answer' = [answer EXCEPT ![r] = what]
    /\ UNCHANGED req

\* The answer is sent, or an error.
Done(r) ==
    /\ pc' = [pc EXCEPT ![r] = "idle"]
    /\ req' = [req EXCEPT ![r] = NoRequest]
    /\ answer' = [answer EXCEPT ![r] = {}]

-----------------------------------------------------------------------------
(* Reading.                                                                  *)

\* verifyAccessToken finds the user, with his role.  t is the company the header or
\* the user names.
Read(r, k, u, t, l, m) ==
    /\ r \in Readers /\ users[u] = "active"
    /\ Begin(r, [NoRequest EXCEPT !.kind = k, !.user = u, !.tenant = t, !.role = role[u],
                                  !.list = l, !.item = m], "permissions")
    /\ UNCHANGED world /\ Remember

ReadPriceLists(r, u, t) == Read(r, "priceLists", u, t, Nothing, Nothing)
ReadMarketplaces(r, u, t, l) == Read(r, "marketplaces", u, t, l, Nothing)
ReadCatalog(r, u, t, l, m) == Read(r, "catalog", u, t, l, m)

\* assertExportInput, for a request of an export and for a download.
CheckExport(r, u, t, l, m) == Read(r, "export", u, t, l, m)

\* toAuthUser finds what that role grants now; resolveTenant and requirePermission
\* follow.  Neither the role nor its grants are read again.
FindPermissions(r) ==
    LET c == req[r] IN
    /\ pc[r] = "permissions"
    /\ IF c.tenant \in TenantsFor(c.user, c.role) /\ Permitted(c.role, c.kind)
         THEN /\ req' = [req EXCEPT ![r].all = CanReadAll(c.role)]
              /\ pc' = [pc EXCEPT ![r] = IF c.kind = "priceLists" THEN "listing" ELSE "visible"]
              /\ UNCHANGED answer
         ELSE Done(r)
    /\ UNCHANGED world /\ Remember

VisiblePriceLists(r) ==
    /\ pc[r] = "listing"
    /\ Found(r, Listed(req[r].user, req[r].tenant, req[r].all))
    /\ UNCHANGED world /\ Remember

AfterVisible(k) ==
    CASE k = "marketplaces" -> "markets"
      [] k = "catalog" -> "market"
      [] k = "export" -> "relation"

AssertVisible(r) ==
    LET c == req[r] IN
    /\ pc[r] = "visible"
    /\ \/ CanSee(c.user, c.tenant, c.all, c.list) /\ Go(r, AfterVisible(c.kind))
       \/ ~CanSee(c.user, c.tenant, c.all, c.list) /\ Done(r)
    /\ UNCHANGED world /\ Remember

\* The marketplaces of the list that are active.
FindMarketplaces(r) ==
    /\ pc[r] = "markets"
    /\ Found(r, {m \in Markets : <<req[r].list, m>> \in carried /\ Served(m, req[r].tenant)})
    /\ UNCHANGED world /\ Remember

FindMarketplace(r) ==
    /\ pc[r] = "market"
    /\ IF Served(req[r].item, req[r].tenant) THEN Go(r, "relation") ELSE Done(r)
    /\ UNCHANGED world /\ Remember

\* An export is accepted with the relation alone.
FindRelation(r) ==
    LET c == req[r] IN
    /\ pc[r] = "relation"
    /\ IF <<c.list, c.item>> \in carried
         THEN IF c.kind = "catalog" THEN Go(r, "prices") ELSE Found(r, {c.list})
         ELSE Done(r)
    /\ UNCHANGED world /\ Remember

\* Time zone, prices, discounts and currencies: the list is not looked at again.
FindPrices(r) ==
    /\ pc[r] = "prices"
    /\ Found(r, {req[r].list})
    /\ UNCHANGED world /\ Remember

Respond(r) ==
    /\ pc[r] = "answer" /\ Done(r)
    /\ UNCHANGED world /\ Remember

-----------------------------------------------------------------------------
(* Writing, by administrators.  t is the company they act for.               *)

\* replace, up to assertUser: a user of the company.
Assign(r, t, u, ids) ==
    /\ users[u] # "deleted" /\ UserTenant[u] = t
    /\ Begin(r, [NoRequest EXCEPT !.kind = "assign", !.user = u, !.tenant = t, !.ids = ids],
             "checkLists")
    /\ UNCHANGED world /\ Remember

AssertPriceLists(r) ==
    /\ pc[r] = "checkLists"
    /\ IF \A l \in req[r].ids : Served(l, req[r].tenant) THEN Go(r, "grant") ELSE Done(r)
    /\ UNCHANGED world /\ Remember

\* The rows of one owner are replaced by one per id.
Replaced(pairs, owner, ids) == {p \in pairs : p[1] # owner} \cup ({owner} \X ids)

ReplaceAccess(r) ==
    /\ pc[r] = "grant"
    /\ granted' = Replaced(granted, req[r].user, req[r].ids)
    /\ Done(r)
    /\ UNCHANGED <<rows, users, role, grants, carried>> /\ Remember

\* setMarketplaces, up to get.  (setProducts is the same.)
Relate(r, t, l, ids) ==
    /\ Exists(l, t)
    /\ Begin(r, [NoRequest EXCEPT !.kind = "relate", !.tenant = t, !.list = l, !.ids = ids],
             "checkMarkets")
    /\ UNCHANGED world /\ Remember

\* An inactive marketplace will do.
AssertAllExist(r) ==
    /\ pc[r] = "checkMarkets"
    /\ IF \A m \in req[r].ids : Exists(m, req[r].tenant) THEN Go(r, "relate") ELSE Done(r)
    /\ UNCHANGED world /\ Remember

ReplaceMarketplaces(r) ==
    /\ pc[r] = "relate"
    /\ carried' = Replaced(carried, req[r].list, req[r].ids)
    /\ Done(r)
    /\ UNCHANGED <<rows, users, role, grants, granted>> /\ Remember

\* A statement fails: a deadlock, a duplicate, or the database does not answer.
Fail(r) ==
    /\ pc[r] \notin {"idle", "answer"} /\ Done(r)
    /\ UNCHANGED world /\ Remember

\* TenantCrudRepository.update and softDelete, up to assertExists.
Update(r, t, i, s) ==
    /\ Exists(i, t)
    /\ Begin(r, [NoRequest EXCEPT !.kind = "update", !.tenant = t, !.item = i, !.status = s],
             "write")
    /\ UNCHANGED world /\ Remember

Delete(r, t, i) ==
    /\ Exists(i, t)
    /\ Begin(r, [NoRequest EXCEPT !.kind = "delete", !.tenant = t, !.item = i], "remove")
    /\ UNCHANGED world /\ Remember

Updated(row, s) == [row EXCEPT !.status = s]

Removed(row) == [status |-> "inactive", deleted |-> TRUE]

\* By id, whatever the row has become.
Write(r) ==
    /\ pc[r] = "write"
    /\ rows' = [rows EXCEPT ![req[r].item] = Updated(@, req[r].status)]
    /\ Done(r)
    /\ UNCHANGED <<users, role, grants, granted, carried>> /\ Remember

SoftDelete(r) ==
    /\ pc[r] = "remove"
    /\ rows' = [rows EXCEPT ![req[r].item] = Removed(@)]
    /\ Done(r)
    /\ UNCHANGED <<users, role, grants, granted, carried>> /\ Remember

\* Users of no company are in no company's reach.
ChangeRole(u, g) ==
    /\ UserTenant[u] # NoTenant /\ role[u] # g
    /\ role' = [role EXCEPT ![u] = g]
    /\ UNCHANGED <<rows, users, grants, granted, carried, pc, req, answer>> /\ Remember

\* assignPermissions.  Nobody asks what the role of a global administrator grants.
AssignPermissions(g, permissions) ==
    /\ g \notin AdminRoles /\ grants[g] # permissions
    /\ grants' = [grants EXCEPT ![g] = permissions]
    /\ UNCHANGED <<rows, users, role, granted, carried, pc, req, answer>> /\ Remember

\* A user is deactivated, activated again or deleted.
ChangeUser(u, s) ==
    /\ UserTenant[u] # NoTenant /\ users[u] \notin {s, "deleted"}
    /\ users' = [users EXCEPT ![u] = s]
    /\ UNCHANGED <<rows, role, grants, granted, carried, pc, req, answer>> /\ Remember

Next ==
    \/ \E r \in Requests :
        \/ \E u \in Users, t \in Tenants :
            \/ ReadPriceLists(r, u, t)
            \/ \E l \in Lists :
                \/ ReadMarketplaces(r, u, t, l)
                \/ \E m \in Markets : ReadCatalog(r, u, t, l, m) \/ CheckExport(r, u, t, l, m)
            \/ t \in Managed /\ \E ids \in SUBSET Lists : Assign(r, t, u, ids)
        \/ FindPermissions(r) \/ VisiblePriceLists(r) \/ AssertVisible(r) \/ FindMarketplaces(r)
        \/ FindMarketplace(r) \/ FindRelation(r) \/ FindPrices(r) \/ Respond(r)
        \/ AssertPriceLists(r) \/ ReplaceAccess(r)
        \/ \E t \in Managed :
            \/ \E l \in Lists, ids \in SUBSET Markets : Relate(r, t, l, ids)
            \/ \E i \in Items :
                Delete(r, t, i) \/ \E s \in {"active", "inactive"} : Update(r, t, i, s)
        \/ AssertAllExist(r) \/ ReplaceMarketplaces(r) \/ Fail(r) \/ Write(r) \/ SoftDelete(r)
    \/ \E u \in Users :
        \/ \E g \in Roles : ChangeRole(u, g)
        \/ \E s \in UserStatuses : ChangeUser(u, s)
    \/ \E g \in Roles, permissions \in Grants : AssignPermissions(g, permissions)

Spec == Init /\ [][Next]_vars
-----------------------------------------------------------------------------
(* Properties.                                                               *)

TypeOK ==
    /\ rows \in [Items -> Row]
    /\ users \in [Users -> UserStatuses]
    /\ role \in [Users -> Roles] /\ grants \in [Roles -> Grants]
    /\ granted \subseteq Users \X Lists
    /\ carried \subseteq Lists \X Markets
    /\ pc \in [Requests -> PCs]
    /\ req \in [Requests -> Arguments]
    /\ answer \in [Requests -> SUBSET Items]
    /\ held \in [Requests -> SUBSET FactNames]

Required(k) ==
    {"active", "holder", "permitted"} \cup
    CASE k = "marketplaces" -> {"visible"}
      [] k = "export" -> {"visible", "carried"}
      [] k = "catalog" -> {"visible", "onSale", "carried"}
      [] OTHER -> {}

\* Whatever is changed while a request reads: what it answers was allowed, each
\* condition at some moment since it was authenticated; its user had the role that
\* was looked at, and the role the permission.  So nothing that was taken away before
\* a request arrives is read by it, though no two of its statements see the same data
\* (auth.service.ts, price-catalog.service.ts).
AnswersWereAllowed ==
    \A r \in Requests : pc[r] = "answer" => Required(req[r].kind) \subseteq held[r]

\* A request answers about the company it acts for, which is the company of its user
\* unless he was a global administrator when it arrived, whatever its header says
\* and whoever has changed his role since (resolveTenant, and tenantId in every
\* where clause).
StaysInCompany ==
    \A r \in Requests : pc[r] = "answer" =>
        /\ \/ req[r].tenant = UserTenant[req[r].user]
           \/ req[r].role \in AdminRoles /\ "holder" \in held[r]
        /\ \A i \in answer[r] : TenantOf[i] = req[r].tenant

\* The selector of the catalog offers lists that can be read, and to a user without
\* read-all every one of them: visiblePriceLists and assertVisible agree, whatever
\* status deleted rows have come to have.
SelectorIsReadable ==
    \A u \in Users : \A t \in TenantsFor(u, role[u]) :
        LET all == CanReadAll(role[u]) IN
        /\ \A l \in Listed(u, t, all) : CanSee(u, t, all, l)
        /\ ~all => \A l \in Lists : CanSee(u, t, all, l) => l \in Listed(u, t, all)

\* Nothing brings a deleted list or marketplace back, an update under way when it is
\* deleted included.
DeletedStaysDeleted == [][\A i \in Items : rows[i].deleted => rows'[i].deleted]_vars
=============================================================================
