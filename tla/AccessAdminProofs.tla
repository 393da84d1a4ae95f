------------------------- MODULE AccessAdminProofs -------------------------
(***************************************************************************)
(* RevocationIsFinal and RolesAreOwn for any number of companies, rows and *)
(* processes.  A request writes by id what it has read before: the         *)
(* invariant says what of it no other request can have changed since.      *)
(***************************************************************************)
EXTENDS AccessAdmin, TLAPS

Used(rows, x) == rows[x].state # Unused

KeyTypes == keys \in [Keys -> KeyRows] /\ ended \in [revoked : SUBSET Keys, removed : SUBSET Keys]

TypeOK == KeyTypes /\ roles \in [Roles -> RoleRows] /\ users \in [Users -> UserRows]

\* Roles of the seed are those of no company, and they are there to stay.
SeedStays ==
    \A r \in Roles : /\ roles[r].system <=> roles[r].tenant = None
                     /\ roles[r].system => roles[r].state = "live"

KeysRevoked == \A k \in ended.revoked : keys[k].state = "revoked"

\* A slug no role of the seed has.
Custom(s) == \A r \in Roles : roles[r].system => roles[r].slug # s

Fits(r, c) == Used(roles, r) /\ roles[r].tenant \in {None, c}

Reading == {"get", "exists", "rename", "custom", "slug", "role", "resolve", "touch"}

\* What request q may rely on.
UpdateRoleOK(q) ==
    /\ q.body.role \in Roles /\ q.body.slug \in Slugs \cup {None}
    /\ q.step \in {"rename", "slug", "get", "exists", "write"}
    /\ q.step # "rename" =>
          /\ Used(roles, q.body.role)
          /\ roles[q.body.role].system => q.body.slug \in {None, roles[q.body.role].slug}
    /\ q.step \in {"get", "exists", "write"} /\ q.body.slug # None /\ ~roles[q.body.role].system =>
          Custom(q.body.slug)

RemoveRoleOK(q) ==
    /\ q.body.role \in Roles /\ q.step \in {"custom", "get", "exists", "write"}
    /\ q.step # "custom" => Used(roles, q.body.role) /\ ~roles[q.body.role].system

CreateRoleOK(q) ==
    /\ q.body.slug \in Slugs /\ q.body.granted \subseteq Permissions
    /\ q.step \in {"slug", "insert"}
    /\ q.step = "insert" => Custom(q.body.slug)

CreateUserOK(q) ==
    /\ q.body.role \in Roles /\ q.step \in {"role", "insert"}
    /\ q.step = "insert" => Fits(q.body.role, q.tenant)

UpdateUserOK(q) ==
    /\ q.body.user \in Users /\ q.body.role \in Roles \cup {None}
    /\ q.step \in {"get", "role", "exists", "write"}
    /\ q.step # "get" => Used(users, q.body.user) /\ users[q.body.user].tenant = q.tenant
    /\ q.step \in {"exists", "write"} /\ q.body.role # None => Fits(q.body.role, q.tenant)

RemoveUserOK(q) ==
    /\ q.body.user \in Users /\ q.step \in {"get", "exists", "write"}
    /\ q.step # "get" => Used(users, q.body.user)

KeyRequestOK(q) ==
    /\ q.body.op = "createKey" => q.body.scopes \in SUBSET Scopes
    /\ q.body.op = "updateKey" => /\ q.body.scopes \in (SUBSET Scopes) \cup {None}
                                  /\ q.body.renews \in BOOLEAN
    /\ q.body.op \in {"updateKey", "revokeKey", "removeKey"} => q.body.key \in Keys

RequestOK(q) ==
    /\ q = [body |-> q.body, tenant |-> q.tenant, step |-> q.step, scopes |-> q.scopes]
    /\ q.step \in Reading \cup Writing
    /\ q.step = "resolve" => q.body.op = "external"
    /\ q.body.op # "external" => q.tenant \in Companies
    /\ KeyRequestOK(q)
    /\ q.body.op = "updateRole" => UpdateRoleOK(q)
    /\ q.body.op = "assignPermissions" => q.body.role \in Roles /\ q.body.granted \subseteq Permissions
    /\ q.body.op = "removeRole" => RemoveRoleOK(q)
    /\ q.body.op = "createRole" => CreateRoleOK(q)
    /\ q.body.op = "createUser" => CreateUserOK(q)
    /\ q.body.op = "updateUser" => UpdateUserOK(q)
    /\ q.body.op = "removeUser" => RemoveUserOK(q)

RequestsOK == \A p \in Processes : reqs[p] # Idle => RequestOK(reqs[p])

IInv ==
    /\ TypeOK /\ SeedStays /\ KeysRevoked
    /\ SlugsApart(roles) /\ RolesFit(users, roles)
    /\ DOMAIN reqs = Processes /\ reqs = [p \in Processes |-> reqs[p]] /\ RequestsOK

-----------------------------------------------------------------------------
\* No row that is used goes out of use or to another company, no role becomes
\* one of the seed, and those of the seed keep their slugs.
Kept ==
    /\ \A r \in Roles :
          /\ Used(roles, r) => /\ Used(roles', r) /\ roles'[r].tenant = roles[r].tenant
                               /\ roles'[r].system = roles[r].system
          /\ roles'[r].system => roles[r].system
          /\ roles[r].system => roles'[r].slug = roles[r].slug
    /\ \A u \in Users : Used(users, u) => Used(users', u) /\ users'[u].tenant = users[u].tenant

\* What a request relies on stands as long as rows are kept.
LEMMA RequestKept ==
    ASSUME NEW q, RequestOK(q), SeedStays, Kept
    PROVE  RequestOK(q)'
<1>1. \A s : Custom(s) => Custom(s)'
  BY DEF Custom, Kept
<1>2. \A c : \A r \in Roles : Fits(r, c) => Fits(r, c)'
  BY DEF Fits, Kept
<1>3. \A r \in Roles : Used(roles, r) => Used(roles', r) /\ roles'[r].system = roles[r].system
  BY DEF Kept
<1>4. \A u \in Users : Used(users, u) => Used(users', u) /\ users'[u].tenant = users[u].tenant
  BY DEF Kept
<1>5. UpdateRoleOK(q) => UpdateRoleOK(q)'
  BY <1>1, <1>3 DEF UpdateRoleOK, Kept, Used
<1>6. RemoveRoleOK(q) => RemoveRoleOK(q)'
  BY <1>3 DEF RemoveRoleOK, Used
<1>7. CreateRoleOK(q) => CreateRoleOK(q)'
  BY <1>1 DEF CreateRoleOK
<1>8. CreateUserOK(q) => CreateUserOK(q)'
  BY <1>2 DEF CreateUserOK
<1>9. UpdateUserOK(q) => UpdateUserOK(q)'
  BY <1>2, <1>4 DEF UpdateUserOK, Used
<1>10. RemoveUserOK(q) => RemoveUserOK(q)'
  BY <1>4 DEF RemoveUserOK, Used
<1> QED
  BY <1>5, <1>6, <1>7, <1>8, <1>9, <1>10 DEF RequestOK, KeyRequestOK

\* A request that ends, or goes on, leaves the others what they rely on.
LEMMA RequestsKept ==
    ASSUME IInv, Kept, NEW p \in Processes, NEW n, n # Idle => RequestOK(n)',
           reqs' = [reqs EXCEPT ![p] = n]
    PROVE  /\ DOMAIN reqs' = Processes /\ reqs' = [r \in Processes |-> reqs'[r]]
           /\ RequestsOK'
<1>1. DOMAIN reqs' = Processes /\ reqs' = [r \in Processes |-> reqs'[r]]
  BY DEF IInv
<1>2. ASSUME NEW r \in Processes, reqs'[r] # Idle
      PROVE  RequestOK(reqs[r])'
  <2>1. \A q : RequestOK(q) => RequestOK(q)'
    BY RequestKept DEF IInv
  <2>2. PICK q : q = reqs'[r]
    OBVIOUS
  <2>3. RequestOK(q)'
    BY <1>2, <2>1, <2>2 DEF IInv, RequestsOK
  <2> QED
    BY <2>2, <2>3
<1> QED
  BY <1>1, <1>2 DEF RequestsOK

\* The first rows are as AccessAdminAssumption wants them.
LEMMA InitInv == Init => IInv
<1> SUFFICES ASSUME Init PROVE IInv
  OBVIOUS
<1>1. TypeOK /\ SeedStays /\ KeysRevoked
  BY AccessAdminAssumption DEF Init, TypeOK, KeyTypes, SeedStays, KeysRevoked
<1>2. SlugsApart(roles) /\ RolesFit(users, roles)
  BY AccessAdminAssumption DEF Init
<1>3. DOMAIN reqs = Processes /\ reqs = [p \in Processes |-> reqs[p]] /\ RequestsOK
  BY DEF Init, RequestsOK
<1> QED
  BY <1>1, <1>2, <1>3 DEF IInv

\* A request begins with nothing to rely on.
LEMMA FirstOK ==
    ASSUME NEW body \in Bodies, NEW c \in Companies
    PROVE  RequestOK([body |-> body, tenant |-> c, step |-> FirstStep(body.op), scopes |-> {}])
<1> DEFINE q == [body |-> body, tenant |-> c, step |-> FirstStep(body.op), scopes |-> {}]
<1>1. /\ FirstStep("createKey") = "insert" /\ FirstStep("external") = "resolve"
      /\ FirstStep("createRole") = "slug" /\ FirstStep("updateRole") = "rename"
      /\ FirstStep("removeRole") = "custom" /\ FirstStep("createUser") = "role"
      /\ \A op : op \in {"updateKey", "revokeKey", "removeKey", "assignPermissions", "updateUser", "removeUser"}
                => FirstStep(op) = "get"
  BY DEF FirstStep
<1>2. /\ q.body = body /\ q.tenant = c /\ q.step = FirstStep(body.op)
      /\ q = [body |-> q.body, tenant |-> q.tenant, step |-> q.step, scopes |-> q.scopes]
  OBVIOUS
<1>3. q.step \in Reading \cup Writing /\ (q.step = "resolve" => body.op = "external")
  BY <1>1, <1>2 DEF Bodies, Reading, Writing
<1>4. KeyRequestOK(q)
  <2>1. body.op = "createKey" => body.scopes \in SUBSET Scopes
    <3>1. body.op = "createKey" => body \in [op : {"createKey"}, scopes : (SUBSET Scopes) \ {{}}]
      BY DEF Bodies
    <3> QED
      BY <3>1
  <2>2. body.op = "updateKey" => body.scopes \in (SUBSET Scopes) \cup {None} /\ body.renews \in BOOLEAN
    <3>1. body.op = "updateKey" =>
          body \in [op : {"updateKey"}, key : Keys, scopes : ((SUBSET Scopes) \ {{}}) \cup {None}, renews : BOOLEAN]
      BY DEF Bodies
    <3> QED
      BY <3>1
  <2>3. body.op \in {"updateKey", "revokeKey", "removeKey"} => body.key \in Keys
    BY DEF Bodies
  <2> QED
    BY <1>2, <2>1, <2>2, <2>3 DEF KeyRequestOK
<1>5. body.op = "updateRole" => UpdateRoleOK(q)
  BY <1>1, <1>2 DEF Bodies, UpdateRoleOK
<1>6. body.op = "assignPermissions" => body.role \in Roles /\ body.granted \subseteq Permissions
  BY DEF Bodies
<1>7. body.op = "removeRole" => RemoveRoleOK(q)
  BY <1>1, <1>2 DEF Bodies, RemoveRoleOK
<1>8. body.op = "createRole" => CreateRoleOK(q)
  BY <1>1, <1>2 DEF Bodies, CreateRoleOK
<1>9. body.op = "createUser" => CreateUserOK(q)
  BY <1>1, <1>2 DEF Bodies, CreateUserOK
<1>10. body.op = "updateUser" => UpdateUserOK(q)
  BY <1>1, <1>2 DEF Bodies, UpdateUserOK
<1>11. body.op = "removeUser" => RemoveUserOK(q)
  BY <1>1, <1>2 DEF Bodies, RemoveUserOK
<1> HIDE DEF q
<1>12. RequestOK(q)
  BY <1>2, <1>3, <1>4, <1>5, <1>6, <1>7, <1>8, <1>9, <1>10, <1>11 DEF RequestOK
<1> QED
  BY <1>12 DEF q

\* What a read or check has passed is what the next statement relies on.
LEMMA NextOK ==
    ASSUME IInv, NEW q, RequestOK(q), q.step \notin Writing, Passes(q)
    PROVE  RequestOK(Passed(q))
<1> DEFINE n == Passed(q)
<1>1. /\ n = [body |-> n.body, tenant |-> n.tenant, step |-> n.step, scopes |-> n.scopes]
      /\ n.body = q.body /\ n.step = NextStep(q)
      /\ q.step # "resolve" => n.tenant = q.tenant
  BY DEF RequestOK, Passed
<1> HIDE DEF n
<1>0. /\ q.step = "rename" => NextStep(q) = IF KeepsSlug(q) THEN "get" ELSE "slug"
      /\ q.step = "slug" => NextStep(q) = IF q.body.op = "createRole" THEN "insert" ELSE "get"
      /\ q.step = "custom" => NextStep(q) = "get"
      /\ q.step = "get" => NextStep(q) = IF q.body.op = "updateUser" THEN "role"
                                         ELSE IF q.body.op = "assignPermissions" THEN "write" ELSE "exists"
      /\ q.step = "role" => NextStep(q) = IF q.body.op = "createUser" THEN "insert" ELSE "exists"
      /\ q.step = "exists" => NextStep(q) = "write"
      /\ q.step = "resolve" => NextStep(q) = "touch"
      /\ q.step = "touch" => NextStep(q) = "answer"
  BY DEF NextStep
<1>2. n.step \in Reading \cup Writing /\ n.step # "resolve"
  BY <1>0, <1>1 DEF RequestOK, Reading, Writing
<1>3. q.body.op # "external" => n.tenant = q.tenant
  BY <1>1 DEF RequestOK
<1>4. KeyRequestOK(n)
  BY <1>1 DEF RequestOK, KeyRequestOK
<1>5. q.body.op = "updateRole" => UpdateRoleOK(n)
  <2> SUFFICES ASSUME q.body.op = "updateRole", UpdateRoleOK(q) PROVE UpdateRoleOK(n)
    BY DEF RequestOK
  <2>1. q.step \in {"rename", "get", "exists"} => RoleFound(q.body.role, q.tenant)
    BY DEF Passes, Renamable, Found
  <2>2. RoleFound(q.body.role, q.tenant) => Used(roles, q.body.role)
    BY DEF RoleFound, Used, Unused
  <2>3. q.step = "rename" => (roles[q.body.role].system => q.body.slug \in {None, roles[q.body.role].slug})
    BY DEF Passes, Renamable, KeepsSlug
  <2>4. q.step = "slug" /\ ~roles[q.body.role].system => Custom(q.body.slug)
    BY DEF UpdateRoleOK, Passes, SlugAvailable, RoleFound, Custom, IInv, SeedStays
  <2>5. ASSUME n.step = "get", q.step = "rename", ~roles[q.body.role].system, q.body.slug # None
        PROVE  Custom(q.body.slug)
    <3>1. q.body.role \in Roles /\ q.body.slug = roles[q.body.role].slug
      BY <1>0, <1>1, <2>5 DEF UpdateRoleOK, KeepsSlug
    <3>2. Used(roles, q.body.role)
      BY <2>1, <2>2, <2>5
    <3> QED
      BY <2>5, <3>1, <3>2 DEF Custom, IInv, SlugsApart, SeedStays, Used, Unused
  <2> QED
    BY <1>0, <1>1, <2>1, <2>2, <2>3, <2>4, <2>5 DEF UpdateRoleOK, Writing
<1>6. q.body.op = "assignPermissions" => n.body.role \in Roles /\ n.body.granted \subseteq Permissions
  BY <1>1 DEF RequestOK
<1>7. q.body.op = "removeRole" => RemoveRoleOK(n)
  <2> SUFFICES ASSUME q.body.op = "removeRole", RemoveRoleOK(q) PROVE RemoveRoleOK(n)
    BY DEF RequestOK
  <2>1. q.step = "custom" => Used(roles, q.body.role) /\ ~roles[q.body.role].system
    BY DEF Passes, Found, RoleFound, Used, Unused
  <2> QED
    BY <1>0, <1>1, <2>1 DEF RemoveRoleOK, Writing
<1>8. q.body.op = "createRole" => CreateRoleOK(n)
  <2> SUFFICES ASSUME q.body.op = "createRole", CreateRoleOK(q) PROVE CreateRoleOK(n)
    BY DEF RequestOK
  <2>1. q.step = "slug" => Custom(q.body.slug)
    BY AccessAdminAssumption DEF CreateRoleOK, Passes, SlugAvailable, RoleFound, Custom, IInv, SeedStays
  <2> QED
    BY <1>0, <1>1, <2>1 DEF CreateRoleOK, Writing
<1>9. q.body.op = "createUser" => CreateUserOK(n)
  <2> SUFFICES ASSUME q.body.op = "createUser", CreateUserOK(q) PROVE CreateUserOK(n)
    BY DEF RequestOK
  <2>1. q.step = "role" => Fits(q.body.role, q.tenant)
    BY AccessAdminAssumption DEF CreateUserOK, Passes, RoleFound, Fits, Used, Unused
  <2> QED
    BY <1>0, <1>1, <1>3, <2>1 DEF CreateUserOK, Writing
<1>10. q.body.op = "updateUser" => UpdateUserOK(n)
  <2> SUFFICES ASSUME q.body.op = "updateUser", UpdateUserOK(q) PROVE UpdateUserOK(n)
    BY DEF RequestOK
  <2>1. q.step = "get" => Used(users, q.body.user) /\ users[q.body.user].tenant = q.tenant
    BY DEF Passes, Found, UserFound, Used, Unused
  <2>2. q.step = "role" /\ q.body.role # None => Fits(q.body.role, q.tenant)
    BY DEF Passes, RoleFound, Fits, Used, Unused
  <2> QED
    BY <1>0, <1>1, <1>3, <2>1, <2>2 DEF UpdateUserOK, Writing
<1>11. q.body.op = "removeUser" => RemoveUserOK(n)
  <2> SUFFICES ASSUME q.body.op = "removeUser", RemoveUserOK(q) PROVE RemoveUserOK(n)
    BY DEF RequestOK
  <2>1. q.step = "get" => Used(users, q.body.user)
    BY DEF Passes, Found, UserFound, Used, Unused
  <2> QED
    BY <1>0, <1>1, <2>1 DEF RemoveUserOK, Writing
<1>12. q.body.op # "external" => n.tenant \in Companies
  BY <1>3 DEF RequestOK
<1>13. RequestOK(n)
  BY <1>1, <1>2, <1>4, <1>5, <1>6, <1>7, <1>8, <1>9, <1>10, <1>11, <1>12 DEF RequestOK
<1> QED
  BY <1>13 DEF n

-----------------------------------------------------------------------------
\* Statements on keys: one that was revoked stays so.
LEMMA KeyStep ==
    ASSUME IInv, \/ \E p \in Processes : InsertKey(p) \/ UpdateKey(p) \/ RevokeKey(p) \/ RemoveKey(p)
                 \/ \E k \in Keys : KeyExpires(k)
    PROVE  KeyTypes' /\ KeysRevoked'
<1> USE DEF KeyTypes, KeysRevoked
<1>1. KeyTypes /\ KeysRevoked
  BY DEF IInv, TypeOK
<1>2. \A p \in Processes : reqs[p] # Idle => RequestOK(reqs[p])
  BY DEF IInv, RequestsOK
<1>0. ASSUME NEW k \in Keys, NEW row \in KeyRows, keys[k].state = "revoked" => row.state = "revoked",
             keys' = [keys EXCEPT ![k] = row], ended' = ended
      PROVE  KeyTypes' /\ KeysRevoked'
  <2>1. KeyTypes'
    BY <1>0, <1>1
  <2>2. \A j \in Keys : keys'[j] = IF j = k THEN row ELSE keys[j]
    BY <1>0, <1>1
  <2> QED
    BY <1>0, <1>1, <2>1, <2>2
<1>3. ASSUME NEW p \in Processes, InsertKey(p) PROVE KeyTypes' /\ KeysRevoked'
  <2>1. reqs[p].tenant \in Companies /\ reqs[p].body.scopes \in SUBSET Scopes
    BY <1>2, <1>3 DEF InsertKey, Writes, RequestOK, KeyRequestOK
  <2>2. PICK k \in Keys, e \in BOOLEAN :
           /\ keys[k].state = Unused
           /\ keys' = [keys EXCEPT ![k] = [tenant |-> reqs[p].tenant, state |-> "active", expired |-> e,
                                           scopes |-> reqs[p].body.scopes, deleted |-> FALSE]]
           /\ ended' = ended
    BY <1>3 DEF InsertKey
  <2> QED
    BY <1>1, <2>1, <2>2 DEF KeyRows, Unused
<1>4. ASSUME NEW p \in Processes, UpdateKey(p) PROVE KeyTypes' /\ KeysRevoked'
  <2> DEFINE b == reqs[p].body
  <2>1. b.key \in Keys /\ b.scopes \in (SUBSET Scopes) \cup {None} /\ b.renews \in BOOLEAN
    BY <1>2, <1>4 DEF UpdateKey, Writes, RequestOK, KeyRequestOK
  <2>2. keys' = [keys EXCEPT ![b.key] = Updated(b.key, b)] /\ ended' = ended
    BY <1>4 DEF UpdateKey
  <2>3. keys[b.key] \in KeyRows
    BY <1>1, <2>1
  <2>4. PICK s \in SUBSET Scopes : s = IF b.scopes = None THEN keys[b.key].scopes ELSE b.scopes
    BY <2>1, <2>3 DEF KeyRows
  <2>5. PICK e \in BOOLEAN : e = (keys[b.key].expired /\ ~b.renews)
    OBVIOUS
  <2>6. Updated(b.key, b) = [keys[b.key] EXCEPT !.scopes = s, !.expired = e]
    BY <2>4, <2>5, Zenon DEF Updated
  <2>7. Updated(b.key, b) \in KeyRows /\ Updated(b.key, b).state = keys[b.key].state
    <3>1. PICK row \in KeyRows : row = keys[b.key]
      BY <2>3
    <3>2. Updated(b.key, b) = [row EXCEPT !.scopes = s, !.expired = e]
      BY <2>6, <3>1
    <3> QED
      BY <3>1, <3>2 DEF KeyRows
  <2> HIDE DEF b
  <2> QED
    BY <1>0, <2>1, <2>2, <2>7
<1>5. ASSUME NEW p \in Processes, RevokeKey(p) PROVE KeyTypes' /\ KeysRevoked'
  <2>1. reqs[p].body.key \in Keys
    BY <1>2, <1>5 DEF RevokeKey, Writes, RequestOK, KeyRequestOK
  <2>2. PICK k \in Keys : /\ keys' = [keys EXCEPT ![k].state = "revoked"]
                          /\ ended' = [ended EXCEPT !.revoked = @ \cup {k}]
    BY <1>5, <2>1 DEF RevokeKey
  <2> QED
    BY <1>1, <2>2 DEF KeyRows
<1>6. ASSUME NEW p \in Processes, RemoveKey(p) PROVE KeyTypes' /\ KeysRevoked'
  <2>1. reqs[p].body.key \in Keys
    BY <1>2, <1>6 DEF RemoveKey, Writes, RequestOK, KeyRequestOK
  <2> QED
    BY <1>1, <1>6, <2>1 DEF RemoveKey
<1>7. ASSUME NEW k \in Keys, KeyExpires(k) PROVE KeyTypes' /\ KeysRevoked'
  <2> DEFINE row == [keys[k] EXCEPT !.expired = TRUE]
  <2>1. keys[k] \in KeyRows /\ keys' = [keys EXCEPT ![k] = row] /\ ended' = ended
    BY <1>1, <1>7 DEF KeyExpires
  <2>2. row \in KeyRows /\ row.state = keys[k].state
    BY <2>1 DEF KeyRows
  <2> HIDE DEF row
  <2> QED
    BY <1>0, <2>1, <2>2
<1> QED
  BY <1>3, <1>4, <1>5, <1>6, <1>7

RolesOK == roles \in [Roles -> RoleRows] /\ SeedStays /\ SlugsApart(roles)

\* A role that is written keeps what others rely on, and its slug meets no other
\* where the two are seen together.
LEMMA RoleWritten ==
    ASSUME RolesOK, NEW r \in Roles, NEW row \in RoleRows,
           roles' = [roles EXCEPT ![r] = row], users' = users, row.state # Unused,
           IF Used(roles, r) THEN row.tenant = roles[r].tenant /\ row.system = roles[r].system
                             ELSE row.tenant \in Companies /\ ~row.system,
           row.system => row.slug = roles[r].slug /\ row.state = "live",
           \A s \in Roles : s # r /\ Used(roles, s) /\ roles[s].slug = row.slug
                           => row.tenant # roles[s].tenant /\ None \notin {row.tenant, roles[s].tenant}
    PROVE  RolesOK' /\ Kept
<1> USE DEF RolesOK
<1>1. roles' \in [Roles -> RoleRows]
  OBVIOUS
<1>2. \A s \in Roles : roles'[s] = IF s = r THEN row ELSE roles[s]
  OBVIOUS
<1>3. row.system <=> row.tenant = None
  BY AccessAdminAssumption DEF SeedStays
<1>4. SeedStays'
  BY <1>2, <1>3 DEF SeedStays
<1>5. SlugsApart(roles')
  BY <1>2 DEF SlugsApart, Used
<1>6. Kept
  BY <1>2 DEF Kept, Used, SeedStays, Unused
<1> QED
  BY <1>1, <1>4, <1>5, <1>6

\* Statements on roles.
LEMMA RoleStep ==
    ASSUME IInv, NEW p \in Processes,
           InsertRole(p) \/ UpdateRole(p) \/ AssignPermissions(p) \/ RemoveRole(p)
    PROVE  RolesOK' /\ Kept
<1> DEFINE b == reqs[p].body
<1>1. RolesOK /\ (reqs[p] # Idle => RequestOK(reqs[p]))
  BY DEF IInv, TypeOK, RolesOK, RequestsOK
<1>2. \A s \in Roles : roles[s] \in RoleRows /\ (roles[s].tenant = None <=> roles[s].system)
  BY <1>1 DEF RolesOK, SeedStays
<1>3. ASSUME UNCHANGED <<roles, users>> PROVE RolesOK' /\ Kept
  BY <1>1, <1>3 DEF RolesOK, SeedStays, SlugsApart, Kept, Used
<1>4. CASE InsertRole(p)
  <2>1. /\ reqs[p].tenant \in Companies /\ b.slug \in Slugs /\ b.granted \subseteq Permissions
        /\ Custom(b.slug)
    BY <1>1, <1>4 DEF InsertRole, Writes, RequestOK, CreateRoleOK, Writing
  <2> DEFINE row == [tenant |-> reqs[p].tenant, state |-> "live", slug |-> b.slug, system |-> FALSE,
                     granted |-> b.granted]
  <2>2. PICK r \in Roles : /\ roles[r].state = Unused /\ users' = users
                           /\ roles' = IF IndexAdmits(b.slug, reqs[p].tenant, r)
                                       THEN [roles EXCEPT ![r] = row] ELSE roles
    BY <1>4 DEF InsertRole
  <2>3. CASE ~IndexAdmits(b.slug, reqs[p].tenant, r)
    BY <1>3, <2>2, <2>3
  <2>4. CASE IndexAdmits(b.slug, reqs[p].tenant, r)
    <3>1. row \in RoleRows /\ row.state # Unused /\ row.tenant \in Companies /\ ~row.system
      BY <2>1 DEF RoleRows, Unused
    <3>2. \A s \in Roles : s # r /\ Used(roles, s) /\ roles[s].slug = row.slug
                           => row.tenant # roles[s].tenant /\ None \notin {row.tenant, roles[s].tenant}
      BY <1>2, <2>1, <2>4, AccessAdminAssumption DEF IndexAdmits, Custom, Used
    <3> HIDE DEF row
    <3> QED
      BY <1>1, <2>2, <2>4, <3>1, <3>2, RoleWritten DEF Used
  <2> QED
    BY <2>3, <2>4
<1>5. CASE UpdateRole(p)
  <2>1. /\ b.role \in Roles /\ b.slug \in Slugs \cup {None} /\ Used(roles, b.role)
        /\ roles[b.role].system => b.slug \in {None, roles[b.role].slug}
        /\ b.slug # None /\ ~roles[b.role].system => Custom(b.slug)
    BY <1>1, <1>5 DEF UpdateRole, Writes, RequestOK, UpdateRoleOK, Writing
  <2>2. PICK r \in Roles : r = b.role
    BY <2>1
  <2>3. PICK old \in RoleRows : old = roles[r]
    BY <1>2
  <2> DEFINE row == [old EXCEPT !.slug = b.slug]
             writes == b.slug # None /\ IndexAdmits(b.slug, old.tenant, r)
  <2>4. users' = users /\ roles' = IF writes THEN [roles EXCEPT ![r] = row] ELSE roles
    BY <1>5, <2>2, <2>3 DEF UpdateRole
  <2>5. CASE ~writes
    BY <1>3, <2>4, <2>5
  <2>6. CASE writes
    <3>1. /\ row \in RoleRows /\ row.state = old.state /\ row.tenant = old.tenant
          /\ row.system = old.system /\ row.slug = b.slug
      BY <2>1, <2>6 DEF RoleRows
    <3>2. old.system => old.slug = b.slug /\ old.state = "live"
      BY <1>1, <2>1, <2>2, <2>3, <2>6 DEF RolesOK, SeedStays
    <3>3. CASE old.system
      <4>1. \A s \in Roles : s # r /\ Used(roles, s) /\ roles[s].slug = row.slug
                           => row.tenant # roles[s].tenant /\ None \notin {row.tenant, roles[s].tenant}
        BY <1>1, <2>1, <2>2, <2>3, <3>1, <3>2, <3>3 DEF RolesOK, SlugsApart, Used
      <4>2. /\ row.state # Unused /\ row.slug = roles[r].slug /\ row.state = "live" /\ Used(roles, r)
            /\ row.tenant = roles[r].tenant /\ row.system = roles[r].system
        BY <2>1, <2>2, <2>3, <3>1, <3>2, <3>3 DEF Unused
      <4> HIDE DEF row
      <4> QED
        BY <1>1, <2>4, <2>6, <3>1, <4>1, <4>2, RoleWritten
    <3>4. CASE ~old.system
      <4>1. old.tenant # None
        BY <1>2, <2>3, <3>4
      <4>2. \A s \in Roles : s # r /\ Used(roles, s) /\ roles[s].slug = row.slug
                           => row.tenant # roles[s].tenant /\ None \notin {row.tenant, roles[s].tenant}
        BY <1>2, <2>1, <2>2, <2>3, <2>6, <3>1, <3>4, <4>1 DEF IndexAdmits, Custom, Used
      <4> HIDE DEF row
      <4> QED
        BY <1>1, <2>1, <2>2, <2>3, <2>4, <2>6, <3>1, <3>4, <4>2, RoleWritten DEF Used
    <3> QED
      BY <3>3, <3>4
  <2> QED
    BY <2>5, <2>6
<1>6. CASE AssignPermissions(p)
  <2>1. PICK r \in Roles, g \in SUBSET Permissions :
           users' = users /\ roles' = [roles EXCEPT ![r].granted = g]
    BY <1>1, <1>6 DEF AssignPermissions, Writes, RequestOK
  <2>2. /\ roles' \in [Roles -> RoleRows]
        /\ \A s \in Roles : /\ roles'[s].tenant = roles[s].tenant /\ roles'[s].state = roles[s].state
                             /\ roles'[s].slug = roles[s].slug /\ roles'[s].system = roles[s].system
    BY <1>2, <2>1, <1>1 DEF RolesOK, RoleRows
  <2> QED
    BY <1>1, <2>1, <2>2 DEF RolesOK, SeedStays, SlugsApart, Kept, Used
<1>7. CASE RemoveRole(p)
  <2>1. PICK r \in Roles : /\ Used(roles, r) /\ ~roles[r].system /\ users' = users
                           /\ roles' = [roles EXCEPT ![r].state = "deleted"]
    BY <1>1, <1>7 DEF RemoveRole, Writes, RequestOK, RemoveRoleOK, Writing
  <2>2. /\ roles' \in [Roles -> RoleRows]
        /\ \A s \in Roles : /\ roles'[s].tenant = roles[s].tenant /\ roles'[s].slug = roles[s].slug
                             /\ roles'[s].system = roles[s].system
                             /\ roles'[s].state = IF s = r THEN "deleted" ELSE roles[s].state
    BY <1>2, <2>1, <1>1 DEF RolesOK, RoleRows
  <2> QED
    BY <1>1, <2>1, <2>2 DEF RolesOK, SeedStays, SlugsApart, Kept, Used, Unused
<1> QED
  BY <1>4, <1>5, <1>6, <1>7

UsersOK == users \in [Users -> UserRows] /\ RolesFit(users, roles)

\* Roles that are kept go on fitting their users.
LEMMA RolesGoOnFitting ==
    ASSUME UsersOK, Kept, users' = users
    PROVE  UsersOK'
BY DEF UsersOK, RolesFit, Kept, Used, UserRows

\* Statements on users.
LEMMA UserStep ==
    ASSUME IInv, NEW p \in Processes, InsertUser(p) \/ UpdateUser(p) \/ RemoveUser(p)
    PROVE  UsersOK' /\ Kept
<1> DEFINE b == reqs[p].body
<1>1. UsersOK /\ (reqs[p] # Idle => RequestOK(reqs[p]))
  BY DEF IInv, TypeOK, UsersOK, RequestsOK
<1>2. ASSUME NEW u \in Users, NEW row \in UserRows, roles' = roles,
             users' = [users EXCEPT ![u] = row], row.state # Unused,
             Used(users, u) => row.tenant = users[u].tenant,
             Fits(row.role, row.tenant)
      PROVE  UsersOK' /\ Kept
  <2>1. users' \in [Users -> UserRows] /\ \A v \in Users : users'[v] = IF v = u THEN row ELSE users[v]
    BY <1>1, <1>2 DEF UsersOK
  <2> QED
    BY <1>1, <1>2, <2>1 DEF UsersOK, RolesFit, Fits, Kept, Used
<1>3. ASSUME UNCHANGED <<roles, users>> PROVE UsersOK' /\ Kept
  BY <1>1, <1>3 DEF UsersOK, RolesFit, Kept, Used
<1>4. \A u \in Users : users[u] \in UserRows
  BY <1>1 DEF UsersOK
<1>5. CASE InsertUser(p)
  <2>1. reqs[p].tenant \in Companies /\ b.role \in Roles /\ Fits(b.role, reqs[p].tenant)
    BY <1>1, <1>5 DEF InsertUser, Writes, RequestOK, CreateUserOK, Writing
  <2> DEFINE row == [tenant |-> reqs[p].tenant, state |-> "live", role |-> b.role]
  <2>2. PICK u \in Users : users[u].state = Unused /\ roles' = roles /\ users' = [users EXCEPT ![u] = row]
    BY <1>5 DEF InsertUser
  <2>3. /\ row \in UserRows /\ row.state # Unused /\ row.role = b.role /\ row.tenant = reqs[p].tenant
    BY <2>1 DEF UserRows, Unused
  <2> HIDE DEF row
  <2> QED
    BY <1>2, <2>1, <2>2, <2>3 DEF Used
<1>6. CASE UpdateUser(p)
  <2>1. /\ b.user \in Users /\ b.role \in Roles \cup {None}
        /\ Used(users, b.user) /\ users[b.user].tenant = reqs[p].tenant
        /\ b.role # None => Fits(b.role, reqs[p].tenant)
    BY <1>1, <1>6 DEF UpdateUser, Writes, RequestOK, UpdateUserOK, Writing
  <2>2. roles' = roles /\ users' = IF b.role = None THEN users ELSE [users EXCEPT ![b.user].role = b.role]
    BY <1>6 DEF UpdateUser
  <2>3. CASE b.role = None
    BY <1>3, <2>2, <2>3
  <2>4. CASE b.role # None
    <3>1. PICK u \in Users, r \in Roles : u = b.user /\ r = b.role
      BY <2>1, <2>4
    <3>2. PICK old \in UserRows : old = users[u]
      BY <1>4
    <3> DEFINE row == [old EXCEPT !.role = r]
    <3>3. users' = [users EXCEPT ![u] = row]
      BY <2>2, <2>4, <3>1, <3>2
    <3>4. row \in UserRows /\ row.state = old.state /\ row.tenant = old.tenant /\ row.role = r
      BY DEF UserRows
    <3>5. row.role = b.role /\ row.tenant = reqs[p].tenant /\ row.tenant = users[u].tenant
      BY <2>1, <3>1, <3>2, <3>4
    <3>6. row.state # Unused
      BY <2>1, <3>1, <3>2, <3>4 DEF Used
    <3> HIDE DEF row
    <3>7. Fits(row.role, row.tenant)
      BY <2>1, <2>4, <3>5
    <3> QED
      BY <1>2, <2>2, <3>3, <3>4, <3>5, <3>6, <3>7
  <2> QED
    BY <2>3, <2>4
<1>7. CASE RemoveUser(p)
  <2>1. PICK u \in Users : /\ Used(users, u) /\ roles' = roles
                           /\ users' = [users EXCEPT ![u].state = "deleted"]
    BY <1>1, <1>7 DEF RemoveUser, Writes, RequestOK, RemoveUserOK, Writing
  <2>2. /\ users' \in [Users -> UserRows]
        /\ \A v \in Users : /\ users'[v].tenant = users[v].tenant /\ users'[v].role = users[v].role
                             /\ users'[v].state = IF v = u THEN "deleted" ELSE users[v].state
    BY <1>1, <1>4, <2>1 DEF UsersOK, UserRows
  <2> QED
    BY <1>1, <2>1, <2>2 DEF UsersOK, RolesFit, Kept, Used, Unused
<1> QED
  BY <1>5, <1>6, <1>7

-----------------------------------------------------------------------------
\* A request that reads or checks, and one that begins, ends or fails.
Steps(p) == Begin(p) \/ Check(p) \/ Fail(p) \/ AnswerExternal(p)

\* What it goes on to rely on holds.
LEMMA RequestStep ==
    ASSUME IInv, NEW p \in Processes, Steps(p)
    PROVE  IInv'
<1>1. UNCHANGED <<keys, roles, users, ended>>
  BY DEF Steps, Begin, Check, Fail, AnswerExternal
<1>2. /\ TypeOK' /\ SeedStays' /\ KeysRevoked' /\ SlugsApart(roles)' /\ RolesFit(users, roles)' /\ Kept
      /\ \A q : RequestOK(q) => RequestOK(q)'
  <2>1. Kept
    BY <1>1 DEF Kept, Used
  <2>2. \A q : RequestOK(q) => RequestOK(q)'
    BY <2>1, RequestKept DEF IInv
  <2> QED
    BY <1>1, <2>1, <2>2 DEF IInv, TypeOK, KeyTypes, SeedStays, KeysRevoked, SlugsApart, RolesFit
<1>3. PICK n : reqs' = [reqs EXCEPT ![p] = n] /\ (n # Idle => RequestOK(n))
  <2>1. CASE Begin(p)
    BY <2>1, FirstOK DEF Begin
  <2>2. CASE Check(p)
    <3>1. PICK q : q = reqs[p]
      OBVIOUS
    <3>2. RequestOK(q) /\ q.step \notin Writing
      BY <2>2, <3>1 DEF Check, IInv, RequestsOK
    <3>3. CASE Passes(q)
      BY <2>2, <3>1, <3>2, <3>3, NextOK DEF Check
    <3>4. CASE ~Passes(q)
      BY <2>2, <3>1, <3>4 DEF Check, Done
    <3> QED
      BY <3>3, <3>4
  <2>3. CASE Fail(p) \/ AnswerExternal(p)
    BY <2>3 DEF Fail, AnswerExternal, Done
  <2> QED
    BY <2>1, <2>2, <2>3 DEF Steps
<1>4. n # Idle => RequestOK(n)'
  BY <1>2, <1>3
<1>5. /\ DOMAIN reqs' = Processes /\ reqs' = [r \in Processes |-> reqs'[r]]
      /\ RequestsOK'
  BY <1>2, <1>3, <1>4, RequestsKept
<1> QED
  BY <1>2, <1>5 DEF IInv

\* The statements that write end their request.
LEMMA WriteEnds ==
    ASSUME IInv, Kept, NEW p \in Processes, Done(p)
    PROVE  /\ DOMAIN reqs' = Processes /\ reqs' = [r \in Processes |-> reqs'[r]]
           /\ RequestsOK'
BY RequestsKept DEF Done

\* The invariant is inductive: one step per kind of row.
LEMMA NextInv == IInv /\ [Next]_vars => IInv'
<1> SUFFICES ASSUME IInv, [Next]_vars PROVE IInv'
  OBVIOUS
<1>1. /\ KeyTypes /\ KeysRevoked /\ RolesOK /\ UsersOK
      /\ DOMAIN reqs = Processes /\ reqs = [p \in Processes |-> reqs[p]] /\ RequestsOK
  BY DEF IInv, TypeOK, RolesOK, UsersOK
<1>2. ASSUME UNCHANGED <<keys, ended>> PROVE KeyTypes' /\ KeysRevoked'
  BY <1>1, <1>2 DEF KeyTypes, KeysRevoked
<1>3. ASSUME UNCHANGED roles PROVE RolesOK'
  BY <1>1, <1>3 DEF RolesOK, SeedStays, SlugsApart
<1>4. ASSUME UNCHANGED <<roles, users>> PROVE Kept /\ UsersOK'
  BY <1>1, <1>4 DEF Kept, Used, UsersOK, RolesFit
<1>5. ASSUME KeyTypes', KeysRevoked', RolesOK', UsersOK', DOMAIN reqs' = Processes,
             reqs' = [p \in Processes |-> reqs'[p]], RequestsOK'
      PROVE  IInv'
  BY <1>5 DEF IInv, TypeOK, RolesOK, UsersOK
<1>6. ASSUME NEW p \in Processes, Steps(p) PROVE IInv'
  BY <1>6, RequestStep
<1>7. ASSUME NEW p \in Processes, InsertKey(p) \/ UpdateKey(p) \/ RevokeKey(p) \/ RemoveKey(p) PROVE IInv'
  <2>1. UNCHANGED <<roles, users>> /\ Done(p)
    BY <1>7 DEF InsertKey, UpdateKey, RevokeKey, RemoveKey, Writes
  <2> QED
    BY <1>3, <1>4, <1>5, <1>7, <2>1, KeyStep, WriteEnds
<1>8. ASSUME NEW p \in Processes, InsertRole(p) \/ UpdateRole(p) \/ AssignPermissions(p) \/ RemoveRole(p)
      PROVE  IInv'
  <2>1. UNCHANGED <<keys, users, ended>> /\ Done(p)
    BY <1>8 DEF InsertRole, UpdateRole, AssignPermissions, RemoveRole, Writes
  <2> QED
    BY <1>1, <1>2, <1>5, <1>8, <2>1, RoleStep, RolesGoOnFitting, WriteEnds
<1>9. ASSUME NEW p \in Processes, InsertUser(p) \/ UpdateUser(p) \/ RemoveUser(p) PROVE IInv'
  <2>1. UNCHANGED <<keys, roles, ended>> /\ Done(p)
    BY <1>9 DEF InsertUser, UpdateUser, RemoveUser, Writes
  <2> QED
    BY <1>2, <1>3, <1>5, <1>9, <2>1, UserStep, WriteEnds
<1>10. ASSUME NEW k \in Keys, KeyExpires(k) PROVE IInv'
  <2>1. UNCHANGED <<roles, users, reqs>>
    BY <1>10 DEF KeyExpires
  <2>2. RequestsOK'
    <3>1. \A q : RequestOK(q) => RequestOK(q)'
      BY <1>4, <2>1, RequestKept DEF IInv
    <3> SUFFICES ASSUME NEW r \in Processes, reqs'[r] # Idle PROVE RequestOK(reqs[r])'
      BY DEF RequestsOK
    <3>2. PICK q : q = reqs'[r]
      OBVIOUS
    <3>3. RequestOK(q)'
      BY <1>1, <2>1, <3>1, <3>2 DEF RequestsOK
    <3> QED
      BY <3>2, <3>3
  <2> QED
    BY <1>1, <1>3, <1>4, <1>5, <1>10, <2>1, <2>2, KeyStep
<1>11. CASE UNCHANGED vars
  BY <1>11 DEF vars, IInv, TypeOK, KeyTypes, SeedStays, KeysRevoked, SlugsApart, RolesFit, RequestsOK, RequestOK,
     KeyRequestOK, UpdateRoleOK, RemoveRoleOK, CreateRoleOK, CreateUserOK, UpdateUserOK, RemoveUserOK, Custom,
     Fits, Used
<1> QED
  BY <1>6, <1>7, <1>8, <1>9, <1>10, <1>11 DEF Next, Steps

\* Rows stay of their types, those of the seed stay as they are, and what each
\* request relies on holds.
THEOREM InvariantHolds == Spec => []IInv
BY InitInv, NextInv, PTL DEF Spec

\* A key that ApiKeyService.revoke has reached is never effective again
\* (effectiveApiKeyStatus), whatever update or removal was under way.
THEOREM RevocationHolds == Spec => []RevocationIsFinal
<1>1. IInv => RevocationIsFinal
  BY DEF IInv, KeysRevoked, RevocationIsFinal, Usable
<1> QED
  BY <1>1, InvariantHolds, PTL

\* RoleService's look among the seed's slugs and the unique index are enough: a
\* slug names one role for each company; and UserService gives users roles of
\* their own company or of the seed only.
THEOREM RolesHold == Spec => []RolesAreOwn
<1>1. IInv => RolesAreOwn
  BY DEF IInv, RolesAreOwn
<1> QED
  BY <1>1, InvariantHolds, PTL
=============================================================================
