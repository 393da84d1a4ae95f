---------------------------- MODULE AccessAdmin ----------------------------
(***************************************************************************)
(* The administration of who has access: ApiKeyService with the external   *)
(* API that the keys open, RoleService and UserService.  A request is a    *)
(* sequence of statements, each a step of its own, and what a later one    *)
(* writes by id may no longer be what an earlier one has read.             *)
(***************************************************************************)
EXTENDS Naturals

CONSTANTS None, Companies,
          Keys, Roles, Users,  \* bound: the rows there may be
          Slugs, Scopes, Permissions,
          Processes,           \* bound: requests at a time
          MaxRequests,         \* bound: requests in all
          FirstKeys, FirstRoles, FirstUsers

Unused == "unused"

KeyRows == [tenant : Companies \cup {None}, state : {Unused, "active", "revoked"},
            expired : BOOLEAN, scopes : SUBSET Scopes, deleted : BOOLEAN]
RoleRows == [tenant : Companies \cup {None}, state : {Unused, "live", "deleted"},
             slug : Slugs, system : BOOLEAN, granted : SUBSET Permissions]
UserRows == [tenant : Companies \cup {None}, state : {Unused, "live", "deleted"}, role : Roles]

\* A slug names one role among those of the seed and of a company.
SlugsApart(rs) ==
    \A r, s \in Roles :
        r # s /\ rs[r].slug = rs[s].slug /\ Unused \notin {rs[r].state, rs[s].state}
        => rs[r].tenant # rs[s].tenant /\ None \notin {rs[r].tenant, rs[s].tenant}

RolesFit(us, rs) ==
    \A u \in Users : us[u].state # Unused =>
        /\ rs[us[u].role].state # Unused
        /\ rs[us[u].role].tenant \in {None, us[u].tenant}

ASSUME AccessAdminAssumption ==
    /\ None \notin Companies \cup Roles \cup Slugs
    /\ MaxRequests \in Nat
    /\ FirstKeys \in [Keys -> KeyRows] /\ FirstRoles \in [Roles -> RoleRows]
    /\ FirstUsers \in [Users -> UserRows]
    /\ \A r \in Roles : FirstRoles[r].system <=> FirstRoles[r].tenant = None
    /\ \A r \in Roles : FirstRoles[r].system => FirstRoles[r].state = "live"
    /\ SlugsApart(FirstRoles) /\ RolesFit(FirstUsers, FirstRoles)

VARIABLES
    keys,   \* api_keys: expired stands for expires_at < now
    roles,  \* roles with role_permissions: the seed's are of no company
    users,
    reqs,   \* requests under way: whose, its body, the next statement, the scopes resolved
    served, \* how many there have been
    ended   \* history: the keys that were revoked, and those whose removal was
            \* carried out to its end

vars == <<keys, roles, users, reqs, served, ended>>

Idle == [step |-> None]

Init ==
    /\ keys = FirstKeys /\ roles = FirstRoles /\ users = FirstUsers
    /\ reqs = [p \in Processes |-> Idle] /\ served = 0 /\ ended = [revoked |-> {}, removed |-> {}]

-----------------------------------------------------------------------------
(* What a statement finds.                                                  *)

KeyFound(k, c) == keys[k].state # Unused /\ ~keys[k].deleted /\ keys[k].tenant = c

\* RoleRepository.baseWhere: those of the seed are everybody's.
RoleFound(r, c) == roles[r].state = "live" /\ roles[r].tenant \in {None, c}

UserFound(u, c) == users[u].state = "live" /\ users[u].tenant = c

\* assertSlugAvailable looks among the roles of no company, whoever asks.
SlugAvailable(s, id) == \A r \in Roles \ {id} : RoleFound(r, None) => roles[r].slug # s

\* The unique index on tenant_id and slug, deleted rows included.
IndexAdmits(s, c, id) ==
    c # None => \A r \in Roles \ {id} : roles[r].state # Unused /\ roles[r].tenant = c => roles[r].slug # s

\* effectiveApiKeyStatus
Usable(k) == keys[k].state = "active" /\ ~keys[k].deleted /\ ~keys[k].expired

-----------------------------------------------------------------------------
(* The requests.  A body is what the validators let through: None is a field *)
(* it does not have.  What else may refuse one, an email that is taken or a    *)
(* permission that does not exist, is Fail.                                  *)

Bodies ==
    [op : {"createKey"}, scopes : (SUBSET Scopes) \ {{}}]
    \cup [op : {"updateKey"}, key : Keys, scopes : ((SUBSET Scopes) \ {{}}) \cup {None}, renews : BOOLEAN]
    \cup [op : {"revokeKey", "removeKey"}, key : Keys]
    \cup [op : {"external"}, key : Keys, scope : Scopes]
    \cup [op : {"createRole"}, slug : Slugs, granted : SUBSET Permissions]
    \cup [op : {"updateRole"}, role : Roles, slug : Slugs \cup {None}]
    \cup [op : {"assignPermissions"}, role : Roles, granted : SUBSET Permissions]
    \cup [op : {"removeRole"}, role : Roles]
    \cup [op : {"createUser"}, role : Roles]
    \cup [op : {"updateUser"}, user : Users, role : Roles \cup {None}]
    \cup [op : {"removeUser"}, user : Users]

FirstStep(op) ==
    CASE op = "createKey" -> "insert"
      [] op = "external" -> "resolve"
      [] op = "createRole" -> "slug"
      [] op = "updateRole" -> "rename"
      [] op = "removeRole" -> "custom"
      [] op = "createUser" -> "role"
      [] OTHER -> "get"

KeepsSlug(q) == q.body.op = "updateRole" /\ q.body.slug \in {None, roles[q.body.role].slug}

\* The statement after a read or check that was passed.
NextStep(q) ==
    [rename |-> IF KeepsSlug(q) THEN "get" ELSE "slug",
     slug |-> IF q.body.op = "createRole" THEN "insert" ELSE "get",
     custom |-> "get",
     get |-> IF q.body.op = "updateUser" THEN "role"
             ELSE IF q.body.op = "assignPermissions" THEN "write" ELSE "exists",
     role |-> IF q.body.op = "createUser" THEN "insert" ELSE "exists",
     exists |-> "write", resolve |-> "touch", touch |-> "answer"][q.step]

Begin(p) ==
    /\ reqs[p] = Idle /\ served < MaxRequests
    /\ \E body \in Bodies, c \in Companies :
          reqs' = [reqs EXCEPT ![p] = [body |-> body, tenant |-> c, step |-> FirstStep(body.op),
                                       scopes |-> {}]]
    /\ served' = served + 1
    /\ UNCHANGED <<keys, roles, users, ended>>

Found(q) ==
    /\ q.body.op \in {"updateKey", "revokeKey", "removeKey"} => KeyFound(q.body.key, q.tenant)
    /\ q.body.op \in {"updateRole", "assignPermissions", "removeRole"} => RoleFound(q.body.role, q.tenant)
    /\ q.body.op \in {"updateUser", "removeUser"} => UserFound(q.body.user, q.tenant)

\* Mutation: the slug of a system role may be changed.
Renamable_Any(q) == Found(q)

\* A system role keeps its slug.
Renamable(q) ==
    Found(q) /\ (roles[q.body.role].system => KeepsSlug(q))

Passes(q) ==
    /\ q.step \in {"get", "exists"} => Found(q)
    /\ q.step = "rename" => Renamable(q)
    /\ q.step = "custom" => Found(q) /\ ~roles[q.body.role].system
    /\ q.step = "slug" => SlugAvailable(q.body.slug, IF q.body.op = "createRole" THEN None ELSE q.body.role)
    /\ q.step = "role" => q.body.role = None \/ RoleFound(q.body.role, q.tenant)
    /\ q.step = "resolve" => Usable(q.body.key)

Done(p) == reqs' = [reqs EXCEPT ![p] = Idle]

\* A request that goes on.  resolveByRawKey keeps of the key its scopes and its
\* company, whatever the caller may say.
Passed(q) ==
    [body |-> q.body, step |-> NextStep(q),
     tenant |-> IF q.step = "resolve" THEN keys[q.body.key].tenant ELSE q.tenant,
     scopes |-> IF q.step = "resolve" THEN keys[q.body.key].scopes ELSE q.scopes]

Writing == {"insert", "write", "answer"}

\* A read or check: what it refuses ends the request.
Check(p) ==
    LET q == reqs[p] IN
    /\ q # Idle /\ q.step \notin Writing
    /\ IF Passes(q) THEN reqs' = [reqs EXCEPT ![p] = Passed(q)]
       ELSE Done(p)
    /\ UNCHANGED <<keys, roles, users, served, ended>>

\* requireScope, and an answer from the rows of the company, or a refusal: it
\* changes nothing.
AnswerExternal(p) ==
    /\ reqs[p] # Idle /\ reqs[p].step = "answer" /\ Done(p)
    /\ UNCHANGED <<keys, roles, users, served, ended>>

-----------------------------------------------------------------------------
(* The statement that writes, by id and without looking again.              *)

Writes(p, op) ==
    /\ reqs[p] # Idle /\ reqs[p].step \in Writing /\ reqs[p].body.op = op
    /\ Done(p) /\ UNCHANGED served

InsertKey(p) ==
    /\ Writes(p, "createKey")
    /\ \E k \in Keys :
          /\ keys[k].state = Unused
          /\ \E e \in BOOLEAN :   \* expiresAt is any date
                keys' = [keys EXCEPT ![k] = [tenant |-> reqs[p].tenant, state |-> "active", expired |-> e,
                                             scopes |-> reqs[p].body.scopes, deleted |-> FALSE]]
    /\ UNCHANGED <<roles, users, ended>>

\* Mutation: an update makes the key active, as a creation does.
Updated_Active(k, body) ==
    [keys[k] EXCEPT !.scopes = IF body.scopes = None THEN @ ELSE body.scopes,
                    !.expired = @ /\ ~body.renews, !.state = "active"]

\* Only the fields of the body: it has no status.
Updated(k, body) ==
    [keys[k] EXCEPT !.scopes = IF body.scopes = None THEN @ ELSE body.scopes,
                    !.expired = @ /\ ~body.renews]

UpdateKey(p) ==
    /\ Writes(p, "updateKey")
    /\ LET body == reqs[p].body IN keys' = [keys EXCEPT ![body.key] = Updated(body.key, body)]
    /\ UNCHANGED <<roles, users, ended>>

RevokeKey(p) ==
    /\ Writes(p, "revokeKey")
    /\ LET k == reqs[p].body.key IN
       /\ keys' = [keys EXCEPT ![k].state = "revoked"]
       /\ ended' = [ended EXCEPT !.revoked = @ \cup {k}]
    /\ UNCHANGED <<roles, users>>

\* softDelete sets status to inactive, which is not in ApiKeyStatus: the
\* client of the database refuses the statement.
RemoveKey(p) ==
    /\ Writes(p, "removeKey")
    /\ ended' = [ended EXCEPT !.removed = @ \cup {reqs[p].body.key}]
    /\ UNCHANGED <<keys, roles, users>>

\* The role and its permissions in one transaction, or refused by the index.
InsertRole(p) ==
    /\ Writes(p, "createRole")
    /\ LET q == reqs[p] IN
       \E r \in Roles :
          /\ roles[r].state = Unused
          /\ roles' = IF IndexAdmits(q.body.slug, q.tenant, r)
                      THEN [roles EXCEPT ![r] = [tenant |-> q.tenant, state |-> "live", slug |-> q.body.slug,
                                                 system |-> FALSE, granted |-> q.body.granted]]
                      ELSE roles
    /\ UNCHANGED <<keys, users, ended>>

UpdateRole(p) ==
    /\ Writes(p, "updateRole")
    /\ LET body == reqs[p].body IN
       roles' = IF body.slug # None /\ IndexAdmits(body.slug, roles[body.role].tenant, body.role)
                THEN [roles EXCEPT ![body.role].slug = body.slug] ELSE roles
    /\ UNCHANGED <<keys, users, ended>>

AssignPermissions(p) ==
    /\ Writes(p, "assignPermissions")
    /\ roles' = [roles EXCEPT ![reqs[p].body.role].granted = reqs[p].body.granted]
    /\ UNCHANGED <<keys, users, ended>>

\* Nobody looks for users that have it: they keep it.
RemoveRole(p) ==
    /\ Writes(p, "removeRole")
    /\ roles' = [roles EXCEPT ![reqs[p].body.role].state = "deleted"]
    /\ UNCHANGED <<keys, users, ended>>

InsertUser(p) ==
    /\ Writes(p, "createUser")
    /\ \E u \in Users :
          /\ users[u].state = Unused
          /\ users' = [users EXCEPT ![u] = [tenant |-> reqs[p].tenant, state |-> "live",
                                            role |-> reqs[p].body.role]]
    /\ UNCHANGED <<keys, roles, ended>>

UpdateUser(p) ==
    /\ Writes(p, "updateUser")
    /\ LET body == reqs[p].body IN
       users' = IF body.role = None THEN users ELSE [users EXCEPT ![body.user].role = body.role]
    /\ UNCHANGED <<keys, roles, ended>>

RemoveUser(p) ==
    /\ Writes(p, "removeUser")
    /\ users' = [users EXCEPT ![reqs[p].body.user].state = "deleted"]
    /\ UNCHANGED <<keys, roles, ended>>

\* A process ends, or a statement or the connection fails.
Fail(p) ==
    /\ reqs[p] # Idle /\ Done(p)
    /\ UNCHANGED <<keys, roles, users, served, ended>>

KeyExpires(k) ==
    /\ keys[k].state # Unused /\ ~keys[k].expired
    /\ keys' = [keys EXCEPT ![k].expired = TRUE]
    /\ UNCHANGED <<roles, users, reqs, served, ended>>

-----------------------------------------------------------------------------
Next ==
    \/ \E p \in Processes :
          \/ Begin(p) \/ Check(p) \/ Fail(p) \/ AnswerExternal(p)
          \/ InsertKey(p) \/ UpdateKey(p) \/ RevokeKey(p) \/ RemoveKey(p)
          \/ InsertRole(p) \/ UpdateRole(p) \/ AssignPermissions(p) \/ RemoveRole(p)
          \/ InsertUser(p) \/ UpdateUser(p) \/ RemoveUser(p)
    \/ \E k \in Keys : KeyExpires(k)

Spec == Init /\ [][Next]_vars

-----------------------------------------------------------------------------
(* Properties.                                                              *)

\* A key that was revoked opens nothing any more, whatever updates, removals and
\* dates overlap the revocation: it is never found active again.
RevocationIsFinal == \A k \in ended.revoked : ~Usable(k)

\* What a user is and may do hangs on the slug and the rows of his role: for
\* each company a slug names one role among those it sees, and its users have
\* roles of its own or of the seed, whatever was renamed, created and removed
\* in between.  Slugs of removed roles are not given again.
RolesAreOwn == SlugsApart(roles) /\ RolesFit(users, roles)

\* DELETE /api-keys/:id is a soft delete: a removal that has found its key and
\* has not failed on the way leaves it deleted.
RemovalDeletes == \A k \in ended.removed : keys[k].deleted
=============================================================================
