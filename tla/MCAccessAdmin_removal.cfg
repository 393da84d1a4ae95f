\* A key is removed.
SPECIFICATION Spec
CONSTANTS
    None = None
    c1 = c1
    c2 = c2
    k1 = k1
    k2 = k2
    r0 = r0
    r1 = r1
    r2 = r2
    u1 = u1
    u2 = u2
    p1 = p1
    p2 = p2
    Companies = {c1, c2}
    Keys = {k1, k2}
    Roles = {r0, r1, r2}
    Users = {u1, u2}
    Slugs = {"readonly", "clerk"}
    Scopes = {"read"}
    Permissions = {"manage"}
    Processes = {p1, p2}
    MaxRequests = 3
    FirstKeys <- KeysFirst
    FirstRoles <- RolesFirst
    FirstUsers <- UsersFirst
SYMMETRY Symmetry
CHECK_DEADLOCK FALSE
INVARIANT
    RemovalDeletes
