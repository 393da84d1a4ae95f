SPECIFICATION Spec
CONSTANTS
    Requests = {r1, r2}
    Readers = {r1}
    t1 = t1
    t2 = t2
    v = v
    l1 = l1
    l2 = l2
    m1 = m1
    Tenants = {t1, t2}
    Managed = {t1}
    NoTenant = NoTenant
    Users = {v}
    Lists = {l1, l2}
    Markets = {m1}
    UserTenant <- MCUserTenant
    TenantOf <- MCTenantOf
    Nothing = Nothing
    viewer = viewer
    admin = admin
    Roles = {viewer, admin}
    AdminRoles = {admin}
    Grants <- MCGrants
    FirstGrant <- MCFirstGrant
    FirstRole <- MCFirstRole
INVARIANTS
    AnswersWereAllowed
    StaysInCompany
