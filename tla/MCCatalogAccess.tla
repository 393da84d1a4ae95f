-------------------------- MODULE MCCatalogAccess --------------------------
\* Two companies: l1 and m1 belong to the first, l2 to the second.  v is a user of the
\* first who may become a global administrator.  Two requests at a time, one of which
\* may be a read: reads change nothing another read could see.
EXTENDS CatalogAccess, TLC
CONSTANTS t1, t2, v, l1, l2, m1, viewer, admin
MCUserTenant == v :> t1
MCTenantOf == l1 :> t1 @@ l2 :> t2 @@ m1 :> t1
MCGrants == {{"read"}, {"export", "all"}}
MCFirstRole == v :> viewer
MCFirstGrant == {"read"}
=============================================================================
