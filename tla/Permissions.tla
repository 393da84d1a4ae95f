---------------------------- MODULE Permissions ----------------------------
(***************************************************************************)
(* Who may open a screen, press a button and have a call carried out: the  *)
(* permissions there are, what the seeded roles are granted, what the      *)
(* routes and the sidebar of the dashboard ask for, what each screen asks  *)
(* the API for, and what the API asks of the caller.  The permission       *)
(* "module:action" and the operation of the API are pairs.                 *)
(***************************************************************************)
EXTENDS Naturals, FiniteSets, Sequences, SequencesExt

On(resource, actions) == {<<resource, a>> : a \in actions}
Crud == {"read", "create", "update", "delete"}

-----------------------------------------------------------------------------
(* The seed.                                                                *)

AllPermissions ==
    (UNION {On(r, Crud) : r \in {"tenants", "users", "roles", "products", "marketplaces",
                                 "price-lists", "prices", "discounts", "api-keys"}})
    \cup On("price-catalog", {"read", "read-all", "export"})
    \cup On("price-list-access", {"read", "manage"})
    \cup On("settings", {"read", "update"})
    \cup {<<r, "read">> : r \in {"permissions", "price-history", "currencies", "dashboard"}}
    \cup {<<"tenants", "switch">>, <<"roles", "assign-permissions">>,
          <<"prices", "calculate">>, <<"api-keys", "revoke">>}

ReadOnly == {<<r, "read">> : r \in {"products", "marketplaces", "price-lists", "prices",
                                    "discounts", "price-history", "currencies", "dashboard"}}

Operated == {"products", "price-lists", "prices", "discounts"}

SystemRole ==
    [global_admin |-> AllPermissions,
     tenant_admin |-> AllPermissions \ On("tenants", {"create", "update", "delete", "switch"}),
     tenant_user |-> ReadOnly \cup (UNION {On(r, {"create", "update"}) : r \in Operated})
                              \cup {<<"prices", "calculate">>},
     readonly_user |-> ReadOnly,
     price_catalog_viewer |-> On("price-catalog", {"read", "export"})]

-----------------------------------------------------------------------------
(* The API: the permission an operation needs, whether it is kept for the    *)
(* global administrator, and whether it needs a company.                     *)

Needs(op) ==
    CASE op[1] = "role-permissions" ->
            <<"roles", IF op[2] = "read" THEN "read" ELSE "assign-permissions">>
      [] op[1] = "price-list-marketplaces" -> <<"price-lists", "update">>
      [] op[1] = "price-list-products" -> <<"price-lists", "update">>
      [] op[1] = "catalog-exports" -> <<"price-catalog", "export">>
      [] op[1] = "time-zone" -> <<"settings", op[2]>>
      [] OTHER -> op

ForGlobalAdmin(op) == op[1] = "tenants"
NeedsCompany(op) == ~ForGlobalAdmin(op)

Allowed(op, granted, global) ==
    IF op = <<"own-tenant", "read">> THEN TRUE
    ELSE (ForGlobalAdmin(op) => global) /\ (global \/ Needs(op) \in granted)

-----------------------------------------------------------------------------
(* The dashboard.                                                            *)

Holds(permission, granted, global) == global \/ permission \in granted

Paths == {"dashboard", "price-catalog", "companies", "products", "price-lists", "marketplaces",
          "prices", "discounts", "price-history", "api-keys", "users", "roles", "settings"}

\* The sidebar, with tenants:read and globalOnly for the companies.
NavItems(granted, global) ==
    {p \in Paths : IF p = "companies" THEN global ELSE Holds(<<p, "read">>, granted, global)}

\* What the dashboard links to by itself.
DashboardLinks == {"products", "price-lists", "prices"}

\* What the select fields of a screen are filled from.
SelectSources(p) ==
    CASE p \in {"companies", "price-lists", "products"} -> {"currencies"}
      [] p = "users" -> {"roles"}
      [] p = "discounts" -> {"products", "price-lists", "marketplaces"}
      [] p = "prices" -> {"price-lists", "marketplaces", "currencies", "products"}
      [] OTHER -> {}

Resource(p) == IF p = "companies" THEN "tenants" ELSE p

\* What a screen asks for when it is shown.
SettingsOpens == {<<"currencies", "read">>, <<"own-tenant", "read">>}

CatalogOpens(granted, global) ==
    {<<"price-catalog", "read">>}
    \cup IF Holds(<<"price-catalog", "export">>, granted, global)
         THEN {<<"catalog-exports", "read">>} ELSE {}

Opens(p, granted, global) ==
    CASE p = "dashboard" -> {<<"dashboard", "read">>}
      [] p = "settings" -> SettingsOpens
      [] p = "price-catalog" -> CatalogOpens(granted, global)
      [] OTHER -> {<<r, "read">> : r \in {Resource(p)} \cup SelectSources(p)}

\* Mutation: the buttons are there whatever is granted.
Shows_All(permission, granted, global) == TRUE

Shows(permission, granted, global) == Holds(permission, granted, global)

If(condition, ops) == IF condition THEN ops ELSE {}

\* What its buttons and panels then ask for: those of every table,
Forms(p, granted, global) ==
    UNION {If(Shows(<<Resource(p), a>>, granted, global), {<<Resource(p), a>>}) :
              a \in Crud \ {"read"}}

\* and what else some screens have.
UsersOffer(granted, global) ==
    If(Shows(<<"price-list-access", "manage">>, granted, global),
       On("price-list-access", {"read", "manage"}) \cup {<<"price-lists", "read">>})

PriceListsOffer(granted, global) ==
    If(Shows(<<"price-lists", "update">>, granted, global),
       {<<"price-list-marketplaces", "update">>, <<"marketplaces", "read">>})

RolesOffer(granted, global) ==
    If(Shows(<<"roles", "assign-permissions">>, granted, global),
       On("role-permissions", {"read", "update"}) \cup {<<"permissions", "read">>})

\* The preview is in the form.
PricesOffer(granted, global) ==
    If(\E a \in {"create", "update"} : Shows(<<"prices", a>>, granted, global),
       {<<"prices", "calculate">>})

\* The button goes by the row alone.
ApiKeysOffer == {<<"api-keys", "revoke">>}

SettingsOffer(granted, global) ==
    If(Shows(<<"settings", "update">>, granted, global), {<<"time-zone", "update">>})

CatalogOffer(granted, global) ==
    If(Shows(<<"price-catalog", "export">>, granted, global),
       On("catalog-exports", {"read", "create"}))

Offers(p, granted, global) ==
    CASE p \in {"dashboard", "price-history"} -> {}
      [] p = "settings" -> SettingsOffer(granted, global)
      [] p = "price-catalog" -> CatalogOffer(granted, global)
      [] OTHER ->
            Forms(p, granted, global)
            \cup CASE p = "users" -> UsersOffer(granted, global)
                   [] p = "price-lists" -> PriceListsOffer(granted, global)
                   [] p = "roles" -> RolesOffer(granted, global)
                   [] p = "prices" -> PricesOffer(granted, global)
                   [] p = "api-keys" -> ApiKeysOffer
                   [] OTHER -> {}
=============================================================================
