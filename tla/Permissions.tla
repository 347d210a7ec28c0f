---------------------------- MODULE Permissions ----------------------------
(***************************************************************************)
(* The roles and what each may do                                          *)
(* (src/shared/constants/permissions.ts), by name of permission.  Pure     *)
(* data, and the checks that read it.                                      *)
(***************************************************************************)

Roles == {"SUPER_ADMIN", "LOGISTICS_MANAGER", "FINANCE_MANAGER", "SUPPORT_AGENT",
          "SUPPLIER", "DRIVER", "CUSTOMER"}

Staff == {"SUPER_ADMIN", "LOGISTICS_MANAGER", "FINANCE_MANAGER", "SUPPORT_AGENT"}

Permission ==
  {"USERS_MANAGE", "SETTINGS_MANAGE", "AUDIT_VIEW", "SUPPLIERS_MANAGE", "SUPPLIERS_VIEW_OWN",
   "PRODUCTS_MANAGE_OWN", "ORDERS_CREATE", "ORDERS_VIEW_ALL", "ORDERS_VIEW_OWN",
   "ORDERS_UPDATE_STATUS", "ORDERS_CANCEL", "DISPATCH_MANAGE", "DRIVERS_MANAGE",
   "DRIVERS_VIEW_OWN", "DELIVERIES_UPDATE_STATUS", "PAYMENTS_MANAGE", "COMMISSIONS_MANAGE",
   "SETTLEMENTS_MANAGE", "FINANCE_VIEW_OWN", "SUPPORT_MANAGE", "TRACKING_VIEW_OWN",
   "ANALYTICS_VIEW", "EXCEPTIONS_MANAGE", "PROMOTIONS_MANAGE"}

ROLE_PERMISSIONS ==
  [SUPER_ADMIN       |-> Permission,
   LOGISTICS_MANAGER |-> {"ORDERS_VIEW_ALL", "ORDERS_UPDATE_STATUS", "DISPATCH_MANAGE",
                          "DRIVERS_MANAGE", "SUPPLIERS_MANAGE", "DELIVERIES_UPDATE_STATUS",
                          "AUDIT_VIEW", "ANALYTICS_VIEW", "EXCEPTIONS_MANAGE",
                          "PROMOTIONS_MANAGE"},
   FINANCE_MANAGER   |-> {"PAYMENTS_MANAGE", "COMMISSIONS_MANAGE", "SETTLEMENTS_MANAGE",
                          "ORDERS_VIEW_ALL", "AUDIT_VIEW", "ANALYTICS_VIEW"},
   SUPPORT_AGENT     |-> {"SUPPORT_MANAGE", "ORDERS_VIEW_ALL"},
   SUPPLIER          |-> {"SUPPLIERS_VIEW_OWN", "PRODUCTS_MANAGE_OWN", "ORDERS_CREATE",
                          "ORDERS_VIEW_OWN", "ORDERS_CANCEL", "FINANCE_VIEW_OWN"},
   DRIVER            |-> {"DRIVERS_VIEW_OWN", "DELIVERIES_UPDATE_STATUS"},
   CUSTOMER          |-> {"TRACKING_VIEW_OWN"}]

hasPermission(role, permission) == permission \in ROLE_PERMISSIONS[role]

\* requireAnyPermission: one of the permissions is enough.
hasAnyPermission(role, permissions) == \E p \in permissions : hasPermission(role, p)
=============================================================================
