------------------------------- MODULE Pages -------------------------------
(***************************************************************************)
(* One person going through the pages: what each page redirects to         *)
(* (src/shared/http/page-auth.ts, role-routing.ts, the layouts and pages of *)
(* src/app), by whether he is logged in, his role, and the state of the    *)
(* driver or supplier profile behind his account.  A page is served in one *)
(* step; between two redirects the session may end and an operator or      *)
(* dispatch may change the profile.                                        *)
(***************************************************************************)
EXTENDS Naturals, Permissions

CONSTANT MaxHops  \* bound: redirects in a row

VARIABLES visitor,   \* the role of his account
          profile,   \* the status of the driver or supplier row, "none" without one
          loggedIn,
          page,      \* the address in his browser
          hops,      \* redirects since he asked for a page himself
          entering   \* he has logged in, and asked for nothing since

pageVars == <<visitor, profile, loggedIn, page, hops, entering>>

Addresses == {"/", "/login", "/dashboard", "/supplier", "/missions", "/onboarding/pending", "/account"}

Approved == [SUPPLIER |-> {"ACTIVE"}, DRIVER |-> {"OFFLINE", "AVAILABLE", "BUSY"}]

\* A profile is absent when registering broke off between the account and the profile.
ProfilesOf(role) ==
  IF role \in DOMAIN Approved THEN {"none", "PENDING_APPROVAL", "REJECTED"} \cup Approved[role]
  ELSE {"none"}

ASSUME PagesAssumption == MaxHops \in Nat

PagesTypeOK ==
  /\ visitor \in Roles
  /\ profile \in ProfilesOf(visitor)
  /\ loggedIn \in BOOLEAN /\ entering \in BOOLEAN
  /\ page \in Addresses
  /\ hops \in 0 .. MaxHops

PagesInit ==
  /\ visitor \in Roles
  /\ profile \in ProfilesOf(visitor)
  /\ loggedIn = FALSE
  /\ page = "/login"
  /\ hops = 0
  /\ entering = FALSE

-----------------------------------------------------------------------------
(* What an address is answered with: itself, or a redirect *)

getHomePathForRole(role) ==
  CASE role \in {"SUPER_ADMIN", "LOGISTICS_MANAGER", "FINANCE_MANAGER"} -> "/dashboard"
    [] role = "DRIVER" -> "/missions"
    [] role = "SUPPLIER" -> "/supplier"
    [] OTHER -> "/login"

\* `answer` for the logged-in user of one of the roles.
requirePageUser(allowedRoles, answer) ==
  CASE ~loggedIn -> "/login"
    [] loggedIn /\ visitor \notin allowedRoles -> "/"
    [] OTHER -> answer

RootPage == IF loggedIn THEN getHomePathForRole(visitor) ELSE "/login"

DashboardLayout == requirePageUser(Staff, "/dashboard")

SupplierLayout ==
  requirePageUser({"SUPPLIER"}, IF profile = "ACTIVE" THEN "/supplier" ELSE "/onboarding/pending")

\* Faulty variant: a driver who is off duty is taken for one who is not approved.
DriverLayoutOnDuty ==
  requirePageUser({"DRIVER"}, CASE profile = "none" -> "/login"
                                [] profile \in {"AVAILABLE", "BUSY"} -> "/missions"
                                [] OTHER -> "/onboarding/pending")

DriverLayout ==
  requirePageUser({"DRIVER"}, CASE profile = "none" -> "/login"
                                [] profile \in {"PENDING_APPROVAL", "REJECTED"} -> "/onboarding/pending"
                                [] OTHER -> "/missions")

OnboardingPendingPage ==
  requirePageUser(DOMAIN Approved,
    IF profile \in {"none"} \cup Approved[visitor] THEN getHomePathForRole(visitor)
    ELSE "/onboarding/pending")

AccountPage == requirePageUser(Roles, "/account")

AnsweredWith ==
  CASE page = "/" -> RootPage
    [] page = "/dashboard" -> DashboardLayout
    [] page = "/supplier" -> SupplierLayout
    [] page = "/missions" -> DriverLayout
    [] page = "/onboarding/pending" -> OnboardingPendingPage
    [] page = "/account" -> AccountPage
    [] page = "/login" -> "/login"

Rendered == AnsweredWith = page

-----------------------------------------------------------------------------

Redirect ==
  /\ ~Rendered /\ hops < MaxHops
  /\ page' = AnsweredWith
  /\ hops' = hops + 1
  /\ UNCHANGED <<visitor, profile, loggedIn, entering>>

\* A link, the address bar, a page loaded again.
Visit ==
  /\ page' \in Addresses
  /\ hops' = 0 /\ entering' = FALSE
  /\ UNCHANGED <<visitor, profile, loggedIn>>

LogIn ==
  /\ page = "/login" /\ hops = 0
  /\ loggedIn' = TRUE
  /\ page' = "/" /\ hops' = 0 /\ entering' = TRUE
  /\ UNCHANGED <<visitor, profile>>

\* The button is on the pages of the three spaces.
LogOut ==
  /\ Rendered /\ page \in {"/dashboard", "/supplier", "/missions"}
  /\ loggedIn' = FALSE
  /\ page' = "/login" /\ hops' = 0 /\ entering' = FALSE
  /\ UNCHANGED <<visitor, profile>>

\* Expiry, or a change of password on another device.
SessionEnds ==
  /\ loggedIn
  /\ loggedIn' = FALSE /\ entering' = FALSE
  /\ UNCHANGED <<visitor, profile, page, hops>>

\* An operator's decision, the driver's switch, dispatch.
ProfileChanges ==
  /\ \/ /\ profile = "PENDING_APPROVAL"
        /\ profile' \in {"REJECTED", IF visitor = "DRIVER" THEN "OFFLINE" ELSE "ACTIVE"}
     \/ /\ visitor = "DRIVER" /\ profile \in Approved["DRIVER"]
        /\ profile' \in Approved["DRIVER"]
  /\ UNCHANGED <<visitor, loggedIn, page, hops, entering>>

PagesNext == Redirect \/ Visit \/ LogIn \/ LogOut \/ SessionEnds \/ ProfileChanges

PagesSpec == PagesInit /\ [][PagesNext]_pageVars

\* Roles without a space of their own.
Homeless == {"SUPPORT_AGENT", "CUSTOMER"}

(***************************************************************************)
(* page-auth.ts:18-22 keeps redirects from going round in circles.  Even if *)
(* the profile is decided and the session ends in between, no page is more *)
(* than five redirects away, except for a supplier without a profile; and  *)
(* whoever logs in ends on a page of his own and not on the login page,    *)
(* unless his role has none or he is a driver without a profile.           *)
(***************************************************************************)
RedirectsLeadHome ==
  /\ hops <= 5 \/ (visitor = "SUPPLIER" /\ profile = "none")
  /\ entering /\ Rendered /\ page = "/login" =>
       visitor \in Homeless \/ (visitor = "DRIVER" /\ profile = "none")
=============================================================================
