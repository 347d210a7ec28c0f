------------------------------ MODULE Console ------------------------------
(***************************************************************************)
(* The screens in front of the services: which buttons each page shows     *)
(* (src/components), who may press them (the permissions and the ownership *)
(* checks of the routes, src/app/api/v1), and from which statuses the      *)
(* service behind accepts them.  A page shows the status of the moment it  *)
(* was drawn; it is drawn again when a request of its own succeeds, or when *)
(* its user loads it again.                                                *)
(*                                                                         *)
(* A behaviour is about one thing: the rows of different tables are moved  *)
(* by buttons of their own, and what a route refuses because of another    *)
(* row (a driver no longer free) is in the module of its service.  Here a  *)
(* request is one step; the awaits inside it are in those modules too.     *)
(***************************************************************************)
EXTENDS Naturals, FiniteSets, Permissions, MissionScreen

CONSTANTS People, roleOf,
          Things, sortOf,  \* what may be on the screens, and what sort of thing it is
          ownersOf,        \* thing -> the supplier, driver or customer it belongs to
          MaxOpen          \* bound: screens open at once

VARIABLES thing,        \* the one on the screens
          thingStatus,
          seat,         \* person -> the status his screen shows
          refusal       \* the answer to the request just made, if it was refused

consoleVars == <<thing, thingStatus, seat, refusal>>

NoPage == "NO PAGE"

NoRefusal == [why |-> "none"]

-----------------------------------------------------------------------------
(* Routes: the permissions of which one is enough, the roles that must own   *)
(* the thing besides (bound) or for whom owning it is enough (own), and what  *)
(* an accepted request makes of each status it is accepted in.                *)

Route(needs, moves) == [needs |-> needs, bound |-> {}, own |-> {}, moves |-> moves]

BoundTo(role, route) == [route EXCEPT !.bound = {role}]

OpenTo(roles, route) == [route EXCEPT !.own = roles]

Anyone == Permission  \* public routes, and those any session may call

Turning(from, to) == [s \in from |-> to]
Keeping(from) == [s \in from |-> s]
Creating(to) == Turning({"NONE"}, to)
Transition(to) == Turning({s \in OrderStatus : canTransition(s, to)}, to)

\* Orders and deliveries
UpdateOrderStatus(to) ==
  BoundTo("SUPPLIER",
    Route(IF to = "CANCELLED" THEN {"ORDERS_UPDATE_STATUS", "ORDERS_CANCEL"}
          ELSE {"ORDERS_UPDATE_STATUS"}, Transition(to)))
AssignDriver == Route({"DISPATCH_MANAGE"}, Transition("ASSIGNED"))
OfferOrder == Route({"DISPATCH_MANAGE"}, Keeping({"READY_FOR_PICKUP"}))
OnDelivery(moves) == BoundTo("DRIVER", Route({"DELIVERIES_UPDATE_STATUS"}, moves))
AdvanceDelivery(to) == OnDelivery(Transition(to))
RecordAttempt(result) == OnDelivery(Transition(ATTEMPT_RESULT_TO_ORDER_STATUS[result]))
ResolveFailedDelivery(to) == OnDelivery(Transition(to))
TriggerSos == OnDelivery(Keeping(OrderStatus))
SendDriverMessage == OnDelivery(Keeping(OrderStatus))
WithDriver == OrderStatus \ {"PENDING", "CONFIRMED", "READY_FOR_PICKUP"}
SendCustomerMessage == Route(Anyone, Keeping(WithDriver))

\* Offers: a MOOT offer waits for an order that another driver has.
AcceptOffer == BoundTo("DRIVER", Route({"DELIVERIES_UPDATE_STATUS", "DISPATCH_MANAGE"},
                                       Turning({"PENDING"}, "ACCEPTED")))
RejectOffer == BoundTo("DRIVER", Route({"DELIVERIES_UPDATE_STATUS", "DISPATCH_MANAGE"},
                                       Turning({"PENDING", "MOOT"}, "REJECTED")))

\* Money
OnSettlements(moves) == Route({"SETTLEMENTS_MANAGE"}, moves)
PostSettlement == OnSettlements(Creating("DRAFT"))
SubmitSettlement == OnSettlements(Turning({"DRAFT", "DISPUTED"}, "PENDING_PAYMENT"))
ConfirmPaid == OnSettlements(Turning({"PENDING_PAYMENT"}, "PAID"))
DisputeSettlement == OnSettlements(Turning({"DRAFT", "PENDING_PAYMENT"}, "DISPUTED"))
PostPromoCode == Route({"PROMOTIONS_MANAGE"}, Creating("ACTIVE"))
PatchPromoCode(to) == Route({"PROMOTIONS_MANAGE"}, Turning({"ACTIVE", "INACTIVE"}, to))

\* Exceptions, applications, documents
AcknowledgeRoute == Route({"EXCEPTIONS_MANAGE"}, Turning({"OPEN"}, "ACKNOWLEDGED"))
ResolveRoute == Route({"EXCEPTIONS_MANAGE"}, Turning({"OPEN", "ACKNOWLEDGED"}, "RESOLVED"))
ApproveSupplierRoute == Route({"SUPPLIERS_MANAGE"}, Turning({"PENDING_APPROVAL"}, "ACTIVE"))
RejectSupplierRoute == Route({"SUPPLIERS_MANAGE"}, Turning({"PENDING_APPROVAL"}, "REJECTED"))
ApproveDriverRoute == Route({"DRIVERS_MANAGE"}, Turning({"PENDING_APPROVAL"}, "OFFLINE"))
RejectDriverRoute == Route({"DRIVERS_MANAGE"}, Turning({"PENDING_APPROVAL"}, "REJECTED"))
PatchAvailability(to) ==
  OpenTo({"DRIVER"}, Route({"DRIVERS_MANAGE"}, Turning({"OFFLINE", "AVAILABLE", "REJECTED"}, to)))
ManageOf(owner) == IF owner = "DRIVER" THEN {"DRIVERS_MANAGE"} ELSE {"SUPPLIERS_MANAGE"}
PostDocument(owner) == OpenTo({owner}, Route(ManageOf(owner), Creating("UPLOADED")))
VerifyRoute(owner) ==
  Route(ManageOf(owner), Turning({"UPLOADED", "REJECTED"}, "VERIFIED"))
RejectRoute(owner) ==
  Route(ManageOf(owner), Turning({"UPLOADED", "VERIFIED"}, "REJECTED"))

\* Support tickets
TicketStates == {"OPEN", "IN_PROGRESS", "RESOLVED", "CLOSED"}
PostTicket == Route(Anyone, Creating("OPEN"))
PostTicketMessage ==
  OpenTo(Roles, Route({"SUPPORT_MANAGE"},
    [s \in TicketStates |-> IF s \in {"RESOLVED", "CLOSED"} THEN "OPEN" ELSE s]))
PatchTicketStatus(to) == Route({"SUPPORT_MANAGE"}, Turning(TicketStates, to))
PatchTicketAgent ==
  Route({"SUPPORT_MANAGE"}, [s \in TicketStates |-> IF s = "OPEN" THEN "IN_PROGRESS" ELSE s])

\* Catalogue, webhooks, zones, reviews
PostProduct == Route({"PRODUCTS_MANAGE_OWN"}, Creating("ACTIVE"))
PatchProduct(to) ==
  BoundTo("SUPPLIER", Route({"PRODUCTS_MANAGE_OWN"}, Turning({"ACTIVE", "INACTIVE"}, to)))
PutWebhook(to) == OpenTo({"SUPPLIER"}, Route({"SUPPLIERS_MANAGE"}, Turning({"ON", "OFF"}, to)))
RetryWebhook == OpenTo({"SUPPLIER"}, Route({"SUPPLIERS_MANAGE"}, Keeping({"ON"})))
PostZone == Route({"DRIVERS_MANAGE"}, Turning({"ON", "OFF"}, "ON"))
DeleteZone == Route({"DRIVERS_MANAGE"}, Turning({"ON", "OFF"}, "OFF"))
PostReview == Route(Anyone, Creating("GIVEN"))

-----------------------------------------------------------------------------
(* Buttons: the statuses a component shows one at, and the route it calls.    *)

Button(shown, route) == [shown |-> shown, route |-> route]

OrderActions ==
  {Button({"PENDING"}, UpdateOrderStatus("CONFIRMED")),
   Button({"CONFIRMED"}, UpdateOrderStatus("READY_FOR_PICKUP")),
   Button({"PENDING", "CONFIRMED"}, UpdateOrderStatus("CANCELLED"))}
DispatchPanel == {Button({"READY_FOR_PICKUP"}, route) : route \in {AssignDriver, OfferOrder}}

\* Faulty variant: the supplier is offered the button until a driver leaves.
CancelOrderButtonAlways ==
  {Button(OrderStatus \ TERMINAL_STATUSES, UpdateOrderStatus("CANCELLED"))}

CancelOrderButton == {Button({"PENDING", "CONFIRMED"}, UpdateOrderStatus("CANCELLED"))}

ScreenOf(to) == {s \in OrderStatus : to \in StatusButtons(s)}

MissionActions ==
  {Button(ScreenOf(to), AdvanceDelivery(to)) : to \in {"PICKED_UP", "IN_TRANSIT", "OUT_FOR_DELIVERY"}}
  \cup {Button(ScreenOf(to), ResolveFailedDelivery(to)) : to \in {"RESCHEDULED", "RETURNED"}}
  \cup {Button({s \in OrderStatus : result \in ResultButtons(s)}, RecordAttempt(result)) :
          result \in Results}

OpenMissions == WithDriver \ TERMINAL_STATUSES  \* not CLOSED_CHAT_STATUSES, and a driver
SosButton == {Button(OpenMissions, TriggerSos)}
OrderChatPanel(send) == {Button(OpenMissions, send)}
PendingOffers == {Button({"PENDING", "MOOT"}, route) : route \in {AcceptOffer, RejectOffer}}

GenerateSettlementForm == {Button({"NONE"}, PostSettlement)}
SettlementActions ==
  {Button({"DRAFT"}, SubmitSettlement),
   Button({"PENDING_PAYMENT"}, ConfirmPaid),
   Button({"DRAFT", "PENDING_PAYMENT"}, DisputeSettlement)}

PromoCodeForm == {Button({"NONE"}, PostPromoCode)}
PromoCodeToggle ==
  {Button({"ACTIVE"}, PatchPromoCode("INACTIVE")), Button({"INACTIVE"}, PatchPromoCode("ACTIVE"))}
ProductForm == {Button({"NONE"}, PostProduct)}
ToggleProductActive ==
  {Button({"ACTIVE"}, PatchProduct("INACTIVE")), Button({"INACTIVE"}, PatchProduct("ACTIVE"))}

\* Faulty variant: what somebody has taken charge of can no longer be resolved.
ExceptionActionsOpenOnly ==
  {Button({"OPEN"}, route) : route \in {AcknowledgeRoute, ResolveRoute}}

ExceptionActions ==
  {Button({"OPEN"}, AcknowledgeRoute), Button({"OPEN", "ACKNOWLEDGED"}, ResolveRoute)}

OnboardingActions(approve, reject) ==
  {Button({"PENDING_APPROVAL"}, route) : route \in {approve, reject}}
AvailabilityToggle ==
  {Button({"OFFLINE"}, PatchAvailability("AVAILABLE")),
   Button({"AVAILABLE"}, PatchAvailability("OFFLINE"))}

DocumentUploadForm(owner) == {Button({"NONE"}, PostDocument(owner))}
DocumentReviewActions(owner) ==
  {Button({"UPLOADED"}, route) : route \in {VerifyRoute(owner), RejectRoute(owner)}}

NewTicketForm == {Button({"NONE"}, PostTicket)}
TicketThread == {Button(TicketStates, PostTicketMessage)}
TicketAdminControls ==
  {Button(TicketStates, route) :
     route \in {PatchTicketAgent} \cup {PatchTicketStatus(to) : to \in TicketStates}}

WebhookSettingsForm ==
  {Button({"ON", "OFF"}, PutWebhook("ON")),
   Button({"ON"}, PutWebhook("OFF")),
   Button({"ON", "OFF"}, RetryWebhook)}
DriverZoneAssignment == {Button({"OFF"}, PostZone), Button({"ON"}, DeleteZone)}
DeliveryReviewForm == {Button({"NONE"}, PostReview)}

-----------------------------------------------------------------------------
(* Pages: the roles they are drawn for, and the components on them.  Those of *)
(* the dashboard are drawn for all of the staff.                             *)

Page(for, buttons) == {[page |-> for, shown |-> b.shown, route |-> b.route] : b \in buttons}

\* The candidates of the panel are read with the permission of its buttons, so that only
\* those who have it see them.
OrderDetailPage ==
  Page(Staff, OrderActions)
    \cup Page({role \in Staff : hasPermission(role, "DISPATCH_MANAGE")}, DispatchPanel)
SupplierOrderDetailPage == Page({"SUPPLIER"}, CancelOrderButton)
MissionDetailPage ==
  Page({"DRIVER"}, MissionActions \cup SosButton \cup OrderChatPanel(SendDriverMessage))
TrackingPage == Page({"CUSTOMER"}, OrderChatPanel(SendCustomerMessage))
ReviewedPage == Page({"CUSTOMER"}, DeliveryReviewForm)
MissionsPage == Page({"DRIVER"}, PendingOffers)
SettlementsPage == Page(Staff, GenerateSettlementForm \cup SettlementActions)
PromotionsPage == Page(Staff, PromoCodeForm \cup PromoCodeToggle)
SupplierProductsPage == Page({"SUPPLIER"}, ProductForm \cup ToggleProductActive)
ControlTowerPage == Page(Staff, ExceptionActions)
OnboardingPage(approve, reject) == Page(Staff, OnboardingActions(approve, reject))
DriverSpace == Page({"DRIVER"}, AvailabilityToggle)
OwnDocumentsPage(owner) == Page({owner}, DocumentUploadForm(owner))
DocumentsPage(owner) == Page(Staff, DocumentReviewActions(owner))
OwnSupportPage == Page({"SUPPLIER", "DRIVER"}, NewTicketForm)
OwnTicketPage == Page({"SUPPLIER", "DRIVER"}, TicketThread)
AdminTicketPage == Page(Staff, TicketAdminControls \cup TicketThread)
SupplierWebhooksPage == Page({"SUPPLIER"}, WebhookSettingsForm)
DriverDetailPage == Page(Staff, DriverZoneAssignment)

Buttons ==
  [order |-> OrderDetailPage \cup SupplierOrderDetailPage \cup MissionDetailPage \cup TrackingPage,
   offer |-> MissionsPage,
   settlement |-> SettlementsPage,
   promo |-> PromotionsPage,
   product |-> SupplierProductsPage,
   exception |-> ControlTowerPage,
   supplier |-> OnboardingPage(ApproveSupplierRoute, RejectSupplierRoute),
   driver |-> OnboardingPage(ApproveDriverRoute, RejectDriverRoute) \cup DriverSpace,
   driverDocument |-> OwnDocumentsPage("DRIVER") \cup DocumentsPage("DRIVER"),
   supplierDocument |-> OwnDocumentsPage("SUPPLIER") \cup DocumentsPage("SUPPLIER"),
   ticket |-> OwnSupportPage \cup OwnTicketPage \cup AdminTicketPage,
   webhook |-> SupplierWebhooksPage,
   zone |-> DriverDetailPage,
   review |-> ReviewedPage]

Sorts == DOMAIN Buttons

\* What moves a thing without a button of these pages: the acceptance of an offer, dispatch,
\* time, the sweep for exceptions.
Elsewhere ==
  {<<"order", "READY_FOR_PICKUP", "ASSIGNED">>,
   <<"offer", "NONE", "PENDING">>, <<"offer", "PENDING", "MOOT">>,
   <<"offer", "PENDING", "EXPIRED">>, <<"offer", "MOOT", "EXPIRED">>,
   <<"driver", "AVAILABLE", "BUSY">>, <<"driver", "BUSY", "AVAILABLE">>,
   <<"exception", "NONE", "OPEN">>, <<"exception", "OPEN", "RESOLVED">>,
   <<"exception", "ACKNOWLEDGED", "RESOLVED">>}

FirstStatus(sort) ==
  CASE sort = "order" -> "PENDING"
    [] sort \in {"supplier", "driver"} -> "PENDING_APPROVAL"
    [] sort \in {"webhook", "zone"} -> "OFF"
    [] OTHER -> "NONE"

ThingStatuses ==
  OrderStatus \cup TicketStates
    \cup {"NONE", "PENDING", "MOOT", "ACCEPTED", "REJECTED", "EXPIRED", "DRAFT", "PENDING_PAYMENT",
          "PAID", "DISPUTED", "ACTIVE", "INACTIVE", "ACKNOWLEDGED", "PENDING_APPROVAL", "OFFLINE",
          "AVAILABLE", "BUSY", "UPLOADED", "VERIFIED", "ON", "OFF", "GIVEN"}

ASSUME ConsoleAssumption ==
  /\ IsFiniteSet(People) /\ roleOf \in [People -> Roles]
  /\ sortOf \in [Things -> Sorts] /\ ownersOf \in [Things -> SUBSET People]
  /\ MaxOpen \in Nat

ConsoleTypeOK ==
  /\ thing \in Things
  /\ thingStatus \in ThingStatuses
  /\ seat \in [People -> ThingStatuses \cup {NoPage}]
  /\ refusal \in {NoRefusal} \cup [why : {"forbidden", "refused"}, to : People]

ConsoleInit ==
  /\ thing \in Things
  /\ thingStatus = FirstStatus(sortOf[thing])
  /\ seat = [p \in People |-> NoPage]
  /\ refusal = NoRefusal

-----------------------------------------------------------------------------

Screens == {p \in People : seat[p] # NoPage}

\* A page of the supplier, driver or customer spaces only shows what belongs to its user.
MayOpen(p) ==
  /\ \E b \in Buttons[sortOf[thing]] : roleOf[p] \in b.page
  /\ roleOf[p] \in Staff \/ p \in ownersOf[thing]

\* The page is opened, or loaded again.
OpenPage(p) ==
  /\ MayOpen(p)
  /\ p \in Screens \/ Cardinality(Screens) < MaxOpen
  /\ seat' = [seat EXCEPT ![p] = thingStatus]
  /\ refusal' = NoRefusal
  /\ UNCHANGED <<thing, thingStatus>>

LeavePage(p) ==
  /\ p \in Screens
  /\ seat' = [seat EXCEPT ![p] = NoPage]
  /\ refusal' = NoRefusal
  /\ UNCHANGED <<thing, thingStatus>>

ShownTo(p) == {b \in Buttons[sortOf[thing]] : roleOf[p] \in b.page /\ seat[p] \in b.shown}

Granted(p, route) ==
  \/ /\ hasAnyPermission(roleOf[p], route.needs)
     /\ roleOf[p] \in route.bound => p \in ownersOf[thing]
  \/ roleOf[p] \in route.own /\ p \in ownersOf[thing]

\* An error is shown beside the button and the page stays as it is; only the list of offers
\* is read again.
Refused(p, why) ==
  /\ refusal' = [why |-> why, to |-> p]
  /\ seat' = IF sortOf[thing] = "offer" THEN [seat EXCEPT ![p] = thingStatus] ELSE seat
  /\ UNCHANGED <<thing, thingStatus>>

PressForbidden(p) ==
  /\ \E b \in ShownTo(p) : ~Granted(p, b.route)
  /\ Refused(p, "forbidden")

PressRefused(p) ==
  /\ \E b \in ShownTo(p) : Granted(p, b.route) /\ thingStatus \notin DOMAIN b.route.moves
  /\ Refused(p, "refused")

\* An offer, an SOS, a message of the chat and a webhook called again leave the page as it
\* is; what changes a status draws it again.
Redraws(route) == \E s \in DOMAIN route.moves : route.moves[s] # s

PressAccepted(p) ==
  \E b \in ShownTo(p) :
    /\ Granted(p, b.route) /\ thingStatus \in DOMAIN b.route.moves
    /\ thingStatus' = b.route.moves[thingStatus]
    /\ seat' = IF Redraws(b.route) THEN [seat EXCEPT ![p] = thingStatus'] ELSE seat
    /\ refusal' = NoRefusal
    /\ UNCHANGED thing

MovesElsewhere ==
  /\ \E m \in Elsewhere : m[1] = sortOf[thing] /\ m[2] = thingStatus /\ thingStatus' = m[3]
  /\ refusal' = NoRefusal
  /\ UNCHANGED <<thing, seat>>

ConsoleNext ==
  \/ MovesElsewhere
  \/ \E p \in People :
       OpenPage(p) \/ LeavePage(p) \/ PressForbidden(p) \/ PressRefused(p) \/ PressAccepted(p)

ConsoleSpec == ConsoleInit /\ [][ConsoleNext]_consoleVars

-----------------------------------------------------------------------------
(* Properties *)

\* The statuses at which a page shows a button the service always refuses: the driver's
\* "Reprogrammer" for a customer who refused, an offer whose order is gone, a retry of a
\* webhook that has been disabled.
RefusedAnyway == {<<"order", "CUSTOMER_REFUSED">>, <<"offer", "MOOT">>, <<"webhook", "OFF">>}

(***************************************************************************)
(* A page that shows the present status offers no button the service then  *)
(* refuses (RefusedAnyway apart): a refusal means that somebody else was   *)
(* faster.  And only the staff, whose pages are drawn for all of its roles,  *)
(* is shown buttons its permissions do not cover; a supplier, a driver or a *)
(* customer never is.                                                      *)
(***************************************************************************)
RefusedOnlyIfOvertaken ==
  [][\A p \in People :
       /\ refusal' = [why |-> "refused", to |-> p] =>
            seat[p] # thingStatus \/ <<sortOf[thing], thingStatus>> \in RefusedAnyway
       /\ refusal' = [why |-> "forbidden", to |-> p] => roleOf[p] \in Staff \ {"SUPER_ADMIN"}
    ]_consoleVars

\* The statuses at which a thing waits for somebody (a DISPUTED settlement, for which no
\* page has a button, is a finding).
Waiting ==
  [sort \in Sorts |->
    CASE sort = "order" -> OrderStatus \ TERMINAL_STATUSES
      [] sort = "offer" -> {"PENDING"}
      [] sort = "settlement" -> {"DRAFT", "PENDING_PAYMENT"}
      [] sort = "exception" -> {"OPEN", "ACKNOWLEDGED"}
      [] sort \in {"supplier", "driver"} -> {"PENDING_APPROVAL"}
      [] sort \in {"driverDocument", "supplierDocument"} -> {"UPLOADED"}
      [] sort = "ticket" -> {"OPEN", "IN_PROGRESS"}
      [] OTHER -> {}]

LeadsOn(b, p) ==
  /\ roleOf[p] \in b.page /\ thingStatus \in b.shown
  /\ Granted(p, b.route)
  /\ thingStatus \in DOMAIN b.route.moves /\ b.route.moves[thingStatus] # thingStatus

(***************************************************************************)
(* Nothing waits for a button nobody has: whatever has happened to it, a   *)
(* thing that waits for somebody is shown to a person who may open its page *)
(* with a button that moves it on and that he may press.                   *)
(***************************************************************************)
SomebodyLeadsOn ==
  thingStatus \in Waiting[sortOf[thing]] =>
    \E p \in People : MayOpen(p) /\ \E b \in Buttons[sortOf[thing]] : LeadsOn(b, p)
=============================================================================
