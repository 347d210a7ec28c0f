----------------------------- MODULE BackOffice -----------------------------
(***************************************************************************)
(* The services beside dispatch and payments, in one specification.  They  *)
(* share no state, so a behaviour of all of them together is one of each:  *)
(* `office` is the one that moves, and every choice of it is explored.     *)
(*                                                                         *)
(* Some promises only hold until one request overtakes another; that it    *)
(* did is remembered.                                                      *)
(***************************************************************************)
EXTENDS Settlements, Referrals, Documents, Onboarding, Exceptions, Tickets, Access, Webhooks,
        Missions, RateLimiter, Console, Pages

VARIABLES office,    \* the service that moves
          overtaken  \* a request wrote what it had worked out from a row changed since

officeVars == <<settlementVars, referralVars, documentVars, onboardingVars, exceptionVars,
                ticketVars, accessVars, webhookVars, missionVars, vars, consoleVars, pageVars,
                office, overtaken>>

Offices == {"settlements", "referrals", "documents", "onboarding", "exceptions", "tickets",
            "access", "webhooks", "missions", "limiter", "console", "pages"}

BackOfficeInit ==
  /\ SettlementInit /\ ReferralInit /\ DocumentInit /\ OnboardingInit /\ ExceptionInit
  /\ TicketInit /\ AccessInit /\ WebhookInit /\ MissionInit /\ Init
  /\ ConsoleInit /\ PagesInit
  /\ office \in Offices
  /\ office # "console" => thing = "order"
  /\ office # "pages" => visitor = "SUPER_ADMIN"
  /\ overtaken = FALSE

Still(c, variables) == IF office = c THEN TRUE ELSE UNCHANGED variables

\* Only c moves.
Only(c) ==
  /\ office = c
  /\ Still("settlements", settlementVars) /\ Still("referrals", referralVars)
  /\ Still("documents", documentVars) /\ Still("onboarding", onboardingVars)
  /\ Still("exceptions", exceptionVars) /\ Still("tickets", ticketVars)
  /\ Still("access", accessVars) /\ Still("webhooks", webhookVars)
  /\ Still("missions", missionVars) /\ Still("limiter", vars)
  /\ Still("console", consoleVars) /\ Still("pages", pageVars)
  /\ UNCHANGED office

\* A message or an assignment is written over a status changed since it was read, or a
\* ticket closed over a message that was not on the page.
TicketMoves ==
  \E t \in Tasks :
    \/ /\ Turn(t) \/ ReadTicket(t) \/ AgentFails(t)
       /\ UNCHANGED overtaken
    \/ /\ AddMessage(t) \/ AssignTicket(t) \/ UpdateTicketStatus(t)
       /\ overtaken' = (overtaken \/ Overtaken(t))

\* A session is opened, a secret stored or enabled for a user changed since; or a change
\* of password dies before it has revoked the sessions.
AccessMoves ==
  \/ \E s \in DOMAIN sessions : Logout(s) /\ UNCHANGED overtaken
  \/ \E t \in Tasks :
       \/ /\ \/ BeginLogin(t)
             \/ (\E s \in DOMAIN sessions : BeginChange(t, s)) \/ ChangePassword(t) \/ RevokeSessions(t)
             \/ BeginSetup(t) \/ BeginConfirm(t)
             \/ BeginDisable(t) \/ DisableMfa(t)
          /\ UNCHANGED overtaken
       \/ /\ OpenSession(t) \/ StoreSecret(t) \/ EnableMfa(t)
          /\ overtaken' = (overtaken \/ ReadStale(t))
       \/ /\ CallerFails(t)
          /\ overtaken' = (overtaken \/ caller[t].pc = "revoke")

\* A webhook is stored with the secret of a row changed since.
WebhookMoves ==
  \/ DisableWebhook /\ UNCHANGED overtaken
  \/ \E t \in Tasks :
       \/ /\ \/ BeginSetWebhook(t)
             \/ \E e \in Events : RaiseEvent(t, e)
             \/ \E i \in DOMAIN rows : RetryDelivery(t, i)
             \/ AttemptDelivery(t) \/ RecordDelivery(t) \/ CourierFails(t)
          /\ UNCHANGED overtaken
       \/ /\ StoreWebhook(t)
          /\ overtaken' = (overtaken \/ SecretOvertaken(t))

\* A button is pressed on an outdated screen or beside another request, or a request dies.
MissionMoves ==
  \/ RefreshScreen /\ UNCHANGED overtaken
  \/ \E t \in Tasks :
       \/ /\ \/ \E to \in MissionStatus : PressStatus(t, to)
             \/ \E result \in Outcomes : PressResult(t, result)
             \/ PressCancel(t)
          /\ overtaken' = (overtaken \/ screen # orderStatus \/ \E u \in Tasks : press[u] # Idle)
       \/ /\ \/ CountAttempts(t) \/ StoreAttempt(t) \/ StoreProof(t)
             \/ CheckTransition(t) \/ CommitTransition(t) \/ StampPickup(t)
          /\ UNCHANGED overtaken
       \/ PressFails(t) /\ overtaken' = TRUE

BackOfficeNext ==
  \/ office = "settlements" /\ SettlementNext /\ Only("settlements") /\ UNCHANGED overtaken
  \/ office = "referrals" /\ ReferralNext /\ Only("referrals") /\ UNCHANGED overtaken
  \/ office = "documents" /\ DocumentNext /\ Only("documents") /\ UNCHANGED overtaken
  \/ office = "onboarding" /\ OnboardingNext /\ Only("onboarding") /\ UNCHANGED overtaken
  \/ office = "exceptions" /\ ExceptionNext /\ Only("exceptions") /\ UNCHANGED overtaken
  \/ office = "tickets" /\ TicketMoves /\ Only("tickets")
  \/ office = "access" /\ AccessMoves /\ Only("access")
  \/ office = "webhooks" /\ WebhookMoves /\ Only("webhooks")
  \/ office = "missions" /\ MissionMoves /\ Only("missions")
  \/ office = "limiter" /\ Next /\ Only("limiter") /\ UNCHANGED overtaken
  \/ office = "console" /\ ConsoleNext /\ Only("console") /\ UNCHANGED overtaken
  \/ office = "pages" /\ PagesNext /\ Only("pages") /\ UNCHANGED overtaken

BackOfficeSpec == BackOfficeInit /\ [][BackOfficeNext]_officeVars

-----------------------------------------------------------------------------
(* Properties *)

(***************************************************************************)
(* What a service writes after it has looked for an earlier row is written *)
(* at most once per request that ran at once: an order's payout, a         *)
(* driver's bonus, the open exception of a condition, the number of an     *)
(* attempt.  No later request adds to them, whatever dies in between.      *)
(***************************************************************************)
OncePerRequest == PayoutsPerRequest /\ BonusesPerRequest /\ OpenPerRequest /\ AttemptsPerRequest

(***************************************************************************)
(* What only a request overtaken at its work, or made on an outdated page, *)
(* breaks: a ticket is closed by somebody whose page showed its messages   *)
(* (MessagesAreHeard, support.service.ts:76-79, which would fail if one    *)
(* written later did not open the ticket again); no session is of an old   *)
(* password, no second factor is one the user cannot give, no signing      *)
(* secret another than the supplier was told (SessionsFollowPassword,      *)
(* MfaIsUsable, SecretIsKept); and no delivery is stamped deliveredAt      *)
(* whose order is not DELIVERED (StampedIsDelivered,                       *)
(* deliveries.service.ts:205-215).                                         *)
(***************************************************************************)
KeptUnlessOvertaken ==
  overtaken \/ ( /\ MessagesAreHeard
                 /\ SessionsFollowPassword /\ MfaIsUsable /\ SecretIsKept
                 /\ StampedIsDelivered )
=============================================================================
