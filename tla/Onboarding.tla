----------------------------- MODULE Onboarding -----------------------------
(***************************************************************************)
(* How a partner gets to work: registration (register in auth.service.ts), *)
(* the decision of an operator (onboarding.service.ts) and the driver's    *)
(* own switch (setDriverAvailability in drivers.service.ts).  Registration *)
(* writes the user and the profile apart; every decision and switch reads  *)
(* the status before it writes.                                            *)
(***************************************************************************)
EXTENDS Sequences, Requests

CONSTANTS Applicants,     \* drivers and suppliers, each with a phone of his own
          DriverApplicants,
          MaxDecisions    \* bound: decisions on an applicant

ASSUME OnboardingAssumption == DriverApplicants \subseteq Applicants

VARIABLES accounts,   \* applicant -> User.status, "none" before
          profiles,   \* applicant -> Driver.status or Supplier.status, "none" before
          decisions,  \* applicant -> the AuditLog rows of the decisions on him, in order
          desk        \* task -> where the request stands

onboardingVars == <<accounts, profiles, decisions, desk>>

Verdicts == {"APPROVED", "REJECTED"}

ProfileStatus == {"none", "PENDING_APPROVAL", "ACTIVE", "REJECTED", "OFFLINE", "AVAILABLE"}

DeskCalls ==
  [pc : {"register.find", "register.user", "register.profile"}, who : Applicants]
  \cup [pc : {"decide.read", "decide.write"}, who : Applicants, verdict : Verdicts]
  \cup [pc : {"switch.read", "switch.write"}, who : DriverApplicants, to : {"AVAILABLE", "OFFLINE"}]

OnboardingTypeOK ==
  /\ accounts \in [Applicants -> {"none", "PENDING_VERIFICATION", "ACTIVE"}]
  /\ profiles \in [Applicants -> ProfileStatus]
  /\ decisions \in [Applicants -> Seq(Verdicts)]
  /\ desk \in [Tasks -> {Idle} \cup DeskCalls]

OnboardingInit ==
  /\ accounts = [a \in Applicants |-> "none"]
  /\ profiles = [a \in Applicants |-> "none"]
  /\ decisions = [a \in Applicants |-> <<>>]
  /\ desk = [t \in Tasks |-> Idle]

DeskAt(t, pc) == desk[t].pc = pc

-----------------------------------------------------------------------------
(* register *)

Register(t, a) ==
  /\ desk[t] = Idle
  /\ desk' = [desk EXCEPT ![t] = [pc |-> "register.find", who |-> a]]
  /\ UNCHANGED <<accounts, profiles, decisions>>

\* A phone in use is a 409.
FindUser(t) ==
  /\ DeskAt(t, "register.find")
  /\ desk' = IF accounts[desk[t].who] = "none" THEN Goto(desk, t, "register.user") ELSE Ends(desk, t)
  /\ UNCHANGED <<accounts, profiles, decisions>>

\* User.phone is unique: of two registrations that found none, one fails.
CreateUser(t) ==
  /\ DeskAt(t, "register.user")
  /\ IF accounts[desk[t].who] = "none"
     THEN /\ accounts' = [accounts EXCEPT ![desk[t].who] = "PENDING_VERIFICATION"]
          /\ desk' = Goto(desk, t, "register.profile")
     ELSE desk' = Ends(desk, t) /\ UNCHANGED accounts
  /\ UNCHANGED <<profiles, decisions>>

CreateProfile(t) ==
  /\ DeskAt(t, "register.profile")
  /\ profiles' = [profiles EXCEPT ![desk[t].who] = "PENDING_APPROVAL"]
  /\ desk' = Ends(desk, t)
  /\ UNCHANGED <<accounts, decisions>>

-----------------------------------------------------------------------------
(* approveSupplier, rejectSupplier, approveDriver, rejectDriver *)

Consider(t, a) ==
  /\ desk[t] = Idle /\ profiles[a] # "none"
  /\ \E v \in Verdicts :
       desk' = [desk EXCEPT ![t] = [pc |-> "decide.read", who |-> a, verdict |-> v]]
  /\ UNCHANGED <<accounts, profiles, decisions>>

\* Faulty variant: a decision that was taken may be taken again.
IsPendingAlways(a) == TRUE

IsPending(a) == profiles[a] = "PENDING_APPROVAL"

ReadApplicant(t) ==
  /\ DeskAt(t, "decide.read")
  /\ desk' = IF IsPending(desk[t].who) THEN Goto(desk, t, "decide.write") ELSE Ends(desk, t)
  /\ UNCHANGED <<accounts, profiles, decisions>>

\* An approved driver starts OFFLINE, an approved supplier is ACTIVE.
StatusAfter(a, verdict) ==
  IF verdict = "REJECTED" THEN "REJECTED"
  ELSE IF a \in DriverApplicants THEN "OFFLINE" ELSE "ACTIVE"

\* Profile, user and AuditLog in one transaction; a rejection leaves the user alone.
WriteDecision(t) ==
  LET a == desk[t].who  v == desk[t].verdict IN
    /\ DeskAt(t, "decide.write") /\ Len(decisions[a]) < MaxDecisions
    /\ profiles' = [profiles EXCEPT ![a] = StatusAfter(a, v)]
    /\ accounts' = IF v = "APPROVED" THEN [accounts EXCEPT ![a] = "ACTIVE"] ELSE accounts
    /\ decisions' = [decisions EXCEPT ![a] = Append(decisions[a], v)]
    /\ desk' = Ends(desk, t)

-----------------------------------------------------------------------------
(* setDriverAvailability *)

Switch(t, a) ==
  /\ desk[t] = Idle /\ profiles[a] # "none"
  /\ \E to \in {"AVAILABLE", "OFFLINE"} :
       desk' = [desk EXCEPT ![t] = [pc |-> "switch.read", who |-> a, to |-> to]]
  /\ UNCHANGED <<accounts, profiles, decisions>>

\* SUSPENDED is set nowhere, BUSY is Dispatch's: only PENDING_APPROVAL keeps a driver here.
MaySwitch(a) == ~IsPending(a)

ReadDriver(t) ==
  /\ DeskAt(t, "switch.read")
  /\ desk' = IF MaySwitch(desk[t].who) THEN Goto(desk, t, "switch.write") ELSE Ends(desk, t)
  /\ UNCHANGED <<accounts, profiles, decisions>>

WriteSwitch(t) ==
  /\ DeskAt(t, "switch.write")
  /\ profiles' = [profiles EXCEPT ![desk[t].who] = desk[t].to]
  /\ desk' = Ends(desk, t)
  /\ UNCHANGED <<accounts, decisions>>

DeskFails(t) ==
  /\ desk[t] # Idle
  /\ desk' = Ends(desk, t)
  /\ UNCHANGED <<accounts, profiles, decisions>>

-----------------------------------------------------------------------------
(* The whole *)

OnboardingNext ==
  \E t \in Tasks :
    \/ \E a \in Applicants : Register(t, a) \/ Consider(t, a)
    \/ \E a \in DriverApplicants : Switch(t, a)
    \/ FindUser(t) \/ CreateUser(t) \/ CreateProfile(t)
    \/ ReadApplicant(t) \/ WriteDecision(t)
    \/ ReadDriver(t) \/ WriteSwitch(t) \/ DeskFails(t)

OnboardingSpec == OnboardingInit /\ [][OnboardingNext]_onboardingVars

Deciding(a) == {t \in At(desk, "decide.write") : desk[t].who = a}

(***************************************************************************)
(* An applicant is decided on at most once per request that ran at once    *)
(* with the first decision, and whoever is past PENDING_APPROVAL has been  *)
(* decided on: no registration, switch or broken-off request lets anyone   *)
(* work unseen.  A supplier who may create orders was approved and has a   *)
(* working account.                                                        *)
(***************************************************************************)
DecidedBeforeWork ==
  \A a \in Applicants :
    /\ Len(decisions[a]) + Cardinality(Deciding(a)) <= Cardinality(Tasks)
    /\ profiles[a] \notin {"none", "PENDING_APPROVAL"} => decisions[a] # <<>>
    /\ profiles[a] = "ACTIVE" =>
         /\ accounts[a] = "ACTIVE"
         /\ \E i \in DOMAIN decisions[a] : decisions[a][i] = "APPROVED"

(***************************************************************************)
(* A rejected driver is a closed account ("comptes clos",                  *)
(* drivers.service.ts:110): one that was only ever rejected is not offered *)
(* to dispatch.  He is: setDriverAvailability refuses SUSPENDED and        *)
(* PENDING_APPROVAL, not REJECTED.                                         *)
(***************************************************************************)
RejectedStaysOut ==
  \A a \in DriverApplicants : profiles[a] = "AVAILABLE" =>
    \E i \in DOMAIN decisions[a] : decisions[a][i] = "APPROVED"
=============================================================================
