------------------------------- MODULE Access -------------------------------
(***************************************************************************)
(* One user's password, sessions and double authentication                 *)
(* (src/modules/auth/auth.service.ts, and the forms of                     *)
(* src/components/account/ that call it).  Every check reads the User row  *)
(* in one statement and what follows from it is written in a later one,    *)
(* bcrypt and the TOTP check being awaited between.  Passwords and secrets *)
(* are numbered in the order they are set; 0 is no secret.                 *)
(***************************************************************************)
EXTENDS Requests

CONSTANTS MaxPasswords, MaxSecrets, MaxSessions  \* bounds: how often each is made

VARIABLES user,      \* the User row: password, the secret and whether it is enabled
          sessions,  \* the Session rows, by id: the password given and whether active
          made,      \* secrets generated so far
          proved,    \* the secrets a code was checked against in confirmMfaEnrollment
          keeper,    \* the session that set the password, 0 for none
          caller     \* task -> where the request stands

accessVars == <<user, sessions, made, proved, keeper, caller>>

Users == [password : 1 .. MaxPasswords, secret : 0 .. MaxSecrets, mfaEnabled : BOOLEAN]

SessionRow == [password : 1 .. MaxPasswords, active : BOOLEAN]

AccessCalls ==
  [pc : {"login", "setup", "confirm", "disable"}, read : Users]
  \cup [pc : {"change", "revoke"}, read : Users, session : Nat]

AccessTypeOK ==
  /\ user \in Users
  /\ sessions \in UNION {[1 .. n -> SessionRow] : n \in 0 .. MaxSessions}
  /\ made \in 0 .. MaxSecrets
  /\ proved \subseteq 1 .. MaxSecrets
  /\ keeper \in 0 .. MaxSessions
  /\ caller \in [Tasks -> {Idle} \cup AccessCalls]

AccessInit ==
  /\ user = [password |-> 1, secret |-> 0, mfaEnabled |-> FALSE]
  /\ sessions = <<>>
  /\ made = 0
  /\ proved = {}
  /\ keeper = 0
  /\ caller = [t \in Tasks |-> Idle]

Calls(t, call) ==
  /\ caller[t] = Idle
  /\ caller' = [caller EXCEPT ![t] = call]
  /\ UNCHANGED <<user, sessions, made, proved, keeper>>

-----------------------------------------------------------------------------
(* login, logout *)

\* The password given is the one of the row that is read, and a code of its secret is
\* given when it is enabled; anything else is a 401 and changes nothing.
BeginLogin(t) == Calls(t, [pc |-> "login", read |-> user])

OpenSession(t) ==
  /\ caller[t].pc = "login" /\ Cardinality(DOMAIN sessions) < MaxSessions
  /\ sessions' = [s \in 1 .. Cardinality(DOMAIN sessions) + 1 |->
                    IF s \in DOMAIN sessions THEN sessions[s]
                    ELSE [password |-> caller[t].read.password, active |-> TRUE]]
  /\ caller' = Ends(caller, t)
  /\ UNCHANGED <<user, made, proved, keeper>>

Active == {s \in DOMAIN sessions : sessions[s].active}

Logout(s) ==
  /\ s \in Active
  /\ sessions' = [sessions EXCEPT ![s].active = FALSE]
  /\ UNCHANGED <<user, made, proved, keeper, caller>>

-----------------------------------------------------------------------------
(* changePassword *)

BeginChange(t, s) == s \in Active /\ Calls(t, [pc |-> "change", read |-> user, session |-> s])

ChangePassword(t) ==
  /\ caller[t].pc = "change" /\ user.password < MaxPasswords
  /\ user' = [user EXCEPT !.password = @ + 1]
  /\ keeper' = caller[t].session
  /\ caller' = Goto(caller, t, "revoke")
  /\ UNCHANGED <<sessions, made, proved>>

\* Faulty variant: every session stays active.
EverySessionKept(s) == DOMAIN sessions

\* The sessions a change of password by session s leaves active.
SessionsKept(s) == {s}

RevokeSessions(t) ==
  /\ caller[t].pc = "revoke"
  /\ sessions' = [s \in DOMAIN sessions |->
                    [sessions[s] EXCEPT !.active = @ /\ s \in SessionsKept(caller[t].session)]]
  /\ caller' = Ends(caller, t)
  /\ UNCHANGED <<user, made, proved, keeper>>

-----------------------------------------------------------------------------
(* generateMfaSecret, confirmMfaEnrollment, disableMfa *)

MayGenerate == ~user.mfaEnabled

BeginSetup(t) == MayGenerate /\ Calls(t, [pc |-> "setup", read |-> user])

StoreSecret(t) ==
  /\ caller[t].pc = "setup" /\ made < MaxSecrets
  /\ made' = made + 1
  /\ user' = [user EXCEPT !.secret = made']
  /\ caller' = Ends(caller, t)
  /\ UNCHANGED <<sessions, proved, keeper>>

\* The code given is one of the secret that is read.
BeginConfirm(t) ==
  /\ ~user.mfaEnabled
  /\ user.secret # 0
  /\ Calls(t, [pc |-> "confirm", read |-> user])

EnableMfa(t) ==
  /\ caller[t].pc = "confirm"
  /\ user' = [user EXCEPT !.mfaEnabled = TRUE]
  /\ proved' = proved \cup {caller[t].read.secret}
  /\ caller' = Ends(caller, t)
  /\ UNCHANGED <<sessions, made, keeper>>

BeginDisable(t) == Calls(t, [pc |-> "disable", read |-> user])

DisableMfa(t) ==
  /\ caller[t].pc = "disable"
  /\ user' = [user EXCEPT !.mfaEnabled = FALSE, !.secret = 0]
  /\ caller' = Ends(caller, t)
  /\ UNCHANGED <<sessions, made, proved, keeper>>

-----------------------------------------------------------------------------
(* The whole *)

CallerFails(t) ==
  /\ caller[t] # Idle
  /\ caller' = Ends(caller, t)
  /\ UNCHANGED <<user, sessions, made, proved, keeper>>

\* The row is not what this request read and checked, in what it relies on.
ReadStale(t) ==
  LET read == caller[t].read IN
  \/ caller[t].pc = "login" /\ read.password # user.password
  \/ caller[t].pc \in {"setup", "confirm"}
     /\ <<read.mfaEnabled, read.secret>> # <<user.mfaEnabled, user.secret>>

AccessNext ==
  \/ \E s \in DOMAIN sessions : Logout(s)
  \/ \E t \in Tasks :
       \/ BeginLogin(t) \/ OpenSession(t)
       \/ (\E s \in DOMAIN sessions : BeginChange(t, s)) \/ ChangePassword(t) \/ RevokeSessions(t)
       \/ BeginSetup(t) \/ StoreSecret(t)
       \/ BeginConfirm(t) \/ EnableMfa(t)
       \/ BeginDisable(t) \/ DisableMfa(t)
       \/ CallerFails(t)

AccessSpec == AccessInit /\ [][AccessNext]_accessVars

(***************************************************************************)
(* "Révoque les autres sessions actives" (auth.service.ts:239): once no    *)
(* change of password is under way, an active session was opened with the  *)
(* password in force or set it.                                            *)
(***************************************************************************)
SessionsFollowPassword ==
  At(caller, "revoke") = {} =>
    \A s \in Active : s = keeper \/ sessions[s].password = user.password

(***************************************************************************)
(* "On ne bascule mfaEnabled qu'après preuve que l'utilisateur a bien      *)
(* enregistré le secret" (MfaSettings.tsx:14): the secret a login asks a   *)
(* code of is one the user has given a code of.                            *)
(***************************************************************************)
MfaIsUsable == user.mfaEnabled => user.secret \in proved
=============================================================================
