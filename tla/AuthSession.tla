----------------------------- MODULE AuthSession -----------------------------
(***************************************************************************)
(* One account of backend/internal/auth: its password, its second factor   *)
(* and its sessions, under concurrent requests.                            *)
(*                                                                         *)
(* Every handler is a sequence of statements on the database, and other    *)
(* requests run between them.  A refresh is one transaction: its DELETE    *)
(* keeps the row locked until the commit.  A bulk DELETE removes the rows  *)
(* its own statement saw, and waits for those that a refresh holds.        *)
(***************************************************************************)
EXTENDS Integers, FiniteSets

CONSTANTS
    Requests,     \* requests that run at the same time
    AuthEnvironments, \* what a behaviour may consist of, see aenv
    Skew          \* steps of clock skew a code may have

AllOps == {"login", "sso", "refresh", "password", "setup", "enable", "disable",
           "deactivate"}

ASSUME AuthAssumption ==
    /\ AuthEnvironments \subseteq
          [ops : SUBSET AllOps, tokens : Nat, passwords : Nat \ {0}, secrets : Nat,
           steps : Nat \ {0}, switches : Nat]
    /\ Skew \in Nat

VARIABLES
    aenv,       \* this behaviour's operations and bounds, chosen once
    user,      \* the row of users
    enforced,  \* a workspace of the user forbids password login
    switches,  \* changes of is_active and of enforcement so far
    now,       \* the current TOTP step
    sessions,  \* the rows of sessions
    issued,    \* sessions created so far
    secrets,   \* TOTP secrets generated so far
    codes,     \* the rows of totp_backup_codes: one per enrolment
    enrolled,  \* enrolments so far: the next set of backup codes
    spent,     \* every factor that has authenticated a request, and how often
    revoked,   \* passwords below this one have been revoked by a finished change
    req        \* each request

authvars == <<aenv, user, enforced, switches, now, sessions, issued, secrets, codes,
          enrolled, spent, revoked, req>>
sessionVars == <<sessions, issued, revoked>>
factorVars == <<secrets, codes, enrolled, spent>>
adminVars == <<enforced, switches>>

Ops == aenv.ops                  \* operations that requests perform
MaxTokens == aenv.tokens         \* bound of the model: sessions ever created
MaxPasswords == aenv.passwords   \* bound of the model: passwords of the account
MaxSecrets == aenv.secrets       \* bound of the model: TOTP secrets ever generated
MaxStep == aenv.steps            \* bound of the model: 30-second steps
MaxSwitches == aenv.switches     \* bound of the model: (de)activations and enforcement changes

Methods == {"password", "sso"}
Factors == [kind : {"totp"}, of : 1..MaxSecrets, n : Nat]
           \cup [kind : {"backup"}, of : Nat, n : {1}]

\* A row of sessions.  root, pw and admitted are not stored: the login it
\* descends from, the password that login proved, and whether the rules let the
\* request in at some moment while it ran.
Session == [token : 1..MaxTokens, root : 1..MaxTokens, method : Methods,
            pw : 0..MaxPasswords, expired : BOOLEAN, admitted : BOOLEAN]

Idle == [op |-> "none", at |-> "idle", pw |-> 0, secret |-> 0, code |-> 0,
         token |-> 0, root |-> 0, method |-> "password", victims |-> {},
         sawActive |-> FALSE, sawOpen |-> FALSE]

Request == [op : AllOps \cup {"none"},
            at : {"idle", "load", "factor", "backup", "gate", "active", "mint",
                  "update", "purge", "delete", "commit"},
            pw : 0..MaxPasswords, secret : 0..MaxSecrets, code : Nat,
            token : 0..MaxTokens, root : 0..MaxTokens, method : Methods,
            victims : SUBSET (1..MaxTokens), sawActive : BOOLEAN,
            sawOpen : BOOLEAN]

AuthInit ==
    /\ aenv \in AuthEnvironments
    /\ user = [active |-> TRUE, pw |-> 1, secret |-> 0, enabled |-> FALSE, lastStep |-> 0]
    /\ enforced = FALSE /\ switches = 0 /\ now = 1
    /\ sessions = {} /\ issued = 0
    /\ secrets = 0 /\ codes = {} /\ enrolled = 0
    /\ spent = {}
    /\ revoked = 0
    /\ req = [r \in Requests |-> Idle]

At(r, op, at) == req[r].op = op /\ req[r].at = at
Goto(r, at) == req' = [req EXCEPT ![r].at = at]
Stop(r) == req' = [req EXCEPT ![r] = Idle]
\* A request that starts now sees the rules as they are now.
Fresh(op, at) == [Idle EXCEPT !.op = op, !.at = at,
                              !.sawActive = user.active, !.sawOpen = ~enforced]

\* Tokens whose row a running refresh has deleted and not committed.
Locked == {req[r].token : r \in {q \in Requests : req[q].op = "refresh"}}
Tokens == {s.token : s \in sessions}

-----------------------------------------------------------------------------
(* Signing in.                                                             *)

\* Login reads the user and compares the password.
LoginPassword(r) ==
    /\ "login" \in Ops /\ req[r].at = "idle" /\ user.active
    /\ req' = [req EXCEPT ![r] = [Fresh("login", "load") EXCEPT !.pw = user.pw]]
    /\ UNCHANGED <<aenv, user, adminVars, now, sessionVars, factorVars>>

\* sso finish: the provider has vouched for the user.
SsoFinish(r) ==
    /\ "sso" \in Ops /\ req[r].at = "idle" /\ user.active
    /\ req' = [req EXCEPT ![r] = [Fresh("sso", "load") EXCEPT !.method = "sso"]]
    /\ UNCHANGED <<aenv, user, adminVars, now, sessionVars, factorVars>>

\* The second factor is asked for when it is enabled at this moment.
LoadFactor(r) ==
    /\ req[r].op \in {"login", "sso"} /\ req[r].at = "load"
    /\ req' = [req EXCEPT ![r].secret = user.secret,
                          ![r].at = IF user.enabled THEN "factor"
                                    ELSE IF req[r].op = "sso" THEN "active" ELSE "gate"]
    /\ UNCHANGED <<aenv, user, adminVars, now, sessionVars, factorVars>>

\* Where a request goes once its factor is verified.
AfterFactor(op) ==
    CASE op = "login" -> "gate" [] op = "sso" -> "active" [] OTHER -> "update"

\* A factor that authenticates a request, once more than before.
SpendFactor(f) ==
    LET before == {e \in spent : e.factor = f}
        times == IF before = {} THEN 0 ELSE (CHOOSE e \in before : TRUE).times
    IN  spent' = (spent \ before) \cup {[factor |-> f, times |-> times + 1]}

\* Mutant: totp_last_step is not compared.
consumeUnguarded(r) ==
    /\ req[r].at = "factor" /\ req[r].secret # 0
    /\ \E step \in (now - Skew)..(now + Skew) :
        /\ step > 0
        /\ user' = [user EXCEPT !.lastStep = step]
        /\ SpendFactor([kind |-> "totp", of |-> req[r].secret, n |-> step])
    /\ Goto(r, AfterFactor(req[r].op))
    /\ UNCHANGED <<aenv, adminVars, now, sessionVars, secrets, codes, enrolled>>

\* consumeTOTP: a code of the secret that was read, of a step within the skew;
\* the guarded UPDATE burns the step.
consumeTOTP(r) ==
    /\ req[r].at = "factor" /\ req[r].secret # 0
    /\ \E step \in (now - Skew)..(now + Skew) :
        /\ step > 0 /\ user.lastStep < step
        /\ user' = [user EXCEPT !.lastStep = step]
        /\ SpendFactor([kind |-> "totp", of |-> req[r].secret, n |-> step])
    /\ Goto(r, AfterFactor(req[r].op))
    /\ UNCHANGED <<aenv, adminVars, now, sessionVars, secrets, codes, enrolled>>

\* verifyTOTPOrBackup: the unused codes are read and compared ...
ReadBackup(r) ==
    /\ req[r].at = "factor" /\ req[r].op # "enable"
    /\ \E c \in codes : ~c.used /\ req' = [req EXCEPT ![r].code = c.id, ![r].at = "backup"]
    /\ UNCHANGED <<aenv, user, adminVars, now, sessionVars, factorVars>>

\* ... and the one that matched is spent by an UPDATE guarded by used = FALSE.
SpendBackup(r) ==
    /\ req[r].at = "backup"
    /\ \E c \in codes :
        /\ c.id = req[r].code /\ ~c.used
        /\ codes' = (codes \ {c}) \cup {[c EXCEPT !.used = TRUE]}
        /\ SpendFactor([kind |-> "backup", of |-> c.id, n |-> 1])
    /\ Goto(r, AfterFactor(req[r].op))
    /\ UNCHANGED <<aenv, user, adminVars, now, sessionVars, secrets, enrolled>>

\* A wrong code, a code already spent, or a code row that is gone.
FactorRefused(r) ==
    /\ req[r].at \in {"factor", "backup"}
    /\ Stop(r)
    /\ UNCHANGED <<aenv, user, adminVars, now, sessionVars, factorVars>>

\* requirePasswordLoginAllowed, for a login and for the refresh of a password
\* session.  A refused refresh commits: its token stays burned.
Gate(r) ==
    /\ req[r].at = "gate"
    /\ IF enforced
       THEN /\ Stop(r)
            /\ sessions' = {s \in sessions : s.token # req[r].token}
       ELSE /\ Goto(r, "mint")
            /\ UNCHANGED sessions
    /\ UNCHANGED <<aenv, user, adminVars, now, issued, revoked, factorVars>>

\* IssueSSOSession re-reads is_active.
SsoActive(r) ==
    /\ At(r, "sso", "active")
    /\ IF user.active THEN Goto(r, "mint") ELSE Stop(r)
    /\ UNCHANGED <<aenv, user, adminVars, now, sessionVars, factorVars>>

\* issueTokens; in a refresh the new row and the deletion of the old one commit
\* together.
issueTokens(r) ==
    /\ req[r].at = "mint" /\ issued < MaxTokens
    /\ issued' = issued + 1
    /\ sessions' = {s \in sessions : s.token # req[r].token} \cup
         {[token |-> issued + 1, method |-> req[r].method, pw |-> req[r].pw,
           root |-> IF req[r].op = "refresh" THEN req[r].root ELSE issued + 1,
           expired |-> FALSE,
           admitted |-> /\ req[r].sawActive
                        /\ req[r].method = "sso" \/ req[r].sawOpen]}
    /\ Stop(r)
    /\ UNCHANGED <<aenv, user, adminVars, now, revoked, factorVars>>

-----------------------------------------------------------------------------
(* Refresh, logout and expiry.                                             *)

\* Mutant: The session is read instead of deleted: two refreshes use one token.
RefreshReads(r) ==
    /\ "refresh" \in Ops /\ req[r].at = "idle"
    /\ \E s \in sessions :
        req' = [req EXCEPT ![r] =
             [Fresh("refresh", "load") EXCEPT !.token = s.token, !.root = s.root,
                                              !.pw = s.pw, !.method = s.method]]
    /\ UNCHANGED <<aenv, user, adminVars, now, sessionVars, factorVars>>

\* ConsumeSessionByTokenTx: whoever deletes the row holds it; everyone else
\* waits, and finds nothing once the transaction has committed.
RefreshConsume(r) ==
    /\ "refresh" \in Ops /\ req[r].at = "idle"
    /\ \E s \in sessions :
        /\ s.token \notin Locked
        /\ req' = [req EXCEPT ![r] =
             [Fresh("refresh", "load") EXCEPT !.token = s.token, !.root = s.root,
                                              !.pw = s.pw, !.method = s.method]]
    /\ UNCHANGED <<aenv, user, adminVars, now, sessionVars, factorVars>>

\* Expiry, then is_active; only a password session meets the gate again.
RefreshActive(r) ==
    /\ At(r, "refresh", "load")
    /\ \E s \in sessions :
        /\ s.token = req[r].token
        /\ IF s.expired
           THEN Stop(r) /\ sessions' = sessions \ {s}
           ELSE /\ UNCHANGED sessions
                /\ IF ~user.active THEN req' = [req EXCEPT ![r].at = "delete", ![r].victims = Tokens]
                   ELSE Goto(r, IF req[r].method = "sso" THEN "mint" ELSE "gate")
    /\ UNCHANGED <<aenv, user, adminVars, now, issued, revoked, factorVars>>

\* A deactivated account loses every session (DeleteUserSessionsTx), and the
\* transaction commits.
RefreshPurge(r) ==
    /\ At(r, "refresh", "delete")
    /\ req[r].victims \cap Locked \subseteq {req[r].token}
    /\ sessions' = {s \in sessions : s.token \notin req[r].victims}
    /\ Stop(r)
    /\ UNCHANGED <<aenv, user, adminVars, now, issued, revoked, factorVars>>

\* A statement fails, or the client goes away: a refresh rolls back, any other
\* request keeps what it has already written.
Abort(r) ==
    /\ req[r].at # "idle"
    /\ Stop(r)
    /\ UNCHANGED <<aenv, user, adminVars, now, sessionVars, factorVars>>

Logout(s) ==
    /\ s \in sessions /\ s.token \notin Locked
    /\ sessions' = sessions \ {s}
    /\ UNCHANGED <<aenv, user, adminVars, now, issued, revoked, factorVars, req>>

Expire(s) ==
    /\ s \in sessions /\ ~s.expired /\ s.token \notin Locked
    /\ sessions' = (sessions \ {s}) \cup {[s EXCEPT !.expired = TRUE]}
    /\ UNCHANGED <<aenv, user, adminVars, now, issued, revoked, factorVars, req>>

CleanExpiredSessions ==
    /\ \E s \in sessions : s.expired /\ s.token \notin Locked
    /\ sessions' = {s \in sessions : ~s.expired \/ s.token \in Locked}
    /\ UNCHANGED <<aenv, user, adminVars, now, issued, revoked, factorVars, req>>

-----------------------------------------------------------------------------
(* Password, activation, enforcement.                                      *)

\* ChangePassword verifies the current password ...
PasswordVerify(r) ==
    /\ "password" \in Ops /\ req[r].at = "idle" /\ user.pw < MaxPasswords
    /\ req' = [req EXCEPT ![r] = Fresh("password", "update")]
    /\ UNCHANGED <<aenv, user, adminVars, now, sessionVars, factorVars>>

\* ... writes the new one, which commits at once ...
PasswordUpdate(r) ==
    /\ At(r, "password", "update") /\ user.pw < MaxPasswords
    /\ user' = [user EXCEPT !.pw = @ + 1]
    /\ req' = [req EXCEPT ![r].at = "purge", ![r].pw = user.pw + 1]
    /\ UNCHANGED <<aenv, adminVars, now, sessionVars, factorVars>>

\* ... and starts a bulk DELETE, which sees the rows of this moment ...
PurgeStart(r) ==
    /\ At(r, "password", "purge")
    /\ req' = [req EXCEPT ![r].at = "delete", ![r].victims = Tokens]
    /\ UNCHANGED <<aenv, user, adminVars, now, sessionVars, factorVars>>

\* ... and ends when no refresh holds one of them.
PurgeEnd(r) ==
    /\ At(r, "password", "delete")
    /\ req[r].victims \cap Locked = {}
    /\ sessions' = {s \in sessions : s.token \notin req[r].victims}
    /\ revoked' = IF revoked < req[r].pw THEN req[r].pw ELSE revoked
    /\ Stop(r)
    /\ UNCHANGED <<aenv, user, adminVars, now, issued, factorVars>>

\* setActive(false): the UPDATE and the DELETE of one transaction ...
DeactivateStart(r) ==
    /\ "deactivate" \in Ops /\ req[r].at = "idle" /\ switches < MaxSwitches
    /\ req' = [req EXCEPT ![r] = [Fresh("deactivate", "commit") EXCEPT !.victims = Tokens]]
    /\ switches' = switches + 1
    /\ UNCHANGED <<aenv, user, enforced, now, sessionVars, factorVars>>

DeactivateCommit(r) ==
    /\ At(r, "deactivate", "commit")
    /\ req[r].victims \cap Locked = {}
    /\ user' = [user EXCEPT !.active = FALSE]
    /\ sessions' = {s \in sessions : s.token \notin req[r].victims}
    /\ Stop(r)
    /\ UNCHANGED <<aenv, adminVars, now, issued, revoked, factorVars>>

Activate ==
    /\ "deactivate" \in Ops /\ ~user.active /\ switches < MaxSwitches
    /\ user' = [user EXCEPT !.active = TRUE]
    /\ switches' = switches + 1
    /\ req' = [r \in Requests |-> IF req[r].at = "idle" THEN Idle
                                  ELSE [req[r] EXCEPT !.sawActive = TRUE]]
    /\ UNCHANGED <<aenv, enforced, now, sessionVars, factorVars>>

\* An administrator turns SSO enforcement on or off.
SetEnforced(b) ==
    /\ "sso" \in Ops /\ enforced # b /\ switches < MaxSwitches
    /\ enforced' = b
    /\ switches' = switches + 1
    /\ req' = [r \in Requests |-> IF req[r].at = "idle" THEN Idle
                                  ELSE [req[r] EXCEPT !.sawOpen = @ \/ ~b]]
    /\ UNCHANGED <<aenv, user, now, sessionVars, factorVars>>

-----------------------------------------------------------------------------
(* The second factor.                                                      *)

\* SetupTOTP reads the state; with 2FA on it wants the password or a factor.
SetupLoad(r) ==
    /\ "setup" \in Ops /\ req[r].at = "idle" /\ secrets < MaxSecrets
    /\ \E at \in IF user.enabled THEN {"update", "factor"} ELSE {"update"} :
        req' = [req EXCEPT ![r] = [Fresh("setup", at) EXCEPT !.secret = user.secret]]
    /\ UNCHANGED <<aenv, user, adminVars, now, sessionVars, factorVars>>

SetupWrite(r) ==
    /\ At(r, "setup", "update") /\ secrets < MaxSecrets
    /\ secrets' = secrets + 1
    /\ user' = [user EXCEPT !.secret = secrets + 1, !.enabled = FALSE]
    /\ Stop(r)
    /\ UNCHANGED <<aenv, adminVars, now, sessionVars, codes, enrolled, spent>>

\* EnableTOTP reads the pending secret, verifies a code of it, and then writes
\* totp_enabled and a fresh set of backup codes in one transaction.
EnableLoad(r) ==
    /\ "enable" \in Ops /\ req[r].at = "idle" /\ user.secret # 0
    /\ enrolled < MaxTokens
    /\ req' = [req EXCEPT ![r] = [Fresh("enable", "factor") EXCEPT !.secret = user.secret]]
    /\ UNCHANGED <<aenv, user, adminVars, now, sessionVars, factorVars>>

EnableWrite(r) ==
    /\ At(r, "enable", "update")
    /\ user' = [user EXCEPT !.enabled = TRUE]
    /\ enrolled' = enrolled + 1
    /\ codes' = {[id |-> enrolled + 1, used |-> FALSE]}
    /\ Stop(r)
    /\ UNCHANGED <<aenv, adminVars, now, sessionVars, secrets, spent>>

\* DisableTOTP does nothing unless 2FA is on.
DisableLoad(r) ==
    /\ "disable" \in Ops /\ req[r].at = "idle" /\ user.enabled
    /\ req' = [req EXCEPT ![r] = [Fresh("disable", "factor") EXCEPT !.secret = user.secret]]
    /\ UNCHANGED <<aenv, user, adminVars, now, sessionVars, factorVars>>

DisableWrite(r) ==
    /\ At(r, "disable", "update")
    /\ user' = [user EXCEPT !.enabled = FALSE, !.secret = 0]
    /\ codes' = {}
    /\ Stop(r)
    /\ UNCHANGED <<aenv, adminVars, now, sessionVars, secrets, enrolled, spent>>

Tick ==
    /\ now < MaxStep
    /\ now' = now + 1
    /\ UNCHANGED <<aenv, user, adminVars, sessionVars, factorVars, req>>

AuthNext ==
    \/ \E r \in Requests :
        \/ LoginPassword(r) \/ SsoFinish(r) \/ LoadFactor(r)
        \/ consumeTOTP(r) \/ ReadBackup(r) \/ SpendBackup(r) \/ FactorRefused(r)
        \/ Gate(r) \/ SsoActive(r) \/ issueTokens(r)
        \/ RefreshConsume(r) \/ RefreshActive(r) \/ RefreshPurge(r) \/ Abort(r)
        \/ PasswordVerify(r) \/ PasswordUpdate(r) \/ PurgeStart(r) \/ PurgeEnd(r)
        \/ DeactivateStart(r) \/ DeactivateCommit(r)
        \/ SetupLoad(r) \/ SetupWrite(r) \/ EnableLoad(r) \/ EnableWrite(r)
        \/ DisableLoad(r) \/ DisableWrite(r)
    \/ \E s \in sessions : Logout(s) \/ Expire(s)
    \/ CleanExpiredSessions
    \/ Activate \/ \E b \in BOOLEAN : SetEnforced(b)
    \/ Tick

AuthSpec == AuthInit /\ [][AuthNext]_authvars

-----------------------------------------------------------------------------
(* Properties.                                                             *)

\* Type correctness, with the constraints of the schema: one row per token, and
\* no step burned that is further ahead than the skew.
AuthTypeOK ==
    /\ user \in [active : BOOLEAN, pw : 1..MaxPasswords, secret : 0..MaxSecrets,
                 enabled : BOOLEAN, lastStep : Nat]
    /\ user.lastStep <= now + Skew
    /\ enforced \in BOOLEAN /\ switches \in 0..MaxSwitches /\ now \in 1..MaxStep
    /\ sessions \subseteq Session
    /\ Cardinality(Tokens) = Cardinality(sessions)
    /\ issued \in 0..MaxTokens /\ secrets \in 0..MaxSecrets
    /\ codes \subseteq [id : Nat, used : BOOLEAN] /\ enrolled \in Nat
    /\ spent \subseteq [factor : Factors, times : Nat]
    /\ revoked \in 0..MaxPasswords
    /\ req \in [Requests -> Request]

\* A sign-in has at most one live session, however its refresh token is used by
\* concurrent refreshes, a logout, a roll-back and a purge (ConsumeSessionByTokenTx:
\* "concurrent callers carrying the same token cannot both claim it").
OneSessionPerSignIn ==
    \A s, t \in sessions : s.root = t.root => s = t

\* A TOTP code, also one inside the skew window, and a backup code authenticate
\* one request at most, whichever handlers race for them (totp_last_step and
\* used = FALSE).
FactorSpentOnce == \A e \in spent : e.times = 1

\* Every session was issued to a request that saw, at some moment while it ran,
\* the account active and, for a password session, no SSO enforcement: a
\* deactivation or an enforcement that is in place when a refresh starts stops
\* the chain there.
OnlyAdmitted == \A s \in sessions : s.admitted

\* What the comment on ChangePassword promises (service.go:537): once it has
\* finished, no session that proved an earlier password is left.
PasswordChangeRevokes ==
    \A s \in sessions : s.method = "password" => s.pw >= revoked

\* The sessions are those of admitted sign-ins, one each.
SessionsSound == AuthTypeOK /\ OneSessionPerSignIn /\ OnlyAdmitted
==============================================================================
