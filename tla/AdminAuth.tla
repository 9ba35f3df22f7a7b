----------------------------- MODULE AdminAuth -----------------------------
(***************************************************************************)
(* The administrators' sign-in: AdminAuthService (password with lock-out,  *)
(* TOTP and its backup codes, sessions and their refresh) and AdminJwtGuard. *)
(*                                                                         *)
(* A call is one HTTP request; every await between two statements that     *)
(* touch the same row is a step of its own.  TOTP codes, hashes and keys   *)
(* are abstracted to what they are compared with.                          *)
(***************************************************************************)
EXTENDS Integers, FiniteSets

CONSTANTS
    Admin,                \* e-mail addresses, with or without an AdminUser row
    Call,                 \* HTTP requests, each used once
    InitialAdmin,         \* the AdminUser rows at the start
    MAX_FAILED_ATTEMPTS,  \* wrong passwords that lock an account (5 in the code)
    BACKUP_CODE_COUNT     \* backup codes of one enrolment (10 in the code)

ASSUME AdminAssumption ==
    /\ MAX_FAILED_ATTEMPTS \in Nat \ {0}
    /\ BACKUP_CODE_COUNT \in Nat \ {0}
    /\ IsFiniteSet(Call)

VARIABLES
    admin,       \* the AdminUser rows
    session,     \* the AdminSession rows, by their id
    pc,          \* where each call stands
    req,         \* its arguments and local variables
    overlapped   \* history: accounts that two calls were at work on at once

authVars == <<admin, session, pc, req, overlapped>>

-----------------------------------------------------------------------------
Role == {"SUPER_ADMIN", "MODERATOR", "REVIEWER"}

\* TOTP secrets: one a call generated, or the one an administrator enrolled
\* before the start.  A code is the secret it was generated from with 0, or a
\* backup code with its number.
Secret     == Call \cup Admin
Code       == Secret \X (0 .. BACKUP_CODE_COUNT)
BackupCode == Secret \X (1 .. BACKUP_CODE_COUNT)
totpCodeOf(secret)    == <<secret, 0>>
backupCodesOf(secret) == {secret} \X (1 .. BACKUP_CODE_COUNT)

\* An AdminUser row, and the lack of one.
Row == [role : Role, active : BOOLEAN, failed : Nat, locked : BOOLEAN,
        secret : Secret \cup {"none"}, enabled : BOOLEAN, codes : SUBSET BackupCode]
NoRow == [role |-> "none", active |-> FALSE, failed |-> 0, locked |-> FALSE,
          secret |-> "none", enabled |-> FALSE, codes |-> {}]

\* The first Super Admin is made by a script, before anybody calls; who has TOTP
\* on by then has a secret and backup codes of their own.
ASSUME FirstAdminAssumption ==
    /\ InitialAdmin \in [Admin -> Row \cup {NoRow}]
    /\ \E a \in Admin : InitialAdmin[a].active /\ InitialAdmin[a].role = "SUPER_ADMIN"
    /\ \A a \in Admin : LET row == InitialAdmin[a]
                       IN  /\ row.failed = 0 /\ ~row.locked
                           /\ row.enabled => row.secret = a
                           /\ row.codes \subseteq backupCodesOf(a)
    /\ "none" \notin Admin \cup Call /\ Admin \cap Call = {}

\* A session has the id of the call that created it, or of the administrator
\* who was signed in at the start.
SessionId == Admin \cup Call
NoSession == [admin |-> "none", tokenRole |-> "none",
              refreshTokenHash |-> <<>>, revoked |-> FALSE]

\* hashToken is injective, so a hash stands for the token it was taken of.
rawRefreshToken(id) == <<"random", id>>
refreshToken(id)    == <<"jwt", id>>

NewSession(id, a, role) ==
    [admin |-> a, tokenRole |-> role, refreshTokenHash |-> rawRefreshToken(id),
     revoked |-> FALSE]

NoCall == [op |-> "none", by |-> "none", account |-> "none", session |-> "none",
           role |-> "none", byRole |-> "none", from |-> "none", right |-> FALSE,
           failed |-> 0, enabled |-> FALSE, secret |-> "none", codes |-> {},
           code |-> <<>>,
           change |-> "none"]

Ended == {"idle", "preAuth", "done", "refused", "failed"}

Init ==
    /\ admin = InitialAdmin
    /\ session = [id \in SessionId |->
                    IF id \in Admin /\ InitialAdmin[id].active
                    THEN NewSession(id, id, InitialAdmin[id].role) ELSE NoSession]
    /\ pc = [c \in Call |-> "idle"]
    /\ req = [c \in Call |-> NoCall]
    /\ overlapped = {}

\* A call that is turned away keeps nothing.
localsAt(place, locals) == IF place \in {"refused", "failed"} /\ locals.op \notin {"login", "refresh"}
                           THEN NoCall ELSE locals

\* A call arrives, about an account.
Begin(c, place, locals) ==
    /\ pc[c] = "idle"
    /\ pc' = [pc EXCEPT ![c] = place]
    /\ req' = [req EXCEPT ![c] = localsAt(place, locals)]
    /\ overlapped' = overlapped \cup
          {a \in Admin : /\ a = locals.account
                         /\ \E d \in Call : pc[d] \notin Ended /\ req[d].account = a}

Move(c, place, locals) ==
    /\ pc' = [pc EXCEPT ![c] = place]
    /\ req' = [req EXCEPT ![c] = localsAt(place, locals)]
    /\ UNCHANGED overlapped

\* What AdminJwtGuard reads of a session, in one query.
Authenticated(id) == ~session[id].revoked /\ admin[session[id].admin].active

\* The sessions of an administrator, revoked together.
Revoke(sessions, a) ==
    [id \in SessionId |-> IF sessions[id].admin = a
                          THEN [sessions[id] EXCEPT !.revoked = TRUE] ELSE sessions[id]]

-----------------------------------------------------------------------------
(***************************************************************************)
(* login and validateTotp.                                                 *)
(***************************************************************************)

\* The row is read; bcrypt.compare follows.
login(c, a, right) ==
    LET row == admin[a]
    IN  /\ IF row.active /\ ~row.locked
           THEN Begin(c, "password",
                      [NoCall EXCEPT !.op = "login", !.by = a, !.account = a,
                         !.right = right, !.failed = row.failed,
                         !.role = row.role, !.enabled = row.enabled])
           ELSE Begin(c, "refused", NoCall)
        /\ UNCHANGED <<admin, session>>

\* A wrong password is counted from the row read before, and lifts a lock it
\* does not reach.
passwordFails(c) ==
    /\ pc[c] = "password" /\ ~req[c].right
    /\ admin' = [admin EXCEPT ![req[c].account].failed = req[c].failed + 1,
                              ![req[c].account].locked = req[c].failed + 1 >= MAX_FAILED_ATTEMPTS]
    /\ Move(c, "refused", req[c])
    /\ UNCHANGED session

\* A right one clears the counter.  With TOTP the answer is a pre-auth token.
passwordMatches(c) ==
    /\ pc[c] = "password" /\ req[c].right
    /\ admin' = [admin EXCEPT ![req[c].account].failed = 0,
                              ![req[c].account].locked = FALSE]
    /\ Move(c, IF req[c].enabled THEN "preAuth" ELSE "createSession", req[c])
    /\ UNCHANGED session

\* LOCK_DURATION_MS is over.
lockExpires(a) ==
    /\ admin[a].locked
    /\ admin' = [admin EXCEPT ![a].locked = FALSE]
    /\ UNCHANGED <<session, pc, req, overlapped>>

\* The pre-auth token of an earlier login, with a TOTP code or a backup code.
validateTotp(c, preAuth, code) ==
    LET a   == req[preAuth].account
        row == admin[a]
        ok  == row.active /\ row.enabled /\ row.secret # "none"
    IN  /\ pc[preAuth] = "preAuth"
        /\ Begin(c, IF ~ok THEN "refused"
                    ELSE IF code = totpCodeOf(row.secret) THEN "createSession"
                    ELSE IF code \in row.codes THEN "consume" ELSE "refused",
                 [NoCall EXCEPT !.op = "validateTotp", !.by = a, !.account = a,
                    !.role = row.role, !.codes = row.codes, !.code = code])
        /\ UNCHANGED <<admin, session>>

\* (mutant) The code that was used stays on the list.
consumeBackupCode_kept(c) ==
    /\ pc[c] = "consume"
    /\ Move(c, "createSession", req[c])
    /\ UNCHANGED <<admin, session>>

\* The list read before is written back without the code.
consumeBackupCode(c) ==
    /\ pc[c] = "consume"
    /\ admin' = [admin EXCEPT ![req[c].account].codes = req[c].codes \ {req[c].code}]
    /\ Move(c, "createSession", req[c])
    /\ UNCHANGED session

createSession(c) ==
    /\ pc[c] = "createSession"
    /\ session' = [session EXCEPT ![c] = NewSession(c, req[c].account, req[c].role)]
    /\ Move(c, "done", req[c])
    /\ UNCHANGED admin

-----------------------------------------------------------------------------
(***************************************************************************)
(* refresh and logout.                                                     *)
(***************************************************************************)

\* The session is looked up by its id and by the hash of the token presented.
refresh(c, id) ==
    LET s   == session[id]
        ok  == /\ s.refreshTokenHash = refreshToken(id)
               /\ Authenticated(id)
    IN  /\ s # NoSession
        /\ Begin(c, IF ok THEN "revoke" ELSE "refused",
                 [NoCall EXCEPT !.op = "refresh", !.by = s.admin, !.account = s.admin,
                    !.session = id, !.role = admin[s.admin].role, !.right = Authenticated(id)])
        /\ UNCHANGED <<admin, session>>

\* One session is revoked: by its logout, or by the refresh that replaces it.
revokeSession(c) ==
    /\ pc[c] = "revoke"
    /\ session' = [session EXCEPT ![req[c].session].revoked = TRUE]
    /\ Move(c, IF req[c].op = "refresh" THEN "createSession" ELSE "done", req[c])
    /\ UNCHANGED admin

logoutAll(c) ==
    /\ pc[c] = "logoutAll"
    /\ session' = Revoke(session, req[c].account)
    /\ Move(c, "done", req[c])
    /\ UNCHANGED admin

-----------------------------------------------------------------------------
(***************************************************************************)
(* The TOTP enrolment of the administrator who is signed in.               *)
(***************************************************************************)

\* AdminJwtGuard lets the call through; its handler starts at place.
signedIn(c, id, place, code) ==
    LET a == session[id].admin
    IN  /\ session[id] # NoSession
        /\ Begin(c, IF Authenticated(id) THEN place ELSE "refused",
                 [NoCall EXCEPT !.op = place, !.by = a, !.account = a,
                                !.session = id, !.code = code])
        /\ UNCHANGED <<admin, session>>

readEnrolment(c) ==
    LET row == admin[req[c].account]
        ok  == CASE req[c].op = "initTotpSetup" -> ~row.enabled
                 [] req[c].op = "confirmTotpSetup" ->
                       req[c].code = totpCodeOf(row.secret) /\ ~row.enabled
                 [] req[c].op = "disableTotp" ->
                       row.enabled /\ req[c].code = totpCodeOf(row.secret)
    IN  /\ pc[c] \in {"initTotpSetup", "confirmTotpSetup", "disableTotp"}
        /\ Move(c, IF ok THEN "enrol" ELSE "refused",
                [req[c] EXCEPT !.secret = row.secret])
        /\ UNCHANGED <<admin, session>>

\* A fresh secret is stored.  The backup codes of the answer are not.
initTotpSetup(c) ==
    /\ pc[c] = "enrol" /\ req[c].op = "initTotpSetup"
    /\ admin' = [admin EXCEPT ![req[c].account].secret = c]
    /\ Move(c, "done", req[c])
    /\ UNCHANGED session

\* The fresh backup codes are stored and TOTP is on.
confirmTotpSetup(c) ==
    /\ pc[c] = "enrol" /\ req[c].op = "confirmTotpSetup"
    /\ admin' = [admin EXCEPT ![req[c].account].enabled = TRUE,
                              ![req[c].account].codes = backupCodesOf(c)]
    /\ Move(c, "done", req[c])
    /\ UNCHANGED session

disableTotp(c) ==
    /\ pc[c] = "enrol" /\ req[c].op = "disableTotp"
    /\ admin' = [admin EXCEPT ![req[c].account].enabled = FALSE,
                              ![req[c].account].secret = "none",
                              ![req[c].account].codes = {}]
    /\ Move(c, "done", req[c])
    /\ UNCHANGED session

-----------------------------------------------------------------------------
\* The session is not created: the code is used up, the old session revoked.
\* A query that fails before anything is written ends like a refusal.
createSessionFails(c) ==
    /\ pc[c] = "createSession"
    /\ Move(c, "failed", req[c])
    /\ UNCHANGED <<admin, session>>

\* A call of the AdminAuthController arrives.
AuthArrive(c) == pc[c] = "idle" /\
    \/ \E a \in Admin, right \in BOOLEAN : login(c, a, right)
    \/ \E preAuth \in Call, code \in Code : validateTotp(c, preAuth, code)
    \/ \E id \in SessionId :
          \/ refresh(c, id)
          \/ \E place \in {"revoke", "logoutAll", "initTotpSetup"} : signedIn(c, id, place, <<>>)
          \/ \E place \in {"confirmTotpSetup", "disableTotp"}, secret \in Secret :
                signedIn(c, id, place, totpCodeOf(secret))

AuthProceed(c) ==
    \/ passwordFails(c) \/ passwordMatches(c) \/ consumeBackupCode(c)
    \/ createSession(c) \/ createSessionFails(c)
    \/ revokeSession(c) \/ logoutAll(c)
    \/ readEnrolment(c) \/ initTotpSetup(c) \/ confirmTotpSetup(c) \/ disableTotp(c)

AuthNext ==
    \/ \E a \in Admin : lockExpires(a)
    \/ \E c \in Call : AuthArrive(c) \/ AuthProceed(c)

-----------------------------------------------------------------------------
(***************************************************************************)
(* Properties.                                                             *)
(***************************************************************************)
Place == Ended \cup {"password", "consume", "createSession", "revoke", "logoutAll",
                     "initTotpSetup", "confirmTotpSetup", "disableTotp", "enrol"}

\* The rows and the calls of the sign-in have their types.
AuthTypeOK ==
    /\ admin \in [Admin -> Row \cup {NoRow}]
    /\ \A id \in SessionId :
          \/ session[id] = NoSession
          \/ /\ session[id].admin \in Admin /\ session[id].tokenRole \in Role
             /\ session[id].refreshTokenHash = rawRefreshToken(id)
    /\ overlapped \subseteq Admin

\* Wrong passwords that were compared and refused.
WrongPasswords(a) ==
    {c \in Call : req[c].op = "login" /\ req[c].account = a /\ ~req[c].right /\ pc[c] = "refused"}

\* "Repeated failed logins lock the account" (security.mdx), and nothing else
\* does: whatever logins race on the counter, a locked account has seen
\* MAX_FAILED_ATTEMPTS wrong passwords.
LockIsEarned ==
    \A a \in Admin : admin[a].locked => Cardinality(WrongPasswords(a)) >= MAX_FAILED_ATTEMPTS

\* Whoever enrols one call at a time can sign in again: TOTP that is on has a
\* secret, and it is the one a confirmation checked a code of.  Overlapping
\* calls break it: a second confirmation that lands after a disableTotp turns
\* TOTP on without a secret, which neither sign-in nor disableTotp accepts.
TotpUsable ==
    \A a \in Admin \ overlapped : admin[a].enabled =>
        /\ admin[a].secret # "none"
        /\ \/ admin[a].secret = InitialAdmin[a].secret
           \/ \E c \in Call : /\ req[c].op = "confirmTotpSetup" /\ pc[c] = "done"
                              /\ req[c].account = a /\ req[c].secret = admin[a].secret

\* "One-time backup codes" (security.mdx): no backup code opens two sessions,
\* as long as its owner's calls do not overlap.
BackupCodeOnce ==
    \A c, d \in Call :
        /\ c # d /\ pc[c] = "done" /\ pc[d] = "done"
        /\ req[c].op = "validateTotp" /\ req[d].op = "validateTotp"
        /\ req[c].code = req[d].code /\ req[c].code \in BackupCode
        => req[c].account \in overlapped
=============================================================================
