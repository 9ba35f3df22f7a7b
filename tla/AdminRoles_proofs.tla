------------------------- MODULE AdminRoles_proofs -------------------------
(***************************************************************************)
(* Proofs about the administrators' console, for any number of accounts    *)
(* and of concurrent calls: types, four eyes, a Super Admin that remains,  *)
(* and, for accounts whose calls never overlapped, sessions, decisions and *)
(* credentials.                                                            *)
(*                                                                         *)
(* Between two of its awaits a call relies on what it read before.  Fits   *)
(* says what that is at each place; Grows says why the steps of others     *)
(* leave it true: rows and sessions do not vanish, and a request for a     *)
(* role change keeps its parties.                                          *)
(***************************************************************************)
EXTENDS AdminRoles, FiniteSetTheorems, TLAPS

Rowed(a, rows) == a \in Admin /\ rows[a] \in Row

\* The local variables of a call.
Op == {"none", "login", "validateTotp", "refresh", "revoke", "logoutAll", "initTotpSetup",
       "confirmTotpSetup", "disableTotp", "create", "requestRoleChange", "deactivate",
       "activate", "approve", "reject"}
Locals ==
    [op : Op, by : Admin \cup {"none"}, account : Admin \cup {"none"},
     session : SessionId \cup {"none"}, role : Role \cup {"none"},
     byRole : Role \cup {"none"}, from : Role \cup {"none"}, right : BOOLEAN, failed : Nat,
     enabled : BOOLEAN, secret : Secret \cup {"none"}, codes : SUBSET BackupCode,
     code : Code \cup {<<>>}, change : Call \cup {"none"}]

SessionRow == [admin : Admin, tokenRole : Role, refreshTokenHash : {"random"} \X SessionId,
               revoked : BOOLEAN]
ChangeRow == [target : Admin, from : Role, to : Role, by : Admin,
              status : {"PENDING", "APPROVED", "REJECTED", "CANCELLED"},
              reviewer : Admin \cup {"none"}]

SignInPlace == {"password", "preAuth", "consume", "createSession", "revoke", "logoutAll",
                "initTotpSetup", "confirmTotpSetup", "disableTotp", "enrol"}
ProposePlace == {"requestRoleChange", "target", "pending", "createChange"}
ReviewPlace  == {"approve", "apply", "reject", "close"}

\* What a call at a place relies on, given rows, sessions and role changes.
Fits(place, l, rows, ses, chg) ==
    /\ place \in SignInPlace => Rowed(l.account, rows)
    /\ place \in {"password", "preAuth", "consume", "createSession"} => l.role \in Role
    /\ place = "revoke" => /\ l.session \in SessionId /\ ses[l.session] # NoSession
                           /\ l.op = "refresh" => l.role \in Role
    /\ place \in ProposePlace => l.op = "requestRoleChange" /\ l.role \in Role
    /\ place \in {"deactivate", "transaction"} => l.op = "deactivate"
    /\ place \in ProposePlace \cup {"deactivate", "transaction"} =>
          l.by \in Admin /\ l.byRole \in Role /\ l.account \in Admin
    /\ place \in {"target", "pending", "createChange", "transaction"} =>
          Rowed(l.account, rows) /\ l.account # l.by
    /\ place \in {"pending", "createChange"} => l.from \in Role
    /\ place \in {"create", "insert"} => l.role \in Role
    /\ place \in {"create", "insert", "activate"} => l.account \in Admin
    /\ place \in ReviewPlace => l.change \in Call /\ chg[l.change] # NoChange /\ l.by \in Admin
    /\ place = "apply" => l.by # chg[l.change].by /\ l.by # chg[l.change].target

Types ==
    /\ admin \in [Admin -> Row \cup {NoRow}]
    /\ session \in [SessionId -> SessionRow \cup {NoSession}]
    /\ pc \in [Call -> RolePlace]
    /\ req \in [Call -> Locals]
    /\ overlapped \subseteq Admin
    /\ change \in [Call -> ChangeRow \cup {NoChange}]

\* The rows refer to each other.
Backed ==
    /\ \A id \in SessionId : session[id] # NoSession =>
          /\ Rowed(session[id].admin, admin)
          /\ session[id].refreshTokenHash = rawRefreshToken(id)
          /\ id \in Call => pc[id] = "done"
    /\ \A d \in Call : change[d] # NoChange =>
          /\ pc[d] = "done"
          /\ change[d].by # change[d].target
          /\ Rowed(change[d].target, admin)

AllFit == \A c \in Call : Fits(pc[c], req[c], admin, session, change)

IInv == Types /\ Backed /\ AllFit

\* What no step takes away.
Grows ==
    /\ \A a \in Admin : admin[a] \in Row => admin'[a] \in Row
    /\ \A id \in SessionId : session[id] # NoSession =>
          session'[id] # NoSession /\ session'[id].admin = session[id].admin
                                   /\ session'[id].refreshTokenHash = session[id].refreshTokenHash
    /\ \A d \in Call : change[d] # NoChange =>
          /\ change'[d] # NoChange
          /\ change'[d].by = change[d].by /\ change'[d].target = change[d].target

-----------------------------------------------------------------------------
\* A call that is at its place stays fit while the rows grow.
LEMMA FitsGrows ==
    ASSUME Grows, NEW place, NEW l, Fits(place, l, admin, session, change)
    PROVE  Fits(place, l, admin', session', change')
  BY DEF Fits, Grows, Rowed, ReviewPlace

\* How a step of a call changes its place and local variables.
LEMMA CallMoves ==
    ASSUME Types, NEW c \in Call, NEW place \in RolePlace, NEW l \in Locals,
           Begin(c, place, l) \/ Move(c, place, l)
    PROVE  /\ pc' \in [Call -> RolePlace] /\ req' \in [Call -> Locals]
           /\ overlapped' \subseteq Admin
           /\ pc'[c] = place
           /\ place \notin {"refused", "failed"} => req'[c] = l
           /\ \A d \in Call \ {c} : pc'[d] = pc[d] /\ req'[d] = req[d]
  <1>1. NoCall \in Locals
    BY DEF NoCall, Locals, Op
  <1>2. localsAt(place, l) \in Locals
    BY <1>1 DEF localsAt
  <1>3. place \notin {"refused", "failed"} => localsAt(place, l) = l
    BY DEF localsAt
  <1>4. /\ pc' = [pc EXCEPT ![c] = place]
        /\ req' = [req EXCEPT ![c] = localsAt(place, l)]
        /\ overlapped' \subseteq Admin
    BY DEF Begin, Move, Types
  <1> QED
    BY <1>2, <1>3, <1>4 DEF Types

\* A step of one call keeps the invariant when it fits where it arrives, and what it
\* writes has its type, refers to what exists and takes nothing away.
LEMMA StepOfCall ==
    ASSUME IInv, NEW c \in Call, NEW place \in RolePlace, NEW l \in Locals,
           Begin(c, place, l) \/ Move(c, place, l),
           pc[c] # "done", Grows,
           admin' \in [Admin -> Row \cup {NoRow}],
           session' \in [SessionId -> SessionRow \cup {NoSession}],
           change' \in [Call -> ChangeRow \cup {NoChange}],
           place \notin {"refused", "failed"} => Fits(place, l, admin', session', change'),
           \A id \in SessionId : session'[id] # NoSession /\ session[id] = NoSession =>
              /\ id = c /\ place = "done"
              /\ Rowed(session'[id].admin, admin')
              /\ session'[id].refreshTokenHash = rawRefreshToken(id),
           \A d \in Call : change'[d] # NoChange /\ change[d] = NoChange =>
              /\ d = c /\ place = "done"
              /\ change'[d].by # change'[d].target /\ Rowed(change'[d].target, admin')
    PROVE  IInv'
  <1> USE DEF IInv
  <1>1. /\ pc' \in [Call -> RolePlace] /\ req' \in [Call -> Locals]
        /\ overlapped' \subseteq Admin
        /\ pc'[c] = place
        /\ place \notin {"refused", "failed"} => req'[c] = l
        /\ \A d \in Call \ {c} : pc'[d] = pc[d] /\ req'[d] = req[d]
    BY CallMoves
  <1>2. Types'
    BY <1>1 DEF Types
  <1>3. Backed'
    <2>1. ASSUME NEW id \in SessionId, session'[id] # NoSession
          PROVE  /\ Rowed(session'[id].admin, admin')
                 /\ session'[id].refreshTokenHash = rawRefreshToken(id)
                 /\ id \in Call => pc'[id] = "done"
      BY <1>1, <2>1 DEF Backed, Grows, Rowed
    <2>2. ASSUME NEW d \in Call, change'[d] # NoChange
          PROVE  /\ pc'[d] = "done"
                 /\ change'[d].by # change'[d].target
                 /\ Rowed(change'[d].target, admin')
      BY <1>1, <2>2 DEF Backed, Grows, Rowed
    <2> QED
      BY <2>1, <2>2 DEF Backed, rawRefreshToken
  <1>4. AllFit'
    <2> SUFFICES ASSUME NEW d \in Call
                 PROVE  Fits(pc'[d], req'[d], admin', session', change')
      BY DEF AllFit
    <2>1. CASE d # c
      <3>1. Fits(pc[d], req[d], admin, session, change)
        BY DEF AllFit
      <3>2. Fits(pc[d], req[d], admin', session', change')
        BY <3>1, FitsGrows
      <3> QED
        BY <1>1, <2>1, <3>2
    <2>2. CASE d = c /\ place \in {"refused", "failed"}
      BY <1>1, <2>2 DEF Fits, SignInPlace, ProposePlace, ReviewPlace
    <2>3. CASE d = c /\ place \notin {"refused", "failed"}
      BY <1>1, <2>3
    <2> QED
      BY <2>1, <2>2, <2>3
  <1> QED
    BY <1>2, <1>3, <1>4

\* A step that writes nothing but its own place and variables.
LEMMA StepThatReads ==
    ASSUME IInv, NEW c \in Call, NEW place \in RolePlace, NEW l \in Locals,
           Begin(c, place, l) \/ Move(c, place, l),
           pc[c] # "done", UNCHANGED <<admin, session, change>>,
           place \notin {"refused", "failed"} => Fits(place, l, admin, session, change)
    PROVE  IInv'
  <1>1. Grows
    BY DEF Grows
  <1>2. IInv
    OBVIOUS
  <1>3. /\ admin' \in [Admin -> Row \cup {NoRow}]
        /\ session' \in [SessionId -> SessionRow \cup {NoSession}]
        /\ change' \in [Call -> ChangeRow \cup {NoChange}]
        /\ place \notin {"refused", "failed"} => Fits(place, l, admin', session', change')
        /\ \A id \in SessionId : ~(session'[id] # NoSession /\ session[id] = NoSession)
        /\ \A d \in Call : ~(change'[d] # NoChange /\ change[d] = NoChange)
    BY DEF IInv, Types
  <1> QED
    BY <1>1, <1>2, <1>3, StepOfCall

\* A step that sets the fields of one row.
LEMMA StepOnRow ==
    ASSUME IInv, NEW c \in Call, NEW place \in RolePlace, NEW l \in Locals,
           Begin(c, place, l) \/ Move(c, place, l),
           pc[c] # "done", UNCHANGED <<session, change>>,
           place \notin {"refused", "failed"} => Fits(place, l, admin, session, change),
           NEW a, NEW r \in Row, admin' = [admin EXCEPT ![a] = r]
    PROVE  IInv'
  <1>1. /\ admin' \in [Admin -> Row \cup {NoRow}]
        /\ \A b \in Admin : admin[b] \in Row => admin'[b] \in Row
    BY DEF IInv, Types
  <1>2. Grows
    BY <1>1 DEF Grows
  <1>3. place \notin {"refused", "failed"} => Fits(place, l, admin', session', change')
    BY <1>2, FitsGrows
  <1>4. /\ session' \in [SessionId -> SessionRow \cup {NoSession}]
        /\ change' \in [Call -> ChangeRow \cup {NoChange}]
        /\ \A id \in SessionId : ~(session'[id] # NoSession /\ session[id] = NoSession)
        /\ \A d \in Call : ~(change'[d] # NoChange /\ change[d] = NoChange)
    BY DEF IInv, Types
  <1> QED
    BY <1>1, <1>2, <1>3, <1>4, StepOfCall

-----------------------------------------------------------------------------
\* A call of the sign-in arrives.
LEMMA SignInArrives ==
    ASSUME IInv, NEW c \in Call, AuthArrive(c), UNCHANGED change
    PROVE  IInv'
  <1> USE DEF IInv, Types
  <1>0. pc[c] = "idle"
    BY DEF AuthArrive
  <1>1. ASSUME NEW a \in Admin, NEW right \in BOOLEAN, login(c, a, right)
        PROVE  IInv'
    <2> DEFINE row == admin[a]
               l == [NoCall EXCEPT !.op = "login", !.by = a, !.account = a,
                         !.right = right, !.failed = row.failed,
                         !.role = row.role, !.enabled = row.enabled]
    <2>1. CASE row.active /\ ~row.locked
      <3>1. row \in Row
        BY <2>1 DEF NoRow
      <3>2. l \in Locals
        BY <3>1 DEF Locals, Op, Row, NoCall
      <3>3. Fits("password", l, admin, session, change)
        BY <3>1 DEF Fits, Rowed, Row, NoCall, SignInPlace, ProposePlace, ReviewPlace
      <3>4. "password" \in RolePlace
        BY DEF RolePlace, Place
      <3>5. Begin(c, "password", l) /\ UNCHANGED <<admin, session>>
        BY <1>1, <2>1 DEF login
      <3> QED
        BY <1>0, <3>2, <3>3, <3>4, <3>5, StepThatReads
    <2>2. CASE ~(row.active /\ ~row.locked)
      <3>1. NoCall \in Locals /\ "refused" \in RolePlace
        BY DEF NoCall, Locals, Op, RolePlace, Place, Ended
      <3>2. Begin(c, "refused", NoCall) /\ UNCHANGED <<admin, session>>
        BY <1>1, <2>2 DEF login
      <3> QED
        BY <1>0, <3>1, <3>2, StepThatReads
    <2> QED
      BY <2>1, <2>2
  <1>2. ASSUME NEW preAuth \in Call, NEW code \in Code, validateTotp(c, preAuth, code)
        PROVE  IInv'
    <2> DEFINE a == req[preAuth].account
               row == admin[a]
               ok == row.active /\ row.enabled /\ row.secret # "none"
               place == IF ~ok THEN "refused"
                        ELSE IF code = totpCodeOf(row.secret) THEN "createSession"
                        ELSE IF code \in row.codes THEN "consume" ELSE "refused"
               l == [NoCall EXCEPT !.op = "validateTotp", !.by = a, !.account = a,
                        !.role = row.role, !.codes = row.codes, !.code = code]
    <2>1. a \in Admin /\ row \in Row
      BY <1>2 DEF validateTotp, AllFit, Fits, SignInPlace, Rowed
    <2>2. l \in Locals
      BY <2>1 DEF Locals, Op, Row, NoCall
    <2>3. place \in {"refused", "createSession", "consume"} /\ place \in RolePlace
      BY DEF RolePlace, Place, Ended
    <2>4. place # "refused" => Fits(place, l, admin, session, change)
      BY <2>1, <2>3 DEF Fits, Rowed, Row, NoCall, SignInPlace, ProposePlace, ReviewPlace
    <2>5. Begin(c, place, l) /\ UNCHANGED <<admin, session>>
      BY <1>2 DEF validateTotp
    <2> HIDE DEF place, l
    <2> QED
      BY <1>0, <2>2, <2>3, <2>4, <2>5, StepThatReads
  <1>3. ASSUME NEW id \in SessionId, refresh(c, id)
        PROVE  IInv'
    <2> DEFINE s == session[id]
               ok == s.refreshTokenHash = refreshToken(id) /\ Authenticated(id)
               place == IF ok THEN "revoke" ELSE "refused"
               l == [NoCall EXCEPT !.op = "refresh", !.by = s.admin, !.account = s.admin,
                        !.session = id, !.role = admin[s.admin].role, !.right = Authenticated(id)]
    <2>1. s # NoSession /\ Rowed(s.admin, admin) /\ s \in SessionRow
      BY <1>3 DEF refresh, Backed
    <2>2. Authenticated(id) \in BOOLEAN
      BY <2>1 DEF Authenticated, SessionRow, Rowed, Row
    <2>3. l \in Locals
      BY <2>1, <2>2 DEF Locals, Op, Row, NoCall, Rowed, SessionRow
    <2>4. place \in {"refused", "revoke"} /\ place \in RolePlace
      BY DEF RolePlace, Place, Ended
    <2>5. place # "refused" => Fits(place, l, admin, session, change)
      BY <2>1, <2>4 DEF Fits, Rowed, Row, NoCall, SignInPlace, ProposePlace, ReviewPlace
    <2>6. Begin(c, place, l) /\ UNCHANGED <<admin, session>>
      BY <1>3 DEF refresh
    <2> HIDE DEF place, l
    <2> QED
      BY <1>0, <2>3, <2>4, <2>5, <2>6, StepThatReads
  <1>4. ASSUME NEW id \in SessionId, NEW code \in Code \cup {<<>>},
               NEW op \in {"revoke", "logoutAll", "initTotpSetup", "confirmTotpSetup",
                           "disableTotp"},
               signedIn(c, id, op, code)
        PROVE  IInv'
    <2> DEFINE a == session[id].admin
               place == IF Authenticated(id) THEN op ELSE "refused"
               l == [NoCall EXCEPT !.op = op, !.by = a, !.account = a,
                                   !.session = id, !.code = code]
    <2>1. session[id] # NoSession /\ Rowed(a, admin)
      BY <1>4 DEF signedIn, Backed
    <2>2. l \in Locals
      BY <2>1 DEF Locals, Op, NoCall, Rowed
    <2>3. place \in RolePlace
      BY DEF RolePlace, Place, Ended
    <2>4. place # "refused" => Fits(place, l, admin, session, change)
      BY <2>1 DEF Fits, NoCall, SignInPlace, ProposePlace, ReviewPlace
    <2>5. Begin(c, place, l) /\ UNCHANGED <<admin, session>>
      BY <1>4 DEF signedIn
    <2> HIDE DEF place, l
    <2> QED
      BY <1>0, <2>2, <2>3, <2>4, <2>5, StepThatReads
  <1>5. \A secret \in Secret : totpCodeOf(secret) \in Code
    BY AdminAssumption DEF totpCodeOf, Code
  <1> QED
    BY <1>1, <1>2, <1>3, <1>4, <1>5 DEF AuthArrive

\* A step that creates or revokes sessions.
LEMMA StepOnSessions ==
    ASSUME IInv, NEW c \in Call, NEW place \in RolePlace, NEW l \in Locals,
           Begin(c, place, l) \/ Move(c, place, l),
           pc[c] # "done", Grows, UNCHANGED change,
           admin' \in [Admin -> Row \cup {NoRow}],
           session' \in [SessionId -> SessionRow \cup {NoSession}],
           place \notin {"refused", "failed"} => Fits(place, l, admin, session, change),
           \A id \in SessionId : session'[id] # NoSession /\ session[id] = NoSession =>
              /\ id = c /\ place = "done"
              /\ Rowed(session'[id].admin, admin)
              /\ session'[id].refreshTokenHash = rawRefreshToken(id)
    PROVE  IInv'
  <1>1. place \notin {"refused", "failed"} => Fits(place, l, admin', session', change')
    BY FitsGrows
  <1>2. \A id \in SessionId : session'[id] # NoSession /\ session[id] = NoSession =>
              /\ id = c /\ place = "done"
              /\ Rowed(session'[id].admin, admin')
              /\ session'[id].refreshTokenHash = rawRefreshToken(id)
    BY DEF Grows, Rowed
  <1>3. /\ change' \in [Call -> ChangeRow \cup {NoChange}]
        /\ \A d \in Call : ~(change'[d] # NoChange /\ change[d] = NoChange)
    BY DEF IInv, Types
  <1> QED
    BY <1>1, <1>2, <1>3, StepOfCall

\* A session row is not the lack of one.
LEMMA SessionRowIsRow == NoSession \notin SessionRow
  BY FirstAdminAssumption DEF NoSession, SessionRow

\* Revoking sessions leaves their owners.
LEMMA RevokeTypes ==
    ASSUME session \in [SessionId -> SessionRow \cup {NoSession}], NEW a \in Admin,
           session' = Revoke(session, a)
    PROVE  /\ session' \in [SessionId -> SessionRow \cup {NoSession}]
           /\ \A id \in SessionId : session'[id] = NoSession <=> session[id] = NoSession
           /\ \A id \in SessionId : session'[id].admin = session[id].admin
           /\ \A id \in SessionId : session'[id].refreshTokenHash = session[id].refreshTokenHash
  <1> SUFFICES ASSUME NEW id \in SessionId
               PROVE  /\ session'[id] \in SessionRow \cup {NoSession}
                      /\ session'[id] = NoSession <=> session[id] = NoSession
                      /\ session'[id].admin = session[id].admin
                      /\ session'[id].refreshTokenHash = session[id].refreshTokenHash
    BY DEF Revoke
  <1>1. session'[id] = IF session[id].admin = a
                       THEN [session[id] EXCEPT !.revoked = TRUE] ELSE session[id]
    BY DEF Revoke
  <1>2. CASE session[id].admin = a
    <2>1. session[id] \in SessionRow
      BY <1>2, FirstAdminAssumption DEF NoSession
    <2>2. session'[id] = [session[id] EXCEPT !.revoked = TRUE]
      BY <1>1, <1>2
    <2>3. /\ session'[id] \in SessionRow
          /\ session'[id].admin = session[id].admin
          /\ session'[id].refreshTokenHash = session[id].refreshTokenHash
      BY <2>1, <2>2 DEF SessionRow
    <2> QED
      BY <2>1, <2>3, SessionRowIsRow
  <1>3. CASE session[id].admin # a
    BY <1>1, <1>3
  <1> QED
    BY <1>2, <1>3

\* A call of the sign-in goes on.
LEMMA SignInProceeds ==
    ASSUME IInv, NEW c \in Call, AuthProceed(c), UNCHANGED change
    PROVE  IInv'
  <1> USE DEF IInv, Types
  <1> DEFINE a == req[c].account
  <1>1. req[c] \in Locals /\ Fits(pc[c], req[c], admin, session, change)
    BY DEF AllFit
  <1>2. {"refused", "failed", "done", "preAuth", "createSession", "enrol"} \subseteq RolePlace
    BY DEF RolePlace, Place, Ended
  <1>3. CASE passwordFails(c)
    <2> DEFINE r == [admin[a] EXCEPT !.failed = req[c].failed + 1,
                                     !.locked = req[c].failed + 1 >= MAX_FAILED_ATTEMPTS]
    <2>1. a \in Admin /\ admin[a] \in Row
      BY <1>1, <1>3 DEF passwordFails, Fits, Rowed, SignInPlace
    <2>2. r \in Row
      <3>1. req[c].failed + 1 \in Nat /\ (req[c].failed + 1 >= MAX_FAILED_ATTEMPTS) \in BOOLEAN
        BY <1>1, AdminAssumption DEF Locals
      <3> QED
        BY <2>1, <3>1 DEF Row
    <2>3. admin' = [admin EXCEPT ![a] = r]
      BY <1>3, <2>1 DEF passwordFails
    <2> QED
      BY <1>1, <1>2, <1>3, <2>2, <2>3, StepOnRow DEF passwordFails
  <1>4. CASE passwordMatches(c)
    <2> DEFINE r == [admin[a] EXCEPT !.failed = 0, !.locked = FALSE]
               place == IF req[c].enabled THEN "preAuth" ELSE "createSession"
    <2>1. a \in Admin /\ admin[a] \in Row /\ req[c].role \in Role
      BY <1>1, <1>4 DEF passwordMatches, Fits, Rowed, SignInPlace
    <2>2. r \in Row
      BY <2>1 DEF Row
    <2>3. admin' = [admin EXCEPT ![a] = r]
      BY <1>4, <2>1 DEF passwordMatches
    <2>4. place \in RolePlace /\ Fits(place, req[c], admin, session, change)
      BY <1>2, <2>1 DEF Fits, Rowed, SignInPlace, ProposePlace, ReviewPlace
    <2>5. Move(c, place, req[c]) /\ pc[c] # "done" /\ UNCHANGED session
      BY <1>4 DEF passwordMatches
    <2> HIDE DEF place
    <2> QED
      BY <1>1, <2>2, <2>3, <2>4, <2>5, StepOnRow
  <1>5. CASE consumeBackupCode(c)
    <2> DEFINE r == [admin[a] EXCEPT !.codes = req[c].codes \ {req[c].code}]
    <2>1. a \in Admin /\ admin[a] \in Row /\ req[c].role \in Role
      BY <1>1, <1>5 DEF consumeBackupCode, Fits, Rowed, SignInPlace
    <2>2. r \in Row
      BY <1>1, <2>1 DEF Row, Locals
    <2>3. admin' = [admin EXCEPT ![a] = r]
      BY <1>5, <2>1 DEF consumeBackupCode
    <2>4. Fits("createSession", req[c], admin, session, change)
      BY <2>1 DEF Fits, Rowed, SignInPlace, ProposePlace, ReviewPlace
    <2> QED
      BY <1>1, <1>2, <1>5, <2>2, <2>3, <2>4, StepOnRow DEF consumeBackupCode
  <1>6. CASE createSession(c)
    <2> DEFINE s == NewSession(c, a, req[c].role)
    <2>1. Rowed(a, admin) /\ req[c].role \in Role
      BY <1>1, <1>6 DEF createSession, Fits, SignInPlace
    <2>2. /\ s \in SessionRow /\ s # NoSession /\ s.admin = a
          /\ s.refreshTokenHash = rawRefreshToken(c)
      BY <2>1 DEF NewSession, SessionRow, Rowed, rawRefreshToken, SessionId, NoSession
    <2>3. session' = [session EXCEPT ![c] = s] /\ UNCHANGED <<admin, change>>
      BY <1>6 DEF createSession
    <2>4. session' \in [SessionId -> SessionRow \cup {NoSession}]
      BY <2>2, <2>3 DEF SessionId
    <2>5. Move(c, "done", req[c]) /\ pc[c] # "done"
      BY <1>6 DEF createSession
    <2>6. Fits("done", req[c], admin, session, change)
      BY DEF Fits, SignInPlace, ProposePlace, ReviewPlace
    <2>7. Grows
      <3>1. session[c] = NoSession
        BY <1>6 DEF createSession, Backed, SessionId
      <3> QED
        BY <2>2, <2>3, <2>4, <3>1 DEF Grows
    <2>8. \A id \in SessionId : session'[id] # NoSession /\ session[id] = NoSession =>
              /\ id = c
              /\ Rowed(session'[id].admin, admin)
              /\ session'[id].refreshTokenHash = rawRefreshToken(id)
      BY <2>1, <2>2, <2>3
    <2> HIDE DEF s
    <2> QED
      BY <1>1, <1>2, <2>3, <2>4, <2>5, <2>6, <2>7, <2>8, StepOnSessions
  <1>7. CASE createSessionFails(c)
    BY <1>1, <1>2, <1>7, StepThatReads DEF createSessionFails
  <1>8. CASE revokeSession(c)
    <2> DEFINE id == req[c].session
               s == [session[id] EXCEPT !.revoked = TRUE]
               place == IF req[c].op = "refresh" THEN "createSession" ELSE "done"
    <2>1. /\ id \in SessionId /\ session[id] \in SessionRow
          /\ Rowed(a, admin)
          /\ req[c].op = "refresh" => req[c].role \in Role
      BY <1>1, <1>8 DEF revokeSession, Fits, SignInPlace
    <2>2. /\ s \in SessionRow /\ s # NoSession /\ s.admin = session[id].admin
          /\ s.refreshTokenHash = session[id].refreshTokenHash
      BY <2>1 DEF SessionRow, NoSession
    <2>3. session' = [session EXCEPT ![id] = s] /\ UNCHANGED <<admin, change>>
      BY <1>8, <2>1 DEF revokeSession
    <2>4. Move(c, place, req[c]) /\ pc[c] # "done"
      BY <1>8 DEF revokeSession
    <2>5. session' \in [SessionId -> SessionRow \cup {NoSession}]
      BY <2>2, <2>3
    <2>6. Grows
      BY <2>1, <2>2, <2>3 DEF Grows
    <2>7. place \in RolePlace /\ Fits(place, req[c], admin, session, change)
      <3>1. CASE req[c].op = "refresh"
        BY <1>2, <2>1, <3>1 DEF Fits, SignInPlace, ProposePlace, ReviewPlace
      <3>2. CASE req[c].op # "refresh"
        BY <1>2, <3>2 DEF Fits, SignInPlace, ProposePlace, ReviewPlace
      <3> QED
        BY <3>1, <3>2
    <2>8. \A i \in SessionId : ~(session'[i] # NoSession /\ session[i] = NoSession)
      BY <2>1, <2>3, SessionRowIsRow
    <2> HIDE DEF s, place
    <2> QED
      BY <1>1, <2>3, <2>4, <2>5, <2>6, <2>7, <2>8, StepOnSessions
  <1>9. CASE logoutAll(c)
    <2>1. a \in Admin
      BY <1>1, <1>9 DEF logoutAll, Fits, SignInPlace, Rowed
    <2>2. /\ session' = Revoke(session, a) /\ UNCHANGED <<admin, change>>
          /\ Move(c, "done", req[c]) /\ pc[c] # "done"
      BY <1>9 DEF logoutAll
    <2>3. Grows /\ session' \in [SessionId -> SessionRow \cup {NoSession}]
          /\ \A id \in SessionId : session'[id] # NoSession => session[id] # NoSession
      BY <2>1, <2>2, RevokeTypes DEF Grows
    <2>4. Fits("done", req[c], admin, session, change)
      BY DEF Fits, SignInPlace, ProposePlace, ReviewPlace
    <2> QED
      BY <1>1, <1>2, <2>2, <2>3, <2>4, StepOnSessions
  <1>10. CASE readEnrolment(c)
    <2> DEFINE row == admin[a]
               l == [req[c] EXCEPT !.secret = row.secret]
    <2>1. Rowed(a, admin)
      BY <1>1, <1>10 DEF readEnrolment, Fits, SignInPlace
    <2>2. l \in Locals /\ l.account = a
      BY <1>1, <2>1 DEF Locals, Rowed, Row
    <2>3. PICK place \in {"enrol", "refused"} : Move(c, place, l)
      BY <1>10 DEF readEnrolment
    <2>4. pc[c] # "done" /\ UNCHANGED <<admin, session>>
      BY <1>10 DEF readEnrolment
    <2>5. place # "refused" => Fits(place, l, admin, session, change)
      BY <2>1, <2>2 DEF Fits, Rowed, SignInPlace, ProposePlace, ReviewPlace
    <2> HIDE DEF l
    <2> QED
      BY <1>2, <2>2, <2>3, <2>4, <2>5, StepThatReads
  <1>11. CASE initTotpSetup(c) \/ confirmTotpSetup(c) \/ disableTotp(c)
    <2>1. a \in Admin /\ admin[a] \in Row
      BY <1>1, <1>11 DEF initTotpSetup, confirmTotpSetup, disableTotp, Fits, Rowed, SignInPlace
    <2>2. Fits("done", req[c], admin, session, change)
      BY DEF Fits, SignInPlace, ProposePlace, ReviewPlace
    <2>3. PICK r \in Row : admin' = [admin EXCEPT ![a] = r]
      <3>1. CASE initTotpSetup(c)
        <4>1. [admin[a] EXCEPT !.secret = c] \in Row
          BY <2>1 DEF Row, Secret
        <4>2. admin' = [admin EXCEPT ![a] = [admin[a] EXCEPT !.secret = c]]
          BY <2>1, <3>1 DEF initTotpSetup
        <4> QED
          BY <4>1, <4>2
      <3>2. CASE confirmTotpSetup(c)
        <4> DEFINE r == [admin[a] EXCEPT !.enabled = TRUE, !.codes = backupCodesOf(c)]
        <4>1. backupCodesOf(c) \subseteq BackupCode
          BY DEF backupCodesOf, BackupCode, Secret
        <4>2. r \in Row
          BY <2>1, <4>1 DEF Row
        <4>3. admin' = [admin EXCEPT ![a] = r]
          BY <2>1, <3>2 DEF confirmTotpSetup
        <4> QED
          BY <4>2, <4>3
      <3>3. CASE disableTotp(c)
        <4> DEFINE r == [admin[a] EXCEPT !.enabled = FALSE, !.secret = "none", !.codes = {}]
        <4>1. r \in Row
          BY <2>1 DEF Row
        <4>2. admin' = [admin EXCEPT ![a] = r]
          BY <2>1, <3>3 DEF disableTotp
        <4> QED
          BY <4>1, <4>2
      <3> QED
        BY <1>11, <3>1, <3>2, <3>3
    <2>4. Move(c, "done", req[c]) /\ pc[c] # "done" /\ UNCHANGED session
      BY <1>11 DEF initTotpSetup, confirmTotpSetup, disableTotp
    <2> QED
      BY <1>1, <1>2, <2>2, <2>3, <2>4, StepOnRow
  <1> QED
    BY <1>3, <1>4, <1>5, <1>6, <1>7, <1>8, <1>9, <1>10, <1>11 DEF AuthProceed

-----------------------------------------------------------------------------
\* A call of the console arrives.
LEMMA ConsoleArrives ==
    ASSUME IInv, NEW c \in Call, Arrive(c)
    PROVE  IInv'
  <1> USE DEF IInv, Types
  <1>0. pc[c] = "idle"
    BY DEF Arrive
  <1>1. ASSUME NEW id \in SessionId, NEW account \in Admin, NEW role \in Role \cup {"none"},
               NEW op \in {"create", "requestRoleChange", "deactivate", "activate",
                           "approve", "reject"},
               NEW ch \in Call \cup {"none"},
               superAdmin(c, id, op, account, role, ch),
               op \in {"create", "requestRoleChange"} => role \in Role,
               op \in {"approve", "reject"} => ch \in Call /\ change[ch] # NoChange
        PROVE  IInv'
    <2> DEFINE a == session[id].admin
               l == [NoCall EXCEPT !.op = op, !.by = a, !.byRole = admin[a].role,
                        !.account = account, !.role = role, !.change = ch]
    <2>1. Rowed(a, admin)
      BY <1>1 DEF superAdmin, Backed
    <2>2. l \in Locals
      BY <2>1 DEF Locals, Op, NoCall, Rowed, Row
    <2>3. Fits(op, l, admin, session, change)
      BY <1>1, <2>1 DEF Fits, NoCall, Rowed, Row, SignInPlace, ProposePlace, ReviewPlace
    <2>4. PICK place \in {op, "refused"} :
             Begin(c, place, l) /\ UNCHANGED <<admin, session, change>>
      BY <1>1 DEF superAdmin
    <2>5. place \in RolePlace
      BY DEF RolePlace, Place, Ended
    <2> HIDE DEF l
    <2> QED
      BY <1>0, <2>2, <2>3, <2>4, <2>5, StepThatReads
  <1>2. \A d \in Call : change[d] # NoChange => change[d].target \in Admin
    BY DEF Backed, Rowed
  <1>3. PICK id \in SessionId :
           \/ \E account \in Admin :
                 \/ \E op \in {"create", "requestRoleChange"}, role \in Role :
                       superAdmin(c, id, op, account, role, "none")
                 \/ \E op \in {"deactivate", "activate"} :
                       superAdmin(c, id, op, account, "none", "none")
           \/ \E d \in Call, op \in {"approve", "reject"} :
                 change[d] # NoChange /\ superAdmin(c, id, op, change[d].target, "none", d)
    BY DEF Arrive
  <1>4. ASSUME NEW account \in Admin, NEW op \in {"create", "requestRoleChange"}, NEW role \in Role,
               superAdmin(c, id, op, account, role, "none")
        PROVE  IInv'
    BY <1>1, <1>4
  <1>5. ASSUME NEW account \in Admin, NEW op \in {"deactivate", "activate"},
               superAdmin(c, id, op, account, "none", "none")
        PROVE  IInv'
    BY <1>1, <1>5
  <1>6. ASSUME NEW d \in Call, NEW op \in {"approve", "reject"}, change[d] # NoChange,
               superAdmin(c, id, op, change[d].target, "none", d)
        PROVE  IInv'
    BY <1>1, <1>2, <1>6
  <1> QED
    BY <1>3, <1>4, <1>5, <1>6

\* A call of the console goes on: what it reads.
LEMMA ConsoleReads ==
    ASSUME IInv, NEW c \in Call,
           \/ findTarget(c) \/ readTarget(c) \/ findPending(c)
           \/ approveRoleChange(c) \/ rejectRoleChange(c) \/ findEmail(c)
    PROVE  IInv'
  <1> USE DEF IInv, Types
  <1> DEFINE a == req[c].account
  <1>1. req[c] \in Locals /\ Fits(pc[c], req[c], admin, session, change)
    BY DEF AllFit
  <1>2. {"refused", "transaction", "target", "pending", "createChange", "apply", "close",
         "insert"} \subseteq RolePlace
    BY DEF RolePlace, Place, Ended
  <1>3. CASE findTarget(c)
    <2>1. a \in Admin /\ req[c].by \in Admin /\ req[c].byRole \in Role
      BY <1>1, <1>3 DEF findTarget, Fits, ProposePlace
    <2>2. PICK place \in {"refused", "transaction", "target"} :
             /\ Move(c, place, req[c])
             /\ place # "refused" => admin[a] # NoRow /\ a # req[c].by
             /\ place = "transaction" => req[c].op = "deactivate"
             /\ place = "target" => req[c].op # "deactivate"
      BY <1>3 DEF findTarget
    <2>3. /\ pc[c] = "requestRoleChange" => req[c].op = "requestRoleChange" /\ req[c].role \in Role
          /\ pc[c] = "deactivate" => req[c].op = "deactivate"
      BY <1>1 DEF Fits, ProposePlace
    <2>4. pc[c] \in {"requestRoleChange", "deactivate"} /\ UNCHANGED <<admin, session, change>>
      BY <1>3 DEF findTarget
    <2>5. place # "refused" => Fits(place, req[c], admin, session, change)
      BY <2>1, <2>2, <2>3, <2>4 DEF Fits, Rowed, SignInPlace, ProposePlace, ReviewPlace
    <2> QED
      BY <1>1, <1>2, <2>2, <2>4, <2>5, StepThatReads
  <1>4. CASE readTarget(c)
    <2> DEFINE l == [req[c] EXCEPT !.from = admin[a].role]
    <2>1. /\ Rowed(a, admin) /\ req[c].by \in Admin /\ req[c].byRole \in Role /\ a # req[c].by
          /\ req[c].op = "requestRoleChange" /\ req[c].role \in Role
      BY <1>1, <1>4 DEF readTarget, Fits, ProposePlace
    <2>2. /\ l \in Locals /\ l.from \in Role
          /\ l.account = a /\ l.by = req[c].by /\ l.byRole = req[c].byRole
          /\ l.op = req[c].op /\ l.role = req[c].role
      BY <1>1, <2>1 DEF Locals, Rowed, Row
    <2>3. PICK place \in {"refused", "pending"} : Move(c, place, l)
      BY <1>4 DEF readTarget
    <2>4. pc[c] # "done" /\ UNCHANGED <<admin, session, change>>
      BY <1>4 DEF readTarget
    <2>5. place # "refused" => Fits(place, l, admin, session, change)
      BY <2>1, <2>2, Zenon DEF Fits, Rowed, SignInPlace, ProposePlace, ReviewPlace
    <2> HIDE DEF l
    <2> QED
      BY <1>2, <2>2, <2>3, <2>4, <2>5, StepThatReads
  <1>5. CASE findPending(c)
    <2>1. PICK place \in {"refused", "createChange"} : Move(c, place, req[c])
      BY <1>5 DEF findPending
    <2>2. pc[c] = "pending" /\ UNCHANGED <<admin, session, change>>
      BY <1>5 DEF findPending
    <2>3. place # "refused" => Fits(place, req[c], admin, session, change)
      BY <1>1, <2>2 DEF Fits, SignInPlace, ProposePlace, ReviewPlace
    <2> QED
      BY <1>1, <1>2, <2>1, <2>2, <2>3, StepThatReads
  <1>6. CASE approveRoleChange(c)
    <2>1. PICK place \in {"refused", "apply"} :
             Move(c, place, req[c]) /\ (place = "apply" => mayApprove(c))
      BY <1>6 DEF approveRoleChange
    <2>2. pc[c] = "approve" /\ UNCHANGED <<admin, session, change>>
      BY <1>6 DEF approveRoleChange
    <2>3. place # "refused" => Fits(place, req[c], admin, session, change)
      BY <1>1, <2>1, <2>2 DEF Fits, mayApprove, SignInPlace, ProposePlace, ReviewPlace
    <2> QED
      BY <1>1, <1>2, <2>1, <2>2, <2>3, StepThatReads
  <1>7. CASE rejectRoleChange(c)
    <2>1. PICK place \in {"refused", "close"} : Move(c, place, req[c])
      BY <1>7 DEF rejectRoleChange
    <2>2. pc[c] = "reject" /\ UNCHANGED <<admin, session, change>>
      BY <1>7 DEF rejectRoleChange
    <2>3. place # "refused" => Fits(place, req[c], admin, session, change)
      BY <1>1, <2>2 DEF Fits, SignInPlace, ProposePlace, ReviewPlace
    <2> QED
      BY <1>1, <1>2, <2>1, <2>2, <2>3, StepThatReads
  <1>8. CASE findEmail(c)
    <2>1. PICK place \in {"refused", "insert"} : Move(c, place, req[c])
      BY <1>8 DEF findEmail
    <2>2. pc[c] = "create" /\ UNCHANGED <<admin, session, change>>
      BY <1>8 DEF findEmail
    <2>3. place # "refused" => Fits(place, req[c], admin, session, change)
      BY <1>1, <2>2 DEF Fits, SignInPlace, ProposePlace, ReviewPlace
    <2> QED
      BY <1>1, <1>2, <2>1, <2>2, <2>3, StepThatReads
  <1> QED
    BY <1>3, <1>4, <1>5, <1>6, <1>7, <1>8

\* A row of a role change is not the lack of one.
LEMMA ChangeRowIsRow == NoChange \notin ChangeRow
  BY FirstAdminAssumption DEF NoChange, ChangeRow

\* What applyChange and closeChange leave of the role changes.
LEMMA DecidedTypes ==
    ASSUME IInv, NEW d \in Call, change[d] # NoChange, NEW by \in Admin,
           NEW status \in {"APPROVED", "REJECTED", "CANCELLED"},
           change' = [change EXCEPT ![d].status = status, ![d].reviewer = by]
    PROVE  /\ change' \in [Call -> ChangeRow \cup {NoChange}]
           /\ \A e \in Call : change'[e] = NoChange <=> change[e] = NoChange
           /\ \A e \in Call : change[e] # NoChange =>
                 change'[e].by = change[e].by /\ change'[e].target = change[e].target
  <1> DEFINE row == [change[d] EXCEPT !.status = status, !.reviewer = by]
  <1>1. change \in [Call -> ChangeRow \cup {NoChange}] /\ change[d] \in ChangeRow
    BY DEF IInv, Types
  <1>2. row \in ChangeRow /\ row.by = change[d].by /\ row.target = change[d].target
    BY <1>1 DEF ChangeRow
  <1>3. change' = [change EXCEPT ![d] = row]
    BY <1>1
  <1>4. row # NoChange
    BY <1>2, ChangeRowIsRow
  <1> HIDE DEF row
  <1> QED
    BY <1>1, <1>2, <1>3, <1>4

\* A call of the console goes on: what it writes.
LEMMA ConsoleWrites ==
    ASSUME IInv, NEW c \in Call,
           \/ createChange(c) \/ applyChange(c) \/ closeChange(c)
           \/ create(c) \/ deactivate(c) \/ activate(c)
    PROVE  IInv'
  <1> USE DEF IInv, Types
  <1> DEFINE a == req[c].account
             d == req[c].change
  <1>1. req[c] \in Locals /\ Fits(pc[c], req[c], admin, session, change)
    BY DEF AllFit
  <1>2. {"done", "refused", "failed"} \subseteq RolePlace
    BY DEF RolePlace, Place, Ended
  <1>a. /\ Fits("done", req[c], admin', session', change')
        /\ Fits("done", req[c], admin, session, change)
    BY DEF Fits, SignInPlace, ProposePlace, ReviewPlace
  <1>3. CASE createChange(c)
    <2> DEFINE row == [target |-> a, from |-> req[c].from, to |-> req[c].role,
                       by |-> req[c].by, status |-> "PENDING", reviewer |-> "none"]
    <2>1. /\ Rowed(a, admin) /\ req[c].by \in Admin /\ a # req[c].by
          /\ req[c].role \in Role /\ req[c].from \in Role
      BY <1>1, <1>3 DEF createChange, Fits, ProposePlace
    <2>2. row \in ChangeRow /\ row.target = a /\ row.by = req[c].by
      BY <2>1 DEF ChangeRow, Rowed
    <2>3. /\ change' = [change EXCEPT ![c] = row] /\ UNCHANGED <<admin, session>>
          /\ Move(c, "done", req[c]) /\ pc[c] # "done"
      BY <1>3 DEF createChange
    <2>4. row # NoChange /\ change[c] = NoChange
      BY <2>2, <2>3, ChangeRowIsRow DEF Backed
    <2> HIDE DEF row
    <2>5. Grows /\ change' \in [Call -> ChangeRow \cup {NoChange}]
      BY <2>2, <2>3, <2>4 DEF Grows
    <2>6. \A e \in Call : change'[e] # NoChange /\ change[e] = NoChange =>
             e = c /\ change'[e].by # change'[e].target /\ Rowed(change'[e].target, admin')
      BY <2>1, <2>2, <2>3 DEF Rowed
    <2>7. /\ admin' \in [Admin -> Row \cup {NoRow}]
          /\ session' \in [SessionId -> SessionRow \cup {NoSession}]
          /\ \A id \in SessionId : ~(session'[id] # NoSession /\ session[id] = NoSession)
      BY <2>3
    <2> QED
      BY <1>1, <1>2, <1>a, <2>3, <2>5, <2>6, <2>7, StepOfCall
  <1>4. CASE applyChange(c)
    <2> DEFINE t == change[d].target
               r == [admin[t] EXCEPT !.role = change[d].to]
    <2>1. d \in Call /\ change[d] # NoChange /\ req[c].by \in Admin
      BY <1>1, <1>4 DEF applyChange, Fits, ReviewPlace
    <2>2. t \in Admin /\ admin[t] \in Row /\ change[d].to \in Role
      BY <2>1 DEF Backed, Rowed, ChangeRow
    <2>3. r \in Row /\ admin' = [admin EXCEPT ![t] = r]
      BY <1>4, <2>2 DEF applyChange, Row
    <2>4. /\ change' = [change EXCEPT ![d].status = "APPROVED", ![d].reviewer = req[c].by]
          /\ session' = Revoke(session, t)
          /\ Move(c, "done", req[c]) /\ pc[c] # "done"
      BY <1>4 DEF applyChange
    <2>5. /\ change' \in [Call -> ChangeRow \cup {NoChange}]
          /\ \A e \in Call : change'[e] = NoChange <=> change[e] = NoChange
          /\ \A e \in Call : change[e] # NoChange =>
                 change'[e].by = change[e].by /\ change'[e].target = change[e].target
      BY <2>1, <2>4, DecidedTypes
    <2>6. /\ session' \in [SessionId -> SessionRow \cup {NoSession}]
          /\ \A id \in SessionId : session'[id] = NoSession <=> session[id] = NoSession
          /\ \A id \in SessionId : session'[id].admin = session[id].admin
          /\ \A id \in SessionId : session'[id].refreshTokenHash = session[id].refreshTokenHash
      BY <2>2, <2>4, RevokeTypes
    <2> HIDE DEF r, t
    <2>7. admin' \in [Admin -> Row \cup {NoRow}] /\ Grows
      BY <2>3, <2>5, <2>6 DEF Grows
    <2> QED
      BY <1>1, <1>2, <1>a, <2>4, <2>5, <2>6, <2>7, StepOfCall
  <1>5. CASE closeChange(c)
    <2>1. d \in Call /\ change[d] # NoChange /\ req[c].by \in Admin
      BY <1>1, <1>5 DEF closeChange, Fits, ReviewPlace
    <2>2. PICK status \in {"REJECTED", "CANCELLED"} :
             change' = [change EXCEPT ![d].status = status, ![d].reviewer = req[c].by]
      BY <1>5 DEF closeChange
    <2>3. UNCHANGED <<admin, session>> /\ Move(c, "done", req[c]) /\ pc[c] # "done"
      BY <1>5 DEF closeChange
    <2>4. /\ change' \in [Call -> ChangeRow \cup {NoChange}]
          /\ \A e \in Call : change'[e] = NoChange <=> change[e] = NoChange
          /\ \A e \in Call : change[e] # NoChange =>
                 change'[e].by = change[e].by /\ change'[e].target = change[e].target
      BY <2>1, <2>2, DecidedTypes
    <2>5. Grows
      BY <2>3, <2>4 DEF Grows
    <2>6. /\ admin' \in [Admin -> Row \cup {NoRow}]
          /\ session' \in [SessionId -> SessionRow \cup {NoSession}]
          /\ \A id \in SessionId : ~(session'[id] # NoSession /\ session[id] = NoSession)
      BY <2>3
    <2> QED
      BY <1>1, <1>2, <1>a, <2>3, <2>4, <2>5, <2>6, StepOfCall
  <1>6. CASE create(c)
    <2>1. a \in Admin /\ req[c].role \in Role
      BY <1>1, <1>6 DEF create, Fits
    <2>2. pc[c] # "done" /\ UNCHANGED <<session, change>>
      BY <1>6 DEF create
    <2>3. CASE admin[a] = NoRow
      <3> DEFINE r == [NoRow EXCEPT !.role = req[c].role, !.active = TRUE]
      <3>1. r \in Row
        BY <2>1 DEF NoRow, Row
      <3>2. admin' = [admin EXCEPT ![a] = r] /\ Move(c, "done", req[c])
        BY <1>6, <2>3 DEF create
      <3> HIDE DEF r
      <3> QED
        BY <1>1, <1>2, <1>a, <2>2, <3>1, <3>2, StepOnRow
    <2>4. CASE admin[a] # NoRow
      BY <1>1, <1>2, <1>6, <2>2, <2>4, StepThatReads DEF create
    <2> QED
      BY <2>3, <2>4
  <1>7. CASE deactivate(c)
    <2> DEFINE r == [admin[a] EXCEPT !.active = FALSE]
    <2>1. a \in Admin /\ admin[a] \in Row
      BY <1>1, <1>7 DEF deactivate, Fits, Rowed
    <2>2. r \in Row /\ admin' = [admin EXCEPT ![a] = r]
      BY <1>7, <2>1 DEF deactivate, Row
    <2>3. /\ session' = Revoke(session, a) /\ UNCHANGED change
          /\ Move(c, "done", req[c]) /\ pc[c] # "done"
      BY <1>7 DEF deactivate
    <2>4. /\ session' \in [SessionId -> SessionRow \cup {NoSession}]
          /\ \A id \in SessionId : session'[id] = NoSession <=> session[id] = NoSession
          /\ \A id \in SessionId : session'[id].admin = session[id].admin
          /\ \A id \in SessionId : session'[id].refreshTokenHash = session[id].refreshTokenHash
      BY <2>1, <2>3, RevokeTypes
    <2> HIDE DEF r
    <2>5. admin' \in [Admin -> Row \cup {NoRow}] /\ Grows
      BY <2>2, <2>3, <2>4 DEF Grows
    <2> QED
      BY <1>1, <1>2, <1>a, <2>3, <2>4, <2>5, StepOnSessions
  <1>8. CASE activate(c)
    <2>1. a \in Admin
      BY <1>1, <1>8 DEF activate, Fits
    <2>2. pc[c] # "done" /\ UNCHANGED <<session, change>>
      BY <1>8 DEF activate
    <2>3. CASE admin[a] # NoRow
      <3> DEFINE r == [admin[a] EXCEPT !.active = TRUE]
      <3>1. r \in Row
        BY <2>1, <2>3 DEF Row
      <3>2. admin' = [admin EXCEPT ![a] = r] /\ Move(c, "done", req[c])
        BY <1>8, <2>1, <2>3 DEF activate
      <3> HIDE DEF r
      <3> QED
        BY <1>1, <1>2, <1>a, <2>2, <3>1, <3>2, StepOnRow
    <2>4. CASE admin[a] = NoRow
      BY <1>1, <1>2, <1>8, <2>2, <2>4, StepThatReads DEF activate
    <2> QED
      BY <2>3, <2>4
  <1> QED
    BY <1>3, <1>4, <1>5, <1>6, <1>7, <1>8

-----------------------------------------------------------------------------
\* The console starts sound: nothing is under way.
LEMMA InitSound == RolesInit => IInv
  <1> SUFFICES ASSUME RolesInit PROVE IInv
    OBVIOUS
  <1> USE DEF RolesInit, Init
  <1>1. NoCall \in Locals /\ {"idle"} \subseteq RolePlace
    BY DEF NoCall, Locals, Op, RolePlace, Place, Ended
  <1>2. ASSUME NEW a \in Admin, InitialAdmin[a].active
        PROVE  /\ NewSession(a, a, InitialAdmin[a].role) \in SessionRow
               /\ InitialAdmin[a] \in Row
    <2>1. InitialAdmin[a] \in Row
      BY <1>2, FirstAdminAssumption DEF NoRow
    <2> QED
      BY <2>1 DEF NewSession, SessionRow, Row, rawRefreshToken, SessionId
  <1>3. session \in [SessionId -> SessionRow \cup {NoSession}]
    BY <1>2
  <1>4. Types
    BY <1>1, <1>3, FirstAdminAssumption DEF Types
  <1>5. Backed
    <2>1. ASSUME NEW id \in SessionId, session[id] # NoSession
          PROVE  /\ Rowed(session[id].admin, admin)
                 /\ session[id].refreshTokenHash = rawRefreshToken(id)
                 /\ id \in Call => pc[id] = "done"
      <3>1. /\ id \in Admin /\ InitialAdmin[id].active
            /\ session[id] = NewSession(id, id, InitialAdmin[id].role)
        BY <2>1
      <3> QED
        BY <1>2, <3>1, FirstAdminAssumption DEF NewSession, Rowed
    <2> QED
      BY <2>1 DEF Backed
  <1>6. AllFit
    BY DEF AllFit, Fits, SignInPlace, ProposePlace, ReviewPlace
  <1> QED
    BY <1>4, <1>5, <1>6 DEF IInv

\* A lock expires.
LEMMA LockLifts ==
    ASSUME IInv, NEW a \in Admin, lockExpires(a), UNCHANGED change
    PROVE  IInv'
  <1> DEFINE r == [admin[a] EXCEPT !.locked = FALSE]
  <1>1. admin[a] \in Row
    BY DEF IInv, Types, lockExpires, NoRow
  <1>2. r \in Row /\ admin' = [admin EXCEPT ![a] = r]
    BY <1>1 DEF IInv, Types, lockExpires, Row
  <1>3. UNCHANGED <<session, pc, req, overlapped, change>>
    BY DEF lockExpires
  <1> HIDE DEF r
  <1>4. /\ admin' \in [Admin -> Row \cup {NoRow}]
        /\ \A b \in Admin : admin[b] \in Row => admin'[b] \in Row
    BY <1>2 DEF IInv, Types
  <1>5. Grows
    BY <1>3, <1>4 DEF Grows
  <1>6. Types'
    BY <1>3, <1>4 DEF IInv, Types
  <1>7. Backed'
    BY <1>3, <1>4 DEF IInv, Backed, Rowed, rawRefreshToken
  <1>8. AllFit'
    <2> SUFFICES ASSUME NEW c \in Call PROVE Fits(pc[c], req[c], admin', session', change')
      BY <1>3 DEF AllFit
    <2> QED
      BY <1>5, FitsGrows DEF IInv, AllFit
  <1> QED
    BY <1>6, <1>7, <1>8 DEF IInv

\* Every step of the console keeps the invariant.
LEMMA StepKeeps == IInv /\ [Next]_vars => IInv'
  <1> SUFFICES ASSUME IInv, [Next]_vars PROVE IInv'
    OBVIOUS
  <1>1. CASE AuthNext /\ UNCHANGED change
    BY <1>1, SignInArrives, SignInProceeds, LockLifts DEF AuthNext
  <1>2. CASE \E c \in Call : Arrive(c)
    BY <1>2, ConsoleArrives
  <1>3. CASE \E c \in Call : Proceed(c)
    BY <1>3, ConsoleReads, ConsoleWrites DEF Proceed
  <1>4. CASE UNCHANGED vars
    BY <1>4 DEF vars, authVars, IInv, Types, Backed, AllFit, Rowed, rawRefreshToken, Fits
  <1> QED
    BY <1>1, <1>2, <1>3, <1>4 DEF Next

\* In every behaviour the rows, the calls and what each relies on are sound.
THEOREM ConsoleIsSound == Spec => []IInv
  BY InitSound, StepKeeps, PTL DEF Spec

\* In every behaviour every variable has its type, and the sessions and role changes that
\* AdminJwtGuard and approveRoleChange look up refer to accounts that exist.
THEOREM RolesTypeCorrect == Spec => []TypeOK
  <1>1. IInv => TypeOK
    <2> SUFFICES ASSUME IInv PROVE TypeOK
      OBVIOUS
    <2> USE DEF IInv, Types
    <2>1. ASSUME NEW id \in SessionId, session[id] # NoSession
          PROVE  /\ session[id].admin \in Admin /\ session[id].tokenRole \in Role
                 /\ session[id].refreshTokenHash = rawRefreshToken(id)
      BY <2>1 DEF Backed, SessionRow
    <2>2. ASSUME NEW d \in Call, change[d] # NoChange
          PROVE  /\ change[d].target \in Admin /\ change[d].by \in Admin
                 /\ {change[d].from, change[d].to} \subseteq Role
                 /\ change[d].status \in {"PENDING", "APPROVED", "REJECTED", "CANCELLED"}
      BY <2>2 DEF ChangeRow
    <2> QED
      BY <2>1, <2>2 DEF TypeOK, AuthTypeOK
  <1> QED
    BY <1>1, ConsoleIsSound, PTL

-----------------------------------------------------------------------------
\* The places of a call that has checked its target.
Held == {"target", "pending", "createChange", "transaction"}

\* A step that makes no call check its target, and touches no role and no active flag.
Spares ==
    /\ \A a \in Admin : admin'[a].role = admin[a].role /\ admin'[a].active = admin[a].active
    /\ \A d \in Call : pc'[d] \in Held => pc[d] \in Held /\ req'[d].account = req[d].account

\* A call that goes to a place outside Held leaves what others hold alone.
LEMMA HeldByNobodyElse ==
    ASSUME IInv, NEW c \in Call, NEW place, place \notin Held, NEW l,
           Begin(c, place, l) \/ Move(c, place, l)
    PROVE  \A d \in Call : pc'[d] \in Held => pc[d] \in Held /\ req'[d].account = req[d].account
  <1>1. pc' = [pc EXCEPT ![c] = place] /\ req' = [req EXCEPT ![c] = localsAt(place, l)]
    BY DEF Begin, Move
  <1> QED
    BY <1>1 DEF IInv, Types

\* The sign-in changes nobody's role and deactivates nobody.
LEMMA SignInSpares == ASSUME IInv, AuthNext PROVE Spares
  <1> USE DEF Held
  <1>1. \A a \in Admin : admin[a] \in Row \cup {NoRow}
    BY DEF IInv, Types
  <1>2. ASSUME NEW a \in Admin, lockExpires(a)
        PROVE  Spares
    BY <1>1, <1>2 DEF lockExpires, Spares, IInv, Types, Row, NoRow
  <1>3. ASSUME NEW c \in Call, AuthArrive(c)
        PROVE  Spares
    <2>1. ASSUME NEW place, place \notin Held, NEW l, Begin(c, place, l), UNCHANGED admin
          PROVE  Spares
      BY <2>1, HeldByNobodyElse DEF Spares
    <2> HIDE DEF Held
    <2>2. \A place : place \in {"password", "refused", "createSession", "consume", "revoke",
             "logoutAll", "initTotpSetup", "confirmTotpSetup", "disableTotp"} => place \notin Held
      BY DEF Held
    <2>3. ASSUME NEW a \in Admin, NEW right \in BOOLEAN, login(c, a, right)
          PROVE  Spares
      BY <2>1, <2>2, <2>3 DEF login
    <2>4. ASSUME NEW preAuth \in Call, NEW code \in Code, validateTotp(c, preAuth, code)
          PROVE  Spares
      <3>1. PICK place \in {"refused", "createSession", "consume"} : \E l : Begin(c, place, l)
        BY <2>4 DEF validateTotp
      <3> QED
        BY <2>1, <2>2, <2>4, <3>1 DEF validateTotp
    <2>5. ASSUME NEW id \in SessionId, refresh(c, id)
          PROVE  Spares
      <3>1. PICK place \in {"refused", "revoke"} : \E l : Begin(c, place, l)
        BY <2>5 DEF refresh
      <3> QED
        BY <2>1, <2>2, <2>5, <3>1 DEF refresh
    <2>6. ASSUME NEW id \in SessionId, NEW code,
                 NEW op \in {"revoke", "logoutAll", "initTotpSetup", "confirmTotpSetup",
                             "disableTotp"},
                 signedIn(c, id, op, code)
          PROVE  Spares
      <3>1. PICK place \in {"refused", op} : \E l : Begin(c, place, l)
        BY <2>6 DEF signedIn
      <3> QED
        BY <2>1, <2>2, <2>6, <3>1 DEF signedIn
    <2> QED
      BY <1>3, <2>3, <2>4, <2>5, <2>6 DEF AuthArrive
  <1>4. ASSUME NEW c \in Call, AuthProceed(c)
        PROVE  Spares
    <2>1. \A a \in Admin : admin'[a].role = admin[a].role /\ admin'[a].active = admin[a].active
      <3>1. CASE passwordFails(c) \/ passwordMatches(c)
        BY <1>1, <3>1 DEF passwordFails, passwordMatches, IInv, Types, Row, NoRow
      <3>2. CASE consumeBackupCode(c)
        BY <1>1, <3>2 DEF consumeBackupCode, IInv, Types, Row, NoRow
      <3>3. CASE initTotpSetup(c) \/ confirmTotpSetup(c) \/ disableTotp(c)
        BY <1>1, <3>3 DEF initTotpSetup, confirmTotpSetup, disableTotp, IInv, Types, Row, NoRow
      <3>4. CASE UNCHANGED admin
        BY <3>4
      <3> QED
        BY <1>4, <3>1, <3>2, <3>3, <3>4
           DEF AuthProceed, createSession, createSessionFails, revokeSession, logoutAll,
               readEnrolment
    <2>2. PICK place \in {"refused", "preAuth", "createSession", "done", "failed", "enrol"} :
             \E l : Move(c, place, l)
      BY <1>4 DEF AuthProceed, passwordFails, passwordMatches, consumeBackupCode, createSession,
                  createSessionFails, revokeSession, logoutAll, readEnrolment, initTotpSetup,
                  confirmTotpSetup, disableTotp
    <2> QED
      BY <2>1, <2>2, HeldByNobodyElse DEF Spares
  <1> QED
    BY <1>2, <1>3, <1>4 DEF AuthNext

\* Three administrators who differ are three.
LEMMA ThreeApart ==
    ASSUME NEW x, NEW y, NEW z, x # y, x # z, y # z
    PROVE  Cardinality({x, y, z}) = 3
  <1>1. IsFiniteSet({z}) /\ Cardinality({z}) = 1
    BY FS_Singleton
  <1>2. y \notin {z}
    OBVIOUS
  <1>3. IsFiniteSet({z} \cup {y}) /\ Cardinality({z} \cup {y}) = 2
    <2>1. Cardinality({z} \cup {y}) = Cardinality({z}) + 1 /\ IsFiniteSet({z} \cup {y})
      BY <1>1, <1>2, FS_AddElement, Zenon
    <2> QED
      BY <1>1, <2>1
  <1>4. x \notin {z} \cup {y}
    OBVIOUS
  <1>5. Cardinality(({z} \cup {y}) \cup {x}) = Cardinality({z} \cup {y}) + 1
    BY <1>3, <1>4, FS_AddElement, Zenon
  <1>6. ({z} \cup {y}) \cup {x} = {x, y, z}
    OBVIOUS
  <1> QED
    BY <1>3, <1>5, <1>6

\* Four eyes, in one step.
LEMMA StepTakesThree ==
    ASSUME IInv, [Next]_vars, NEW a \in Admin, admin'[a].role # admin[a].role, admin[a] # NoRow
    PROVE  \E d \in Call : /\ change'[d].status = "APPROVED"
                           /\ change'[d].target = a /\ change'[d].to = admin'[a].role
                           /\ Cardinality({a, change'[d].by, change'[d].reviewer}) = 3
  <1> USE DEF IInv, Types
  <1>1. PICK c \in Call : applyChange(c)
    <2>1. ~AuthNext
      BY SignInSpares DEF Spares
    <2>2. admin' # admin
      OBVIOUS
    <2>3. ASSUME NEW c \in Call, Arrive(c)
          PROVE  FALSE
      BY <2>2, <2>3 DEF Arrive, superAdmin
    <2>4. ASSUME NEW c \in Call, create(c) \/ deactivate(c) \/ activate(c)
          PROVE  FALSE
      <3>1. admin[a] \in Row
        OBVIOUS
      <3>2. CASE create(c)
        BY <3>1, <3>2 DEF create
      <3>3. CASE deactivate(c) \/ activate(c)
        BY <3>1, <3>3 DEF deactivate, activate, Row
      <3> QED
        BY <2>4, <3>2, <3>3
    <2> QED
      BY <2>1, <2>2, <2>3, <2>4
         DEF Next, Proceed, findTarget, readTarget, findPending, createChange, approveRoleChange,
             rejectRoleChange, closeChange, findEmail, vars, authVars
  <1> DEFINE d == req[c].change
             t == change[d].target
  <1>2. /\ d \in Call /\ change[d] # NoChange /\ req[c].by \in Admin
        /\ req[c].by # change[d].by /\ req[c].by # t
    BY <1>1 DEF applyChange, AllFit, Fits, ReviewPlace
  <1>3. /\ t \in Admin /\ admin[t] \in Row /\ change[d] \in ChangeRow
        /\ change[d].by # t
    BY <1>2 DEF Backed, Rowed
  <1>4. admin' = [admin EXCEPT ![t] = [admin[t] EXCEPT !.role = change[d].to]]
    BY <1>1, <1>3 DEF applyChange
  <1>5. a = t /\ admin'[a].role = change[d].to
    BY <1>3, <1>4 DEF Row
  <1>6. /\ change'[d].status = "APPROVED" /\ change'[d].reviewer = req[c].by
        /\ change'[d].target = t /\ change'[d].to = change[d].to /\ change'[d].by = change[d].by
    BY <1>1, <1>2, <1>3 DEF applyChange, ChangeRow
  <1>7. a # change'[d].by /\ a # change'[d].reviewer /\ change'[d].by # change'[d].reviewer
    BY <1>2, <1>3, <1>5, <1>6
  <1>8. Cardinality({a, change'[d].by, change'[d].reviewer}) = 3
    BY <1>7, ThreeApart
  <1> QED
    BY <1>2, <1>5, <1>6, <1>8

\* In every behaviour a role changes only as an approved request asked, and its subject, its
\* requester and its approver are three administrators (AdminUsersService.approveRoleChange).
THEOREM RoleChangesTakeThree == Spec => FourEyes
  <1>1. IInv /\ [Next]_vars =>
          [\A a \in Admin : admin'[a].role # admin[a].role /\ admin[a] # NoRow =>
              \E d \in Call : /\ change'[d].status = "APPROVED"
                              /\ change'[d].target = a /\ change'[d].to = admin'[a].role
                              /\ Cardinality({a, change'[d].by, change'[d].reviewer}) = 3]_vars
    BY StepTakesThree
  <1> QED
    BY <1>1, ConsoleIsSound, PTL DEF Spec, FourEyes

-----------------------------------------------------------------------------
\* The administrator b is an active Super Admin, and no request and no call that has
\* checked its target is about b.
Stays(b) ==
    /\ admin[b].active /\ admin[b].role = "SUPER_ADMIN"
    /\ \A d \in Call : change[d].target # b
    /\ \A d \in Call : pc[d] \in Held => req[d].account # b

\* A Super Admin who is the target of nothing stays one: assertCanManage turns away
\* every call about an equal, and nobody ranks above.
LEMMA SuperAdminStays ==
    ASSUME IInv, [Next]_vars, NEW b \in Admin, Stays(b)
    PROVE  Stays(b)'
  <1> USE DEF IInv, Types
  <1>1. admin[b] \in Row
    BY DEF Stays, NoRow
  <1>2. ASSUME NEW c \in Call, NEW place, NEW l, Begin(c, place, l) \/ Move(c, place, l),
               place \in Held => l.account # b
        PROVE  \A d \in Call : pc'[d] \in Held => req'[d].account # b
    <2>1. pc' = [pc EXCEPT ![c] = place] /\ req' = [req EXCEPT ![c] = localsAt(place, l)]
      BY <1>2 DEF Begin, Move
    <2>2. place \in Held => localsAt(place, l) = l
      BY DEF localsAt, Held
    <2> QED
      BY <1>2, <2>1, <2>2 DEF Stays
  <1>3. CASE AuthNext /\ UNCHANGED change
    BY <1>3, SignInSpares DEF Spares, Stays
  <1>4. ASSUME NEW c \in Call, Arrive(c)
        PROVE  Stays(b)'
    <2>1. UNCHANGED <<admin, change>>
      BY <1>4 DEF Arrive, superAdmin
    <2>2. PICK place \in {"refused", "create", "requestRoleChange", "deactivate", "activate",
                          "approve", "reject"} : \E l : Begin(c, place, l)
      BY <1>4 DEF Arrive, superAdmin
    <2>3. place \notin Held
      BY <2>2 DEF Held
    <2> QED
      BY <1>2, <2>1, <2>2, <2>3 DEF Stays
  <1>5. ASSUME NEW c \in Call, Proceed(c)
        PROVE  Stays(b)'
    <2> DEFINE a == req[c].account
    <2>1. Fits(pc[c], req[c], admin, session, change)
      BY DEF AllFit
    <2>2. CASE findTarget(c)
      <3>1. PICK place \in {"refused", "transaction", "target"} :
               /\ Move(c, place, req[c])
               /\ place # "refused" => assertCanManage(req[c].byRole, admin[a].role)
        BY <2>2 DEF findTarget
      <3>2. req[c].byRole \in Role /\ UNCHANGED <<admin, change>>
        BY <2>1, <2>2 DEF findTarget, Fits, ProposePlace
      <3>3. ~assertCanManage(req[c].byRole, "SUPER_ADMIN")
        BY <3>2 DEF assertCanManage, ROLE_RANK, Role
      <3>4. place \in Held => a # b
        BY <3>1, <3>3 DEF Stays, Held
      <3> QED
        BY <1>2, <3>1, <3>2, <3>4 DEF Stays
    <2>3. CASE readTarget(c)
      <3> DEFINE l == [req[c] EXCEPT !.from = admin[a].role]
      <3>1. PICK place : Move(c, place, l)
        BY <2>3 DEF readTarget
      <3>2. l.account = a /\ a # b
        BY <2>3 DEF readTarget, Locals, Stays, Held
      <3> QED
        BY <1>2, <2>3, <3>1, <3>2 DEF readTarget, Stays
    <2>4. CASE findPending(c)
      <3>1. PICK place : Move(c, place, req[c])
        BY <2>4 DEF findPending
      <3>2. a # b
        BY <2>4 DEF findPending, Stays, Held
      <3> QED
        BY <1>2, <2>4, <3>1, <3>2 DEF findPending, Stays
    <2>5. CASE createChange(c)
      <3>1. a # b
        BY <2>5 DEF createChange, Stays, Held
      <3>2. Move(c, "done", req[c]) /\ UNCHANGED admin
        BY <2>5 DEF createChange
      <3>3. \A d \in Call : change'[d].target # b
        BY <2>5, <3>1 DEF createChange, Stays
      <3> QED
        BY <1>2, <3>2, <3>3 DEF Stays, Held
    <2>6. CASE approveRoleChange(c) \/ rejectRoleChange(c) \/ findEmail(c)
      <3>1. PICK place \in {"apply", "close", "insert", "refused"} : Move(c, place, req[c])
        BY <2>6 DEF approveRoleChange, rejectRoleChange, findEmail
      <3>2. place \notin Held
        BY DEF Held
      <3> QED
        BY <1>2, <2>6, <3>1, <3>2 DEF approveRoleChange, rejectRoleChange, findEmail, Stays
    <2>7. CASE applyChange(c) \/ closeChange(c)
      <3>1. req[c].change \in Call /\ change[req[c].change] # NoChange
        BY <2>1, <2>7 DEF applyChange, closeChange, Fits, ReviewPlace
      <3>2. \A d \in Call : change'[d].target = change[d].target
        BY <2>7, <3>1 DEF applyChange, closeChange, ChangeRow
      <3>3. Move(c, "done", req[c])
        BY <2>7 DEF applyChange, closeChange
      <3>4. admin'[b] = admin[b]
        BY <2>7, <3>1 DEF applyChange, closeChange, Stays
      <3> QED
        BY <1>2, <3>2, <3>3, <3>4 DEF Stays, Held
    <2>8. CASE create(c) \/ activate(c)
      <3>1. PICK place \in {"done", "failed", "refused"} : Move(c, place, req[c])
        BY <2>8 DEF create, activate
      <3>2. admin'[b].active /\ admin'[b].role = admin[b].role /\ UNCHANGED change
        <4>1. CASE create(c)
          BY <4>1 DEF create, Stays, NoRow
        <4>2. CASE activate(c)
          BY <1>1, <4>2 DEF activate, Stays, Row
        <4> QED
          BY <2>8, <4>1, <4>2
      <3> QED
        BY <1>2, <3>1, <3>2 DEF Stays, Held
    <2>9. CASE deactivate(c)
      <3>1. a # b
        BY <2>9 DEF deactivate, Stays, Held
      <3>2. Move(c, "done", req[c]) /\ admin'[b] = admin[b] /\ UNCHANGED change
        BY <2>9, <3>1 DEF deactivate
      <3> QED
        BY <1>2, <3>2 DEF Stays, Held
    <2> QED
      BY <1>5, <2>2, <2>3, <2>4, <2>5, <2>6, <2>7, <2>8, <2>9 DEF Proceed
  <1>6. CASE UNCHANGED vars
    BY <1>6 DEF vars, authVars, Stays
  <1> QED
    BY <1>3, <1>4, <1>5, <1>6 DEF Next

\* In every behaviour an active Super Admin remains, whatever calls of the console race
\* (assertCanManage in AdminUsersController).
THEOREM ASuperAdminRemains == Spec => []SuperAdminRemains
  <1> SUFFICES ASSUME NEW b \in Admin, InitialAdmin[b].active,
                      InitialAdmin[b].role = "SUPER_ADMIN"
               PROVE  Spec => []SuperAdminRemains
    BY FirstAdminAssumption
  <1>1. RolesInit => Stays(b)
    BY FirstAdminAssumption DEF RolesInit, Init, Stays, Held, NoChange
  <1>2. IInv /\ Stays(b) /\ [Next]_vars => Stays(b)'
    BY SuperAdminStays
  <1>3. Stays(b) => SuperAdminRemains
    BY DEF Stays, SuperAdminRemains
  <1> QED
    BY <1>1, <1>2, <1>3, ConsoleIsSound, PTL DEF Spec
-----------------------------------------------------------------------------
(***************************************************************************)
(* Credentials, sessions and decisions.  They rest on which operation a    *)
(* call at a place performs (Performs), on calls about one account being   *)
(* one at a time unless the account is overlapped (Exclusive), and on what *)
(* a call that is alone has read and still finds when it writes (Alone).   *)
(***************************************************************************)
EnrolPlace == {"initTotpSetup", "confirmTotpSetup", "disableTotp"}

\* The operation of a call at a place, and the rows it names.
Performs(place, l, ses, chg) ==
    /\ place \in {"password", "preAuth"} => l.op = "login"
    /\ place = "consume" => l.op = "validateTotp" /\ l.code \in l.codes
    /\ place = "createSession" => l.op \in {"login", "validateTotp", "refresh"}
    /\ place = "revoke" => l.op \in {"refresh", "revoke"} /\ ses[l.session].admin = l.account
    /\ place = "logoutAll" => l.op = "logoutAll"
    /\ place \in EnrolPlace => l.op = place
    /\ place = "enrol" => l.op \in EnrolPlace
    /\ place = "confirmTotpSetup" => \E secret \in Secret : l.code = totpCodeOf(secret)
    /\ place \in {"create", "insert"} => l.op = "create"
    /\ place = "activate" => l.op = "activate"
    /\ place \in {"approve", "apply"} => l.op = "approve"
    /\ place \in {"reject", "close"} => l.op = "reject"
    /\ place \in ReviewPlace => chg[l.change].target = l.account
    /\ place = "done" /\ l.op \in {"approve", "reject"} =>
          /\ l.change \in Call /\ chg[l.change] # NoChange
          /\ chg[l.change].target = l.account /\ chg[l.change].status # "PENDING"
    /\ place \notin Ended => l.account \in Admin

\* What a call that nobody overlaps has read of its account, and still finds.
Alone(place, l, rows, chg) ==
    /\ place \in {"password", "consume", "createSession"} \/ (place = "revoke" /\ l.op = "refresh")
          => rows[l.account].active /\ l.role = rows[l.account].role
    /\ place = "consume" => l.codes = rows[l.account].codes
    /\ place = "enrol" /\ l.op = "initTotpSetup" => ~rows[l.account].enabled
    /\ place = "enrol" /\ l.op = "confirmTotpSetup" =>
          l.secret = rows[l.account].secret /\ l.secret # "none"
    /\ place = "createChange" =>
          \A d \in Call : chg[d].target = l.account => chg[d].status # "PENDING"
    /\ place \in {"apply", "close"} => chg[l.change].status = "PENDING"

AllPerform == \A c \in Call : Performs(pc[c], req[c], session, change)

Exclusive == \A c, d \in Call :
    c # d /\ pc[c] \notin Ended /\ pc[d] \notin Ended /\ req[c].account = req[d].account
    => req[c].account \in overlapped

AllAlone == \A c \in Call :
    req[c].account \in overlapped \/ Alone(pc[c], req[c], admin, change)

\* A call arrives at a place with what it has read.
Arrives(c, place, l) ==
    /\ pc[c] = "idle"
    /\ Begin(c, place, l)
    /\ UNCHANGED <<admin, session, change>>
    /\ place \in {"refused", "password", "createSession", "consume", "revoke", "logoutAll",
                  "create", "requestRoleChange", "deactivate", "activate", "approve", "reject"}
                 \cup EnrolPlace
    /\ place # "refused" => Performs(place, l, session, change) /\ Alone(place, l, admin, change)
    /\ place = "password" => l.failed = admin[l.account].failed
    /\ place = "createSession" => l.code \notin BackupCode

\* Every arrival is one of these.
LEMMA CallArrives ==
    ASSUME IInv, NEW c \in Call, (AuthArrive(c) /\ UNCHANGED change) \/ Arrive(c)
    PROVE  \E place \in RolePlace, l \in Locals : Arrives(c, place, l)
  <1> USE DEF IInv, Types
  <1> DEFINE Goal == \E place \in RolePlace, l \in Locals : Arrives(c, place, l)
  <1>0. pc[c] = "idle"
    BY DEF AuthArrive, Arrive
  <1>a. NoCall \in Locals
    BY DEF NoCall, Locals, Op
  <1>1. ASSUME NEW a \in Admin, NEW right \in BOOLEAN, login(c, a, right), UNCHANGED change
        PROVE  Goal
    <2> DEFINE row == admin[a]
               l == [NoCall EXCEPT !.op = "login", !.by = a, !.account = a,
                         !.right = right, !.failed = row.failed,
                         !.role = row.role, !.enabled = row.enabled]
    <2>1. CASE row.active /\ ~row.locked
      <3>1. row \in Row
        BY <2>1 DEF NoRow
      <3>2. l \in Locals
        BY <3>1 DEF Locals, Op, Row, NoCall
      <3>3. /\ Performs("password", l, session, change) /\ Alone("password", l, admin, change)
            /\ l.failed = admin[l.account].failed
        BY <2>1, <3>1 DEF Performs, Alone, EnrolPlace, Row, NoCall, ReviewPlace
      <3>4. "password" \in RolePlace
        BY DEF RolePlace, Place
      <3>5. Begin(c, "password", l) /\ UNCHANGED <<admin, session>>
        BY <1>1, <2>1 DEF login
      <3> HIDE DEF l
      <3> QED
        BY <1>0, <1>1, <3>2, <3>3, <3>4, <3>5 DEF Arrives
    <2>2. CASE ~(row.active /\ ~row.locked)
      <3>1. "refused" \in RolePlace
        BY DEF RolePlace, Place, Ended
      <3>2. Begin(c, "refused", NoCall) /\ UNCHANGED <<admin, session>>
        BY <1>1, <2>2 DEF login
      <3> QED
        BY <1>0, <1>1, <1>a, <3>1, <3>2 DEF Arrives
    <2> QED
      BY <2>1, <2>2
  <1>2. ASSUME NEW preAuth \in Call, NEW code \in Code, validateTotp(c, preAuth, code),
               UNCHANGED change
        PROVE  Goal
    <2> DEFINE a == req[preAuth].account
               row == admin[a]
               ok == row.active /\ row.enabled /\ row.secret # "none"
               place == IF ~ok THEN "refused"
                        ELSE IF code = totpCodeOf(row.secret) THEN "createSession"
                        ELSE IF code \in row.codes THEN "consume" ELSE "refused"
               l == [NoCall EXCEPT !.op = "validateTotp", !.by = a, !.account = a,
                        !.role = row.role, !.codes = row.codes, !.code = code]
    <2>1. a \in Admin /\ row \in Row
      BY <1>2 DEF validateTotp, AllFit, Fits, SignInPlace, Rowed
    <2>2. l \in Locals
      BY <2>1 DEF Locals, Op, Row, NoCall
    <2>3. place \in {"refused", "createSession", "consume"} /\ place \in RolePlace
      BY DEF RolePlace, Place, Ended
    <2>4. place # "refused" => Performs(place, l, session, change) /\ Alone(place, l, admin, change)
      BY <2>1, <2>3 DEF Performs, Alone, EnrolPlace, Row, NoCall, ReviewPlace
    <2>5. Begin(c, place, l) /\ UNCHANGED <<admin, session>>
      BY <1>2 DEF validateTotp
    <2>6. place = "createSession" => l.code \notin BackupCode
      BY DEF totpCodeOf, BackupCode, NoCall
    <2> HIDE DEF place, l
    <2> QED
      BY <1>0, <1>2, <2>2, <2>3, <2>4, <2>5, <2>6 DEF Arrives
  <1>3. ASSUME NEW id \in SessionId, refresh(c, id), UNCHANGED change
        PROVE  Goal
    <2> DEFINE s == session[id]
               ok == s.refreshTokenHash = refreshToken(id) /\ Authenticated(id)
               place == IF ok THEN "revoke" ELSE "refused"
               l == [NoCall EXCEPT !.op = "refresh", !.by = s.admin, !.account = s.admin,
                        !.session = id, !.role = admin[s.admin].role, !.right = Authenticated(id)]
    <2>1. s # NoSession /\ Rowed(s.admin, admin) /\ s \in SessionRow
      BY <1>3 DEF refresh, Backed
    <2>2. Authenticated(id) \in BOOLEAN
      BY <2>1 DEF Authenticated, SessionRow, Rowed, Row
    <2>3. l \in Locals
      BY <2>1, <2>2 DEF Locals, Op, Row, NoCall, Rowed, SessionRow
    <2>4. place \in {"refused", "revoke"} /\ place \in RolePlace
      BY DEF RolePlace, Place, Ended
    <2>5. place # "refused" => Performs(place, l, session, change) /\ Alone(place, l, admin, change)
      BY <2>1, <2>4 DEF Performs, Alone, Authenticated, EnrolPlace, Rowed, NoCall, ReviewPlace
    <2>6. Begin(c, place, l) /\ UNCHANGED <<admin, session>>
      BY <1>3 DEF refresh
    <2> HIDE DEF place, l
    <2> QED
      BY <1>0, <1>3, <2>3, <2>4, <2>5, <2>6 DEF Arrives
  <1>4. ASSUME NEW id \in SessionId, NEW code \in Code \cup {<<>>},
               NEW op \in {"revoke", "logoutAll"} \cup EnrolPlace,
               op = "confirmTotpSetup" => \E secret \in Secret : code = totpCodeOf(secret),
               signedIn(c, id, op, code), UNCHANGED change
        PROVE  Goal
    <2> DEFINE a == session[id].admin
               place == IF Authenticated(id) THEN op ELSE "refused"
               l == [NoCall EXCEPT !.op = op, !.by = a, !.account = a,
                                   !.session = id, !.code = code]
    <2>1. session[id] # NoSession /\ Rowed(a, admin)
      BY <1>4 DEF signedIn, Backed
    <2>2. l \in Locals
      BY <2>1 DEF Locals, Op, NoCall, Rowed, EnrolPlace
    <2>3. place \in {op, "refused"} /\ place \in RolePlace
      BY DEF RolePlace, Place, Ended, EnrolPlace
    <2>4. place # "refused" => Performs(place, l, session, change) /\ Alone(place, l, admin, change)
      BY <1>4, <2>1 DEF Performs, Alone, EnrolPlace, Rowed, NoCall, ReviewPlace
    <2>5. Begin(c, place, l) /\ UNCHANGED <<admin, session>>
      BY <1>4 DEF signedIn
    <2>6. place \notin {"password", "createSession"}
      BY <2>3 DEF EnrolPlace
    <2> HIDE DEF place, l
    <2> QED
      BY <1>0, <1>4, <2>2, <2>3, <2>4, <2>5, <2>6 DEF Arrives
  <1>5. \A secret \in Secret : totpCodeOf(secret) \in Code
    BY AdminAssumption DEF totpCodeOf, Code
  <1>6. ASSUME NEW id \in SessionId, NEW account \in Admin, NEW role \in Role \cup {"none"},
               NEW op \in {"create", "requestRoleChange", "deactivate", "activate",
                           "approve", "reject"},
               NEW ch \in Call \cup {"none"},
               superAdmin(c, id, op, account, role, ch),
               op \in {"approve", "reject"} => ch \in Call /\ change[ch].target = account
        PROVE  Goal
    <2> DEFINE a == session[id].admin
               l == [NoCall EXCEPT !.op = op, !.by = a, !.byRole = admin[a].role,
                        !.account = account, !.role = role, !.change = ch]
    <2>1. Rowed(a, admin)
      BY <1>6 DEF superAdmin, Backed
    <2>2. l \in Locals
      BY <2>1 DEF Locals, Op, NoCall, Rowed, Row
    <2>3. Performs(op, l, session, change) /\ Alone(op, l, admin, change)
      BY <1>6, <2>1 DEF Performs, Alone, NoCall, EnrolPlace, ReviewPlace
    <2>4. PICK place \in {op, "refused"} :
             Begin(c, place, l) /\ UNCHANGED <<admin, session, change>>
      BY <1>6 DEF superAdmin
    <2>5. place \in RolePlace
      BY DEF RolePlace, Place, Ended
    <2> HIDE DEF l
    <2> QED
      BY <1>0, <2>2, <2>3, <2>4, <2>5 DEF Arrives
  <1>7. CASE AuthArrive(c) /\ UNCHANGED change
    BY <1>1, <1>2, <1>3, <1>4, <1>5, <1>7 DEF AuthArrive, EnrolPlace
  <1>8. CASE Arrive(c)
    <2>1. \A d \in Call : change[d] # NoChange => change[d].target \in Admin
      BY DEF Backed, Rowed
    <2>2. PICK id \in SessionId :
           \/ \E account \in Admin :
                 \/ \E op \in {"create", "requestRoleChange"}, role \in Role :
                       superAdmin(c, id, op, account, role, "none")
                 \/ \E op \in {"deactivate", "activate"} :
                       superAdmin(c, id, op, account, "none", "none")
           \/ \E d \in Call, op \in {"approve", "reject"} :
                 change[d] # NoChange /\ superAdmin(c, id, op, change[d].target, "none", d)
      BY <1>8 DEF Arrive
    <2>3. ASSUME NEW account \in Admin, NEW op \in {"create", "requestRoleChange"},
                 NEW role \in Role, superAdmin(c, id, op, account, role, "none")
          PROVE  Goal
      BY <1>6, <2>3
    <2>4. ASSUME NEW account \in Admin, NEW op \in {"deactivate", "activate"},
                 superAdmin(c, id, op, account, "none", "none")
          PROVE  Goal
      BY <1>6, <2>4
    <2>5. ASSUME NEW d \in Call, NEW op \in {"approve", "reject"}, change[d] # NoChange,
                 superAdmin(c, id, op, change[d].target, "none", d)
          PROVE  Goal
      BY <1>6, <2>1, <2>5
    <2> QED
      BY <2>2, <2>3, <2>4, <2>5
  <1> QED
    BY <1>7, <1>8

-----------------------------------------------------------------------------
\* A step of a call that is under way: the other calls stand still, it does not end up
\* idle, and unless it is turned away it keeps what it was called with.
LEMMA CallMovesOn ==
    ASSUME IInv, NEW c \in Call, AuthProceed(c) \/ Proceed(c)
    PROVE  /\ pc[c] \in RolePlace \ Ended
           /\ overlapped' = overlapped
           /\ \A d \in Call \ {c} : pc'[d] = pc[d] /\ req'[d] = req[d]
           /\ pc'[c] # "idle"
           /\ pc'[c] \notin {"refused", "failed"} =>
                 /\ req'[c].op = req[c].op /\ req'[c].account = req[c].account
                 /\ req'[c].code = req[c].code /\ req'[c].change = req[c].change
                 /\ req'[c].role = req[c].role /\ req'[c].right = req[c].right
                 /\ req'[c].session = req[c].session
  <1> USE DEF IInv, Types
  <1>1. ASSUME NEW place, NEW l, Move(c, place, l), place # "idle",
               pc[c] \in RolePlace \ Ended,
               l = req[c] \/ (\E x : l = [req[c] EXCEPT !.secret = x])
                          \/ (\E x : l = [req[c] EXCEPT !.from = x])
        PROVE  /\ pc[c] \in RolePlace \ Ended
               /\ overlapped' = overlapped
               /\ \A d \in Call \ {c} : pc'[d] = pc[d] /\ req'[d] = req[d]
               /\ pc'[c] # "idle"
               /\ pc'[c] \notin {"refused", "failed"} =>
                     /\ req'[c].op = req[c].op /\ req'[c].account = req[c].account
                     /\ req'[c].code = req[c].code /\ req'[c].change = req[c].change
                     /\ req'[c].role = req[c].role /\ req'[c].right = req[c].right
                     /\ req'[c].session = req[c].session
    <2>1. /\ pc' = [pc EXCEPT ![c] = place] /\ req' = [req EXCEPT ![c] = localsAt(place, l)]
          /\ UNCHANGED overlapped
      BY <1>1 DEF Move
    <2>2. place \notin {"refused", "failed"} => localsAt(place, l) = l
      BY DEF localsAt
    <2>3. req[c] \in Locals
      OBVIOUS
    <2>4. /\ l.op = req[c].op /\ l.account = req[c].account
          /\ l.code = req[c].code /\ l.change = req[c].change
          /\ l.role = req[c].role /\ l.right = req[c].right
          /\ l.session = req[c].session
      BY <1>1, <2>3 DEF Locals
    <2> QED
      BY <1>1, <2>1, <2>2, <2>4
  <1>2. /\ pc[c] \in RolePlace \ Ended
        /\ \E place, l : /\ Move(c, place, l) /\ place # "idle"
                         /\ \/ l = req[c]
                            \/ \E x : l = [req[c] EXCEPT !.secret = x]
                            \/ \E x : l = [req[c] EXCEPT !.from = x]
    <2> DEFINE Goal == /\ pc[c] \in RolePlace \ Ended
                       /\ \E place, l : /\ Move(c, place, l) /\ place # "idle"
                                        /\ \/ l = req[c]
                                           \/ \E x : l = [req[c] EXCEPT !.secret = x]
                                           \/ \E x : l = [req[c] EXCEPT !.from = x]
    <2>0. pc[c] \in RolePlace
      OBVIOUS
    <2>1. CASE AuthProceed(c)
      <3>1. CASE readEnrolment(c)
        BY <2>0, <3>1 DEF readEnrolment, Ended
      <3>2. CASE ~readEnrolment(c)
        <4>1. PICK place \in {"refused", "preAuth", "createSession", "failed", "done"} :
                 Move(c, place, req[c])
          BY <2>1, <3>2 DEF AuthProceed, passwordFails, passwordMatches, consumeBackupCode,
             createSession, createSessionFails, revokeSession, logoutAll, initTotpSetup,
             confirmTotpSetup, disableTotp
        <4>2. pc[c] \in {"password", "consume", "createSession", "revoke", "logoutAll", "enrol"}
          BY <2>1, <3>2 DEF AuthProceed, passwordFails, passwordMatches, consumeBackupCode,
             createSession, createSessionFails, revokeSession, logoutAll, initTotpSetup,
             confirmTotpSetup, disableTotp
        <4> QED
          BY <2>0, <4>1, <4>2 DEF Ended
      <3> QED
        BY <3>1, <3>2
    <2>2. CASE Proceed(c)
      <3>1. CASE readTarget(c)
        BY <2>0, <3>1 DEF readTarget, Ended
      <3>2. CASE ~readTarget(c)
        <4>1. PICK place \in {"refused", "transaction", "target", "createChange", "done",
                              "apply", "close", "insert", "failed"} :
                 Move(c, place, req[c])
          BY <2>2, <3>2 DEF Proceed, findTarget, findPending, createChange, approveRoleChange,
             applyChange, rejectRoleChange, closeChange, findEmail, create, deactivate, activate
        <4>2. pc[c] \in {"requestRoleChange", "deactivate", "pending", "createChange", "approve",
                         "apply", "reject", "close", "create", "insert", "transaction", "activate"}
          BY <2>2, <3>2 DEF Proceed, findTarget, findPending, createChange, approveRoleChange,
             applyChange, rejectRoleChange, closeChange, findEmail, create, deactivate, activate
        <4> QED
          BY <2>0, <4>1, <4>2 DEF Ended
      <3> QED
        BY <3>1, <3>2
    <2> QED
      BY <2>1, <2>2
  <1> QED
    BY <1>1, <1>2

\* What a call that is under way leaves alone: the rows, sessions and requests of accounts
\* other than its own; and no request becomes pending again.
OwnOnly(c) ==
    /\ \A a \in Admin : a # req[c].account => admin'[a] = admin[a]
    /\ \A id \in SessionId : session[id] # NoSession =>
          /\ session'[id].admin = session[id].admin
          /\ session[id].admin # req[c].account => session'[id] = session[id]
    /\ \A d \in Call : change'[d] # change[d] => change'[d].target = req[c].account
    /\ \A d \in Call : change[d] # NoChange =>
          /\ change'[d] # NoChange /\ change'[d].target = change[d].target
          /\ change[d].status # "PENDING" => change'[d].status # "PENDING"

LEMMA CallMindsItsOwn ==
    ASSUME IInv, AllPerform, NEW c \in Call,
           (AuthProceed(c) /\ UNCHANGED change) \/ Proceed(c)
    PROVE  OwnOnly(c)
  <1> USE DEF IInv, Types
  <1>1. /\ Performs(pc[c], req[c], session, change)
        /\ Fits(pc[c], req[c], admin, session, change)
    BY DEF AllPerform, AllFit
  <1>2. CASE UNCHANGED <<admin, session, change>>
    BY <1>2 DEF OwnOnly
  <1>3. CASE \/ passwordFails(c) \/ passwordMatches(c) \/ consumeBackupCode(c)
             \/ initTotpSetup(c) \/ confirmTotpSetup(c) \/ disableTotp(c)
    <2>1. UNCHANGED <<session, change>>
      BY <1>3 DEF passwordFails, passwordMatches, consumeBackupCode, initTotpSetup,
         confirmTotpSetup, disableTotp, AuthProceed, Proceed, findTarget, readTarget,
         findPending, createChange, approveRoleChange, applyChange, rejectRoleChange,
         closeChange, findEmail, create, deactivate, activate
    <2>2. \A a \in Admin : a # req[c].account => admin'[a] = admin[a]
      BY <1>3 DEF passwordFails, passwordMatches, consumeBackupCode, initTotpSetup,
         confirmTotpSetup, disableTotp
    <2> QED
      BY <2>1, <2>2 DEF OwnOnly
  <1>4. CASE createSession(c) \/ revokeSession(c) \/ logoutAll(c)
    <2>1. UNCHANGED <<admin, change>>
      BY <1>4 DEF createSession, revokeSession, logoutAll, AuthProceed, Proceed, findTarget,
         readTarget, findPending, createChange, approveRoleChange, applyChange,
         rejectRoleChange, closeChange, findEmail, create, deactivate, activate
    <2>2. ASSUME NEW id \in SessionId, session[id] # NoSession
          PROVE  /\ session'[id].admin = session[id].admin
                 /\ session[id].admin # req[c].account => session'[id] = session[id]
      <3>1. CASE createSession(c)
        <4>1. id # c
          BY <2>2, <3>1 DEF createSession, Backed
        <4> QED
          BY <3>1, <4>1 DEF createSession
      <3>2. CASE revokeSession(c)
        BY <1>1, <2>2, <3>2 DEF revokeSession, Performs, SessionRow
      <3>3. CASE logoutAll(c)
        BY <2>2, <3>3 DEF logoutAll, Revoke, SessionRow
      <3> QED
        BY <1>4, <3>1, <3>2, <3>3
    <2> QED
      BY <2>1, <2>2 DEF OwnOnly
  <1>5. CASE createChange(c)
    <2>1. change[c] = NoChange
      BY <1>5 DEF createChange, Backed
    <2>2. UNCHANGED <<admin, session>> /\ \A d \in Call \ {c} : change'[d] = change[d]
      BY <1>5 DEF createChange
    <2>3. change'[c].target = req[c].account
      BY <1>5 DEF createChange
    <2> QED
      BY <2>1, <2>2, <2>3 DEF OwnOnly
  <1>6. CASE applyChange(c) \/ closeChange(c)
    <2> DEFINE d == req[c].change
    <2>1. /\ d \in Call /\ change[d] # NoChange /\ change[d].target = req[c].account
          /\ req[c].by \in Admin /\ change[d] \in ChangeRow
      BY <1>1, <1>6 DEF applyChange, closeChange, Fits, Performs, ReviewPlace
    <2>2. PICK status \in {"APPROVED", "REJECTED", "CANCELLED"} :
             change' = [change EXCEPT ![d].status = status, ![d].reviewer = req[c].by]
      BY <1>6 DEF applyChange, closeChange
    <2>3. /\ \A e \in Call : change[e] # NoChange =>
                change'[e] # NoChange /\ change'[e].target = change[e].target
          /\ \A e \in Call : e # d => change'[e] = change[e]
      BY <2>1, <2>2, DecidedTypes
    <2>4. change'[d].status # "PENDING"
      BY <2>1, <2>2 DEF ChangeRow
    <2>5. \A a \in Admin : a # req[c].account => admin'[a] = admin[a]
      BY <1>6, <2>1 DEF applyChange, closeChange
    <2>6. ASSUME NEW id \in SessionId, session[id] # NoSession
          PROVE  /\ session'[id].admin = session[id].admin
                 /\ session[id].admin # req[c].account => session'[id] = session[id]
      BY <1>6, <2>1, <2>6 DEF applyChange, closeChange, Revoke, SessionRow
    <2> QED
      BY <2>1, <2>3, <2>4, <2>5, <2>6 DEF OwnOnly
  <1>7. CASE create(c) \/ deactivate(c) \/ activate(c)
    <2>1. UNCHANGED change
      BY <1>7 DEF create, deactivate, activate
    <2>2. \A a \in Admin : a # req[c].account => admin'[a] = admin[a]
      BY <1>7 DEF create, deactivate, activate
    <2>3. ASSUME NEW id \in SessionId, session[id] # NoSession
          PROVE  /\ session'[id].admin = session[id].admin
                 /\ session[id].admin # req[c].account => session'[id] = session[id]
      BY <1>7, <2>3 DEF create, deactivate, activate, Revoke, SessionRow
    <2> QED
      BY <2>1, <2>2, <2>3 DEF OwnOnly
  <1> QED
    BY <1>2, <1>3, <1>4, <1>5, <1>6, <1>7
       DEF AuthProceed, Proceed, createSessionFails, readEnrolment, findTarget, readTarget,
           findPending, approveRoleChange, rejectRoleChange, findEmail

\* The rows a call names stay what they are to it.
LEMMA PerformsOn ==
    ASSUME IInv, NEW c \in Call, OwnOnly(c), NEW d \in Call,
           Performs(pc[d], req[d], session, change)
    PROVE  Performs(pc[d], req[d], session', change')
  <1>1. Fits(pc[d], req[d], admin, session, change)
    BY DEF IInv, AllFit
  <1>2. \A id \in SessionId : session[id] # NoSession => session'[id].admin = session[id].admin
    BY DEF OwnOnly
  <1>3. \A e \in Call : change[e] # NoChange =>
          /\ change'[e] # NoChange /\ change'[e].target = change[e].target
          /\ change[e].status # "PENDING" => change'[e].status # "PENDING"
    BY DEF OwnOnly
  <1>4. pc[d] = "revoke" => session'[req[d].session].admin = session[req[d].session].admin
    BY <1>1, <1>2 DEF Fits
  <1>5. pc[d] \in ReviewPlace => change'[req[d].change].target = change[req[d].change].target
    BY <1>1, <1>3 DEF Fits
  <1>6. pc[d] = "done" /\ req[d].op \in {"approve", "reject"} =>
          /\ change'[req[d].change] # NoChange
          /\ change'[req[d].change].target = change[req[d].change].target
          /\ change'[req[d].change].status # "PENDING"
    BY <1>3 DEF Performs
  <1> QED
    BY <1>4, <1>5, <1>6 DEF Performs

\* A call that moves on goes on with the same operation.
LEMMA MovesPerform ==
    ASSUME IInv, AllPerform, NEW c \in Call,
           (AuthProceed(c) /\ UNCHANGED change) \/ Proceed(c)
    PROVE  AllPerform'
  <1> USE DEF IInv, Types
  <1>1. /\ pc[c] \in RolePlace \ Ended
        /\ \A d \in Call \ {c} : pc'[d] = pc[d] /\ req'[d] = req[d]
        /\ pc'[c] # "idle"
        /\ pc'[c] \notin {"refused", "failed"} =>
              /\ req'[c].op = req[c].op /\ req'[c].account = req[c].account
              /\ req'[c].code = req[c].code /\ req'[c].change = req[c].change
              /\ req'[c].role = req[c].role /\ req'[c].right = req[c].right
              /\ req'[c].session = req[c].session
    BY CallMovesOn
  <1>2. OwnOnly(c)
    BY CallMindsItsOwn
  <1>3. /\ Performs(pc[c], req[c], session, change)
        /\ Fits(pc[c], req[c], admin, session, change)
    BY DEF AllPerform, AllFit
  <1>4. Performs(pc'[c], req'[c], session', change')
    <2>1. CASE pc'[c] \in {"refused", "failed"}
      BY <2>1 DEF Performs, EnrolPlace, ReviewPlace, Ended
    <2>2. CASE pc'[c] \notin {"refused", "failed"}
      <3>a. req[c].account \in Admin
        BY <1>1, <1>3 DEF Performs
      <3>1. CASE AuthProceed(c)
        <4>1. CASE passwordMatches(c)
          BY <1>1, <1>3, <2>2, <3>a, <4>1 DEF passwordMatches, Move, Performs, EnrolPlace, ReviewPlace, Ended
        <4>2. CASE consumeBackupCode(c)
          BY <1>1, <1>3, <2>2, <3>a, <4>2 DEF consumeBackupCode, Move, Performs, EnrolPlace, ReviewPlace, Ended
        <4>3. CASE createSession(c)
          BY <1>1, <1>3, <2>2, <3>a, <4>3 DEF createSession, Move, Performs, EnrolPlace, ReviewPlace, Ended
        <4>4. CASE revokeSession(c)
          BY <1>1, <1>3, <2>2, <3>a, <4>4 DEF revokeSession, Move, Performs, EnrolPlace, ReviewPlace, Ended
        <4>5. CASE logoutAll(c)
          BY <1>1, <1>3, <2>2, <3>a, <4>5 DEF logoutAll, Move, Performs, EnrolPlace, ReviewPlace, Ended
        <4>6. CASE readEnrolment(c)
          BY <1>1, <1>3, <2>2, <3>a, <4>6 DEF readEnrolment, Move, Performs, EnrolPlace, ReviewPlace, Ended
        <4>7. CASE initTotpSetup(c) \/ confirmTotpSetup(c) \/ disableTotp(c)
          BY <1>1, <1>3, <2>2, <3>a, <4>7
             DEF initTotpSetup, confirmTotpSetup, disableTotp, Move, Performs, EnrolPlace, ReviewPlace, Ended
        <4>8. CASE passwordFails(c) \/ createSessionFails(c)
          BY <2>2, <4>8 DEF passwordFails, createSessionFails, Move
        <4> QED
          BY <3>1, <4>1, <4>2, <4>3, <4>4, <4>5, <4>6, <4>7, <4>8 DEF AuthProceed
      <3>2. CASE Proceed(c)
        <4>1. CASE findTarget(c) \/ readTarget(c) \/ findPending(c) \/ createChange(c)
          <5>1. /\ pc[c] \in ProposePlace \/ pc[c] = "deactivate"
                /\ pc'[c] \in {"transaction", "target", "pending", "createChange", "done"}
            BY <2>2, <4>1 DEF findTarget, readTarget, findPending, createChange, Move, ProposePlace
          <5>2. req[c].op \in {"requestRoleChange", "deactivate"}
            BY <1>3, <5>1 DEF Fits
          <5> QED
            BY <1>1, <2>2, <3>a, <5>1, <5>2 DEF Performs, EnrolPlace, ReviewPlace
        <4>2. CASE approveRoleChange(c) \/ rejectRoleChange(c)
          BY <1>1, <1>3, <2>2, <3>a, <4>2
             DEF approveRoleChange, rejectRoleChange, Move, Performs, EnrolPlace, ReviewPlace, Ended
        <4>3. CASE applyChange(c) \/ closeChange(c)
          <5> DEFINE d == req[c].change
          <5>1. /\ d \in Call /\ change[d] # NoChange /\ change[d] \in ChangeRow
                /\ change[d].target = req[c].account
            BY <1>3, <4>3 DEF applyChange, closeChange, Fits, Performs, ReviewPlace
          <5>2. change'[d].status # "PENDING"
            BY <4>3, <5>1 DEF applyChange, closeChange, ChangeRow
          <5>3. change'[d] # NoChange /\ change'[d].target = req[c].account
            BY <1>2, <5>1 DEF OwnOnly
          <5>4. pc'[c] = "done"
            BY <4>3 DEF applyChange, closeChange, Move
          <5> QED
            BY <1>1, <2>2, <3>a, <5>1, <5>2, <5>3, <5>4 DEF Performs, EnrolPlace, ReviewPlace
        <4>4. CASE findEmail(c)
          BY <1>1, <1>3, <2>2, <3>a, <4>4 DEF findEmail, Move, Performs, EnrolPlace, ReviewPlace
        <4>5. CASE create(c) \/ activate(c)
          <5>1. pc'[c] = "done" /\ req[c].op \in {"create", "activate"}
            BY <1>3, <2>2, <4>5 DEF create, activate, Move, Performs
          <5> QED
            BY <1>1, <3>a, <5>1 DEF Performs, EnrolPlace, ReviewPlace
        <4>6. CASE deactivate(c)
          <5>1. pc'[c] = "done" /\ req[c].op = "deactivate"
            BY <1>3, <2>2, <4>6 DEF deactivate, Move, Fits
          <5> QED
            BY <1>1, <3>a, <5>1 DEF Performs, EnrolPlace, ReviewPlace
        <4> QED
          BY <3>2, <4>1, <4>2, <4>3, <4>4, <4>5, <4>6 DEF Proceed
      <3> QED
        BY <3>1, <3>2
    <2> QED
      BY <2>1, <2>2
  <1>5. ASSUME NEW d \in Call \ {c}
        PROVE  Performs(pc'[d], req'[d], session', change')
    BY <1>1, <1>2, PerformsOn DEF AllPerform
  <1> QED
    BY <1>4, <1>5 DEF AllPerform

\* What a call that is alone relies on outlives the steps of calls about other accounts.
LEMMA AloneOn ==
    ASSUME IInv, AllPerform, NEW c \in Call, OwnOnly(c), NEW d \in Call,
           pc[d] \notin Ended, req[d].account # req[c].account,
           Alone(pc[d], req[d], admin, change)
    PROVE  Alone(pc[d], req[d], admin', change')
  <1> DEFINE a == req[d].account
  <1>1. /\ Performs(pc[d], req[d], session, change)
        /\ Fits(pc[d], req[d], admin, session, change)
    BY DEF IInv, AllFit, AllPerform
  <1>2. admin'[a] = admin[a]
    BY <1>1 DEF Performs, OwnOnly
  <1>3. \A e \in Call : change'[e].target = a => change'[e] = change[e]
    BY DEF OwnOnly
  <1>4. ASSUME pc[d] \in {"apply", "close"}
        PROVE  change'[req[d].change] = change[req[d].change]
    <2>1. /\ req[d].change \in Call /\ change[req[d].change] # NoChange
          /\ change[req[d].change].target = a
      BY <1>1, <1>4 DEF Fits, Performs, ReviewPlace
    <2> QED
      BY <1>3, <2>1 DEF OwnOnly
  <1> QED
    BY <1>2, <1>3, <1>4 DEF Alone

\* A call that moves on finds what it read, if it is alone.
LEMMA MovesAlone ==
    ASSUME IInv, AllPerform, Exclusive, AllAlone, NEW c \in Call,
           (AuthProceed(c) /\ UNCHANGED change) \/ Proceed(c)
    PROVE  AllAlone'
  <1> USE DEF IInv, Types
  <1>1. /\ pc[c] \in RolePlace \ Ended
        /\ overlapped' = overlapped
        /\ \A d \in Call \ {c} : pc'[d] = pc[d] /\ req'[d] = req[d]
        /\ pc'[c] \notin {"refused", "failed"} =>
              /\ req'[c].op = req[c].op /\ req'[c].account = req[c].account
              /\ req'[c].code = req[c].code /\ req'[c].change = req[c].change
              /\ req'[c].role = req[c].role
    BY CallMovesOn
  <1>2. OwnOnly(c)
    BY CallMindsItsOwn
  <1> DEFINE a == req[c].account
  <1>3. /\ Performs(pc[c], req[c], session, change) /\ a \in Admin
        /\ Fits(pc[c], req[c], admin, session, change) /\ req[c] \in Locals
    BY <1>1 DEF AllPerform, AllFit, Performs
  <1>4. ASSUME a \notin overlapped, pc'[c] \notin {"refused", "failed"}
        PROVE  Alone(pc'[c], req'[c], admin', change')
    <2>1. Alone(pc[c], req[c], admin, change)
      BY <1>4 DEF AllAlone
    <2>2. req'[c].account = a
      BY <1>1, <1>4
    <2>3. CASE AuthProceed(c)
      <3>1. CASE passwordMatches(c)
        <4>1. admin[a] \in Row
          BY <1>3, <3>1 DEF passwordMatches, Fits, SignInPlace, Rowed
        <4>2. admin'[a].active = admin[a].active /\ admin'[a].role = admin[a].role
          BY <1>3, <3>1, <4>1 DEF passwordMatches, Row
        <4>3. pc'[c] \in {"preAuth", "createSession"} /\ pc[c] = "password"
          BY <3>1 DEF passwordMatches, Move
        <4> QED
          BY <1>1, <1>4, <2>1, <4>2, <4>3 DEF Alone
      <3>2. CASE consumeBackupCode(c)
        <4>1. admin[a] \in Row
          BY <1>3, <3>2 DEF consumeBackupCode, Fits, SignInPlace, Rowed
        <4>2. admin'[a].active = admin[a].active /\ admin'[a].role = admin[a].role
          BY <1>3, <3>2, <4>1 DEF consumeBackupCode, Row
        <4>3. pc'[c] = "createSession" /\ pc[c] = "consume"
          BY <3>2 DEF consumeBackupCode, Move
        <4> QED
          BY <1>1, <1>4, <2>1, <4>2, <4>3 DEF Alone
      <3>3. CASE revokeSession(c)
        <4>1. UNCHANGED admin /\ pc[c] = "revoke"
          BY <3>3 DEF revokeSession
        <4>2. pc'[c] = "done" \/ (pc'[c] = "createSession" /\ req[c].op = "refresh")
          BY <3>3 DEF revokeSession, Move
        <4> QED
          BY <1>1, <1>4, <2>1, <4>1, <4>2 DEF Alone
      <3>4. CASE readEnrolment(c)
        <4> DEFINE row == admin[a]
        <4>1. UNCHANGED <<admin, session>> /\ pc'[c] = "enrol"
          BY <1>4, <3>4 DEF readEnrolment, Move
        <4>2. req'[c] = [req[c] EXCEPT !.secret = row.secret] /\ pc[c] \in EnrolPlace
          BY <1>4, <3>4 DEF readEnrolment, Move, localsAt, EnrolPlace
        <4>3. req'[c].secret = row.secret /\ req'[c].op = req[c].op /\ req[c].op = pc[c]
          BY <1>3, <4>2 DEF Locals, Performs
        <4>4. /\ req[c].op = "initTotpSetup" => ~row.enabled
              /\ req[c].op = "confirmTotpSetup" => req[c].code = totpCodeOf(row.secret)
          BY <1>4, <3>4, <4>1 DEF readEnrolment, Move
        <4>5. req[c].op = "confirmTotpSetup" => row.secret # "none"
          <5> SUFFICES ASSUME req[c].op = "confirmTotpSetup" PROVE row.secret # "none"
            OBVIOUS
          <5>1. PICK secret \in Secret : req[c].code = totpCodeOf(secret)
            BY <1>3, <4>3 DEF Performs
          <5>2. row.secret = secret
            BY <4>4, <5>1 DEF totpCodeOf
          <5> QED
            BY <5>2, FirstAdminAssumption DEF Secret
        <4> QED
          BY <2>2, <4>1, <4>3, <4>4, <4>5 DEF Alone
      <3>5. CASE \/ createSession(c) \/ logoutAll(c)
                 \/ initTotpSetup(c) \/ confirmTotpSetup(c) \/ disableTotp(c)
        <4>1. pc'[c] = "done"
          BY <3>5 DEF createSession, logoutAll, initTotpSetup, confirmTotpSetup, disableTotp, Move
        <4> QED
          BY <4>1 DEF Alone
      <3>6. CASE passwordFails(c) \/ createSessionFails(c)
        BY <1>4, <3>6 DEF passwordFails, createSessionFails, Move
      <3> QED
        BY <2>3, <3>1, <3>2, <3>3, <3>4, <3>5, <3>6 DEF AuthProceed
    <2>4. CASE Proceed(c)
      <3>1. CASE findPending(c)
        <4>1. /\ pc'[c] = "createChange" /\ req'[c] = req[c] /\ UNCHANGED <<admin, change>>
              /\ \A d \in Call : change[d].target = a => change[d].status # "PENDING"
          BY <1>4, <3>1 DEF findPending, Move, localsAt
        <4> QED
          BY <4>1 DEF Alone
      <3>2. CASE approveRoleChange(c) \/ rejectRoleChange(c)
        <4>1. /\ pc'[c] \in {"apply", "close"} /\ req'[c] = req[c] /\ UNCHANGED <<admin, change>>
              /\ change[req[c].change].status = "PENDING"
          BY <1>4, <3>2 DEF approveRoleChange, rejectRoleChange, mayApprove, Move, localsAt
        <4> QED
          BY <4>1 DEF Alone
      <3>3. CASE ~(findPending(c) \/ approveRoleChange(c) \/ rejectRoleChange(c))
        <4>1. pc'[c] \in {"transaction", "target", "pending", "insert", "done", "refused", "failed"}
          BY <2>4, <3>3 DEF Proceed, findTarget, readTarget, createChange, applyChange,
             closeChange, findEmail, create, deactivate, activate, Move
        <4> QED
          BY <4>1 DEF Alone
      <3> QED
        BY <3>1, <3>2, <3>3
    <2> QED
      BY <2>3, <2>4
  <1>5. ASSUME NEW d \in Call
        PROVE  req'[d].account \in overlapped' \/ Alone(pc'[d], req'[d], admin', change')
    <2>1. CASE d = c /\ pc'[c] \in {"refused", "failed"}
      BY <2>1 DEF Alone
    <2>2. CASE d = c /\ pc'[c] \notin {"refused", "failed"}
      BY <1>1, <1>4, <2>2
    <2>3. CASE d # c /\ pc[d] \in Ended
      BY <1>1, <2>3 DEF Alone, Ended
    <2>4. CASE d # c /\ pc[d] \notin Ended
      <3>1. req[d].account \in overlapped \/ req[d].account # a
        BY <1>1, <2>4 DEF Exclusive
      <3>2. req[d].account \in overlapped \/ Alone(pc[d], req[d], admin', change')
        BY <1>2, <2>4, <3>1, AloneOn DEF AllAlone
      <3> QED
        BY <1>1, <2>4, <3>2
    <2> QED
      BY <2>1, <2>2, <2>3, <2>4
  <1> QED
    BY <1>5 DEF AllAlone

\* A call that arrives while another is about its account overlaps it; one that moves on
\* has been there.
LEMMA MovesExclusive ==
    ASSUME IInv, Exclusive, NEW c \in Call, AuthProceed(c) \/ Proceed(c)
    PROVE  Exclusive'
  BY CallMovesOn DEF Exclusive, Ended

Disciplined == AllPerform /\ Exclusive /\ AllAlone

LEMMA ArrivesDisciplined ==
    ASSUME IInv, Disciplined, NEW c \in Call, NEW place \in RolePlace, NEW l \in Locals,
           Arrives(c, place, l)
    PROVE  Disciplined'
  <1> USE DEF IInv, Types
  <1>1. /\ pc' = [pc EXCEPT ![c] = place] /\ req' = [req EXCEPT ![c] = localsAt(place, l)]
        /\ overlapped' = overlapped \cup
              {a \in Admin : /\ a = l.account
                             /\ \E d \in Call : pc[d] \notin Ended /\ req[d].account = a}
        /\ pc[c] = "idle" /\ UNCHANGED <<admin, session, change>>
    BY DEF Arrives, Begin
  <1>2. place \notin {"refused", "failed"} => localsAt(place, l) = l
    BY DEF localsAt
  <1>3. place # "refused" => Performs(place, l, session, change) /\ Alone(place, l, admin, change)
    BY DEF Arrives
  <1>4. place # "failed" /\ place # "done" /\ place # "idle" /\ place # "preAuth"
    BY DEF Arrives, EnrolPlace
  <1>5. AllPerform'
    <2>1. Performs(pc'[c], req'[c], session', change')
      BY <1>1, <1>2, <1>3, <1>4 DEF Performs, EnrolPlace, ReviewPlace, Ended
    <2> QED
      BY <1>1, <2>1 DEF AllPerform, Disciplined
  <1>6. AllAlone'
    <2>1. Alone(pc'[c], req'[c], admin', change')
      BY <1>1, <1>2, <1>3, <1>4 DEF Alone
    <2> QED
      BY <1>1, <2>1 DEF AllAlone, Disciplined
  <1>7. Exclusive'
    <2>1. place \notin Ended => l.account \in Admin /\ localsAt(place, l) = l
      BY <1>2, <1>3 DEF Performs, Ended
    <2>2. ASSUME NEW d \in Call, d # c, place \notin Ended, pc[d] \notin Ended,
                 req[d].account = l.account
          PROVE  l.account \in overlapped'
      BY <1>1, <2>1, <2>2
    <2> QED
      BY <1>1, <2>1, <2>2 DEF Exclusive, Disciplined
  <1> QED
    BY <1>5, <1>6, <1>7 DEF Disciplined

LEMMA StepDisciplined == IInv /\ Disciplined /\ [Next]_vars => Disciplined'
  <1> SUFFICES ASSUME IInv, Disciplined, [Next]_vars PROVE Disciplined'
    OBVIOUS
  <1>1. ASSUME NEW c \in Call, (AuthArrive(c) /\ UNCHANGED change) \/ Arrive(c)
        PROVE  Disciplined'
    BY <1>1, CallArrives, ArrivesDisciplined
  <1>2. ASSUME NEW c \in Call, (AuthProceed(c) /\ UNCHANGED change) \/ Proceed(c)
        PROVE  Disciplined'
    BY <1>2, MovesPerform, MovesAlone, MovesExclusive DEF Disciplined
  <1>3. ASSUME NEW a \in Admin, lockExpires(a), UNCHANGED change
        PROVE  Disciplined'
    <2>1. UNCHANGED <<session, pc, req, overlapped, change>>
      BY <1>3 DEF lockExpires
    <2>2. \A b \in Admin : /\ admin'[b].active = admin[b].active /\ admin'[b].role = admin[b].role
                           /\ admin'[b].enabled = admin[b].enabled
                           /\ admin'[b].codes = admin[b].codes
                           /\ admin'[b].secret = admin[b].secret
      BY <1>3 DEF lockExpires, IInv, Types, Row, NoRow
    <2>3. AllPerform' /\ Exclusive'
      BY <2>1 DEF Disciplined, AllPerform, Exclusive, Performs
    <2>4. AllAlone'
      BY <2>1, <2>2 DEF Disciplined, AllAlone, AllPerform, Performs, Alone, Ended
    <2> QED
      BY <2>3, <2>4 DEF Disciplined
  <1>4. CASE UNCHANGED vars
    BY <1>4 DEF vars, authVars, Disciplined, AllPerform, Exclusive, AllAlone, Performs, Alone
  <1> QED
    BY <1>1, <1>2, <1>3, <1>4 DEF Next, AuthNext

LEMMA InitDisciplined == RolesInit => Disciplined
  BY DEF RolesInit, Init, Disciplined, AllPerform, Exclusive, AllAlone, Performs, Alone,
         EnrolPlace, ReviewPlace, Ended

\* In every behaviour each call performs one operation, calls about an account that nothing
\* overlapped are one at a time, and a call that is alone still finds what it read.
THEOREM CallsAreDisciplined == Spec => []Disciplined
  BY InitDisciplined, StepDisciplined, ConsoleIsSound, PTL DEF Spec

-----------------------------------------------------------------------------
\* A call that moves on keeps the live sessions current.
LEMMA MovesCurrent ==
    ASSUME IInv, Disciplined, SessionsCurrent, NEW c \in Call,
           (AuthProceed(c) /\ UNCHANGED change) \/ Proceed(c)
    PROVE  SessionsCurrent'
  <1> USE DEF IInv, Types
  <1> DEFINE a == req[c].account
  <1>1. overlapped' = overlapped /\ pc[c] \notin Ended
    BY CallMovesOn
  <1>2. OwnOnly(c)
    BY CallMindsItsOwn DEF Disciplined
  <1>3. /\ Performs(pc[c], req[c], session, change) /\ a \in Admin
        /\ Fits(pc[c], req[c], admin, session, change)
        /\ a \in overlapped \/ Alone(pc[c], req[c], admin, change)
    BY <1>1 DEF Disciplined, AllPerform, AllAlone, AllFit, Performs
  <1> SUFFICES ASSUME NEW id \in SessionId, session'[id] # NoSession, ~session'[id].revoked,
                      session'[id].admin \notin overlapped
               PROVE  /\ admin'[session'[id].admin].active
                      /\ session'[id].tokenRole = admin'[session'[id].admin].role
    BY <1>1 DEF SessionsCurrent
  <1> DEFINE b == session[id].admin
  <1>4. CASE session[id] = NoSession
    <2>1. createSession(c) /\ id = c
      <3>1. ASSUME applyChange(c) \/ deactivate(c) \/ logoutAll(c)
            PROVE  FALSE
        <4>1. session' = Revoke(session, a)
          BY <1>3, <3>1 DEF applyChange, deactivate, logoutAll, Performs, ReviewPlace
        <4> QED
          BY <1>3, <1>4, <4>1, RevokeTypes
      <3>2. ASSUME revokeSession(c)
            PROVE  FALSE
        BY <1>3, <1>4, <3>2 DEF revokeSession, Fits
      <3> QED
        BY <1>4, <3>1, <3>2 DEF AuthProceed, Proceed, passwordFails, passwordMatches,
           consumeBackupCode, createSession, createSessionFails, readEnrolment, initTotpSetup,
           confirmTotpSetup, disableTotp, findTarget, readTarget, findPending, createChange,
           approveRoleChange, rejectRoleChange, closeChange, findEmail, create, activate
    <2>2. session'[id].admin = a /\ session'[id].tokenRole = req[c].role /\ UNCHANGED admin
      BY <2>1 DEF createSession, NewSession
    <2> QED
      BY <1>3, <2>1, <2>2 DEF createSession, Alone
  <1>5. CASE session[id] # NoSession
    <2>1. session'[id].admin = b /\ Rowed(b, admin) /\ session[id] \in SessionRow
      BY <1>2, <1>5 DEF OwnOnly, Backed
    <2>2. CASE b # a
      <3>1. session'[id] = session[id] /\ admin'[b] = admin[b]
        BY <1>2, <1>5, <2>1, <2>2 DEF OwnOnly, Rowed
      <3> QED
        BY <3>1, <1>5 DEF SessionsCurrent
    <2>3. CASE b = a
      <3>1. ~(applyChange(c) \/ deactivate(c))
        BY <1>3, <1>5, <2>1, <2>3 DEF applyChange, deactivate, Revoke, Performs, ReviewPlace, SessionRow
      <3>2. ~session[id].revoked /\ session'[id].tokenRole = session[id].tokenRole
        <4>1. CASE createSession(c)
          BY <1>5, <4>1 DEF createSession, Backed
        <4>2. CASE revokeSession(c)
          BY <1>3, <2>1, <4>2 DEF revokeSession, Fits, SessionRow
        <4>3. CASE logoutAll(c)
          BY <2>1, <2>3, <4>3 DEF logoutAll, Revoke, SessionRow
        <4>4. CASE UNCHANGED session
          BY <4>4
        <4> QED
          BY <3>1, <4>1, <4>2, <4>3, <4>4 DEF AuthProceed, Proceed, passwordFails,
             passwordMatches, consumeBackupCode, createSessionFails, readEnrolment,
             initTotpSetup, confirmTotpSetup, disableTotp, findTarget, readTarget, findPending,
             createChange, approveRoleChange, rejectRoleChange, closeChange, findEmail, create,
             activate
      <3>3. (admin[b].active => admin'[b].active) /\ admin'[b].role = admin[b].role
        <4>1. CASE AuthProceed(c)
          <5>1. AuthNext
            BY <4>1 DEF AuthNext
          <5> QED
            BY <5>1, <2>1, SignInSpares DEF Spares, Rowed
        <4>2. CASE create(c)
          BY <2>1, <2>3, <4>2, FirstAdminAssumption DEF create, Rowed, Row, NoRow, Role
        <4>3. CASE activate(c)
          BY <2>1, <2>3, <4>3 DEF activate, Rowed, Row
        <4>4. CASE UNCHANGED admin
          BY <4>4
        <4> QED
          BY <3>1, <4>1, <4>2, <4>3, <4>4 DEF Proceed, findTarget, readTarget, findPending,
             createChange, approveRoleChange, rejectRoleChange, closeChange, findEmail
      <3> QED
        BY <1>5, <2>1, <3>2, <3>3 DEF SessionsCurrent
    <2> QED
      BY <2>2, <2>3
  <1> QED
    BY <1>4, <1>5

LEMMA StepCurrent == IInv /\ Disciplined /\ SessionsCurrent /\ [Next]_vars => SessionsCurrent'
  <1> SUFFICES ASSUME IInv, Disciplined, SessionsCurrent, [Next]_vars PROVE SessionsCurrent'
    OBVIOUS
  <1>1. ASSUME NEW c \in Call, (AuthArrive(c) /\ UNCHANGED change) \/ Arrive(c)
        PROVE  SessionsCurrent'
    <2>1. UNCHANGED <<admin, session>> /\ overlapped \subseteq overlapped'
      BY <1>1, CallArrives DEF Arrives, Begin
    <2> QED
      BY <2>1 DEF SessionsCurrent
  <1>2. ASSUME NEW c \in Call, (AuthProceed(c) /\ UNCHANGED change) \/ Proceed(c)
        PROVE  SessionsCurrent'
    BY <1>2, MovesCurrent
  <1>3. ASSUME NEW a \in Admin, lockExpires(a), UNCHANGED change
        PROVE  SessionsCurrent'
    <2>1. UNCHANGED <<session, overlapped>>
      BY <1>3 DEF lockExpires
    <2>2. \A b \in Admin : admin'[b].active = admin[b].active /\ admin'[b].role = admin[b].role
      BY <1>3 DEF lockExpires, IInv, Types, Row, NoRow
    <2>3. \A id \in SessionId : session[id] # NoSession => session[id].admin \in Admin
      BY DEF IInv, Backed, Rowed
    <2> QED
      BY <2>1, <2>2, <2>3 DEF SessionsCurrent
  <1>4. CASE UNCHANGED vars
    BY <1>4 DEF vars, authVars, SessionsCurrent
  <1> QED
    BY <1>1, <1>2, <1>3, <1>4 DEF Next, AuthNext

LEMMA InitCurrent == RolesInit => SessionsCurrent
  BY FirstAdminAssumption DEF RolesInit, Init, SessionsCurrent, NewSession

\* In every behaviour the live sessions of an account whose calls never overlapped are of an
\* active administrator and carry the current role: approveRoleChange and deactivate revoke
\* them with the change, and createSession writes the role its call has read.
THEOREM LiveSessionsAreCurrent == Spec => []SessionsCurrent
  BY InitCurrent, StepCurrent, ConsoleIsSound, CallsAreDisciplined, PTL DEF Spec

-----------------------------------------------------------------------------
\* A request is pending for nobody twice; and a decision that is taken leaves its request
\* decided (Performs), so that a second one finds it so.
OnePending == \A d, e \in Call :
    /\ change[d].status = "PENDING" /\ change[e].status = "PENDING"
    /\ change[d].target = change[e].target /\ d # e
    => change[d].target \in overlapped

Decides(c) == req[c].op \in {"approve", "reject"} /\ pc[c] = "done"

OneDecision == \A c, d \in Call :
    c # d /\ Decides(c) /\ Decides(d) /\ req[c].change = req[d].change
    => req[c].account \in overlapped

LEMMA MovesPending ==
    ASSUME IInv, Disciplined, OnePending, NEW c \in Call,
           (AuthProceed(c) /\ UNCHANGED change) \/ Proceed(c)
    PROVE  OnePending'
  <1> USE DEF IInv, Types
  <1>1. overlapped' = overlapped /\ pc[c] \notin Ended
    BY CallMovesOn
  <1>2. OwnOnly(c)
    BY CallMindsItsOwn DEF Disciplined
  <1>3. /\ req[c].account \in overlapped \/ Alone(pc[c], req[c], admin, change)
    BY DEF Disciplined, AllAlone
  <1>4. \A d \in Call : change[d] = NoChange => change[d].status # "PENDING"
    BY DEF NoChange
  <1>5. CASE createChange(c)
    <2>1. change' = [change EXCEPT ![c] =
          [target |-> req[c].account, from |-> req[c].from, to |-> req[c].role,
           by |-> req[c].by, status |-> "PENDING", reviewer |-> "none"]]
          /\ pc[c] = "createChange"
      BY <1>5 DEF createChange
    <2>2. change'[c].target = req[c].account /\ \A d \in Call \ {c} : change'[d] = change[d]
      BY <2>1
    <2>3. req[c].account \in overlapped \/
             \A d \in Call : change[d].target = req[c].account => change[d].status # "PENDING"
      BY <1>3, <2>1 DEF Alone
    <2> QED
      BY <1>1, <2>2, <2>3 DEF OnePending
  <1>6. CASE ~createChange(c)
    <2>1. \A d \in Call : change[d] = NoChange => change'[d] = NoChange
      <3>1. CASE applyChange(c) \/ closeChange(c)
        <4>1. req[c].change \in Call /\ change[req[c].change] # NoChange
          BY <3>1 DEF applyChange, closeChange, AllFit, Fits, ReviewPlace
        <4> QED
          BY <3>1, <4>1 DEF applyChange, closeChange
      <3>2. CASE UNCHANGED change
        BY <3>2
      <3> QED
        BY <1>6, <3>1, <3>2 DEF Proceed, findTarget, readTarget, findPending,
           approveRoleChange, rejectRoleChange, findEmail, create, deactivate, activate
    <2>2. ASSUME NEW d \in Call, change'[d].status = "PENDING"
          PROVE  change[d].status = "PENDING" /\ change'[d].target = change[d].target
      <3>1. change[d] # NoChange
        BY <1>4, <2>1, <2>2
      <3> QED
        BY <1>2, <2>2, <3>1 DEF OwnOnly
    <2> QED
      BY <1>1, <2>2 DEF OnePending
  <1> QED
    BY <1>5, <1>6

LEMMA MovesDecision ==
    ASSUME IInv, Disciplined, OneDecision, NEW c \in Call,
           (AuthProceed(c) /\ UNCHANGED change) \/ Proceed(c)
    PROVE  OneDecision'
  <1> USE DEF IInv, Types
  <1>1. /\ overlapped' = overlapped /\ pc[c] \notin Ended
        /\ \A d \in Call \ {c} : pc'[d] = pc[d] /\ req'[d] = req[d]
        /\ pc'[c] \notin {"refused", "failed"} =>
              /\ req'[c].op = req[c].op /\ req'[c].account = req[c].account
              /\ req'[c].change = req[c].change
    BY CallMovesOn
  <1>2. /\ req[c].account \in overlapped \/ Alone(pc[c], req[c], admin, change)
        /\ Performs(pc[c], req[c], session, change)
        /\ Fits(pc[c], req[c], admin, session, change)
        /\ \A d \in Call : Performs(pc[d], req[d], session, change)
    BY DEF Disciplined, AllAlone, AllPerform, AllFit
  <1>3. ASSUME Decides(c)', NEW d \in Call \ {c}, Decides(d)', req'[d].change = req'[c].change
        PROVE  req'[c].account \in overlapped /\ req'[d].account \in overlapped
    <2>1. req[c].op \in {"approve", "reject"} /\ pc'[c] = "done"
      BY <1>1, <1>3 DEF Decides
    <2>2. pc[c] \in {"apply", "close"}
      <3>1. ~AuthProceed(c)
        BY <1>2, <2>1 DEF AuthProceed, passwordFails, passwordMatches, consumeBackupCode,
           createSession, createSessionFails, revokeSession, logoutAll, readEnrolment,
           initTotpSetup, confirmTotpSetup, disableTotp, Performs, EnrolPlace
      <3> QED
        BY <1>1, <1>2, <2>1, <3>1 DEF Proceed, findTarget, readTarget, findPending, createChange,
           approveRoleChange, rejectRoleChange, applyChange, closeChange, findEmail, create,
           deactivate, activate, Performs, Fits, ProposePlace, Move
    <2>3. Decides(d) /\ req[d].change = req[c].change
      BY <1>1, <1>3, <2>1 DEF Decides
    <2>4. /\ change[req[c].change].status # "PENDING"
          /\ change[req[c].change].target = req[d].account
          /\ change[req[c].change].target = req[c].account
      BY <1>2, <2>2, <2>3 DEF Decides, Performs, ReviewPlace
    <2>5. req[c].account \in overlapped
      BY <1>2, <2>2, <2>4 DEF Alone
    <2> QED
      BY <1>1, <2>1, <2>4, <2>5
  <1>4. ASSUME NEW d \in Call \ {c}, NEW e \in Call \ {c}, d # e, Decides(d)', Decides(e)',
               req'[d].change = req'[e].change
        PROVE  req'[d].account \in overlapped'
    BY <1>1, <1>4 DEF OneDecision, Decides
  <1> QED
    BY <1>1, <1>3, <1>4 DEF OneDecision

Decided == OnePending /\ OneDecision

LEMMA StepDecided == IInv /\ Disciplined /\ Decided /\ [Next]_vars => Decided'
  <1> SUFFICES ASSUME IInv, Disciplined, Decided, [Next]_vars PROVE Decided'
    OBVIOUS
  <1>1. ASSUME NEW c \in Call, (AuthArrive(c) /\ UNCHANGED change) \/ Arrive(c)
        PROVE  Decided'
    <2>1. PICK place \in RolePlace, l \in Locals : Arrives(c, place, l)
      BY <1>1, CallArrives
    <2>2. /\ UNCHANGED change /\ overlapped \subseteq overlapped' /\ place # "done"
          /\ \A d \in Call \ {c} : pc'[d] = pc[d] /\ req'[d] = req[d]
          /\ pc'[c] = place
      BY <2>1 DEF Arrives, Begin, IInv, Types, EnrolPlace
    <2> QED
      BY <2>2 DEF Decided, OnePending, OneDecision, Decides
  <1>2. ASSUME NEW c \in Call, (AuthProceed(c) /\ UNCHANGED change) \/ Proceed(c)
        PROVE  Decided'
    BY <1>2, MovesPending, MovesDecision DEF Decided
  <1>3. ASSUME NEW a \in Admin, lockExpires(a), UNCHANGED change
        PROVE  Decided'
    BY <1>3 DEF lockExpires, Decided, OnePending, OneDecision, Decides
  <1>4. CASE UNCHANGED vars
    BY <1>4 DEF vars, authVars, Decided, OnePending, OneDecision, Decides
  <1> QED
    BY <1>1, <1>2, <1>3, <1>4 DEF Next, AuthNext

LEMMA InitDecided == RolesInit => Decided
  BY DEF RolesInit, Init, Decided, OnePending, OneDecision, Decides, NoChange

\* A set whose members are all the same has one at most.
LEMMA AtMostOne ==
    ASSUME NEW S, \A x, y \in S : x = y
    PROVE  Cardinality(S) <= 1
  <1>1. CASE S = {}
    BY <1>1, FS_EmptySet
  <1>2. CASE S # {}
    <2>1. PICK x : S = {x}
      BY <1>2
    <2> QED
      BY <2>1, FS_Singleton
  <1> QED
    BY <1>1, <1>2

\* In every behaviour an account whose calls never overlapped has one pending request at
\* most, and each of its requests is decided by one call (requestRoleChange's findPending,
\* the status that approveRoleChange and rejectRoleChange check).
THEOREM RequestsAreDecidedOnce == Spec => []DecidedOnce
  <1>1. IInv /\ Decided => DecidedOnce
    <2> SUFFICES ASSUME IInv, Decided PROVE DecidedOnce
      OBVIOUS
    <2>1. ASSUME NEW a \in Admin \ overlapped
          PROVE  Cardinality({d \in Call : change[d].target = a /\ change[d].status = "PENDING"}) <= 1
      BY AtMostOne DEF Decided, OnePending
    <2> QED
      BY <2>1 DEF DecidedOnce, Decided, OneDecision, Decides
  <1> QED
    BY <1>1, InitDecided, StepDecided, ConsoleIsSound, CallsAreDisciplined, PTL DEF Spec

\* In every behaviour the console's sessions and decisions are sound, for the accounts whose
\* calls never overlapped.
THEOREM TheConsoleIsSound == Spec => []ConsoleSound
  BY LiveSessionsAreCurrent, RequestsAreDecidedOnce, PTL DEF ConsoleSound

-----------------------------------------------------------------------------
\* The wrong passwords of an account can be counted.
LEMMA WrongCounts ==
    ASSUME NEW a PROVE IsFiniteSet(WrongPasswords(a)) /\ Cardinality(WrongPasswords(a)) \in Nat
  <1>1. WrongPasswords(a) \subseteq Call
    BY DEF WrongPasswords
  <1> QED
    BY <1>1, AdminAssumption, FS_Subset, FS_CardinalityType

\* The counter of an account, and the counter a login has read of it, are covered by wrong
\* passwords that were refused, and so is a lock.
Counted ==
    /\ \A a \in Admin : /\ admin[a].failed <= Cardinality(WrongPasswords(a))
                        /\ admin[a].locked => Cardinality(WrongPasswords(a)) >= MAX_FAILED_ATTEMPTS
    /\ \A a \in Admin, c \in Call : pc[c] = "password" /\ req[c].account = a =>
          req[c].failed <= Cardinality(WrongPasswords(a))

\* Wrong passwords are never forgotten: a refused call stays refused.
LEMMA WrongGrows ==
    ASSUME \A c \in Call : pc[c] = "refused" => pc'[c] = "refused" /\ req'[c] = req[c],
           NEW a
    PROVE  /\ WrongPasswords(a) \subseteq WrongPasswords(a)'
           /\ IsFiniteSet(WrongPasswords(a)')
           /\ Cardinality(WrongPasswords(a)') \in Nat
           /\ Cardinality(WrongPasswords(a)) <= Cardinality(WrongPasswords(a)')
  <1>1. WrongPasswords(a) \subseteq WrongPasswords(a)' /\ WrongPasswords(a)' \subseteq Call
    BY DEF WrongPasswords
  <1>2. IsFiniteSet(WrongPasswords(a)')
    BY <1>1, AdminAssumption, FS_Subset
  <1> QED
    BY <1>1, <1>2, FS_Subset, FS_CardinalityType

\* A step that leaves the counters and locks alone, or clears them, keeps the count.
LEMMA CountedOn ==
    ASSUME IInv, Counted,
           \A c \in Call : pc[c] = "refused" => pc'[c] = "refused" /\ req'[c] = req[c],
           \A a \in Admin : /\ admin'[a].failed \in {admin[a].failed, 0}
                            /\ admin'[a].locked => admin[a].locked,
           \A c \in Call : pc'[c] = "password" =>
              \/ pc[c] = "password" /\ req'[c] = req[c]
              \/ /\ req'[c].account \in Admin
                 /\ req'[c].failed = admin[req'[c].account].failed
    PROVE  Counted'
  <1> USE DEF IInv, Types
  <1>1. \A a : /\ Cardinality(WrongPasswords(a)) \in Nat
               /\ Cardinality(WrongPasswords(a)') \in Nat
               /\ Cardinality(WrongPasswords(a)) <= Cardinality(WrongPasswords(a)')
    BY WrongCounts, WrongGrows
  <1>2. \A a \in Admin : admin[a].failed \in Nat
    BY DEF Row, NoRow
  <1>3. ASSUME NEW a \in Admin
        PROVE  /\ admin'[a].failed <= Cardinality(WrongPasswords(a)')
               /\ admin'[a].locked => Cardinality(WrongPasswords(a)') >= MAX_FAILED_ATTEMPTS
    <2>1. /\ admin[a].failed <= Cardinality(WrongPasswords(a))
          /\ admin[a].locked => Cardinality(WrongPasswords(a)) >= MAX_FAILED_ATTEMPTS
      BY DEF Counted
    <2> QED
      BY <1>1, <1>2, <2>1, AdminAssumption
  <1>4. ASSUME NEW a \in Admin, NEW c \in Call, pc'[c] = "password", req'[c].account = a
        PROVE  req'[c].failed <= Cardinality(WrongPasswords(a)')
    <2>a. /\ Cardinality(WrongPasswords(a)) \in Nat
          /\ Cardinality(WrongPasswords(a)') \in Nat
          /\ Cardinality(WrongPasswords(a)) <= Cardinality(WrongPasswords(a)')
      BY <1>1
    <2>1. CASE pc[c] = "password" /\ req'[c] = req[c]
      <3>1. req[c].failed \in Nat /\ req[c].failed <= Cardinality(WrongPasswords(a))
        BY <1>4, <2>1 DEF Counted, Locals
      <3> QED
        BY <2>1, <2>a, <3>1
    <2>2. CASE req'[c].failed = admin[a].failed
      <3>1. admin[a].failed \in Nat /\ req'[c].failed <= Cardinality(WrongPasswords(a))
        BY <1>2, <2>2 DEF Counted
      <3> QED
        BY <2>2, <2>a, <3>1
    <2> QED
      BY <1>4, <2>1, <2>2
  <1> QED
    BY <1>3, <1>4 DEF Counted

\* A wrong password is counted: the login that compared it is refused.
LEMMA WrongIsCounted ==
    ASSUME IInv, Disciplined, Counted, NEW c \in Call, passwordFails(c)
    PROVE  Counted'
  <1> USE DEF IInv, Types
  <1>1. /\ Performs(pc[c], req[c], session, change) /\ req[c] \in Locals
    BY DEF Disciplined, AllPerform
  <1>2. PICK a \in Admin : a = req[c].account
    BY <1>1 DEF passwordFails, Performs, Ended
  <1>a. pc[c] = "password" /\ ~req[c].right /\ req[c].op = "login"
    BY <1>1 DEF passwordFails, Performs
  <1>3. pc' = [pc EXCEPT ![c] = "refused"] /\ req' = req
    <2>1. localsAt("refused", req[c]) = req[c]
      BY <1>a DEF localsAt
    <2> QED
      BY <2>1 DEF passwordFails, Move
  <1>4. \A d \in Call : pc[d] = "refused" => pc'[d] = "refused" /\ req'[d] = req[d]
    BY <1>3
  <1>5. WrongPasswords(a)' = WrongPasswords(a) \cup {c} /\ c \notin WrongPasswords(a)
    BY <1>2, <1>3, <1>a DEF WrongPasswords
  <1>6. /\ Cardinality(WrongPasswords(a)') = Cardinality(WrongPasswords(a)) + 1
        /\ Cardinality(WrongPasswords(a)) \in Nat
    BY <1>5, WrongCounts, FS_AddElement
  <1>7. req[c].failed \in Nat /\ req[c].failed <= Cardinality(WrongPasswords(a))
    BY <1>1, <1>2, <1>a DEF Counted, Locals
  <1>8. /\ admin'[a].failed = req[c].failed + 1
        /\ admin'[a].locked <=> req[c].failed + 1 >= MAX_FAILED_ATTEMPTS
        /\ \A b \in Admin \ {a} : admin'[b] = admin[b]
    <2>1. admin[a] \in Row
      BY <1>2, <1>a DEF AllFit, Fits, SignInPlace, Rowed
    <2>2. (req[c].failed + 1 >= MAX_FAILED_ATTEMPTS) \in BOOLEAN
      BY <1>7, AdminAssumption
    <2> QED
      BY <1>2, <2>1, <2>2 DEF passwordFails, Row
  <1>9. \A b : /\ Cardinality(WrongPasswords(b)) \in Nat
               /\ Cardinality(WrongPasswords(b)') \in Nat
               /\ Cardinality(WrongPasswords(b)) <= Cardinality(WrongPasswords(b)')
    BY <1>4, WrongCounts, WrongGrows
  <1>10. ASSUME NEW b \in Admin
         PROVE  /\ admin'[b].failed <= Cardinality(WrongPasswords(b)')
                /\ admin'[b].locked => Cardinality(WrongPasswords(b)') >= MAX_FAILED_ATTEMPTS
    <2>1. CASE b = a
      <3> DEFINE n == Cardinality(WrongPasswords(a))
                 m == Cardinality(WrongPasswords(a)')
                 f == req[c].failed + 1
      <3>1. n \in Nat /\ m = n + 1 /\ f \in Nat /\ f <= m
        BY <1>6, <1>7
      <3>2. admin'[b].failed = f /\ (admin'[b].locked => f >= MAX_FAILED_ATTEMPTS)
        BY <1>8, <2>1
      <3> HIDE DEF n, m, f
      <3>3. admin'[b].failed <= m /\ (admin'[b].locked => m >= MAX_FAILED_ATTEMPTS)
        BY <3>1, <3>2, AdminAssumption
      <3> QED
        BY <2>1, <3>3 DEF m
    <2>2. CASE b # a
      <3>1. admin[b].failed \in Nat
        BY DEF Row, NoRow
      <3>2. /\ admin[b].failed <= Cardinality(WrongPasswords(b))
            /\ admin[b].locked => Cardinality(WrongPasswords(b)) >= MAX_FAILED_ATTEMPTS
        BY DEF Counted
      <3> QED
        BY <1>8, <1>9, <2>2, <3>1, <3>2, AdminAssumption
    <2> QED
      BY <2>1, <2>2
  <1>11. ASSUME NEW b \in Admin, NEW d \in Call, pc'[d] = "password", req'[d].account = b
         PROVE  req'[d].failed <= Cardinality(WrongPasswords(b)')
    <2>1. req'[d] = req[d] /\ pc[d] = "password" /\ req[d].failed \in Nat
      BY <1>3, <1>11 DEF Locals
    <2>2. req[d].failed <= Cardinality(WrongPasswords(b))
      BY <1>11, <2>1 DEF Counted
    <2> QED
      BY <1>9, <2>1, <2>2
  <1> QED
    BY <1>10, <1>11 DEF Counted

LEMMA StepCounted == IInv /\ Disciplined /\ Counted /\ [Next]_vars => Counted'
  <1> SUFFICES ASSUME IInv, Disciplined, Counted, [Next]_vars PROVE Counted'
    OBVIOUS
  <1> USE DEF IInv, Types
  <1>0. \A a \in Admin : admin[a] \in Row \cup {NoRow}
    OBVIOUS
  <1>1. ASSUME NEW c \in Call, (AuthArrive(c) /\ UNCHANGED change) \/ Arrive(c)
        PROVE  Counted'
    <2>1. PICK place \in RolePlace, l \in Locals : Arrives(c, place, l)
      BY <1>1, CallArrives
    <2>2. /\ UNCHANGED admin /\ pc[c] = "idle"
          /\ \A d \in Call \ {c} : pc'[d] = pc[d] /\ req'[d] = req[d]
          /\ pc'[c] = place /\ req'[c] = localsAt(place, l)
      BY <2>1 DEF Arrives, Begin
    <2>3. place = "password" => /\ localsAt(place, l) = l /\ l.account \in Admin
                                /\ l.failed = admin[l.account].failed
      BY <2>1 DEF Arrives, localsAt, Performs, Ended
    <2> QED
      BY <2>2, <2>3, CountedOn
  <1>2. ASSUME NEW c \in Call, (AuthProceed(c) /\ UNCHANGED change) \/ Proceed(c)
        PROVE  Counted'
    <2>1. /\ pc[c] \notin Ended
          /\ \A d \in Call \ {c} : pc'[d] = pc[d] /\ req'[d] = req[d]
      BY <1>2, CallMovesOn
    <2>2. CASE passwordFails(c)
      BY <2>2, WrongIsCounted
    <2>3. CASE ~passwordFails(c)
      <3>1. pc'[c] # "password"
        BY <1>2, <2>3 DEF AuthProceed, passwordMatches, consumeBackupCode,
           createSession, createSessionFails, revokeSession, logoutAll, readEnrolment,
           initTotpSetup, confirmTotpSetup, disableTotp, Proceed, findTarget, readTarget,
           findPending, createChange, approveRoleChange, rejectRoleChange, applyChange,
           closeChange, findEmail, create, deactivate, activate, Move
      <3>2. \A a \in Admin : /\ admin'[a].failed \in {admin[a].failed, 0}
                             /\ admin'[a].locked => admin[a].locked
        <4>1. CASE passwordMatches(c)
          BY <1>0, <4>1 DEF passwordMatches, Row, NoRow
        <4>2. CASE consumeBackupCode(c) \/ initTotpSetup(c) \/ confirmTotpSetup(c) \/ disableTotp(c)
          BY <1>0, <4>2 DEF consumeBackupCode, initTotpSetup, confirmTotpSetup, disableTotp, Row, NoRow
        <4>3. CASE create(c)
          BY <1>0, <4>3 DEF create, Row, NoRow
        <4>6. CASE activate(c)
          BY <1>0, <4>6 DEF activate, Row, NoRow
        <4>4. CASE deactivate(c) \/ applyChange(c)
          BY <1>0, <4>4 DEF deactivate, applyChange, Row, NoRow
        <4>5. CASE UNCHANGED admin
          BY <4>5
        <4> QED
          BY <1>2, <2>3, <4>1, <4>2, <4>3, <4>4, <4>5, <4>6 DEF AuthProceed, createSession,
             createSessionFails, revokeSession, logoutAll, readEnrolment, Proceed, findTarget,
             readTarget, findPending, createChange, approveRoleChange, rejectRoleChange,
             closeChange, findEmail
      <3> QED
        BY <2>1, <3>1, <3>2, CountedOn DEF Ended
    <2> QED
      BY <2>2, <2>3
  <1>3. ASSUME NEW a \in Admin, lockExpires(a)
        PROVE  Counted'
    <2>1. UNCHANGED <<pc, req>>
      BY <1>3 DEF lockExpires
    <2>2. \A b \in Admin : /\ admin'[b].failed = admin[b].failed
                           /\ admin'[b].locked => admin[b].locked
      BY <1>0, <1>3 DEF lockExpires, Row, NoRow
    <2> QED
      BY <2>1, <2>2, CountedOn
  <1>4. CASE UNCHANGED vars
    BY <1>4 DEF vars, authVars, Counted, WrongPasswords
  <1> QED
    BY <1>1, <1>2, <1>3, <1>4 DEF Next, AuthNext

LEMMA InitCounted == RolesInit => Counted
  <1> SUFFICES ASSUME RolesInit PROVE Counted
    OBVIOUS
  <1>1. \A a \in Admin : admin[a].failed = 0 /\ ~admin[a].locked
    BY FirstAdminAssumption DEF RolesInit, Init
  <1> QED
    BY <1>1, WrongCounts DEF RolesInit, Init, Counted

\* In every behaviour a locked account has seen MAX_FAILED_ATTEMPTS wrong passwords, whatever
\* logins race on its counter (login's lock-out).
THEOREM LocksAreEarned == Spec => []LockIsEarned
  <1>1. Counted => LockIsEarned
    BY DEF Counted, LockIsEarned
  <1> QED
    BY <1>1, InitCounted, StepCounted, ConsoleIsSound, CallsAreDisciplined, PTL DEF Spec

-----------------------------------------------------------------------------
\* A call that moves on leaves TOTP usable.
LEMMA MovesUsable ==
    ASSUME IInv, Disciplined, TotpUsable, NEW c \in Call,
           (AuthProceed(c) /\ UNCHANGED change) \/ Proceed(c)
    PROVE  TotpUsable'
  <1> USE DEF IInv, Types
  <1>1. /\ overlapped' = overlapped /\ pc[c] \notin Ended
        /\ \A d \in Call \ {c} : pc'[d] = pc[d] /\ req'[d] = req[d]
    BY CallMovesOn
  <1>2. OwnOnly(c)
    BY CallMindsItsOwn DEF Disciplined
  <1>3. req[c].account \in Admin
    BY <1>1 DEF Disciplined, AllPerform, Performs
  <1> SUFFICES ASSUME NEW a \in Admin \ overlapped, admin'[a].enabled
               PROVE  /\ admin'[a].secret # "none"
                      /\ \/ admin'[a].secret = InitialAdmin[a].secret
                         \/ \E d \in Call : /\ req'[d].op = "confirmTotpSetup" /\ pc'[d] = "done"
                                            /\ req'[d].account = a
                                            /\ req'[d].secret = admin'[a].secret
    BY <1>1 DEF TotpUsable
  <1>4. ASSUME admin'[a].enabled = admin[a].enabled, admin'[a].secret = admin[a].secret
        PROVE  /\ admin'[a].secret # "none"
               /\ \/ admin'[a].secret = InitialAdmin[a].secret
                  \/ \E d \in Call : /\ req'[d].op = "confirmTotpSetup" /\ pc'[d] = "done"
                                     /\ req'[d].account = a
                                     /\ req'[d].secret = admin'[a].secret
    <2>1. /\ admin[a].secret # "none"
          /\ \/ admin[a].secret = InitialAdmin[a].secret
             \/ \E d \in Call : /\ req[d].op = "confirmTotpSetup" /\ pc[d] = "done"
                                /\ req[d].account = a /\ req[d].secret = admin[a].secret
      BY <1>4 DEF TotpUsable
    <2>2. \A d \in Call : pc[d] = "done" => pc'[d] = "done" /\ req'[d] = req[d]
      BY <1>1 DEF Ended
    <2> QED
      BY <1>4, <2>1, <2>2
  <1>5. CASE req[c].account # a
    BY <1>2, <1>4, <1>5 DEF OwnOnly
  <1>6. CASE req[c].account = a
    <2>1. /\ Alone(pc[c], req[c], admin, change)
          /\ admin[a] \in Row \cup {NoRow}
      BY <1>6 DEF Disciplined, AllAlone
    <2>2. CASE initTotpSetup(c)
      BY <1>6, <2>1, <2>2 DEF initTotpSetup, Alone, Row, NoRow
    <2>3. CASE confirmTotpSetup(c)
      <3>1. admin'[a].secret = admin[a].secret
        BY <1>6, <2>1, <2>3 DEF confirmTotpSetup, Row, NoRow
      <3>2. req[c].secret = admin[a].secret /\ req[c].secret # "none"
        BY <1>6, <2>1, <2>3 DEF confirmTotpSetup, Alone
      <3>3. pc'[c] = "done" /\ req'[c] = req[c] /\ req[c].op = "confirmTotpSetup"
        BY <2>3 DEF confirmTotpSetup, Move, localsAt
      <3> QED
        BY <1>6, <3>1, <3>2, <3>3
    <2>4. CASE disableTotp(c)
      BY <1>6, <2>1, <2>4 DEF disableTotp, Row, NoRow
    <2>5. CASE create(c)
      <3>1. CASE admin[a] = NoRow
        BY <1>6, <2>5, <3>1 DEF create, NoRow
      <3>2. CASE admin[a] # NoRow
        BY <1>4, <1>6, <2>5, <3>2 DEF create
      <3> QED
        BY <3>1, <3>2
    <2>6. CASE passwordFails(c) \/ passwordMatches(c) \/ consumeBackupCode(c)
      <3>1. CASE passwordFails(c)
        <4>1. admin'[a].enabled = admin[a].enabled /\ admin'[a].secret = admin[a].secret
          BY <1>6, <2>1, <3>1 DEF passwordFails, Row, NoRow
        <4> QED
          BY <1>4, <4>1
      <3>2. CASE passwordMatches(c)
        <4>1. admin'[a].enabled = admin[a].enabled /\ admin'[a].secret = admin[a].secret
          BY <1>6, <2>1, <3>2 DEF passwordMatches, Row, NoRow
        <4> QED
          BY <1>4, <4>1
      <3>3. CASE consumeBackupCode(c)
        <4>1. admin'[a].enabled = admin[a].enabled /\ admin'[a].secret = admin[a].secret
          BY <1>6, <2>1, <3>3 DEF consumeBackupCode, Row, NoRow
        <4> QED
          BY <1>4, <4>1
      <3> QED
        BY <2>6, <3>1, <3>2, <3>3
    <2>7. CASE applyChange(c) \/ deactivate(c) \/ activate(c)
      <3>1. CASE applyChange(c)
        <4>1. change[req[c].change].target = a
          BY <1>6, <3>1 DEF applyChange, Disciplined, AllPerform, Performs, ReviewPlace
        <4>2. admin' = [admin EXCEPT ![a].role = change[req[c].change].to]
          BY <3>1, <4>1 DEF applyChange
        <4> QED
          BY <1>4, <2>1, <4>2 DEF Row, NoRow
      <3>2. CASE deactivate(c)
        <4>1. admin'[a].enabled = admin[a].enabled /\ admin'[a].secret = admin[a].secret
          BY <1>6, <2>1, <3>2 DEF deactivate, Row, NoRow
        <4> QED
          BY <1>4, <4>1
      <3>3. CASE activate(c)
        <4>1. admin'[a].enabled = admin[a].enabled /\ admin'[a].secret = admin[a].secret
          <5>1. CASE admin[a] = NoRow
            BY <1>6, <3>3, <5>1 DEF activate
          <5>2. CASE admin[a] # NoRow
            <6>1. admin' = [admin EXCEPT ![a].active = TRUE]
              BY <1>6, <3>3, <5>2 DEF activate
            <6> QED
              BY <2>1, <6>1 DEF Row, NoRow
          <5> QED
            BY <5>1, <5>2
        <4> QED
          BY <1>4, <4>1
      <3> QED
        BY <2>7, <3>1, <3>2, <3>3
    <2>8. CASE UNCHANGED admin
      BY <1>4, <2>8
    <2> QED
      BY <2>2, <2>3, <2>4, <2>5, <2>6, <2>7, <2>8 DEF AuthProceed, createSession,
         createSessionFails, revokeSession, logoutAll, readEnrolment, Proceed, findTarget,
         readTarget, findPending, createChange, approveRoleChange, rejectRoleChange,
         closeChange, findEmail
  <1> QED
    BY <1>5, <1>6

LEMMA StepUsable == IInv /\ Disciplined /\ TotpUsable /\ [Next]_vars => TotpUsable'
  <1> SUFFICES ASSUME IInv, Disciplined, TotpUsable, [Next]_vars PROVE TotpUsable'
    OBVIOUS
  <1>1. ASSUME NEW c \in Call, (AuthArrive(c) /\ UNCHANGED change) \/ Arrive(c)
        PROVE  TotpUsable'
    <2>1. PICK place \in RolePlace, l \in Locals : Arrives(c, place, l)
      BY <1>1, CallArrives
    <2>2. /\ UNCHANGED admin /\ overlapped \subseteq overlapped' /\ pc[c] = "idle"
          /\ \A d \in Call \ {c} : pc'[d] = pc[d] /\ req'[d] = req[d]
      BY <2>1 DEF Arrives, Begin, IInv, Types
    <2>3. \A d \in Call : pc[d] = "done" => pc'[d] = "done" /\ req'[d] = req[d]
      BY <2>2
    <2> QED
      BY <2>2, <2>3 DEF TotpUsable
  <1>2. ASSUME NEW c \in Call, (AuthProceed(c) /\ UNCHANGED change) \/ Proceed(c)
        PROVE  TotpUsable'
    BY <1>2, MovesUsable
  <1>3. ASSUME NEW a \in Admin, lockExpires(a)
        PROVE  TotpUsable'
    <2>1. UNCHANGED <<pc, req, overlapped>>
      BY <1>3 DEF lockExpires
    <2>2. \A b \in Admin : /\ admin'[b].enabled = admin[b].enabled
                           /\ admin'[b].secret = admin[b].secret
      BY <1>3 DEF lockExpires, IInv, Types, Row, NoRow
    <2> QED
      BY <2>1, <2>2 DEF TotpUsable
  <1>4. CASE UNCHANGED vars
    BY <1>4 DEF vars, authVars, TotpUsable
  <1> QED
    BY <1>1, <1>2, <1>3, <1>4 DEF Next, AuthNext

LEMMA InitUsable == RolesInit => TotpUsable
  <1>1. \A a \in Admin : InitialAdmin[a].enabled => InitialAdmin[a].secret = a /\ a # "none"
    BY FirstAdminAssumption
  <1> QED
    BY <1>1 DEF RolesInit, Init, TotpUsable

\* In every behaviour an account whose enrolment calls never overlapped and that has TOTP on
\* has a secret, and it is the one a confirmation checked a code of (readEnrolment).
THEOREM TotpStaysUsable == Spec => []TotpUsable
  BY InitUsable, StepUsable, ConsoleIsSound, CallsAreDisciplined, PTL DEF Spec

-----------------------------------------------------------------------------
\* A backup code is of the account that confirmed the enrolment it was made in.
Owns(a, code) ==
    \/ code[1] = a
    \/ /\ code[1] \in Call /\ pc[code[1]] = "done"
       /\ req[code[1]].op = "confirmTotpSetup" /\ req[code[1]].account = a

Uses(c) == /\ pc[c] \in {"createSession", "done"} /\ req[c].op = "validateTotp"
           /\ req[c].code \in BackupCode

\* Codes are kept, read and used by their owner; one that is used is off the list, and is
\* not used again, unless calls of its owner overlapped.
CodesKept ==
    /\ \A a \in Admin : \A code \in admin[a].codes : Owns(a, code)
    /\ \A c \in Call : pc[c] = "consume" => \A code \in req[c].codes : Owns(req[c].account, code)
    /\ \A c \in Call : Uses(c) => req[c].account \in Admin /\ Owns(req[c].account, req[c].code)

CodesSpent ==
    /\ \A c \in Call : Uses(c) => \/ req[c].account \in overlapped
                                  \/ req[c].code \notin admin[req[c].account].codes
    /\ \A c, d \in Call : c # d /\ Uses(c) /\ Uses(d) /\ req[c].code = req[d].code
                          => req[c].account \in overlapped

\* A code has one owner.
LEMMA OneOwner ==
    ASSUME IInv, NEW a \in Admin, NEW b \in Admin, NEW code, Owns(a, code), Owns(b, code)
    PROVE  a = b
  BY FirstAdminAssumption DEF Owns

\* A step in which nobody starts or uses a code and no list grows keeps the codes.
LEMMA CodesOn ==
    ASSUME IInv, CodesKept, CodesSpent,
           overlapped \subseteq overlapped',
           \A d \in Call : pc[d] = "done" => pc'[d] = "done" /\ req'[d] = req[d],
           \A a \in Admin : admin'[a].codes \subseteq admin[a].codes,
           \A c \in Call : pc'[c] = "consume" =>
              \/ pc[c] = "consume" /\ req'[c] = req[c]
              \/ req'[c].account \in Admin /\ req'[c].codes = admin[req'[c].account].codes,
           \A c \in Call : Uses(c)' =>
              Uses(c) /\ req'[c].account = req[c].account /\ req'[c].code = req[c].code
    PROVE  CodesKept' /\ CodesSpent'
  <1>1. \A a, code : Owns(a, code) =>
          \/ code[1] = a
          \/ /\ code[1] \in Call /\ pc'[code[1]] = "done"
             /\ req'[code[1]].op = "confirmTotpSetup" /\ req'[code[1]].account = a
    BY DEF Owns
  <1>2. CodesKept'
    <2>1. ASSUME NEW a \in Admin, NEW code \in admin'[a].codes
          PROVE  Owns(a, code)'
      BY <1>1, <2>1 DEF CodesKept, Owns
    <2>2. ASSUME NEW c \in Call, pc'[c] = "consume", NEW code \in req'[c].codes
          PROVE  Owns(req[c].account, code)'
      <3>1. Owns(req'[c].account, code)
        BY <2>2 DEF CodesKept
      <3> QED
        BY <1>1, <3>1 DEF Owns
    <2>3. ASSUME NEW c \in Call, Uses(c)'
          PROVE  req'[c].account \in Admin /\ Owns(req[c].account, req[c].code)'
      <3>1. req'[c].account \in Admin /\ Owns(req'[c].account, req'[c].code)
        BY <2>3 DEF CodesKept
      <3> QED
        BY <1>1, <3>1 DEF Owns
    <2> QED
      BY <2>1, <2>2, <2>3 DEF CodesKept
  <1>3. CodesSpent'
    BY DEF CodesSpent, CodesKept
  <1> QED
    BY <1>2, <1>3

\* A backup code is used.
LEMMA ConsumeKeeps ==
    ASSUME IInv, Disciplined, CodesKept, CodesSpent, NEW c \in Call, consumeBackupCode(c)
    PROVE  CodesKept' /\ CodesSpent'
  <1> USE DEF IInv, Types
  <1>1. PICK a \in Admin : a = req[c].account
    BY DEF consumeBackupCode, Disciplined, AllPerform, Performs, Ended
  <1>2. /\ pc[c] = "consume" /\ pc' = [pc EXCEPT ![c] = "createSession"]
        /\ req' = req /\ overlapped' = overlapped
    BY DEF consumeBackupCode, Move, localsAt
  <1>3. /\ a \in overlapped \/ req[c].codes = admin[a].codes
        /\ req[c].code \in req[c].codes
    BY <1>1, <1>2 DEF Disciplined, AllPerform, AllAlone, Performs, Alone
  <1>4. /\ admin'[a].codes = req[c].codes \ {req[c].code}
        /\ \A b \in Admin \ {a} : admin'[b] = admin[b]
    <2>1. admin[a] \in Row
      BY <1>1, <1>2 DEF AllFit, Fits, SignInPlace, Rowed
    <2> QED
      BY <1>1, <2>1 DEF consumeBackupCode, Row
  <1>5. \A b, code : Owns(b, code) => Owns(b, code)'
    BY <1>2 DEF Owns
  <1>6. \A d \in Call \ {c} : Uses(d)' => Uses(d)
    BY <1>2 DEF Uses
  <1>7. Owns(a, req[c].code)
    BY <1>1, <1>2, <1>3 DEF CodesKept
  <1>8. CodesKept'
    <2>1. ASSUME NEW b \in Admin, NEW code \in admin'[b].codes
          PROVE  Owns(b, code)'
      <3>1. Owns(b, code)
        BY <1>1, <1>2, <1>4, <2>1 DEF CodesKept
      <3> QED
        BY <1>5, <3>1
    <2>2. ASSUME NEW d \in Call, pc'[d] = "consume"
          PROVE  \A code \in req'[d].codes : Owns(req[d].account, code)'
      <3>1. pc[d] = "consume"
        BY <1>2, <2>2
      <3> QED
        BY <1>2, <3>1 DEF CodesKept, Owns
    <2>3. ASSUME NEW d \in Call, Uses(d)'
          PROVE  req'[d].account \in Admin /\ Owns(req[d].account, req[d].code)'
      <3>1. req[d].account \in Admin /\ Owns(req[d].account, req[d].code)
        BY <1>1, <1>6, <1>7, <2>3 DEF CodesKept
      <3> QED
        BY <1>2, <3>1 DEF Owns
    <2> QED
      BY <2>1, <2>2, <2>3 DEF CodesKept
  <1>9. CodesSpent'
    <2>1. ASSUME NEW d \in Call \ {c}, Uses(d), req[d].account \notin overlapped
          PROVE  req[d].code \notin admin'[req[d].account].codes
      <3>1. req[d].code \notin admin[req[d].account].codes
        BY <2>1 DEF CodesSpent
      <3>2. CASE req[d].account = a
        BY <1>3, <1>4, <2>1, <3>1, <3>2
      <3>3. CASE req[d].account # a
        <4>1. admin'[req[d].account] = admin[req[d].account]
          BY <1>1, <3>3 DEF consumeBackupCode
        <4> QED
          BY <3>1, <4>1
      <3> QED
        BY <3>2, <3>3
    <2>2. req[c].code \notin admin'[a].codes
      BY <1>4
    <2>3. ASSUME NEW d \in Call \ {c}, Uses(d), req[d].code = req[c].code
          PROVE  req[d].account = a /\ a \in overlapped
      <3>1. Owns(req[d].account, req[c].code)
        BY <2>3 DEF CodesKept
      <3>2. req[d].account = a
        BY <1>7, <2>3, <3>1, OneOwner DEF CodesKept
      <3>3. req[d].account \in overlapped \/ req[c].code \notin admin[a].codes
        BY <2>3, <3>2 DEF CodesSpent
      <3> QED
        BY <1>3, <3>2, <3>3
    <2> QED
      BY <1>1, <1>2, <1>6, <2>1, <2>2, <2>3 DEF CodesSpent
  <1> QED
    BY <1>8, <1>9

\* Fresh codes replace the list.
LEMMA ConfirmKeeps ==
    ASSUME IInv, Disciplined, CodesKept, CodesSpent, NEW c \in Call, confirmTotpSetup(c)
    PROVE  CodesKept' /\ CodesSpent'
  <1> USE DEF IInv, Types
  <1>1. PICK a \in Admin : a = req[c].account
    BY DEF confirmTotpSetup, Disciplined, AllPerform, Performs, Ended
  <1>2. /\ pc[c] = "enrol" /\ req[c].op = "confirmTotpSetup"
        /\ pc' = [pc EXCEPT ![c] = "done"] /\ req' = req /\ overlapped' = overlapped
    BY DEF confirmTotpSetup, Move, localsAt
  <1>3. /\ admin'[a].codes = backupCodesOf(c)
        /\ \A b \in Admin \ {a} : admin'[b] = admin[b]
    <2>1. admin[a] \in Row
      BY <1>1, <1>2 DEF AllFit, Fits, SignInPlace, Rowed
    <2> QED
      BY <1>1, <2>1 DEF confirmTotpSetup, Row
  <1>4. \A code \in backupCodesOf(c) : code[1] = c
    BY DEF backupCodesOf
  <1>5. \A b, code : Owns(b, code) => Owns(b, code)'
    BY <1>2 DEF Owns
  <1>6. \A d \in Call : Uses(d)' => Uses(d) /\ d # c
    BY <1>2 DEF Uses
  <1>7. CodesKept'
    <2>1. ASSUME NEW b \in Admin, NEW code \in admin'[b].codes
          PROVE  Owns(b, code)'
      <3>1. CASE b = a
        BY <1>1, <1>2, <1>3, <1>4, <2>1, <3>1 DEF Owns
      <3>2. CASE b # a
        BY <1>3, <1>5, <2>1, <3>2 DEF CodesKept
      <3> QED
        BY <3>1, <3>2
    <2>2. ASSUME NEW d \in Call, pc'[d] = "consume"
          PROVE  \A code \in req'[d].codes : Owns(req[d].account, code)'
      <3>1. pc[d] = "consume"
        BY <1>2, <2>2
      <3> QED
        BY <1>2, <3>1 DEF CodesKept, Owns
    <2>3. ASSUME NEW d \in Call, Uses(d)'
          PROVE  req'[d].account \in Admin /\ Owns(req[d].account, req[d].code)'
      <3>1. req[d].account \in Admin /\ Owns(req[d].account, req[d].code)
        BY <1>6, <2>3 DEF CodesKept
      <3> QED
        BY <1>2, <3>1 DEF Owns
    <2> QED
      BY <2>1, <2>2, <2>3 DEF CodesKept
  <1>8. CodesSpent'
    <2>1. ASSUME NEW d \in Call, Uses(d), req[d].account \notin overlapped
          PROVE  req[d].code \notin admin'[req[d].account].codes
      <3>1. CASE req[d].account = a
        <4>1. Owns(a, req[d].code)
          BY <2>1, <3>1 DEF CodesKept
        <4>2. req[d].code[1] # c
          BY <1>2, <4>1, FirstAdminAssumption DEF Owns
        <4> QED
          BY <1>3, <1>4, <3>1, <4>2
      <3>2. CASE req[d].account # a
        <4>1. admin'[req[d].account] = admin[req[d].account]
          BY <1>1, <1>3, <2>1, <3>2 DEF CodesKept
        <4> QED
          BY <2>1, <4>1 DEF CodesSpent
      <3> QED
        BY <3>1, <3>2
    <2> QED
      BY <1>2, <1>6, <2>1 DEF CodesSpent
  <1> QED
    BY <1>7, <1>8

LEMMA StepCodes == IInv /\ Disciplined /\ CodesKept /\ CodesSpent /\ [Next]_vars
                   => CodesKept' /\ CodesSpent'
  <1> SUFFICES ASSUME IInv, Disciplined, CodesKept, CodesSpent, [Next]_vars
               PROVE  CodesKept' /\ CodesSpent'
    OBVIOUS
  <1> USE DEF IInv, Types
  <1>0. \A a \in Admin : admin[a] \in Row \cup {NoRow}
    OBVIOUS
  <1>1. ASSUME NEW c \in Call, (AuthArrive(c) /\ UNCHANGED change) \/ Arrive(c)
        PROVE  CodesKept' /\ CodesSpent'
    <2>1. PICK place \in RolePlace, l \in Locals : Arrives(c, place, l)
      BY <1>1, CallArrives
    <2>2. /\ UNCHANGED admin /\ overlapped \subseteq overlapped' /\ pc[c] = "idle"
          /\ \A d \in Call \ {c} : pc'[d] = pc[d] /\ req'[d] = req[d]
          /\ pc'[c] = place /\ req'[c] = localsAt(place, l) /\ place # "done"
      BY <2>1 DEF Arrives, Begin, EnrolPlace
    <2>3. place = "consume" => /\ localsAt(place, l) = l /\ l.account \in Admin
                               /\ l.codes = admin[l.account].codes
      BY <2>1 DEF Arrives, localsAt, Performs, Alone, Ended
    <2>4. ~Uses(c)'
      BY <2>1, <2>2 DEF Arrives, Uses, localsAt
    <2>5. \A d \in Call : Uses(d)' =>
             Uses(d) /\ req'[d].account = req[d].account /\ req'[d].code = req[d].code
      BY <2>2, <2>4 DEF Uses
    <2>6. \A d \in Call : pc[d] = "done" => pc'[d] = "done" /\ req'[d] = req[d]
      BY <2>2
    <2>7. \A d \in Call : pc'[d] = "consume" =>
              \/ pc[d] = "consume" /\ req'[d] = req[d]
              \/ req'[d].account \in Admin /\ req'[d].codes = admin[req'[d].account].codes
      BY <2>2, <2>3
    <2> QED
      BY <2>2, <2>5, <2>6, <2>7, CodesOn
  <1>2. ASSUME NEW c \in Call, (AuthProceed(c) /\ UNCHANGED change) \/ Proceed(c),
               ~consumeBackupCode(c), ~confirmTotpSetup(c)
        PROVE  CodesKept' /\ CodesSpent'
    <2>1. /\ pc[c] \notin Ended /\ overlapped' = overlapped
          /\ \A d \in Call \ {c} : pc'[d] = pc[d] /\ req'[d] = req[d]
          /\ pc'[c] \notin {"refused", "failed"} =>
                /\ req'[c].op = req[c].op /\ req'[c].account = req[c].account
                /\ req'[c].code = req[c].code
      BY <1>2, CallMovesOn
    <2>2. Performs(pc[c], req[c], session, change) /\ Fits(pc[c], req[c], admin, session, change)
      BY DEF Disciplined, AllPerform, AllFit
    <2>3. pc'[c] # "consume"
      BY <1>2 DEF AuthProceed, passwordFails, passwordMatches, createSession,
         createSessionFails, revokeSession, logoutAll, readEnrolment,
         initTotpSetup, disableTotp, Proceed, findTarget, readTarget,
         findPending, createChange, approveRoleChange, rejectRoleChange, applyChange,
         closeChange, findEmail, create, deactivate, activate, Move
    <2>4. \A a \in Admin : admin'[a].codes \subseteq admin[a].codes
      <3>1. CASE passwordFails(c) \/ passwordMatches(c)
        BY <1>0, <3>1 DEF passwordFails, passwordMatches, Row, NoRow
      <3>2. CASE initTotpSetup(c) \/ disableTotp(c)
        BY <1>0, <3>2 DEF initTotpSetup, disableTotp, Row, NoRow
      <3>3. CASE create(c)
        BY <1>0, <3>3 DEF create, Row, NoRow
      <3>4. CASE activate(c)
        BY <1>0, <3>4 DEF activate, Row, NoRow
      <3>5. CASE deactivate(c) \/ applyChange(c)
        BY <1>0, <3>5 DEF deactivate, applyChange, Row, NoRow
      <3>6. CASE UNCHANGED admin
        BY <3>6
      <3> QED
        BY <1>2, <3>1, <3>2, <3>3, <3>4, <3>5, <3>6 DEF AuthProceed, createSession,
           createSessionFails, revokeSession, logoutAll, readEnrolment, Proceed, findTarget,
           readTarget, findPending, createChange, approveRoleChange, rejectRoleChange,
           closeChange, findEmail
    <2>5. Uses(c)' => Uses(c) /\ req'[c].account = req[c].account /\ req'[c].code = req[c].code
      <3> SUFFICES ASSUME Uses(c)'
                   PROVE  Uses(c) /\ req'[c].account = req[c].account /\ req'[c].code = req[c].code
        OBVIOUS
      <3>1. /\ pc'[c] \in {"createSession", "done"} /\ req[c].op = "validateTotp"
            /\ req[c].code \in BackupCode
            /\ req'[c].account = req[c].account /\ req'[c].code = req[c].code
        BY <2>1 DEF Uses
      <3>2. pc[c] \in {"consume", "createSession"}
        <4>1. pc[c] \notin {"password", "revoke", "logoutAll", "enrol", "create", "insert",
                            "activate", "approve", "apply", "reject", "close"} \cup EnrolPlace
          BY <2>2, <3>1 DEF Performs, EnrolPlace
        <4>2. pc[c] \notin ProposePlace \cup {"deactivate", "transaction"}
          BY <2>2, <3>1 DEF Fits
        <4> QED
          BY <2>1, <4>1, <4>2 DEF RolePlace, Place, Ended, EnrolPlace, ProposePlace
      <3>3. pc[c] = "createSession"
        BY <1>2, <3>2 DEF AuthProceed, passwordFails, passwordMatches, createSession,
           createSessionFails, revokeSession, logoutAll, readEnrolment,
           initTotpSetup, disableTotp, Proceed, findTarget, readTarget,
           findPending, createChange, approveRoleChange, rejectRoleChange, applyChange,
           closeChange, findEmail, create, deactivate, activate
      <3> QED
        BY <3>1, <3>3 DEF Uses
    <2>6. \A d \in Call : Uses(d)' =>
             Uses(d) /\ req'[d].account = req[d].account /\ req'[d].code = req[d].code
      BY <2>1, <2>5 DEF Uses
    <2>7. \A d \in Call : pc[d] = "done" => pc'[d] = "done" /\ req'[d] = req[d]
      BY <2>1 DEF Ended
    <2> QED
      BY <2>1, <2>3, <2>4, <2>6, <2>7, CodesOn
  <1>3. ASSUME NEW a \in Admin, lockExpires(a)
        PROVE  CodesKept' /\ CodesSpent'
    <2>1. UNCHANGED <<pc, req, overlapped>>
      BY <1>3 DEF lockExpires
    <2>2. \A b \in Admin : admin'[b].codes = admin[b].codes
      BY <1>0, <1>3 DEF lockExpires, Row, NoRow
    <2>3. \A d \in Call : Uses(d)' => Uses(d)
      BY <2>1 DEF Uses
    <2> QED
      BY <2>1, <2>2, <2>3, CodesOn
  <1>4. CASE UNCHANGED vars
    BY <1>4 DEF vars, authVars, CodesKept, CodesSpent, Owns, Uses
  <1> QED
    BY <1>1, <1>2, <1>3, <1>4, ConsumeKeeps, ConfirmKeeps DEF Next, AuthNext

LEMMA InitCodes == RolesInit => CodesKept /\ CodesSpent
  <1> SUFFICES ASSUME RolesInit PROVE CodesKept /\ CodesSpent
    OBVIOUS
  <1>1. \A a \in Admin : \A code \in admin[a].codes : code[1] = a
    BY FirstAdminAssumption DEF RolesInit, Init, backupCodesOf
  <1>2. \A c \in Call : ~Uses(c) /\ pc[c] # "consume"
    BY DEF RolesInit, Init, Uses
  <1> QED
    BY <1>1, <1>2 DEF CodesKept, CodesSpent, Owns

\* In every behaviour a backup code opens one session at most, unless calls of its owner
\* overlapped: consumeBackupCode writes back, without it, the list that it was found on.
THEOREM BackupCodesOpenOnce == Spec => []BackupCodeOnce
  <1>1. CodesSpent => BackupCodeOnce
    BY DEF CodesSpent, BackupCodeOnce, Uses
  <1> QED
    BY <1>1, InitCodes, StepCodes, ConsoleIsSound, CallsAreDisciplined, PTL DEF Spec

\* In every behaviour the accounts' credentials are sound: their types, locks that are
\* earned, TOTP that can be used and backup codes that open one session.
THEOREM CredentialsAreSound == Spec => []CredentialsSound
  BY RolesTypeCorrect, LocksAreEarned, TotpStaysUsable, BackupCodesOpenOnce, PTL
     DEF CredentialsSound
=============================================================================
