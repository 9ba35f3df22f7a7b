----------------------------- MODULE AdminRoles -----------------------------
(***************************************************************************)
(* The administrators' console: AdminUsersController and AdminUsersService  *)
(* behind AdminJwtGuard and AdminRoleGuard, beside the sign-in of           *)
(* AdminAuth, with which it shares the AdminUser and AdminSession rows.     *)
(***************************************************************************)
EXTENDS AdminAuth

VARIABLE change   \* the AdminRoleChangeRequest rows, by the call that made them

vars == <<authVars, change>>

-----------------------------------------------------------------------------
ROLE_RANK == [REVIEWER |-> 0, MODERATOR |-> 1, SUPER_ADMIN |-> 2]

\* (mutant) Equals may manage each other.
assertCanManage_peer(requestingRole, targetRole) ==
    ROLE_RANK[requestingRole] >= ROLE_RANK[targetRole]

assertCanManage(requestingRole, targetRole) ==
    ROLE_RANK[requestingRole] > ROLE_RANK[targetRole]

NoChange == [target |-> "none", from |-> "none", to |-> "none", by |-> "none",
             status |-> "none", reviewer |-> "none"]

RolesInit == Init /\ change = [c \in Call |-> NoChange]

\* Both guards pass: the session is live and its owner, whose role is read with
\* it, is a Super Admin.
superAdmin(c, id, place, account, role, ch) ==
    LET a == session[id].admin
    IN  /\ session[id] # NoSession
        /\ Begin(c, IF Authenticated(id) /\ ROLE_RANK[admin[a].role] >= ROLE_RANK["SUPER_ADMIN"]
                    THEN place ELSE "refused",
                 [NoCall EXCEPT !.op = place, !.by = a, !.byRole = admin[a].role,
                    !.account = account, !.role = role, !.change = ch])
        /\ UNCHANGED <<admin, session, change>>

\* findById and assertCanManage, in the controller.
findTarget(c) ==
    LET target == admin[req[c].account]
        ok     == target # NoRow /\ assertCanManage(req[c].byRole, target.role)
    IN  /\ pc[c] \in {"requestRoleChange", "deactivate"}
        /\ Move(c, IF ok /\ req[c].account # req[c].by
                   THEN (IF req[c].op = "deactivate" THEN "transaction" ELSE "target")
                   ELSE "refused", req[c])
        /\ UNCHANGED <<admin, session, change>>

-----------------------------------------------------------------------------
(***************************************************************************)
(* Four eyes: request, approve, reject.                                    *)
(***************************************************************************)

\* The target is read again, by the service.
readTarget(c) ==
    LET target == admin[req[c].account]
    IN  /\ pc[c] = "target"
        /\ Move(c, IF target.active /\ target.role # req[c].role THEN "pending" ELSE "refused",
                [req[c] EXCEPT !.from = target.role])
        /\ UNCHANGED <<admin, session, change>>

findPending(c) ==
    /\ pc[c] = "pending"
    /\ Move(c, IF \E d \in Call : change[d].target = req[c].account /\ change[d].status = "PENDING"
               THEN "refused" ELSE "createChange", req[c])
    /\ UNCHANGED <<admin, session, change>>

createChange(c) ==
    /\ pc[c] = "createChange"
    /\ change' = [change EXCEPT ![c] =
          [target |-> req[c].account, from |-> req[c].from, to |-> req[c].role,
           by |-> req[c].by, status |-> "PENDING", reviewer |-> "none"]]
    /\ Move(c, "done", req[c])
    /\ UNCHANGED <<admin, session>>

\* (mutant) The requester may approve.
mayApprove_alone(c) ==
    LET ch == change[req[c].change]
    IN  /\ ch.status = "PENDING"
        /\ req[c].by # ch.target
        /\ admin[ch.target].active
        /\ admin[ch.target].role = ch.from

\* What approveRoleChange checks of the request and the target it read.
mayApprove(c) ==
    LET ch == change[req[c].change]
    IN  /\ ch.status = "PENDING"
        /\ req[c].by # ch.by
        /\ req[c].by # ch.target
        /\ admin[ch.target].active
        /\ admin[ch.target].role = ch.from

approveRoleChange(c) ==
    /\ pc[c] = "approve"
    /\ Move(c, IF mayApprove(c) THEN "apply" ELSE "refused", req[c])
    /\ UNCHANGED <<admin, session, change>>

\* (mutant) The target keeps its sessions.
applyChange_signedIn(c) ==
    LET ch == change[req[c].change]
    IN  /\ pc[c] = "apply"
        /\ admin' = [admin EXCEPT ![ch.target].role = ch.to]
        /\ change' = [change EXCEPT ![req[c].change].status = "APPROVED",
                                    ![req[c].change].reviewer = req[c].by]
        /\ Move(c, "done", req[c])
        /\ UNCHANGED session

\* The transaction: the role, the request and the sessions, with no condition.
applyChange(c) ==
    LET ch == change[req[c].change]
    IN  /\ pc[c] = "apply"
        /\ admin' = [admin EXCEPT ![ch.target].role = ch.to]
        /\ change' = [change EXCEPT ![req[c].change].status = "APPROVED",
                                    ![req[c].change].reviewer = req[c].by]
        /\ session' = Revoke(session, ch.target)
        /\ Move(c, "done", req[c])

rejectRoleChange(c) ==
    /\ pc[c] = "reject"
    /\ Move(c, IF change[req[c].change].status = "PENDING" THEN "close" ELSE "refused", req[c])
    /\ UNCHANGED <<admin, session, change>>

\* Rejected, or cancelled by its requester, whatever it is by now.
closeChange(c) ==
    LET d == req[c].change
    IN  /\ pc[c] = "close"
        /\ change' = [change EXCEPT
              ![d].status = IF change[d].by = req[c].by THEN "CANCELLED" ELSE "REJECTED",
              ![d].reviewer = req[c].by]
        /\ Move(c, "done", req[c])
        /\ UNCHANGED <<admin, session>>

-----------------------------------------------------------------------------
(***************************************************************************)
(* create, deactivate, activate.                                           *)
(***************************************************************************)

findEmail(c) ==
    /\ pc[c] = "create"
    /\ Move(c, IF admin[req[c].account] = NoRow THEN "insert" ELSE "refused", req[c])
    /\ UNCHANGED <<admin, session, change>>

\* The unique e-mail refuses the second of two concurrent creations.
create(c) ==
    /\ pc[c] = "insert"
    /\ IF admin[req[c].account] = NoRow
       THEN /\ admin' = [admin EXCEPT ![req[c].account] =
                           [NoRow EXCEPT !.role = req[c].role, !.active = TRUE]]
            /\ Move(c, "done", req[c])
       ELSE Move(c, "failed", req[c]) /\ UNCHANGED admin
    /\ UNCHANGED <<session, change>>

\* The account and its sessions, in one transaction.
deactivate(c) ==
    /\ pc[c] = "transaction"
    /\ admin' = [admin EXCEPT ![req[c].account].active = FALSE]
    /\ session' = Revoke(session, req[c].account)
    /\ Move(c, "done", req[c])
    /\ UNCHANGED change

activate(c) ==
    /\ pc[c] = "activate"
    /\ IF admin[req[c].account] # NoRow
       THEN /\ admin' = [admin EXCEPT ![req[c].account].active = TRUE]
            /\ Move(c, "done", req[c])
       ELSE Move(c, "refused", req[c]) /\ UNCHANGED admin
    /\ UNCHANGED <<session, change>>

-----------------------------------------------------------------------------
Arrive(c) == pc[c] = "idle" /\ \E id \in SessionId :
    \/ \E account \in Admin :
          \/ \E place \in {"create", "requestRoleChange"}, role \in Role :
                superAdmin(c, id, place, account, role, "none")
          \/ \E place \in {"deactivate", "activate"} :
                superAdmin(c, id, place, account, "none", "none")
    \/ \E d \in Call, place \in {"approve", "reject"} :
          /\ change[d] # NoChange
          /\ superAdmin(c, id, place, change[d].target, "none", d)

Proceed(c) ==
    \/ findTarget(c) \/ readTarget(c) \/ findPending(c) \/ createChange(c)
    \/ approveRoleChange(c) \/ applyChange(c) \/ rejectRoleChange(c) \/ closeChange(c)
    \/ findEmail(c) \/ create(c) \/ deactivate(c) \/ activate(c)

Next ==
    \/ AuthNext /\ UNCHANGED change
    \/ \E c \in Call : Arrive(c) \/ Proceed(c)

Spec == RolesInit /\ [][Next]_vars

-----------------------------------------------------------------------------
(***************************************************************************)
(* Properties.                                                             *)
(***************************************************************************)
RolePlace == Place \cup {"create", "insert", "requestRoleChange", "target", "pending",
                         "createChange", "approve", "apply", "reject", "close",
                         "deactivate", "transaction", "activate"}

\* Every variable has its type.
TypeOK ==
    /\ AuthTypeOK
    /\ pc \in [Call -> RolePlace]
    /\ \A d \in Call : change[d] = NoChange \/
          /\ change[d].target \in Admin /\ change[d].by \in Admin
          /\ {change[d].from, change[d].to} \subseteq Role
          /\ change[d].status \in {"PENDING", "APPROVED", "REJECTED", "CANCELLED"}

\* No role changes by one person: a role that changes is the one an approved
\* request asked for, made and approved by two different administrators, neither
\* of them its subject - whatever requests and approvals race for it.
FourEyes ==
    [][\A a \in Admin : admin'[a].role # admin[a].role /\ admin[a] # NoRow =>
          \E d \in Call : /\ change'[d].status = "APPROVED"
                          /\ change'[d].target = a /\ change'[d].to = admin'[a].role
                          /\ Cardinality({a, change'[d].by, change'[d].reviewer}) = 3]_vars

\* The console never locks everybody out: whatever calls race, an active Super
\* Admin remains, because only a target that was below Super Admin when
\* assertCanManage read it can be demoted or deactivated.
SuperAdminRemains ==
    \E a \in Admin : admin[a].active /\ admin[a].role = "SUPER_ADMIN"

\* "Approval revokes the target's sessions so the new role takes effect
\* immediately (role is embedded in the admin access token)", and so does a
\* deactivation: when calls on an account do not overlap, its live sessions are
\* of an active administrator and carry the current role.
SessionsCurrent ==
    \A id \in SessionId : session[id] # NoSession /\ ~session[id].revoked =>
        \/ session[id].admin \in overlapped
        \/ /\ admin[session[id].admin].active
           /\ session[id].tokenRole = admin[session[id].admin].role

\* A target has one pending request at most, and a request is decided once, as
\* long as calls on the account do not overlap.
DecidedOnce ==
    /\ \A a \in Admin \ overlapped :
          Cardinality({d \in Call : change[d].target = a /\ change[d].status = "PENDING"}) <= 1
    /\ \A c, d \in Call :
          /\ c # d /\ {req[c].op, req[d].op} \subseteq {"approve", "reject"}
          /\ pc[c] = "done" /\ pc[d] = "done" /\ req[c].change = req[d].change
          => req[c].account \in overlapped

\* What holds of the accounts' credentials, and of the console's sessions and decisions, for
\* accounts whose calls do not overlap.
CredentialsSound == TypeOK /\ LockIsEarned /\ TotpUsable /\ BackupCodeOnce
ConsoleSound == SessionsCurrent /\ DecidedOnce
=============================================================================
