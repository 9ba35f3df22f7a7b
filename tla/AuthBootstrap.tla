---------------------------- MODULE AuthBootstrap ----------------------------
(***************************************************************************)
(* Sign-in of one Google identity: AuthService.completeZkLogin over        *)
(* Postgres, with the two-phase bootstrap PTB of BootstrapService that     *)
(* creates the passport, the library and the journal together, and the     *)
(* session issued at the end.                                              *)
(*                                                                         *)
(* A login is one invocation of completeZkLogin; every await is a step.    *)
(* The three objects have the key ability only, so they stay in the wallet *)
(* they were transferred to; each is named by the login whose PTB created  *)
(* it.                                                                     *)
(***************************************************************************)
EXTENDS Naturals, FiniteSets

CONSTANTS
    Login,     \* invocations of completeZkLogin, each used once
    Address,   \* wallet addresses Enoki may derive for the identity
    MaxDrifts, \* bound: how often Enoki's answer may change
    None       \* no login, no address

ASSUME BootstrapAssumption ==
    /\ None \notin Login \cup Address
    /\ Address # {}
    /\ MaxDrifts \in Nat

VARIABLES
    \* --- Postgres ---
    bootstrapState, \* User.bootstrapState, "none" while there is no row
    walletAddress,  \* User.walletAddress
    recorded,       \* Passport.suiObjectId, User.libraryObjectId, .journalObjectId
    sessions,       \* logins that were issued a Session row
    \* --- Sui ---
    tx,             \* fate of the bootstrap PTB of each login
    \* --- Enoki ---
    enoki,          \* the address it derives for the identity
    drifts,         \* how often that has changed
    \* --- the server ---
    pc,             \* where each login stands
    req,            \* its local variables
    overlapped      \* history: a login began before the work of another ended

dbVars    == <<bootstrapState, walletAddress, recorded, sessions>>
enokiVars == <<enoki, drifts>>
vars      == <<dbVars, tx, enokiVars, pc, req, overlapped>>

-----------------------------------------------------------------------------
Kind      == {"passport", "library", "journal"}
NoObjects == [k \in Kind |-> None]
NoLocals  == [wallet |-> None, stored |-> None, objects |-> NoObjects]

Ended  == {"done", "refused", "failed", "crashed"}
Active == {"enoki", "create", "update", "lookup", "execute", "await", "finalize",
           "session"}

Init ==
    /\ bootstrapState = "none"
    /\ walletAddress = None
    /\ recorded = NoObjects
    /\ sessions = {}
    /\ tx = [l \in Login |-> "none"]
    /\ enoki \in Address
    /\ drifts = 0
    /\ pc = [l \in Login |-> "idle"]
    /\ req = [l \in Login |-> NoLocals]
    /\ overlapped = FALSE

\* Enoki derives another address from now on.
enokiDrifts ==
    /\ drifts < MaxDrifts
    /\ drifts' = drifts + 1
    /\ \E a \in Address \ {enoki} : enoki' = a
    /\ UNCHANGED <<dbVars, tx, pc, req, overlapped>>

Move(l, place, locals) ==
    /\ pc' = [pc EXCEPT ![l] = place]
    /\ req' = [req EXCEPT ![l] = locals]

-----------------------------------------------------------------------------
(***************************************************************************)
(* completeZkLogin.                                                        *)
(***************************************************************************)

\* Some login is in progress, or its PTB is still undecided.
Busy == \E m \in Login : pc[m] \in Active \/ tx[m] = "submitted"

\* (mutant) The pending row is not resumed but treated as a new user.
completeZkLogin_noResume(l) ==
    /\ pc[l] = "idle"
    /\ overlapped' = (overlapped \/ Busy)
    /\ Move(l, "enoki", [NoLocals EXCEPT !.stored =
                           IF bootstrapState = "complete" THEN walletAddress ELSE None])
    /\ UNCHANGED <<dbVars, tx, enokiVars>>

\* (mutant) A resumed bootstrap goes to the address Enoki derives now.
completeZkLogin_rederives(l) ==
    /\ pc[l] = "idle"
    /\ overlapped' = (overlapped \/ Busy)
    /\ IF bootstrapState = "pending"
       THEN Move(l, "lookup", [NoLocals EXCEPT !.wallet = enoki])
       ELSE Move(l, "enoki", [NoLocals EXCEPT !.stored = walletAddress])
    /\ UNCHANGED <<dbVars, tx, enokiVars>>

\* The user row is read: a pending bootstrap is resumed for the stored wallet,
\* a new or a complete user continues with Enoki.
completeZkLogin(l) ==
    /\ pc[l] = "idle"
    /\ overlapped' = (overlapped \/ Busy)
    /\ IF bootstrapState = "pending"
       THEN Move(l, "lookup", [NoLocals EXCEPT !.wallet = walletAddress])
       ELSE Move(l, "enoki", [NoLocals EXCEPT !.stored = walletAddress])
    /\ UNCHANGED <<dbVars, tx, enokiVars>>

\* Enoki answers: a new user is created, a drifted wallet is synced.
getEnokiAddress(l) ==
    /\ pc[l] = "enoki"
    /\ Move(l, CASE req[l].stored = None             -> "create"
                 [] req[l].stored \in Address \ {enoki} -> "update"
                 [] req[l].stored = enoki            -> "session",
            [req[l] EXCEPT !.wallet = enoki])
    /\ UNCHANGED <<dbVars, tx, enokiVars, overlapped>>

updateWallet(l) ==
    /\ pc[l] = "update"
    /\ walletAddress' = req[l].wallet
    /\ Move(l, "session", req[l])
    /\ UNCHANGED <<bootstrapState, recorded, sessions, tx, enokiVars, overlapped>>

\* Phase A.  The unique (oauthIss, oauthSub) refuses a second row.
createUser(l) ==
    /\ pc[l] = "create"
    /\ IF bootstrapState = "none"
       THEN /\ bootstrapState' = "pending"
            /\ walletAddress' = req[l].wallet
            /\ Move(l, "execute", req[l])
       ELSE /\ Move(l, "refused", req[l])
            /\ UNCHANGED <<bootstrapState, walletAddress>>
    /\ UNCHANGED <<recorded, sessions, tx, enokiVars, overlapped>>

\* Logins whose objects are in the wallet.
ownedBy(wallet) == {l \in Login : tx[l] = "executed" /\ req[l].wallet = wallet}

\* The wallet is searched for the first object of each of the three types; the
\* node lists them in any order.  One PTB creates all three, so they are found
\* together or not at all.
findExistingBootstrapObjects(l) ==
    LET owned == ownedBy(req[l].wallet)
    IN  /\ pc[l] = "lookup"
        /\ IF owned = {}
           THEN Move(l, "execute", req[l])
           ELSE \E objects \in [Kind -> owned] :
                    Move(l, "finalize", [req[l] EXCEPT !.objects = objects])
        /\ UNCHANGED <<dbVars, tx, enokiVars, overlapped>>

\* Phase B: the bootstrap PTB is signed and submitted.
bootstrapExecute(l) ==
    /\ pc[l] = "execute"
    /\ tx' = [tx EXCEPT ![l] = "submitted"]
    /\ Move(l, "await", req[l])
    /\ UNCHANGED <<dbVars, enokiVars, overlapped>>

\* (mutant) The reply is not awaited: what was submitted is recorded.
bootstrapReply_notAwaited(l) ==
    /\ pc[l] = "await" /\ tx[l] \in {"submitted", "executed"}
    /\ Move(l, "finalize", [req[l] EXCEPT !.objects = [k \in Kind |-> l]])
    /\ UNCHANGED <<dbVars, tx, enokiVars, overlapped>>

\* The node answers with the three objects the PTB created.
bootstrapReply(l) ==
    /\ pc[l] = "await" /\ tx[l] = "executed"
    /\ Move(l, "finalize", [req[l] EXCEPT !.objects = [k \in Kind |-> l]])
    /\ UNCHANGED <<dbVars, tx, enokiVars, overlapped>>

\* Phase C: one Prisma transaction for the passport row and the user row.
finalizeBootstrap(l) ==
    /\ pc[l] = "finalize"
    /\ recorded' = req[l].objects
    /\ bootstrapState' = "complete"
    /\ Move(l, "session", req[l])
    /\ UNCHANGED <<walletAddress, sessions, tx, enokiVars, overlapped>>

issueSession(l) ==
    /\ pc[l] = "session"
    /\ sessions' = sessions \cup {l}
    /\ Move(l, "done", req[l])
    /\ UNCHANGED <<bootstrapState, walletAddress, recorded, tx, enokiVars, overlapped>>

-----------------------------------------------------------------------------
(***************************************************************************)
(* Faults, and the chain.                                                  *)
(***************************************************************************)

\* Enoki, Postgres or the node fails, or the reply of the PTB is lost: the
\* login throws, and its PTB may still execute.
stepFails(l) ==
    /\ pc[l] \in Active
    /\ Move(l, "failed", req[l])
    /\ UNCHANGED <<dbVars, tx, enokiVars, overlapped>>

Crash ==
    /\ \E l \in Login : pc[l] \in Active
    /\ pc' = [l \in Login |-> IF pc[l] \in Active THEN "crashed" ELSE pc[l]]
    /\ UNCHANGED <<dbVars, tx, enokiVars, req, overlapped>>

\* The PTB executes, all three calls of it, or the validators never run it.
bootstrapDecided(l) ==
    /\ tx[l] = "submitted"
    /\ \E fate \in {"executed", "rejected"} : tx' = [tx EXCEPT ![l] = fate]
    /\ UNCHANGED <<dbVars, enokiVars, pc, req, overlapped>>

-----------------------------------------------------------------------------
Proceed(l) ==
    \/ getEnokiAddress(l) \/ updateWallet(l) \/ createUser(l)
    \/ findExistingBootstrapObjects(l) \/ bootstrapExecute(l)
    \/ bootstrapReply(l) \/ finalizeBootstrap(l) \/ issueSession(l)

Next ==
    \/ enokiDrifts \/ Crash
    \/ \E l \in Login : \/ completeZkLogin(l) \/ Proceed(l)
                        \/ stepFails(l) \/ bootstrapDecided(l)

Spec == Init /\ [][Next]_vars

\* The event loop runs a login on, an awaited answer comes or times out, and
\* the validators decide every PTB.  Nobody has to sign in.
Fairness == \A l \in Login : /\ WF_vars(Proceed(l) \/ stepFails(l))
                             /\ WF_vars(bootstrapDecided(l))
FairSpec == Spec /\ Fairness

-----------------------------------------------------------------------------
(***************************************************************************)
(* Properties.                                                             *)
(***************************************************************************)

\* Every variable has its type.
TypeOK ==
    /\ bootstrapState \in {"none", "pending", "complete"}
    /\ walletAddress \in Address \cup {None}
    /\ recorded \in [Kind -> Login \cup {None}]
    /\ sessions \subseteq Login
    /\ tx \in [Login -> {"none", "submitted", "executed", "rejected"}]
    /\ enoki \in Address
    /\ drifts \in 0 .. MaxDrifts
    /\ pc \in [Login -> {"idle"} \cup Active \cup Ended]
    /\ req \in [Login -> [wallet : Address \cup {None}, stored : Address \cup {None},
                          objects : [Kind -> Login \cup {None}]]]
    /\ overlapped \in BOOLEAN

Minted == {l \in Login : tx[l] = "executed"}

\* "Retries see the pending row and resume without re-deriving (which would
\* produce a different wallet address and strand any objects already minted)"
\* (AuthService): whatever Enoki answers meanwhile, all that was ever minted,
\* or may still be, is in one wallet.
OneWallet ==
    \A l, m \in Login :
        tx[l] # "none" /\ tx[m] # "none" => req[l].wallet = req[m].wallet

\* A session means an identity: every reader who was let in has a complete
\* bootstrap, and the three objects on record are on chain, in the wallet the
\* bootstrap was begun for.
IdentityOnChain ==
    /\ sessions # {} => bootstrapState = "complete"
    /\ bootstrapState = "complete" =>
          \A k \in Kind : recorded[k] \in Minted
    /\ bootstrapState # "none" /\ drifts = 0 =>
          \A l \in Minted : req[l].wallet = walletAddress

\* The documented claim, for logins that come one after the other: after any
\* failure or crash the next login resumes what the last one left, and the
\* identity on record is the only one ever minted.
OneIdentityInSequence ==
    ~overlapped => /\ Cardinality(Minted) <= 1
                   /\ bootstrapState = "complete" =>
                         \A k \in Kind : Minted = {recorded[k]}

\* A login on its own is let in, unless a service fails or the server dies: no
\* state an earlier login left behind locks the reader out.
LoginSucceeds ==
    \A l \in Login :
        pc[l] \in Active ~> pc[l] \in {"done", "failed", "crashed"} \/ overlapped

\* What holds of the identity in every state.
IdentitySound == TypeOK /\ IdentityOnChain /\ OneIdentityInSequence
=============================================================================
