------------------------- MODULE AuthBootstrap_proofs -------------------------
(***************************************************************************)
(* Proofs about sign-in, for any number of logins of one identity and any  *)
(* answers of Enoki: one wallet, an identity on chain behind every session, *)
(* and one identity when logins do not overlap.                            *)
(*                                                                         *)
(* The argument: the wallet is chosen once, by the login that creates the  *)
(* row, and nobody changes it before the bootstrap is complete; whoever    *)
(* reads the pending row works on that wallet (Boots).  A login on its own *)
(* therefore finds whatever was minted before it executes (Alone).         *)
(*                                                                         *)
(* And about the sessions those sign-ins end in, for any number of tabs,   *)
(* users and page loads: a tab is one user's because the token, the proof, *)
(* the stores and every request in flight agree before its answer is used  *)
(* (OneUserIn), until a sign-in or a wipe that mixes them is named.        *)
(***************************************************************************)
EXTENDS AuthBootstrap, ClientSession, FiniteSetTheorems, TLAPS

Locals == [wallet : Address \cup {None}, stored : Address \cup {None},
           objects : [Kind -> Login \cup {None}]]

\* A login at a place, with a transaction, is at work on the bootstrap.
BootsAt(place, t) == place \in {"lookup", "execute", "await", "finalize"} \/ t # "none"
Boots(l) == BootsAt(pc[l], tx[l])

\* What a login at a place may rely on.
Fits(place, t, q) ==
    /\ place \in {"idle", "enoki", "create", "update", "lookup", "execute"} => t = "none"
    /\ place \in {"create", "update"} => q.wallet \in Address
    /\ place = "enoki" /\ q.stored # None => bootstrapState = "complete"
    /\ place \in {"update", "session", "done"} => bootstrapState = "complete"
    /\ place = "finalize" => \A k \in Kind : q.objects[k] \in Minted
    /\ BootsAt(place, t) =>
          /\ q.wallet \in Address /\ bootstrapState # "none"
          /\ bootstrapState = "pending" => q.wallet = walletAddress

Placed == \A l \in Login : Fits(pc[l], tx[l], req[l])

\* All logins at work on the bootstrap work on one wallet.
Agreed == \A l, m \in Login : Boots(l) /\ Boots(m) => req[l].wallet = req[m].wallet

\* The rows in Postgres.
RowsSound ==
    /\ bootstrapState = "none" => walletAddress = None
    /\ bootstrapState # "none" => walletAddress \in Address
    /\ sessions # {} => bootstrapState = "complete"
    /\ bootstrapState = "complete" => \A k \in Kind : recorded[k] \in Minted

\* As long as Enoki keeps its answer, there is no other address.
Undrifted == drifts = 0 =>
    /\ walletAddress \in {None, enoki}
    /\ \A l \in Login : {req[l].wallet, req[l].stored} \subseteq {None, enoki}

AtWork(l) == pc[l] \in Active \/ tx[l] = "submitted"

\* A login that nobody overlaps works alone, and mints when nothing is minted.
Alone == ~overlapped =>
    /\ \A l, m \in Login : AtWork(l) /\ AtWork(m) => l = m
    /\ \A l \in Login : pc[l] = "execute" \/ tx[l] = "submitted" => Minted = {}
    /\ \A l, m \in Minted : l = m

IInv == TypeOK /\ Placed /\ Agreed /\ RowsSound /\ Undrifted /\ Alone

-----------------------------------------------------------------------------
\* A step of one login that writes its own variables only.
LEMMA LocalStep ==
    ASSUME IInv, NEW l \in Login, NEW place \in Active \cup Ended, NEW q \in Locals,
           Move(l, place, q), UNCHANGED <<dbVars, tx, enokiVars>>,
           overlapped' \in BOOLEAN,
           ~overlapped' => ~overlapped /\ (pc[l] \in Active \/ ~Busy),
           Fits(place, tx[l], q),
           \/ BootsAt(place, tx[l]) => Boots(l) /\ q.wallet = req[l].wallet
           \/ bootstrapState = "pending" /\ q.wallet = walletAddress,
           {q.wallet, q.stored} \subseteq
               {None, enoki, walletAddress, req[l].wallet, req[l].stored},
           place = "execute" => pc[l] = "lookup" /\ ownedBy(req[l].wallet) = {},
           \A m \in Minted : q.wallet = req[m].wallet \/ m # l
    PROVE  IInv'
  <1> USE DEF IInv
  <1>1. /\ UNCHANGED <<bootstrapState, walletAddress, recorded, sessions, tx, enoki, drifts>>
        /\ pc'[l] = place /\ req'[l] = q
        /\ \A m \in Login \ {l} : pc'[m] = pc[m] /\ req'[m] = req[m]
    BY DEF dbVars, enokiVars, Move, TypeOK
  <1>2. TypeOK'
    BY <1>1 DEF TypeOK, Move, Locals
  <1>3. Minted' = Minted
    BY <1>1 DEF Minted
  <1>4. Placed'
    <2> SUFFICES ASSUME NEW m \in Login PROVE Fits(pc[m], tx[m], req[m])'
      BY DEF Placed
    <2>1. Fits(pc[m], tx[m], req[m])
      BY DEF Placed
    <2> QED
      BY <1>1, <1>3, <2>1 DEF Fits, BootsAt
  <1>5. Agreed'
    <2>1. \A m \in Login \ {l} : BootsAt(place, tx[l]) /\ Boots(m) => q.wallet = req[m].wallet
      BY DEF Agreed, Placed, Fits, Boots
    <2> QED
      BY <1>1, <2>1 DEF Agreed, Boots, BootsAt
  <1>6. RowsSound'
    BY <1>1, <1>3 DEF RowsSound
  <1>7. Undrifted'
    BY <1>1 DEF Undrifted
  <1>8. Alone'
    <2> SUFFICES ASSUME ~overlapped'
                 PROVE  /\ \A m, n \in Login : AtWork(m)' /\ AtWork(n)' => m = n
                        /\ \A m \in Login : pc'[m] = "execute" \/ tx'[m] = "submitted" => Minted = {}
                        /\ \A m, n \in Minted : m = n
      BY <1>3 DEF Alone
    <2>1. \A m \in Login : AtWork(m)' => m = l \/ (AtWork(m) /\ m # l)
      BY <1>1 DEF AtWork
    <2>2. \A m \in Login : AtWork(m) => m = l
      BY DEF Alone, AtWork, Busy
    <2>3. place = "execute" => Minted = {}
      <3>1. ASSUME place = "execute", NEW m \in Minted
            PROVE  FALSE
        <4>1. Boots(l) /\ Boots(m) /\ m \in Login /\ tx[m] = "executed"
          BY <3>1 DEF Boots, BootsAt, Minted
        <4>2. m \in ownedBy(req[l].wallet)
          BY <4>1 DEF Agreed, ownedBy
        <4> QED
          BY <3>1, <4>2
      <3> QED
        BY <3>1
    <2> QED
      BY <1>1, <2>1, <2>2, <2>3 DEF Alone
  <1> QED
    BY <1>2, <1>4, <1>5, <1>6, <1>7, <1>8

\* A login that goes nowhere: refused, failed.
LEMMA LoginEnds ==
    ASSUME IInv, NEW l \in Login, NEW place \in {"refused", "failed"},
           Move(l, place, req[l]), UNCHANGED <<dbVars, tx, enokiVars, overlapped>>,
           pc[l] \in Active
    PROVE  IInv'
  <1>1. Fits(pc[l], tx[l], req[l]) /\ req[l] \in Locals /\ overlapped \in BOOLEAN
    BY DEF IInv, Placed, TypeOK, Locals
  <1>2. Fits(place, tx[l], req[l])
    BY <1>1 DEF Fits, BootsAt
  <1>3. BootsAt(place, tx[l]) => Boots(l)
    BY DEF BootsAt, Boots
  <1>4. place \in Active \cup Ended /\ place # "execute"
    BY DEF Ended
  <1> QED
    BY <1>1, <1>2, <1>3, <1>4, LocalStep

-----------------------------------------------------------------------------
\* completeZkLogin reads the row; from here on the login relies on what it read.
LEMMA LoginBegins == ASSUME IInv, NEW l \in Login, completeZkLogin(l) PROVE IInv'
  <1> DEFINE q == IF bootstrapState = "pending" THEN [NoLocals EXCEPT !.wallet = walletAddress]
                                               ELSE [NoLocals EXCEPT !.stored = walletAddress]
             place == IF bootstrapState = "pending" THEN "lookup" ELSE "enoki"
  <1>1. /\ Move(l, place, q) /\ UNCHANGED <<dbVars, tx, enokiVars>>
        /\ overlapped' = (overlapped \/ Busy) /\ pc[l] = "idle"
    BY DEF completeZkLogin
  <1>2. TypeOK /\ RowsSound /\ tx[l] = "none"
    BY <1>1 DEF IInv, Placed, Fits
  <1>3. NoObjects \in [Kind -> Login \cup {None}]
    BY DEF NoObjects
  <1>4. /\ q \in Locals
        /\ bootstrapState = "pending" => q.wallet = walletAddress /\ q.stored = None
        /\ bootstrapState # "pending" => q.wallet = None /\ q.stored = walletAddress
    BY <1>2, <1>3 DEF TypeOK, NoLocals, Locals
  <1>5. Fits(place, tx[l], q)
    BY <1>2, <1>4 DEF Fits, BootsAt, RowsSound, TypeOK
  <1>6. \/ BootsAt(place, tx[l]) => Boots(l) /\ q.wallet = req[l].wallet
        \/ bootstrapState = "pending" /\ q.wallet = walletAddress
    BY <1>2, <1>4 DEF BootsAt
  <1>7. place \in Active \cup Ended /\ place # "execute"
    BY DEF Active
  <1>8. overlapped' \in BOOLEAN /\ (~overlapped' => ~overlapped /\ ~Busy)
    BY <1>1, <1>2 DEF TypeOK
  <1>9. l \notin Minted
    BY <1>2 DEF Minted
  <1>10. {q.wallet, q.stored} \subseteq
             {None, enoki, walletAddress, req[l].wallet, req[l].stored}
    BY <1>4
  <1> HIDE DEF q, place
  <1> QED
    BY <1>1, <1>4, <1>5, <1>6, <1>7, <1>8, <1>9, <1>10, LocalStep

\* The steps of a login that read.
LEMMA LoginReads ==
    ASSUME IInv, NEW l \in Login,
           getEnokiAddress(l) \/ findExistingBootstrapObjects(l) \/ bootstrapReply(l)
    PROVE  IInv'
  <1>1. Fits(pc[l], tx[l], req[l]) /\ TypeOK /\ req[l] \in Locals
    BY DEF IInv, Placed, TypeOK, Locals
  <1>2. UNCHANGED <<dbVars, tx, enokiVars, overlapped>>
    BY DEF getEnokiAddress, findExistingBootstrapObjects, bootstrapReply
  <1>3. pc[l] \in Active /\ overlapped \in BOOLEAN
    BY <1>1 DEF getEnokiAddress, findExistingBootstrapObjects, bootstrapReply, Active, TypeOK
  <1>4. CASE getEnokiAddress(l)
    <2> DEFINE q == [req[l] EXCEPT !.wallet = enoki]
    <2>1. q \in Locals /\ q.wallet = enoki /\ q.stored = req[l].stored /\ enoki \in Address
      BY <1>1 DEF TypeOK, Locals
    <2>2. pc[l] = "enoki" /\ tx[l] = "none"
      BY <1>1, <1>4 DEF getEnokiAddress, Fits
    <2>3. PICK place \in {"create", "update", "session"} :
             Move(l, place, q) /\ (place # "create" => req[l].stored # None)
      <3>1. /\ req[l].stored \in Address \cup {None}
            /\ None \notin Address /\ enoki \in Address
        BY <1>1, BootstrapAssumption DEF Locals, TypeOK
      <3> DEFINE p == CASE req[l].stored = None             -> "create"
                        [] req[l].stored \in Address \ {enoki} -> "update"
                        [] req[l].stored = enoki            -> "session"
      <3>2. Move(l, p, q)
        BY <1>4 DEF getEnokiAddress
      <3>3. CASE req[l].stored = None
        <4>1. p = "create"
          BY <3>1, <3>3
        <4> QED
          BY <3>2, <4>1
      <3>4. CASE req[l].stored \in Address \ {enoki}
        <4>1. p = "update"
          BY <3>1, <3>4
        <4> QED
          BY <3>1, <3>2, <3>4, <4>1
      <3>5. CASE req[l].stored = enoki
        <4>1. p = "session"
          BY <3>1, <3>5
        <4> QED
          BY <3>1, <3>2, <3>5, <4>1
      <3> QED
        BY <3>1, <3>3, <3>4, <3>5
    <2>4. Fits(place, tx[l], q) /\ ~BootsAt(place, tx[l])
      BY <1>1, <2>1, <2>2, <2>3 DEF Fits, BootsAt
    <2>5. place \in Active \cup Ended /\ place # "execute" /\ l \notin Minted
      BY <2>2 DEF Active, Minted
    <2>6. {q.wallet, q.stored} \subseteq
             {None, enoki, walletAddress, req[l].wallet, req[l].stored}
      BY <2>1
    <2> HIDE DEF q
    <2> QED
      BY <1>2, <1>3, <2>1, <2>3, <2>4, <2>5, <2>6, LocalStep
  <1>5. CASE findExistingBootstrapObjects(l)
    <2>1. pc[l] = "lookup" /\ tx[l] = "none" /\ Boots(l) /\ l \notin Minted
      BY <1>1, <1>5 DEF findExistingBootstrapObjects, Fits, Boots, BootsAt, Minted
    <2>2. CASE ownedBy(req[l].wallet) = {}
      <3>1. Move(l, "execute", req[l])
        BY <1>5, <2>2 DEF findExistingBootstrapObjects
      <3>2. Fits("execute", tx[l], req[l])
        BY <1>1, <2>1 DEF Fits, BootsAt
      <3>3. "execute" \in Active
        BY DEF Active
      <3> QED
        BY <1>1, <1>2, <1>3, <2>1, <2>2, <3>1, <3>2, <3>3, LocalStep
    <2>3. CASE ownedBy(req[l].wallet) # {}
      <3>1. PICK objects \in [Kind -> ownedBy(req[l].wallet)] :
               Move(l, "finalize", [req[l] EXCEPT !.objects = objects])
        BY <1>5, <2>3 DEF findExistingBootstrapObjects
      <3> DEFINE q == [req[l] EXCEPT !.objects = objects]
      <3>2. ownedBy(req[l].wallet) \subseteq Login /\ ownedBy(req[l].wallet) \subseteq Minted
        BY DEF ownedBy, Minted
      <3>3. objects \in [Kind -> Login \cup {None}] /\ \A k \in Kind : objects[k] \in Minted
        BY <3>2
      <3>4. /\ q \in Locals /\ q.wallet = req[l].wallet /\ q.stored = req[l].stored
            /\ q.objects = objects
        BY <1>1, <3>3 DEF Locals
      <3>5. Fits("finalize", tx[l], q)
        BY <1>1, <2>1, <3>3, <3>4 DEF Fits, BootsAt
      <3>6. "finalize" \in Active
        BY DEF Active
      <3> HIDE DEF q
      <3>7. Move(l, "finalize", q)
        BY <3>1 DEF q
      <3> QED
        BY <1>2, <1>3, <2>1, <3>4, <3>5, <3>6, <3>7, LocalStep
    <2> QED
      BY <2>2, <2>3
  <1>6. CASE bootstrapReply(l)
    <2> DEFINE q == [req[l] EXCEPT !.objects = [k \in Kind |-> l]]
    <2>1. /\ pc[l] = "await" /\ tx[l] = "executed" /\ Move(l, "finalize", q)
      BY <1>6 DEF bootstrapReply
    <2>2. [k \in Kind |-> l] \in [Kind -> Login \cup {None}]
      OBVIOUS
    <2>3. /\ q \in Locals /\ q.wallet = req[l].wallet /\ q.stored = req[l].stored
          /\ \A k \in Kind : q.objects[k] = l
      BY <1>1, <2>2 DEF Locals
    <2>4. l \in Minted /\ Boots(l)
      BY <2>1 DEF Minted, Boots, BootsAt
    <2>5. Fits("finalize", tx[l], q)
      BY <1>1, <2>1, <2>3, <2>4 DEF Fits, BootsAt
    <2>6. "finalize" \in Active
      BY DEF Active
    <2> HIDE DEF q
    <2> QED
      BY <1>2, <1>3, <2>1, <2>3, <2>4, <2>5, <2>6, LocalStep
  <1> QED
    BY <1>4, <1>5, <1>6

-----------------------------------------------------------------------------
\* A drifted wallet is synced only when nobody can be at work on a pending row.
LEMMA WalletSynced == ASSUME IInv, NEW l \in Login, updateWallet(l) PROVE IInv'
  <1> USE DEF IInv
  <1>1. /\ pc[l] = "update" /\ tx[l] = "none" /\ bootstrapState = "complete"
        /\ req[l].wallet \in Address
    BY DEF updateWallet, Placed, Fits
  <1>2. /\ UNCHANGED <<bootstrapState, recorded, sessions, tx, enoki, drifts, overlapped, req>>
        /\ walletAddress' = req[l].wallet /\ pc' = [pc EXCEPT ![l] = "session"]
    BY DEF updateWallet, enokiVars, Move, TypeOK
  <1>3. /\ pc'[l] = "session" /\ \A m \in Login \ {l} : pc'[m] = pc[m]
        /\ Minted' = Minted
    BY <1>2 DEF TypeOK, Minted
  <1>4. TypeOK'
    BY <1>1, <1>2 DEF TypeOK, Active
  <1>5. Placed'
    BY <1>1, <1>2, <1>3 DEF Placed, Fits, BootsAt
  <1>6. Agreed'
    BY <1>1, <1>2, <1>3 DEF Agreed, Boots, BootsAt
  <1>7. RowsSound'
    BY <1>1, <1>2, <1>3 DEF RowsSound
  <1>8. Undrifted'
    BY <1>1, <1>2 DEF Undrifted
  <1>9. Alone'
    BY <1>1, <1>2, <1>3 DEF Alone, AtWork, Active
  <1> QED
    BY <1>4, <1>5, <1>6, <1>7, <1>8, <1>9

\* The first login stores the wallet; the unique index refuses the others.
LEMMA UserCreated == ASSUME IInv, NEW l \in Login, createUser(l) PROVE IInv'
  <1>1. pc[l] = "create" /\ UNCHANGED <<recorded, sessions, tx, enokiVars, overlapped>>
    BY DEF createUser
  <1>2. CASE bootstrapState # "none"
    <2>1. Move(l, "refused", req[l]) /\ UNCHANGED dbVars
      BY <1>1, <1>2 DEF createUser, dbVars
    <2>2. pc[l] \in Active
      BY <1>1 DEF Active
    <2> QED
      BY <1>1, <2>1, <2>2, LoginEnds
  <1>3. CASE bootstrapState = "none"
    <2> USE DEF IInv
    <2>1. tx[l] = "none" /\ req[l].wallet \in Address
      BY <1>1 DEF Placed, Fits
    <2>2. /\ UNCHANGED <<recorded, sessions, tx, enoki, drifts, overlapped, req>>
          /\ bootstrapState' = "pending" /\ walletAddress' = req[l].wallet
          /\ pc' = [pc EXCEPT ![l] = "execute"]
      BY <1>1, <1>3 DEF createUser, enokiVars, Move, TypeOK
    <2>3. pc'[l] = "execute" /\ \A m \in Login \ {l} : pc'[m] = pc[m]
      BY <2>2 DEF TypeOK
    <2>4. \A m \in Login : ~Boots(m)
      BY <1>3 DEF Placed, Fits, Boots
    <2>5. Minted = {} /\ Minted' = {}
      BY <2>2, <2>4 DEF Minted, Boots, BootsAt
    <2>6. TypeOK'
      BY <2>1, <2>2 DEF TypeOK, Active
    <2>7. Placed'
      <3> SUFFICES ASSUME NEW m \in Login PROVE Fits(pc[m], tx[m], req[m])'
        BY DEF Placed
      <3>1. Fits(pc[m], tx[m], req[m]) /\ ~Boots(m)
        BY <2>4 DEF Placed
      <3>2. CASE m = l
        BY <2>1, <2>2, <2>3, <3>2 DEF Fits, BootsAt
      <3>3. CASE m # l
        BY <1>3, <2>2, <2>3, <2>5, <3>1, <3>3 DEF Fits, Boots, BootsAt
      <3> QED
        BY <3>2, <3>3
    <2>8. Agreed'
      BY <2>2, <2>3, <2>4 DEF Agreed, Boots, BootsAt
    <2>9. RowsSound'
      BY <1>3, <2>1, <2>2 DEF RowsSound
    <2>10. Undrifted'
      BY <2>1, <2>2 DEF Undrifted
    <2>11. Alone'
      <3>1. \A m \in Login : AtWork(m)' => AtWork(m)
        BY <1>1, <2>2, <2>3 DEF AtWork, Active
      <3> QED
        BY <2>2, <2>4, <2>5, <3>1 DEF Alone, Boots, BootsAt
    <2> QED
      BY <2>6, <2>7, <2>8, <2>9, <2>10, <2>11
  <1> QED
    BY <1>2, <1>3

\* Phase C and the session behind it.
LEMMA RowsWritten ==
    ASSUME IInv, NEW l \in Login, finalizeBootstrap(l) \/ issueSession(l)
    PROVE  IInv'
  <1> USE DEF IInv
  <1>1. Fits(pc[l], tx[l], req[l]) /\ TypeOK
    BY DEF Placed
  <1>2. CASE finalizeBootstrap(l)
    <2>1. /\ pc[l] = "finalize" /\ Boots(l) /\ bootstrapState # "none"
          /\ \A k \in Kind : req[l].objects[k] \in Minted
      BY <1>1, <1>2 DEF finalizeBootstrap, Fits, Boots, BootsAt
    <2>2. /\ UNCHANGED <<walletAddress, sessions, tx, enoki, drifts, overlapped, req>>
          /\ bootstrapState' = "complete" /\ recorded' = req[l].objects
          /\ pc' = [pc EXCEPT ![l] = "session"]
      BY <1>2 DEF finalizeBootstrap, enokiVars, Move, TypeOK
    <2>3. /\ pc'[l] = "session" /\ \A m \in Login \ {l} : pc'[m] = pc[m]
          /\ Minted' = Minted
      BY <2>2 DEF TypeOK, Minted
    <2>4. TypeOK'
      BY <2>2 DEF TypeOK, Active
    <2>5. Placed'
      <3> SUFFICES ASSUME NEW m \in Login PROVE Fits(pc[m], tx[m], req[m])'
        BY DEF Placed
      <3>1. Fits(pc[m], tx[m], req[m])
        BY DEF Placed
      <3>2. CASE m = l
        BY <1>1, <2>1, <2>2, <2>3, <3>2 DEF Fits, Boots, BootsAt
      <3>3. CASE m # l
        BY <2>2, <2>3, <3>1, <3>3 DEF Fits, BootsAt
      <3> QED
        BY <3>2, <3>3
    <2>6. Agreed'
      BY <2>1, <2>2, <2>3 DEF Agreed, Boots, BootsAt
    <2>7. RowsSound'
      BY <2>1, <2>2, <2>3 DEF RowsSound
    <2>8. Undrifted'
      BY <2>2 DEF Undrifted
    <2>9. Alone'
      BY <2>1, <2>2, <2>3 DEF Alone, AtWork, Active
    <2> QED
      BY <2>4, <2>5, <2>6, <2>7, <2>8, <2>9
  <1>3. CASE issueSession(l)
    <2>1. pc[l] = "session" /\ bootstrapState = "complete"
      BY <1>1, <1>3 DEF issueSession, Fits
    <2>2. /\ UNCHANGED <<bootstrapState, walletAddress, recorded, tx, enoki, drifts,
                        overlapped, req>>
          /\ sessions' = sessions \cup {l} /\ pc' = [pc EXCEPT ![l] = "done"]
      BY <1>3 DEF issueSession, enokiVars, Move, TypeOK
    <2>3. /\ pc'[l] = "done" /\ \A m \in Login \ {l} : pc'[m] = pc[m]
          /\ Minted' = Minted
      BY <2>2 DEF TypeOK, Minted
    <2>4. TypeOK'
      BY <2>2 DEF TypeOK, Ended
    <2>5. Placed'
      BY <2>1, <2>2, <2>3 DEF Placed, Fits, BootsAt
    <2>6. Agreed'
      BY <2>1, <2>2, <2>3 DEF Agreed, Boots, BootsAt
    <2>7. RowsSound'
      BY <2>1, <2>2, <2>3 DEF RowsSound
    <2>8. Undrifted'
      BY <2>2 DEF Undrifted
    <2>9. Alone'
      BY <2>1, <2>2, <2>3 DEF Alone, AtWork, Active
    <2> QED
      BY <2>4, <2>5, <2>6, <2>7, <2>8, <2>9
  <1> QED
    BY <1>2, <1>3

-----------------------------------------------------------------------------
\* The PTB is submitted, and decided at any later time.
LEMMA PtbMoves ==
    ASSUME IInv, NEW l \in Login, bootstrapExecute(l) \/ bootstrapDecided(l)
    PROVE  IInv'
  <1> USE DEF IInv
  <1>1. Fits(pc[l], tx[l], req[l]) /\ TypeOK
    BY DEF Placed
  <1>2. CASE bootstrapExecute(l)
    <2>1. pc[l] = "execute" /\ tx[l] = "none" /\ Boots(l)
      BY <1>1, <1>2 DEF bootstrapExecute, Fits, Boots, BootsAt
    <2>2. /\ UNCHANGED <<bootstrapState, walletAddress, recorded, sessions, enoki, drifts,
                        overlapped, req>>
          /\ pc' = [pc EXCEPT ![l] = "await"] /\ tx' = [tx EXCEPT ![l] = "submitted"]
      BY <1>2 DEF bootstrapExecute, dbVars, enokiVars, Move, TypeOK
    <2>3. /\ pc'[l] = "await" /\ tx'[l] = "submitted"
          /\ \A m \in Login \ {l} : pc'[m] = pc[m] /\ tx'[m] = tx[m]
          /\ Minted' = Minted
      BY <2>1, <2>2 DEF TypeOK, Minted
    <2>4. TypeOK'
      BY <2>2 DEF TypeOK, Active
    <2>5. Placed'
      <3> SUFFICES ASSUME NEW m \in Login PROVE Fits(pc[m], tx[m], req[m])'
        BY DEF Placed
      <3>1. Fits(pc[m], tx[m], req[m])
        BY DEF Placed
      <3>2. CASE m = l
        BY <1>1, <2>1, <2>2, <2>3, <3>2 DEF Fits, Boots, BootsAt
      <3>3. CASE m # l
        BY <2>2, <2>3, <3>1, <3>3 DEF Fits, BootsAt
      <3> QED
        BY <3>2, <3>3
    <2>6. Agreed'
      BY <2>1, <2>2, <2>3 DEF Agreed, Boots, BootsAt
    <2>7. RowsSound'
      BY <2>2, <2>3 DEF RowsSound
    <2>8. Undrifted'
      BY <2>2 DEF Undrifted
    <2>9. Alone'
      <3>1. \A m \in Login : AtWork(m)' => AtWork(m)
        BY <2>1, <2>2, <2>3 DEF AtWork, Active
      <3>2. \A m \in Login : pc'[m] = "execute" \/ tx'[m] = "submitted"
                => \E n \in Login : pc[n] = "execute" \/ tx[n] = "submitted"
        BY <2>1, <2>3
      <3> QED
        BY <2>2, <2>3, <3>1, <3>2 DEF Alone
    <2> QED
      BY <2>4, <2>5, <2>6, <2>7, <2>8, <2>9
  <1>3. CASE bootstrapDecided(l)
    <2>1. PICK fate \in {"executed", "rejected"} : tx' = [tx EXCEPT ![l] = fate]
      BY <1>3 DEF bootstrapDecided
    <2>2. /\ tx[l] = "submitted" /\ Boots(l)
          /\ UNCHANGED <<bootstrapState, walletAddress, recorded, sessions, enoki, drifts,
                        overlapped, req, pc>>
      BY <1>3 DEF bootstrapDecided, dbVars, enokiVars, Boots, BootsAt
    <2>3. tx'[l] = fate /\ \A m \in Login \ {l} : tx'[m] = tx[m]
      BY <2>1 DEF TypeOK
    <2>4. Minted \subseteq Minted' /\ Minted' \subseteq Minted \cup {l}
      BY <2>2, <2>3 DEF Minted
    <2>5. \A m \in Login : Boots(m)' <=> Boots(m)
      BY <2>2, <2>3 DEF Boots, BootsAt
    <2>6. TypeOK'
      BY <2>1, <2>2 DEF TypeOK
    <2>7. Placed'
      <3> SUFFICES ASSUME NEW m \in Login PROVE Fits(pc[m], tx[m], req[m])'
        BY DEF Placed
      <3>1. Fits(pc[m], tx[m], req[m])
        BY DEF Placed
      <3>2. tx[m] = "none" => tx'[m] = "none"
        BY <2>2, <2>3
      <3> QED
        BY <2>2, <2>4, <2>5, <3>1, <3>2 DEF Fits, Boots
    <2>8. Agreed'
      BY <2>2, <2>5 DEF Agreed
    <2>9. RowsSound'
      BY <2>2, <2>4 DEF RowsSound
    <2>10. Undrifted'
      BY <2>2 DEF Undrifted
    <2>11. Alone'
      <3> SUFFICES ASSUME ~overlapped'
                   PROVE  /\ \A m, n \in Login : AtWork(m)' /\ AtWork(n)' => m = n
                          /\ \A m \in Login : ~(pc'[m] = "execute" \/ tx'[m] = "submitted")
                          /\ \A m, n \in Minted' : m = n
        BY DEF Alone
      <3>1. Minted = {} /\ \A m \in Login : AtWork(m) => m = l
        BY <2>2 DEF Alone, AtWork
      <3>2. \A m \in Login : AtWork(m)' => AtWork(m)
        BY <2>2, <2>3 DEF AtWork
      <3>3. \A m \in Login : ~(pc'[m] = "execute" \/ tx'[m] = "submitted")
        <4>1. pc[l] # "execute"
          BY <1>1, <2>2 DEF Fits
        <4> QED
          BY <2>2, <2>3, <3>1, <4>1 DEF AtWork, Active
      <3> QED
        BY <2>4, <3>1, <3>2, <3>3
    <2> QED
      BY <2>6, <2>7, <2>8, <2>9, <2>10, <2>11
  <1> QED
    BY <1>2, <1>3

-----------------------------------------------------------------------------
\* A crash ends the logins that are under way, and not their transactions.
LEMMA ServerDies == ASSUME IInv, Crash PROVE IInv'
  <1> USE DEF IInv
  <1>1. /\ UNCHANGED <<bootstrapState, walletAddress, recorded, sessions, tx, enoki, drifts,
                      overlapped, req>>
        /\ pc' = [l \in Login |-> IF pc[l] \in Active THEN "crashed" ELSE pc[l]]
    BY DEF Crash, dbVars, enokiVars
  <1>2. /\ \A l \in Login : pc'[l] = IF pc[l] \in Active THEN "crashed" ELSE pc[l]
        /\ Minted' = Minted
    BY <1>1 DEF Minted
  <1>3. TypeOK'
    BY <1>1 DEF TypeOK, Ended
  <1>4. Placed'
    <2> SUFFICES ASSUME NEW m \in Login PROVE Fits(pc[m], tx[m], req[m])'
      BY DEF Placed
    <2>1. Fits(pc[m], tx[m], req[m])
      BY DEF Placed
    <2> QED
      BY <1>1, <1>2, <2>1 DEF Fits, BootsAt
  <1>5. Agreed'
    BY <1>1, <1>2 DEF Agreed, Boots, BootsAt
  <1>6. RowsSound' /\ Undrifted'
    BY <1>1, <1>2 DEF RowsSound, Undrifted
  <1>7. Alone'
    BY <1>1, <1>2 DEF Alone, AtWork, Active
  <1> QED
    BY <1>3, <1>4, <1>5, <1>6, <1>7

\* A change of Enoki's answer touches no wallet that was written or read.
LEMMA AnswerDrifts == ASSUME IInv, enokiDrifts PROVE IInv'
  <1> USE DEF IInv
  <1>1. /\ UNCHANGED <<bootstrapState, walletAddress, recorded, sessions, tx, pc, req, overlapped>>
        /\ drifts < MaxDrifts /\ drifts' = drifts + 1 /\ enoki' \in Address
    BY DEF enokiDrifts, dbVars
  <1>2. drifts' \in 0 .. MaxDrifts /\ drifts' # 0 /\ Minted' = Minted
    BY <1>1, BootstrapAssumption DEF TypeOK, Minted
  <1>3. TypeOK' /\ Undrifted'
    BY <1>1, <1>2 DEF TypeOK, Undrifted
  <1>4. Placed' /\ Agreed'
    BY <1>1, <1>2 DEF Placed, Agreed, Fits, Boots, BootsAt
  <1>5. RowsSound' /\ Alone'
    BY <1>1, <1>2 DEF RowsSound, Alone, AtWork
  <1> QED
    BY <1>3, <1>4, <1>5

\* A stuttering step.
LEMMA NothingMoves == ASSUME IInv, UNCHANGED vars PROVE IInv'
  <1> USE DEF IInv, vars, dbVars, enokiVars
  <1>1. Minted' = Minted
    BY DEF Minted
  <1>2. TypeOK' /\ Undrifted'
    BY DEF TypeOK, Undrifted
  <1>3. Placed' /\ Agreed'
    BY <1>1 DEF Placed, Agreed, Fits, Boots, BootsAt
  <1>4. RowsSound' /\ Alone'
    BY <1>1 DEF RowsSound, Alone, AtWork
  <1> QED
    BY <1>2, <1>3, <1>4

-----------------------------------------------------------------------------
\* Nothing is minted and nobody is at work at first.
LEMMA InitSound == Init => IInv
  <1> SUFFICES ASSUME Init PROVE IInv
    OBVIOUS
  <1>1. NoObjects \in [Kind -> Login \cup {None}]
    BY DEF NoObjects
  <1>2. NoLocals \in Locals /\ NoLocals.wallet = None /\ NoLocals.stored = None
    BY <1>1 DEF NoLocals, Locals
  <1>3. TypeOK
    <2>1. req \in [Login -> Locals]
      BY <1>2 DEF Init
    <2>2. drifts \in 0 .. MaxDrifts
      BY BootstrapAssumption DEF Init
    <2>3. recorded \in [Kind -> Login \cup {None}]
      BY <1>1 DEF Init
    <2>4. pc \in [Login -> {"idle"} \cup Active \cup Ended]
      BY DEF Init
    <2> QED
      BY <2>1, <2>2, <2>3, <2>4 DEF Init, TypeOK, Locals
  <1>4. \A l \in Login : pc[l] = "idle" /\ tx[l] = "none" /\ req[l] = NoLocals
    BY DEF Init
  <1>5. Minted = {}
    BY <1>4 DEF Minted
  <1>6. Placed /\ Agreed
    BY <1>4 DEF Placed, Agreed, Fits, Boots, BootsAt
  <1>7. RowsSound /\ Undrifted
    BY <1>2, <1>4 DEF Init, RowsSound, Undrifted
  <1>8. Alone
    BY <1>4, <1>5 DEF Alone, AtWork, Active
  <1> QED
    BY <1>3, <1>6, <1>7, <1>8 DEF IInv

\* Every step keeps the invariant.
LEMMA StepKeeps == IInv /\ [Next]_vars => IInv'
  <1> SUFFICES ASSUME IInv, [Next]_vars PROVE IInv'
    OBVIOUS
  <1>1. CASE UNCHANGED vars
    BY <1>1, NothingMoves
  <1>2. CASE enokiDrifts
    BY <1>2, AnswerDrifts
  <1>3. CASE Crash
    BY <1>3, ServerDies
  <1>4. ASSUME NEW l \in Login, completeZkLogin(l) PROVE IInv'
    BY <1>4, LoginBegins
  <1>5. ASSUME NEW l \in Login, Proceed(l) PROVE IInv'
    BY <1>5, LoginReads, WalletSynced, UserCreated, PtbMoves, RowsWritten DEF Proceed
  <1>6. ASSUME NEW l \in Login, stepFails(l) PROVE IInv'
    BY <1>6, LoginEnds DEF stepFails
  <1>7. ASSUME NEW l \in Login, bootstrapDecided(l) PROVE IInv'
    BY <1>7, PtbMoves
  <1> QED
    BY <1>1, <1>2, <1>3, <1>4, <1>5, <1>6, <1>7 DEF Next

\* The invariant holds in every behaviour.
LEMMA AlwaysSound == Spec => []IInv
  <1> QED
    BY InitSound, StepKeeps, PTL DEF Spec

-----------------------------------------------------------------------------
\* Whatever Enoki answers, however many logins run at once and wherever they
\* fail: all bootstrap transactions are for one wallet.
THEOREM OneWalletEver == Spec => []OneWallet
  <1>1. IInv => OneWallet
    BY DEF IInv, Agreed, OneWallet, Boots, BootsAt
  <1> QED
    BY <1>1, AlwaysSound, PTL

\* Behind every session is an identity on chain, in the wallet the bootstrap
\* was begun for; it is the only one ever minted if no two logins overlapped.
THEOREM SessionsHaveAnIdentity == Spec => []IdentitySound
  <1>1. IInv => IdentityOnChain
    <2> SUFFICES ASSUME IInv PROVE IdentityOnChain
      OBVIOUS
    <2>1. ASSUME bootstrapState # "none", drifts = 0, NEW l \in Minted
          PROVE  req[l].wallet = walletAddress
      <3>1. walletAddress = enoki
        BY <2>1, BootstrapAssumption DEF IInv, RowsSound, Undrifted
      <3>2. l \in Login /\ Boots(l)
        BY DEF Minted, Boots, BootsAt
      <3>3. req[l].wallet \in Address /\ req[l].wallet \in {None, enoki}
        BY <2>1, <3>2 DEF IInv, Placed, Fits, Boots, Undrifted
      <3> QED
        BY <3>1, <3>3, BootstrapAssumption
    <2> QED
      BY <2>1 DEF IInv, RowsSound, IdentityOnChain
  <1>2. IInv => OneIdentityInSequence
    <2> SUFFICES ASSUME IInv, ~overlapped
                 PROVE  /\ Cardinality(Minted) <= 1
                        /\ bootstrapState = "complete" =>
                              \A k \in Kind : Minted = {recorded[k]}
      BY DEF OneIdentityInSequence
    <2>1. \A l, m \in Minted : l = m
      BY DEF IInv, Alone
    <2>2. Minted = {} \/ \E l \in Minted : Minted = {l}
      BY <2>1
    <2>3. Cardinality(Minted) <= 1
      BY <2>2, FS_EmptySet, FS_Singleton
    <2>4. ASSUME bootstrapState = "complete", NEW k \in Kind PROVE Minted = {recorded[k]}
      <3>1. recorded[k] \in Minted
        BY <2>4 DEF IInv, RowsSound
      <3> QED
        BY <2>1, <3>1
    <2> QED
      BY <2>3, <2>4
  <1>3. IInv => TypeOK
    BY DEF IInv
  <1> QED
    BY <1>1, <1>2, <1>3, AlwaysSound, PTL DEF IdentitySound

-----------------------------------------------------------------------------
(***************************************************************************)
(* The sessions those sign-ins end in, as the browser holds them           *)
(* (ClientSession).                                                        *)
(***************************************************************************)

\* What the proof needs of the browser's and the server's values.
ClientTypes ==
    /\ ClientTypeOK
    /\ loading \in [Tab -> BOOLEAN] /\ account \in [Tab -> User \cup {Nil}]
    /\ wire \in [Tab -> SUBSET [kind : RequestKind, token : User \cup Session \cup {Nil},
                                answer : User \cup Session
                                           \cup {Nil, "refused", "lost", "revoked"}]]
    /\ leftover \subseteq Tab /\ switched \in BOOLEAN /\ cutOff \in BOOLEAN

\* A request carries an account's id_token or a session that was issued, and its
\* answer is about that account or that session's user.
WellAsked(r) ==
    /\ r.kind \in {"complete", "proof"} => r.token \in User
    /\ r.kind \notin {"complete", "proof"} /\ r.token # Nil =>
          r.token \in Session /\ owner[r.token] # Nil
    /\ r.kind \in {"complete", "proof"} => r.answer \in {Nil, "lost"} \cup Session
    /\ r.kind = "proof" => r.answer \notin Session
    /\ r.kind = "complete" /\ r.answer \in Session => owner[r.answer] = r.token
    /\ r.kind \in {"me"} \cup Store =>
          \/ r.answer \in {Nil, "lost", "refused"}
          \/ r.token \in Session /\ r.answer = owner[r.token]
    /\ r.kind = "logout" =>
          \/ r.answer \in {Nil, "lost"}
          \/ r.answer \in {"revoked", "refused"} /\ ~live(r.token)

Requested ==
    /\ stored = Nil \/ owner[stored] # Nil
    /\ \A t \in Tab : page[t] = "google" => wire[t] = {}
    /\ \A t \in Tab : \A r \in wire[t] : WellAsked(r)

\* One user in the tab: the proof, the stores and the requests in flight are those of
\* the user shown; before one is shown there is nothing to mix with.
OneUserIn(t) ==
    /\ stored # Nil => {user[t], zk[t]} \subseteq {Nil, owner[stored]}
    /\ stored = Nil /\ t \notin leftover =>
          zk[t] = Nil /\ (page[t] = "callback" => user[t] = Nil)
    /\ user[t] # Nil => /\ zk[t] \in {Nil, user[t]}
                        /\ \A s \in Store : store[t][s] \in {Nil, user[t]}
    /\ \A r \in wire[t] :
          /\ r.token \in Session => /\ stored # Nil => owner[r.token] = owner[stored]
                                    /\ user[t] # Nil => owner[r.token] = user[t]
          /\ r.kind = "me" /\ r.token \in Session => zk[t] \in {Nil, owner[r.token]}
          /\ r.kind = "complete" /\ t \notin leftover => zk[t] = Nil
          /\ r.kind \in {"me", "complete"} =>
                /\ user[t] = Nil /\ store[t] = NoData
                /\ \A q \in wire[t] : q = r \/ q.kind = "proof"
    /\ page[t] = "callback" =>
          /\ account[t] \in User
          /\ \A r \in wire[t] : r.kind \in {"complete", "proof"} /\ r.token = account[t]
          /\ user[t] = account[t] \/ Sent(t, "complete")

Unmixed == ~switched /\ ~cutOff => \A t \in Tab : OneUserIn(t)

ClientInv == ClientTypes /\ Requested /\ LiveSessionIsHeld /\ Unmixed

\* What a sign-in shows at most is what Unmixed says of each tab.
LEMMA UnmixedShows == ClientInv => SessionSound
  <1> SUFFICES ASSUME ClientInv PROVE TabIsOneUser
    BY DEF ClientInv, SessionSound
  <1> USE DEF ClientInv, ClientTypes
  <1>1. ASSUME ~switched, ~cutOff, NEW t \in Tab, user[t] # Nil
        PROVE  /\ zk[t] \in {Nil, user[t]}
               /\ \A s \in Store : store[t][s] \in {Nil, user[t]}
               /\ stored # Nil => owner[stored] = user[t]
    BY <1>1 DEF Unmixed, OneUserIn
  <1> QED
    BY <1>1 DEF TabIsOneUser

LEMMA ClientStarts == ClientInit => ClientInv
  <1> SUFFICES ASSUME ClientInit PROVE ClientInv
    OBVIOUS
  <1> USE DEF ClientInit
  <1>1. ClientTypes
    BY DEF ClientTypes, ClientTypeOK, NoData
  <1>2. Requested
    BY DEF Requested
  <1>3. LiveSessionIsHeld
    BY DEF LiveSessionIsHeld
  <1>4. Unmixed
    BY DEF Unmixed, OneUserIn, NoData
  <1> QED
    BY <1>1, <1>2, <1>3, <1>4 DEF ClientInv

-----------------------------------------------------------------------------
\* A request as it is sent, and one the server or the network answered, keep their type.
Req == [kind : RequestKind, token : User \cup Session \cup {Nil},
        answer : User \cup Session \cup {Nil, "refused", "lost", "revoked"}]

LEMMA RequestTypes ==
    ASSUME ClientTypes
    PROVE  /\ \A k \in RequestKind : Request(k) \in Req
           /\ \A k \in RequestKind, u \in User : SignIn(k, u) \in Req
  BY DEF ClientTypes, ClientTypeOK, Req, Request, SignIn

LEMMA ReplyDoes ==
    ASSUME ClientTypes, NEW t \in Tab, NEW r \in wire[t],
           NEW a \in User \cup Session \cup {Nil, "refused", "lost", "revoked"}, Reply(t, r, a)
    PROVE  \E n \in Req :
              /\ n.kind = r.kind /\ n.token = r.token /\ n.answer = a
              /\ wire' \in [Tab -> SUBSET Req] /\ wire'[t] = (wire[t] \ {r}) \cup {n}
              /\ \A x \in Tab \ {t} : wire'[x] = wire[x]
  <1> DEFINE n == [r EXCEPT !.answer = a]
  <1>1. wire \in [Tab -> SUBSET Req]
    BY DEF ClientTypes, Req
  <1>2. r \in Req
    BY <1>1
  <1>3. n \in Req /\ n.kind = r.kind /\ n.token = r.token /\ n.answer = a
    BY <1>2 DEF Req
  <1>4. wire' = [wire EXCEPT ![t] = (wire[t] \ {r}) \cup {n}]
    BY DEF Reply
  <1> HIDE DEF n
  <1> QED
    BY <1>1, <1>3, <1>4

LEMMA ReceiveDoes ==
    ASSUME ClientTypes, NEW t \in Tab, NEW r, Receive(t, r)
    PROVE  /\ wire' \in [Tab -> SUBSET Req] /\ wire'[t] = wire[t] \ {r}
           /\ \A x \in Tab \ {t} : wire'[x] = wire[x]
  BY DEF ClientTypes, Req, Receive

LEMMA SendDoes ==
    ASSUME ClientTypes, NEW t \in Tab, NEW k \in RequestKind, Send(t, {k})
    PROVE  /\ wire' \in [Tab -> SUBSET Req] /\ wire'[t] = wire[t] \cup {Request(k)}
           /\ \A x \in Tab \ {t} : wire'[x] = wire[x]
  <1>1. wire' = [wire EXCEPT ![t] = wire[t] \cup {Request(k)}]
    BY DEF Send
  <1> QED
    BY <1>1, RequestTypes DEF ClientTypes, Req

\* Sessions are only added, and nothing of tab x moves.
Stays(x) ==
    /\ \A s \in Session : owner[s] # Nil => owner'[s] = owner[s]
    /\ page'[x] = page[x] /\ user'[x] = user[x] /\ account'[x] = account[x]
    /\ zk'[x] = zk[x] /\ store'[x] = store[x]

\* A session that is stored, or that a request carries, is an account's.
LEMMA TokensIssued ==
    ASSUME ClientTypes, Requested
    PROVE  /\ stored # Nil => stored \in Session /\ owner[stored] \in User
           /\ \A t \in Tab : \A r \in wire[t] : r.token \in Session => owner[r.token] \in User
  <1>1. stored # Nil => stored \in Session /\ owner[stored] \in User
    BY DEF ClientTypes, ClientTypeOK, Requested
  <1>2. ASSUME NEW t \in Tab, NEW r \in wire[t], r.token \in Session PROVE owner[r.token] \in User
    <2>1. WellAsked(r) /\ r.token # Nil /\ r.token \notin User
      BY <1>2, ClientAssumption DEF Requested
    <2>2. owner[r.token] # Nil
      BY <2>1 DEF WellAsked
    <2> QED
      BY <1>2, <2>2 DEF ClientTypes, ClientTypeOK
  <1> QED
    BY <1>1, <1>2

\* A tab of one user stays so when nothing of it moves and the token stays or goes.
LEMMA OtherTabs ==
    ASSUME ClientTypes, Requested, NEW x \in Tab, OneUserIn(x), Stays(x),
           wire'[x] \subseteq wire[x], x \in leftover => x \in leftover',
           \/ stored' = stored /\ (x \in leftover' <=> x \in leftover)
           \/ stored' = Nil /\ (x \in leftover' \/ {user[x], zk[x]} = {Nil}),
           page[x] = "callback" => wire'[x] = wire[x]
    PROVE  OneUserIn(x)'
  <1>1. /\ stored' # Nil => stored' = stored /\ owner'[stored] = owner[stored]
        /\ \A r \in wire'[x] : r.token \in Session => owner'[r.token] = owner[r.token]
    BY TokensIssued, ClientAssumption DEF Stays
  <1> QED
    BY <1>1 DEF Stays, OneUserIn, Sent

\* An answer changes neither what a request is nor whose its token is.
LEMMA AnswersKeep ==
    ASSUME ClientTypes, Requested, NEW t \in Tab, OneUserIn(t), Stays(t), stored' = stored,
           leftover' = leftover, NEW r \in wire[t],
           NEW a \in User \cup Session \cup {Nil, "refused", "lost", "revoked"}, Reply(t, r, a)
    PROVE  OneUserIn(t)'
  <1>1. PICK n \in Req :
              /\ n.kind = r.kind /\ n.token = r.token
              /\ wire'[t] = (wire[t] \ {r}) \cup {n}
    BY ReplyDoes
  <1>2. /\ stored' # Nil => owner'[stored] = owner[stored]
        /\ \A q \in wire'[t] : q.token \in Session => owner'[q.token] = owner[q.token]
    BY <1>1, TokensIssued, ClientAssumption DEF Stays
  <1>3. /\ stored # Nil => {user[t], zk[t]} \subseteq {Nil, owner[stored]}
        /\ stored = Nil /\ t \notin leftover =>
              zk[t] = Nil /\ (page[t] = "callback" => user[t] = Nil)
    BY DEF OneUserIn
  <1>4. user[t] # Nil => /\ zk[t] \in {Nil, user[t]}
                         /\ \A s \in Store : store[t][s] \in {Nil, user[t]}
    BY DEF OneUserIn
  <1>5. ASSUME NEW q \in wire'[t], q.token \in Session
        PROVE  /\ stored # Nil => owner[q.token] = owner[stored]
               /\ user[t] # Nil => owner[q.token] = user[t]
               /\ q.kind = "me" => zk[t] \in {Nil, owner[q.token]}
    BY <1>1, <1>5 DEF OneUserIn
  <1>6. ASSUME NEW q \in wire'[t], q.kind \in {"me", "complete"}
        PROVE  /\ user[t] = Nil /\ store[t] = NoData
               /\ q.kind = "complete" /\ t \notin leftover => zk[t] = Nil
               /\ \A p \in wire'[t] : p = q \/ p.kind = "proof"
    BY <1>1, <1>6 DEF OneUserIn
  <1>7. page[t] = "callback" =>
          /\ account[t] \in User
          /\ \A q \in wire'[t] : q.kind \in {"complete", "proof"} /\ q.token = account[t]
          /\ user[t] = account[t] \/ \E q \in wire'[t] : q.kind = "complete"
    BY <1>1 DEF OneUserIn, Sent
  <1> QED
    BY <1>2, <1>3, <1>4, <1>5, <1>6, <1>7 DEF OneUserIn, Sent, Stays

-----------------------------------------------------------------------------
(***************************************************************************)
(* What the server and the network do.                                     *)
(***************************************************************************)
LEMMA RepliesKeep ==
    ASSUME ClientInv, NEW t \in Tab, NEW r \in wire[t],
           NEW a \in User \cup Session \cup {Nil, "refused", "lost", "revoked"}, Reply(t, r, a),
           UNCHANGED <<stored, shown, zk, store, switched, cutOff, leftover>>,
           owner' \in [Session -> User \cup {Nil}], dead \subseteq dead', dead' \subseteq Session,
           \A s \in Session : owner[s] # Nil => owner'[s] = owner[s],
           \A n \in Req : n.kind = r.kind /\ n.token = r.token /\ n.answer = a => WellAsked(n)',
           LiveSessionIsHeld'
    PROVE  ClientInv'
  <1> USE DEF ClientInv
  <1>1. PICK n \in Req :
              /\ n.kind = r.kind /\ n.token = r.token /\ n.answer = a
              /\ wire' \in [Tab -> SUBSET Req] /\ wire'[t] = (wire[t] \ {r}) \cup {n}
              /\ \A x \in Tab \ {t} : wire'[x] = wire[x]
    BY ReplyDoes
  <1>2. ClientTypes'
    <2>1. \A x \in Tab : \A q \in wire'[x] : q.kind \in RequestKind
      BY <1>1 DEF Req
    <2> QED
      BY <1>1, <2>1 DEF ClientTypes, ClientTypeOK, Req, shown
  <1>3. Requested'
    <2>1. stored' = Nil \/ owner'[stored'] # Nil
      BY DEF Requested, ClientTypes, ClientTypeOK
    <2>2. \A x \in Tab : page'[x] = "google" => wire'[x] = {}
      BY <1>1 DEF Requested, shown
    <2>3. ASSUME NEW x \in Tab, NEW q \in wire[x] PROVE WellAsked(q)'
      <3>1. WellAsked(q) /\ q \in Req
        BY DEF Requested, ClientTypes, Req
      <3> QED
        BY <3>1, ClientAssumption DEF WellAsked, live, Req, ClientTypes, ClientTypeOK
    <2>4. ASSUME NEW x \in Tab, NEW q \in wire'[x] PROVE WellAsked(q)'
      BY <1>1, <2>3
    <2> QED
      BY <2>1, <2>2, <2>4 DEF Requested
  <1>4. Unmixed'
    <2>1. SUFFICES ASSUME ~switched, ~cutOff, NEW x \in Tab PROVE OneUserIn(x)'
      BY DEF Unmixed
    <2>2. OneUserIn(x) /\ Stays(x)
      BY <2>1 DEF Unmixed, Stays, shown
    <2>3. CASE x = t
      BY <2>2, <2>3, AnswersKeep
    <2>4. CASE x # t
      <3>1. wire'[x] = wire[x]
        BY <1>1, <2>4
      <3> QED
        BY <2>2, <3>1, OtherTabs
    <2> QED
      BY <2>3, <2>4
  <1> QED
    BY <1>2, <1>3, <1>4

LEMMA SessionIssued == ASSUME ClientInv, NEW t \in Tab, issue(t) PROVE ClientInv'
  <1> USE DEF ClientInv
  <1>1. PICK r \in Pending(t, {"complete"}), s \in Session :
              /\ owner[s] = Nil /\ owner' = [owner EXCEPT ![s] = r.token] /\ Reply(t, r, s)
              /\ UNCHANGED <<dead, stored, shown, zk, store, bounds, hist>>
    BY DEF issue
  <1>2. r \in wire[t] /\ r.kind = "complete" /\ r.token \in User
    BY DEF Pending, Requested, WellAsked
  <1>3. /\ owner' \in [Session -> User \cup {Nil}] /\ owner'[s] = r.token
        /\ \A z \in Session : z # s => owner'[z] = owner[z]
    BY <1>1, <1>2 DEF ClientTypes, ClientTypeOK
  <1>4. \A n \in Req : n.kind = r.kind /\ n.token = r.token /\ n.answer = s => WellAsked(n)'
    BY <1>2, <1>3 DEF WellAsked, Store, ResetStore
  <1>5. LiveSessionIsHeld'
    <2>1. PICK n \in Req : /\ n.kind = "complete" /\ n.answer = s
                           /\ wire'[t] = (wire[t] \ {r}) \cup {n}
                           /\ \A x \in Tab \ {t} : wire'[x] = wire[x]
      BY <1>1, <1>2, ReplyDoes
    <2>2. r.answer = Nil
      BY DEF Pending, Answered
    <2>3. SUFFICES ASSUME NEW z \in Session, z # s, owner[z] # Nil, live(z), z # stored, z \notin strayed
                   PROVE  \E x \in Tab : \E q \in wire'[x] : q.kind = "complete" /\ q.answer = z
      BY <1>1, <1>3, <2>1 DEF LiveSessionIsHeld, live, hist
    <2>4. PICK x \in Tab : \E q \in wire[x] : q.kind = "complete" /\ q.answer = z
      BY <2>3 DEF LiveSessionIsHeld
    <2> PICK q \in wire[x] : q.kind = "complete" /\ q.answer = z
      BY <2>4
    <2>5. q # r /\ q \in wire'[x]
      BY <2>1, <2>2, <2>4, ClientAssumption
    <2> QED
      BY <2>5
  <1> QED
    BY <1>1, <1>2, <1>3, <1>4, <1>5, RepliesKeep DEF hist, ClientTypes, ClientTypeOK

\* A reply to a request that is not a sign-in takes no session out of a wire.
LEMMA StillHeld ==
    ASSUME ClientInv, NEW t \in Tab, NEW r \in wire[t],
           NEW a \in User \cup Session \cup {Nil, "refused", "lost", "revoked"}, Reply(t, r, a),
           owner' = owner, stored' = stored, dead \subseteq dead', strayed \subseteq strayed',
           \A s \in Session : r.kind = "complete" /\ r.answer = s /\ live(s) => s \in strayed'
    PROVE  LiveSessionIsHeld'
  <1>1. PICK n \in Req : /\ wire'[t] = (wire[t] \ {r}) \cup {n}
                         /\ \A x \in Tab \ {t} : wire'[x] = wire[x]
    BY ReplyDoes DEF ClientInv
  <1>2. SUFFICES ASSUME NEW z \in Session, owner[z] # Nil, live(z), z # stored, z \notin strayed'
                 PROVE  \E x \in Tab : \E q \in wire'[x] : q.kind = "complete" /\ q.answer = z
    BY DEF LiveSessionIsHeld, live
  <1>3. PICK x \in Tab : \E q \in wire[x] : q.kind = "complete" /\ q.answer = z
    BY <1>2 DEF ClientInv, LiveSessionIsHeld
  <1> PICK q \in wire[x] : q.kind = "complete" /\ q.answer = z
    BY <1>3
  <1>4. q # r \/ x # t
    BY <1>2
  <1> QED
    BY <1>1, <1>4

LEMMA SignOutServed == ASSUME ClientInv, NEW t \in Tab, logout(t) PROVE ClientInv'
  <1> USE DEF ClientInv
  <1>1. PICK r \in Pending(t, {"logout"}) :
              /\ dead' = dead \cup (IF canActivate(r.token) THEN revoked(r.token) ELSE {})
              /\ Reply(t, r, IF canActivate(r.token) THEN "revoked" ELSE "refused")
              /\ UNCHANGED <<owner, stored, shown, zk, store, bounds, hist>>
    BY DEF logout
  <1>2. r \in wire[t] /\ r.kind = "logout" /\ (r.token # Nil => r.token \in Session)
    BY DEF Pending, Requested, WellAsked
  <1>3. dead \subseteq dead' /\ dead' \subseteq Session /\ ~live(r.token)'
    BY <1>1, <1>2 DEF canActivate, live, revoked, ClientTypes, ClientTypeOK
  <1>4. LiveSessionIsHeld'
    BY <1>1, <1>2, <1>3, StillHeld DEF hist
  <1>5. \A n \in Req : n.kind = r.kind /\ n.token = r.token /\ n.answer \in {"revoked", "refused"}
                          => WellAsked(n)'
    <2>1. r.token # Nil => owner[r.token] # Nil
      BY <1>2 DEF Pending, Requested, WellAsked
    <2> QED
      BY <1>1, <1>2, <1>3, <2>1, ClientAssumption DEF WellAsked, Store, ResetStore
  <1> QED
    BY <1>1, <1>2, <1>3, <1>4, <1>5, RepliesKeep DEF hist, ClientTypes, ClientTypeOK

LEMMA ReadServed == ASSUME ClientInv, NEW t \in Tab, serve(t) PROVE ClientInv'
  <1> USE DEF ClientInv
  <1>1. PICK r \in Pending(t, {"me"} \cup Store) :
              /\ Reply(t, r, IF canActivate(r.token) THEN owner[r.token] ELSE "refused")
              /\ UNCHANGED <<server, stored, shown, zk, store, bounds, hist>>
    BY DEF serve
  <1> DEFINE a == IF canActivate(r.token) THEN owner[r.token] ELSE "refused"
  <1>2. /\ r \in wire[t] /\ r.kind \in {"me"} \cup Store
        /\ (r.token # Nil => r.token \in Session /\ owner[r.token] # Nil)
    BY DEF Pending, Requested, WellAsked, Store, ResetStore
  <1>3. a \in User \cup {"refused"} /\ (a # "refused" => r.token \in Session /\ a = owner[r.token])
    BY <1>2 DEF canActivate, live, ClientTypes, ClientTypeOK
  <1>4. LiveSessionIsHeld'
    BY <1>1, <1>2, <1>3, StillHeld DEF hist, server, Store, ResetStore
  <1>5. \A n \in Req : n.kind = r.kind /\ n.token = r.token /\ n.answer = a => WellAsked(n)'
    BY <1>1, <1>2, <1>3 DEF WellAsked, Store, ResetStore, server
  <1> HIDE DEF a
  <1> QED
    BY <1>1, <1>2, <1>3, <1>4, <1>5, RepliesKeep DEF hist, server, ClientTypes, ClientTypeOK, a

LEMMA RequestLost == ASSUME ClientInv, NEW t \in Tab, loseRequest(t) PROVE ClientInv'
  <1> USE DEF ClientInv
  <1>1. PICK r \in wire[t] : /\ Reply(t, r, "lost")
                             /\ strayed' = strayed \cup Live({r.answer} \cap Session)
                             /\ UNCHANGED <<server, stored, shown, zk, store, loads, switched, cutOff, leftover>>
    BY DEF loseRequest
  <1>2. LiveSessionIsHeld'
    BY <1>1, StillHeld DEF server, Live
  <1>3. WellAsked(r)
    BY DEF Requested
  <1>4. \A n \in Req : n.kind = r.kind /\ n.token = r.token /\ n.answer = "lost" => WellAsked(n)'
    BY <1>1, <1>3, ClientAssumption DEF WellAsked, server, live
  <1> QED
    BY <1>1, <1>2, <1>4, RepliesKeep DEF server, ClientTypes, ClientTypeOK

LEMMA SessionExpired == ASSUME ClientInv, NEW s \in Session, expire(s) PROVE ClientInv'
  <1> USE DEF ClientInv, expire
  <1>1. ClientTypes'
    BY DEF ClientTypes, ClientTypeOK, shown
  <1>2. Requested'
    <2>1. ASSUME NEW t \in Tab, NEW r \in wire[t] PROVE WellAsked(r)'
      <3>1. WellAsked(r)
        BY DEF Requested
      <3> QED
        BY <3>1 DEF WellAsked, live
    <2> QED
      BY <2>1 DEF Requested, shown
  <1>3. LiveSessionIsHeld'
    BY DEF LiveSessionIsHeld, live
  <1>4. Unmixed'
    <2>1. SUFFICES ASSUME ~switched, ~cutOff, NEW x \in Tab PROVE OneUserIn(x)'
      BY DEF Unmixed
    <2>2. OneUserIn(x) /\ Stays(x)
      BY <2>1 DEF Unmixed, Stays, shown
    <2> QED
      BY <2>1, <2>2, OtherTabs
  <1> QED
    BY <1>1, <1>2, <1>3, <1>4

-----------------------------------------------------------------------------
(***************************************************************************)
(* Page loads.                                                             *)
(***************************************************************************)

\* A load starts the tab afresh: no user, empty stores, and at most the check of the
\* stored token in flight.
LEMMA LoadDoes ==
    ASSUME ClientTypes, NEW t \in Tab, NEW p \in {"home", "signin", "callback"},
           NEW asked \in SUBSET Req, mount(t, p, asked)
    PROVE  /\ page' \in [Tab -> {"closed", "home", "signin", "google", "callback"}]
           /\ user' \in [Tab -> User \cup {Nil}] /\ loading' \in [Tab -> BOOLEAN]
           /\ store' \in [Tab -> [Store -> User \cup {Nil}]] /\ wire' \in [Tab -> SUBSET Req]
           /\ page'[t] = p /\ user'[t] = Nil /\ store'[t] = NoData
           /\ stored = Nil => wire'[t] = asked
           /\ stored # Nil => wire'[t] = asked \cup {Request("me")}
           /\ \A x \in Tab \ {t} : /\ page'[x] = page[x] /\ user'[x] = user[x]
                                   /\ store'[x] = store[x] /\ wire'[x] = wire[x]
  <1>1. NoData \in [Store -> User \cup {Nil}] /\ Request("me") \in Req
    BY RequestTypes DEF NoData, RequestKind
  <1> QED
    BY <1>1 DEF mount, ClientTypes, ClientTypeOK, Req

LEMMA TabOpened == ASSUME ClientInv, NEW t \in Tab, openTab(t) \/ oauthError(t) PROVE ClientInv'
  <1> USE DEF ClientInv
  <1>1. /\ UNCHANGED <<owner, dead, stored, account, zk, switched, cutOff, leftover>>
        /\ strayed \subseteq strayed'
        /\ \A s \in Abandoned(t) : live(s) => s \in strayed'
    <2>1. CASE openTab(t)
      BY <2>1 DEF openTab, server, Live
    <2>2. CASE oauthError(t)
      BY <2>2 DEF oauthError, server, hist, Abandoned, Requested
    <2> QED
      BY <2>1, <2>2
  <1>2. PICK p \in {"home", "signin"} : mount(t, p, {})
    BY DEF openTab, oauthError
  <1>3. /\ page' \in [Tab -> {"closed", "home", "signin", "google", "callback"}]
        /\ user' \in [Tab -> User \cup {Nil}] /\ loading' \in [Tab -> BOOLEAN]
        /\ store' \in [Tab -> [Store -> User \cup {Nil}]] /\ wire' \in [Tab -> SUBSET Req]
        /\ page'[t] = p /\ user'[t] = Nil /\ store'[t] = NoData
        /\ \A q \in wire'[t] : q = Request("me") /\ stored # Nil
        /\ \A x \in Tab \ {t} : /\ page'[x] = page[x] /\ user'[x] = user[x]
                                /\ store'[x] = store[x] /\ wire'[x] = wire[x]
    BY <1>2, LoadDoes
  <1>4. ClientTypes'
    <2>1. \A x \in Tab : \A q \in wire'[x] : q.kind \in RequestKind
      BY <1>3 DEF Req
    <2> QED
      BY <1>1, <1>3, <2>1 DEF ClientTypes, ClientTypeOK, Req
  <1>5. Requested'
    <2>1. stored # Nil => WellAsked(Request("me"))
      BY TokensIssued, ClientAssumption DEF WellAsked, Request, Store, ResetStore
    <2>2. ASSUME NEW x \in Tab, NEW q \in wire'[x] PROVE WellAsked(q)'
      <3>1. WellAsked(q)
        BY <1>3, <2>1 DEF Requested
      <3> QED
        BY <1>1, <3>1 DEF WellAsked, live
    <2> QED
      BY <1>1, <1>3, <2>2 DEF Requested
  <1>6. LiveSessionIsHeld'
    <2>1. SUFFICES ASSUME NEW s \in Session, owner[s] # Nil, live(s), s # stored, s \notin strayed'
                   PROVE  \E x \in Tab : \E q \in wire'[x] : q.kind = "complete" /\ q.answer = s
      BY <1>1 DEF LiveSessionIsHeld, live
    <2>2. PICK x \in Tab : \E q \in wire[x] : q.kind = "complete" /\ q.answer = s
      BY <1>1, <2>1 DEF LiveSessionIsHeld
    <2>3. x # t
      BY <1>1, <2>1, <2>2 DEF Abandoned
    <2> QED
      BY <1>3, <2>2, <2>3
  <1>7. Unmixed'
    <2>1. SUFFICES ASSUME ~switched, ~cutOff, NEW x \in Tab PROVE OneUserIn(x)'
      BY <1>1 DEF Unmixed
    <2>2. OneUserIn(x)
      BY <2>1 DEF Unmixed
    <2>3. CASE x # t
      <3>1. Stays(x) /\ wire'[x] = wire[x]
        BY <1>1, <1>3, <2>3 DEF Stays
      <3> QED
        BY <1>1, <2>2, <3>1, OtherTabs
    <2>4. CASE x = t
      <3>1. \A q \in wire'[t] : q.kind = "me" /\ q.token = stored /\ stored # Nil
        BY <1>3 DEF Request
      <3> QED
        BY <1>1, <1>3, <2>2, <2>4, <3>1 DEF OneUserIn
    <2> QED
      BY <2>3, <2>4
  <1> QED
    BY <1>4, <1>5, <1>6, <1>7

LEMMA LeftForGoogle == ASSUME ClientInv, NEW t \in Tab, handleGoogleSignIn(t) PROVE ClientInv'
  <1> USE DEF ClientInv, handleGoogleSignIn, server, bounds
  <1>1. ClientTypes'
    BY DEF ClientTypes, ClientTypeOK, NoData
  <1>2. /\ wire'[t] = {} /\ page'[t] = "google" /\ user'[t] = Nil
        /\ \A x \in Tab \ {t} : /\ page'[x] = page[x] /\ user'[x] = user[x]
                                /\ store'[x] = store[x] /\ wire'[x] = wire[x]
    BY DEF ClientTypes, ClientTypeOK
  <1>3. Requested'
    <2>1. ASSUME NEW x \in Tab, NEW q \in wire'[x] PROVE WellAsked(q)'
      <3>1. WellAsked(q)
        BY <1>2 DEF Requested
      <3> QED
        BY <3>1 DEF WellAsked, live
    <2> QED
      BY <1>2, <2>1 DEF Requested
  <1>4. LiveSessionIsHeld'
    <2>1. SUFFICES ASSUME NEW s \in Session, owner[s] # Nil, live(s), s # stored, s \notin strayed'
                   PROVE  \E x \in Tab : \E q \in wire'[x] : q.kind = "complete" /\ q.answer = s
      BY DEF LiveSessionIsHeld, live
    <2>2. PICK x \in Tab : \E q \in wire[x] : q.kind = "complete" /\ q.answer = s
      BY <2>1 DEF LiveSessionIsHeld
    <2>3. x # t
      BY <2>1, <2>2 DEF Abandoned, Live
    <2> QED
      BY <1>2, <2>2, <2>3
  <1>5. Unmixed'
    <2>1. SUFFICES ASSUME ~switched, ~cutOff, NEW x \in Tab PROVE OneUserIn(x)'
      BY DEF Unmixed
    <2>2. OneUserIn(x)
      BY <2>1 DEF Unmixed
    <2>3. CASE x # t
      <3>1. Stays(x) /\ wire'[x] = wire[x]
        BY <1>2, <2>3 DEF Stays
      <3> QED
        BY <2>2, <3>1, OtherTabs
    <2>4. CASE x = t
      BY <1>2, <2>2, <2>4 DEF OneUserIn
    <2> QED
      BY <2>3, <2>4
  <1> QED
    BY <1>1, <1>3, <1>4, <1>5

LEMMA BackFromGoogle ==
    ASSUME ClientInv, NEW t \in Tab, NEW u \in User, handleCallback(t, u) PROVE ClientInv'
  <1> USE DEF ClientInv
  <1> DEFINE asked == {SignIn(k, u) : k \in {"complete", "proof"}}
  <1>1. /\ UNCHANGED <<owner, dead, stored, zk, cutOff, leftover, strayed>> /\ wire[t] = {}
        /\ account' = [account EXCEPT ![t] = u] /\ switched' = (switched \/ stored # Nil)
        /\ mount(t, "callback", asked)
    BY DEF handleCallback, server, Requested
  <1>2. asked \in SUBSET Req
    BY RequestTypes DEF RequestKind
  <1>3. /\ page' \in [Tab -> {"closed", "home", "signin", "google", "callback"}]
        /\ user' \in [Tab -> User \cup {Nil}] /\ loading' \in [Tab -> BOOLEAN]
        /\ store' \in [Tab -> [Store -> User \cup {Nil}]] /\ wire' \in [Tab -> SUBSET Req]
        /\ page'[t] = "callback" /\ user'[t] = Nil /\ store'[t] = NoData
        /\ stored = Nil => wire'[t] = asked
        /\ stored # Nil => wire'[t] = asked \cup {Request("me")}
        /\ \A x \in Tab \ {t} : /\ page'[x] = page[x] /\ user'[x] = user[x]
                                /\ store'[x] = store[x] /\ wire'[x] = wire[x]
    <2> HIDE DEF asked
    <2> QED
      BY <1>1, <1>2, LoadDoes
  <1>4. \A q \in asked : q.kind \in {"complete", "proof"} /\ q.token = u /\ q.answer = Nil
    BY DEF SignIn
  <1>5. SignIn("complete", u) \in asked
    OBVIOUS
  <1> HIDE DEF asked
  <1>6. ClientTypes'
    <2>1. \A x \in Tab : \A q \in wire'[x] : q.kind \in RequestKind
      BY <1>3 DEF Req
    <2> QED
      BY <1>1, <1>3, <2>1 DEF ClientTypes, ClientTypeOK, Req
  <1>7. Requested'
    <2>1. stored # Nil => WellAsked(Request("me"))
      BY TokensIssued, ClientAssumption DEF WellAsked, Request, Store, ResetStore
    <2>2. \A q \in asked : WellAsked(q)
      BY <1>4, ClientAssumption DEF WellAsked, Store, ResetStore
    <2>3. ASSUME NEW x \in Tab, NEW q \in wire'[x] PROVE WellAsked(q)'
      <3>1. WellAsked(q)
        BY <1>3, <2>1, <2>2 DEF Requested
      <3> QED
        BY <1>1, <3>1 DEF WellAsked, live
    <2> QED
      BY <1>1, <1>3, <2>3 DEF Requested
  <1>8. LiveSessionIsHeld'
    <2>1. SUFFICES ASSUME NEW s \in Session, owner[s] # Nil, live(s), s # stored, s \notin strayed
                   PROVE  \E x \in Tab : \E q \in wire'[x] : q.kind = "complete" /\ q.answer = s
      BY <1>1 DEF LiveSessionIsHeld, live
    <2>2. PICK x \in Tab : \E q \in wire[x] : q.kind = "complete" /\ q.answer = s
      BY <2>1 DEF LiveSessionIsHeld
    <2> QED
      BY <1>1, <1>3, <2>2
  <1>9. Unmixed'
    <2>1. SUFFICES ASSUME ~switched, ~cutOff, stored = Nil, NEW x \in Tab PROVE OneUserIn(x)'
      BY <1>1 DEF Unmixed, ClientTypes
    <2>2. OneUserIn(x)
      BY <2>1 DEF Unmixed
    <2>3. CASE x # t
      <3>1. Stays(x) /\ wire'[x] = wire[x]
        BY <1>1, <1>3, <2>3 DEF Stays, ClientTypes
      <3> QED
        BY <1>1, <2>2, <3>1, OtherTabs
    <2>4. CASE x = t
      <3>1. account'[t] = u
        BY <1>1 DEF ClientTypes
      <3>2. \A q \in wire'[t] : q.token \notin Session /\ q.kind # "me"
        BY <1>3, <1>4, <2>1, ClientAssumption
      <3>3. \A q, r \in wire'[t] : r.kind = "complete" => q = r \/ q.kind = "proof"
        BY <1>3, <2>1 DEF asked, SignIn
      <3>4. Sent(t, "complete")'
        BY <1>3, <1>5, <2>1 DEF Sent, SignIn
      <3> QED
        BY <1>1, <1>3, <1>4, <2>1, <2>2, <2>4, <3>1, <3>2, <3>3, <3>4 DEF OneUserIn
    <2> QED
      BY <2>3, <2>4
  <1> QED
    BY <1>6, <1>7, <1>8, <1>9

-----------------------------------------------------------------------------
(***************************************************************************)
(* Answers, and what a tab does with them.                                 *)
(***************************************************************************)

\* A request answered leaves its wire; the others are as they were.
LEMMA StillAsked ==
    ASSUME ClientInv, NEW t \in Tab, NEW r, Receive(t, r), owner' = owner, dead' = dead,
           stored' \in Session \cup {Nil}, stored' # Nil => owner[stored'] # Nil,
           \A x \in Tab : page'[x] = "google" => page[x] = "google"
    PROVE  Requested'
  <1>1. \A x \in Tab : wire'[x] \subseteq wire[x]
    BY ReceiveDoes DEF ClientInv
  <1>2. ASSUME NEW x \in Tab, NEW q \in wire'[x] PROVE WellAsked(q)'
    <2>1. WellAsked(q)
      BY <1>1 DEF ClientInv, Requested
    <2> QED
      BY <2>1 DEF WellAsked, live
  <1> QED
    BY <1>1, <1>2 DEF ClientInv, Requested

\* No session is forgotten when the answer taken brought none.
LEMMA NoneForgotten ==
    ASSUME ClientInv, NEW t \in Tab, NEW r, Receive(t, r), owner' = owner, dead' = dead,
           r.answer \notin Session \/ r.kind # "complete" \/ r.answer = stored',
           strayed \subseteq strayed', stored' # stored => (live(stored) => stored \in strayed')
    PROVE  LiveSessionIsHeld'
  <1>1. wire'[t] = wire[t] \ {r} /\ \A x \in Tab \ {t} : wire'[x] = wire[x]
    BY ReceiveDoes DEF ClientInv
  <1>2. SUFFICES ASSUME NEW s \in Session, owner[s] # Nil, live(s), s # stored', s \notin strayed'
                 PROVE  \E x \in Tab : \E q \in wire'[x] : q.kind = "complete" /\ q.answer = s
    BY DEF LiveSessionIsHeld, live
  <1>3. s # stored /\ s \notin strayed
    BY <1>2
  <1>4. PICK x \in Tab : \E q \in wire[x] : q.kind = "complete" /\ q.answer = s
    BY <1>2, <1>3 DEF ClientInv, LiveSessionIsHeld
  <1> QED
    BY <1>1, <1>2, <1>4

LEMMA TokenVerified == ASSUME ClientInv, NEW t \in Tab, verified(t) PROVE ClientInv'
  <1> USE DEF ClientInv
  <1>1. PICK r \in wire[t] :
       /\ r.kind = "me" /\ Answered(r)
       /\ Receive(t, r)
       /\ loading' = [loading EXCEPT ![t] = FALSE]
       /\ IF Refused(r)
          THEN /\ stored' = Nil /\ cutOff' = TRUE
               /\ strayed' = strayed \cup Live({stored})
               /\ UNCHANGED user
          ELSE /\ user' = [user EXCEPT ![t] = r.answer]
               /\ UNCHANGED <<stored, cutOff, strayed>>
       /\ UNCHANGED <<server, page, account, zk, store, bounds, switched, leftover>>
    BY DEF verified
  <1>2. /\ wire' \in [Tab -> SUBSET Req] /\ wire'[t] = wire[t] \ {r}
        /\ \A x \in Tab \ {t} : wire'[x] = wire[x]
    BY <1>1, ReceiveDoes
  <1>3. ~Refused(r) => r.token \in Session /\ r.answer = owner[r.token] /\ r.answer \in User
    BY <1>1, TokensIssued DEF Requested, WellAsked, Refused, Answered
  <1>4. ClientTypes'
    <2>1. \A x \in Tab : \A q \in wire'[x] : q.kind \in RequestKind
      BY <1>2 DEF Req
    <2> QED
      BY <1>1, <1>2, <1>3, <2>1 DEF ClientTypes, ClientTypeOK, Req, server
  <1>5. Requested'
    BY <1>1, StillAsked DEF server, Requested, ClientTypes, ClientTypeOK
  <1>6. LiveSessionIsHeld'
    BY <1>1, NoneForgotten DEF server, Live
  <1>7. Unmixed'
    <2>1. SUFFICES ASSUME ~switched, ~cutOff, ~Refused(r), NEW x \in Tab PROVE OneUserIn(x)'
      BY <1>1 DEF Unmixed
    <2>2. OneUserIn(x)
      BY <2>1 DEF Unmixed
    <2>3. CASE x # t
      <3>1. Stays(x) /\ wire'[x] = wire[x]
        BY <1>1, <1>2, <2>1, <2>3 DEF Stays, ClientTypes, ClientTypeOK, server
      <3> QED
        BY <1>1, <2>1, <2>2, <3>1, OtherTabs
    <2>4. CASE x = t
      <3>1. user'[t] = owner[r.token]
        BY <1>1, <1>3, <2>1 DEF ClientTypes, ClientTypeOK
      <3>2. /\ \A q \in wire'[t] : q.kind = "proof" /\ q.token \notin Session
            /\ store[t] = NoData /\ zk[t] \in {Nil, owner[r.token]} /\ page[t] # "callback"
        BY <1>1, <1>2, <1>3, <2>1, <2>2, <2>4, ClientAssumption DEF OneUserIn, Requested, WellAsked
      <3>3. stored # Nil => owner[r.token] = owner[stored]
        BY <1>3, <2>1, <2>2, <2>4 DEF OneUserIn
      <3> QED
        BY <1>1, <2>1, <2>2, <2>4, <3>1, <3>2, <3>3 DEF OneUserIn, NoData, server
    <2> QED
      BY <2>3, <2>4
  <1> QED
    BY <1>4, <1>5, <1>6, <1>7

LEMMA SignInCompleted == ASSUME ClientInv, NEW t \in Tab, completeSignIn(t) PROVE ClientInv'
  <1> USE DEF ClientInv
  <1>1. PICK r \in wire[t] :
       /\ r.kind = "complete" /\ r.answer \in Session
       /\ Receive(t, r)
       /\ stored' = r.answer
       /\ user' = [user EXCEPT ![t] = owner[r.answer]]
       /\ switched' = (switched \/ Beside(t, owner[r.answer]) \/ Over(t, owner[r.answer]))
       /\ strayed' = strayed \cup Live({stored})
       /\ UNCHANGED <<server, page, loading, account, zk, store, bounds, cutOff, leftover>>
    BY DEF completeSignIn
  <1> DEFINE u == owner[r.answer]
  <1>2. /\ wire' \in [Tab -> SUBSET Req] /\ wire'[t] = wire[t] \ {r}
        /\ \A x \in Tab \ {t} : wire'[x] = wire[x]
    BY <1>1, ReceiveDoes
  <1>3. u = r.token /\ u \in User /\ u # Nil
    BY <1>1, ClientAssumption DEF Requested, WellAsked
  <1>4. ClientTypes'
    <2>1. \A x \in Tab : \A q \in wire'[x] : q.kind \in RequestKind
      BY <1>2 DEF Req
    <2>2. switched' \in BOOLEAN
      BY <1>1
    <2> QED
      BY <1>1, <1>2, <1>3, <2>1, <2>2 DEF ClientTypes, ClientTypeOK, Req, server
  <1>5. Requested'
    BY <1>1, <1>3, StillAsked DEF server
  <1>6. LiveSessionIsHeld'
    BY <1>1, NoneForgotten DEF server, Live
  <1>7. Unmixed'
    <2>1. SUFFICES ASSUME ~switched, ~cutOff, ~Beside(t, u), ~Over(t, u), NEW x \in Tab
                   PROVE  OneUserIn(x)'
      BY <1>1 DEF Unmixed
    <2>2. OneUserIn(x) /\ OneUserIn(t)
      BY <2>1 DEF Unmixed
    <2>3. /\ stored' = r.answer /\ owner' = owner /\ zk' = zk /\ store' = store
          /\ page' = page /\ account' = account /\ leftover' = leftover /\ stored' # Nil
      BY <1>1, ClientAssumption DEF server
    <2>4. zk[t] \in {Nil, u}
      BY <1>1, <2>1, <2>2 DEF OneUserIn, Over
    <2>5. CASE x # t
      <3>1. user'[x] = user[x] /\ wire'[x] = wire[x]
        BY <1>1, <1>2, <2>5 DEF ClientTypes, ClientTypeOK
      <3>2. /\ {user[x], zk[x]} \subseteq {Nil, u}
            /\ \A q \in wire[x] : q.token \in Session => owner[q.token] \in {Nil, u}
        BY <2>1, <2>5 DEF Beside
      <3>3. \A q \in wire[x] : q.token \in Session => owner[q.token] = u
        BY <3>2, TokensIssued, ClientAssumption
      <3> QED
        BY <2>2, <2>3, <3>1, <3>2, <3>3 DEF OneUserIn, Sent
    <2>6. CASE x = t
      <3>1. user'[t] = u
        BY <1>1 DEF ClientTypes, ClientTypeOK
      <3>2. store[t] = NoData /\ \A q \in wire'[t] : q.kind = "proof" /\ q.token \notin Session
        BY <1>1, <1>2, <2>2, ClientAssumption DEF OneUserIn, Requested, WellAsked
      <3>3. page[t] = "callback" => account[t] = u /\ \A q \in wire'[t] : q.token = account[t]
        BY <1>1, <1>2, <1>3, <2>2 DEF OneUserIn
      <3> QED
        BY <1>3, <2>3, <2>4, <2>6, <3>1, <3>2, <3>3 DEF OneUserIn, NoData
    <2> QED
      BY <2>5, <2>6
  <1> QED
    BY <1>4, <1>5, <1>6, <1>7

LEMMA ProofCame ==
    ASSUME ClientInv, NEW t \in Tab, requestZkProof(t) \/ signInFailed(t) PROVE ClientInv'
  <1> USE DEF ClientInv
  <1>1. PICK r \in wire[t] :
       /\ r.kind \in {"complete", "proof"} /\ r.answer \notin Session
       /\ Receive(t, r)
       /\ \/ UNCHANGED <<page, account>> /\ r.kind = "proof"
          \/ /\ page' = [page EXCEPT ![t] = IF @ = "callback" THEN "signin" ELSE @]
             /\ account' = [account EXCEPT ![t] = Nil]
       /\ UNCHANGED <<owner, dead, stored, user, loading, zk, store, hist>>
    <2>1. CASE requestZkProof(t)
      BY <2>1 DEF requestZkProof, shown, server, Requested, WellAsked
    <2>2. CASE signInFailed(t)
      BY <2>2, ClientAssumption DEF signInFailed, server, Refused
    <2> QED
      BY <2>1, <2>2
  <1>2. /\ wire' \in [Tab -> SUBSET Req] /\ wire'[t] = wire[t] \ {r}
        /\ \A x \in Tab \ {t} : wire'[x] = wire[x]
    BY <1>1, ReceiveDoes
  <1>3. ClientTypes'
    <2>1. \A x \in Tab : \A q \in wire'[x] : q.kind \in RequestKind
      BY <1>2 DEF Req
    <2> QED
      BY <1>1, <1>2, <2>1 DEF ClientTypes, ClientTypeOK, Req, hist
  <1>4. Requested'
    BY <1>1, StillAsked DEF Requested, ClientTypes, ClientTypeOK
  <1>5. LiveSessionIsHeld'
    BY <1>1, NoneForgotten DEF hist
  <1>6. Unmixed'
    <2>1. SUFFICES ASSUME ~switched, ~cutOff, NEW x \in Tab PROVE OneUserIn(x)'
      BY <1>1 DEF Unmixed, hist
    <2>2. OneUserIn(x)
      BY <2>1 DEF Unmixed
    <2>3. CASE x # t
      <3>1. Stays(x) /\ wire'[x] = wire[x]
        BY <1>1, <1>2, <2>3 DEF Stays, ClientTypes, ClientTypeOK
      <3> QED
        BY <1>1, <2>2, <3>1, OtherTabs DEF hist
    <2>4. CASE x = t
      <3>1. page'[t] = "callback" =>
               /\ page[t] = "callback" /\ account'[t] = account[t]
               /\ Sent(t, "complete") => Sent(t, "complete")'
        BY <1>1, <1>2 DEF ClientTypes, ClientTypeOK, Sent
      <3> QED
        BY <1>1, <1>2, <2>2, <2>4, <3>1 DEF OneUserIn, hist
    <2> QED
      BY <2>3, <2>4
  <1> QED
    BY <1>3, <1>4, <1>5, <1>6

LEMMA SignedOut == ASSUME ClientInv, NEW t \in Tab, signedOut(t) PROVE ClientInv'
  <1> USE DEF ClientInv
  <1>1. PICK r \in wire[t] :
       /\ r.kind = "logout" /\ Answered(r)
       /\ Receive(t, r)
       /\ stored' = Nil /\ zk' = [zk EXCEPT ![t] = Nil] /\ user' = [user EXCEPT ![t] = Nil]
       /\ store' = [store EXCEPT ![t] = [s \in Store |-> IF s \in ResetStore THEN Nil ELSE @[s]]]
       /\ strayed' = strayed \cup (IF stored = r.token /\ r.answer # "lost" THEN {} ELSE Live({stored}))
       /\ leftover' = {x \in Tab \ {t} : x \in leftover \/ {user[x], zk[x]} # {Nil}}
       /\ UNCHANGED <<server, page, loading, account, bounds, switched, cutOff>>
    BY DEF signedOut, clearStoredAuth, clearZkState
  <1>2. /\ wire' \in [Tab -> SUBSET Req] /\ wire'[t] = wire[t] \ {r}
        /\ \A x \in Tab \ {t} : wire'[x] = wire[x]
    BY <1>1, ReceiveDoes
  <1>3. ClientTypes'
    <2>1. \A x \in Tab : \A q \in wire'[x] : q.kind \in RequestKind
      BY <1>2 DEF Req
    <2>2. store' \in [Tab -> [Store -> User \cup {Nil}]]
      BY <1>1 DEF ClientTypes, ClientTypeOK
    <2> QED
      BY <1>1, <1>2, <2>1, <2>2 DEF ClientTypes, ClientTypeOK, Req, server
  <1>4. Requested'
    BY <1>1, StillAsked DEF server
  <1>5. LiveSessionIsHeld'
    <2>1. stored = r.token /\ r.answer # "lost" => ~live(stored)
      BY <1>1 DEF Requested, WellAsked, Answered, Store, ResetStore
    <2>2. live(stored) => stored \in strayed'
      BY <1>1, <2>1 DEF Live
    <2> QED
      BY <1>1, <2>2, NoneForgotten DEF server
  <1>6. Unmixed'
    <2>1. SUFFICES ASSUME ~switched, ~cutOff, NEW x \in Tab PROVE OneUserIn(x)'
      BY <1>1 DEF Unmixed
    <2>2. OneUserIn(x)
      BY <2>1 DEF Unmixed
    <2>3. CASE x # t
      <3>1. Stays(x) /\ wire'[x] = wire[x]
        BY <1>1, <1>2, <2>3 DEF Stays, ClientTypes, ClientTypeOK, server
      <3>2. /\ x \in leftover => x \in leftover'
            /\ x \in leftover' \/ {user[x], zk[x]} = {Nil}
        BY <1>1, <2>3
      <3> QED
        BY <1>1, <2>2, <3>1, <3>2, OtherTabs
    <2>4. CASE x = t
      <3>1. user'[t] = Nil /\ zk'[t] = Nil
        BY <1>1 DEF ClientTypes, ClientTypeOK
      <3>2. page[t] # "callback" /\ \A q \in wire[t] : q.kind \notin {"me", "complete"}
        BY <1>1, <2>2, <2>4 DEF OneUserIn
      <3> QED
        BY <1>1, <1>2, <2>4, <3>1, <3>2 DEF OneUserIn
    <2> QED
      BY <2>3, <2>4
  <1> QED
    BY <1>3, <1>4, <1>5, <1>6

LEMMA StoreFilled == ASSUME ClientInv, NEW t \in Tab, fetched(t) PROVE ClientInv'
  <1> USE DEF ClientInv
  <1>1. PICK r \in wire[t] :
       /\ r.kind \in Store /\ Answered(r)
       /\ Receive(t, r)
       /\ store' = [store EXCEPT ![t][r.kind] = IF Refused(r) THEN @ ELSE r.answer]
       /\ UNCHANGED <<server, stored, shown, zk, bounds, hist>>
    BY DEF fetched
  <1>2. /\ wire' \in [Tab -> SUBSET Req] /\ wire'[t] = wire[t] \ {r}
        /\ \A x \in Tab \ {t} : wire'[x] = wire[x]
    BY <1>1, ReceiveDoes
  <1>3. ~Refused(r) => r.token \in Session /\ r.answer = owner[r.token] /\ r.answer \in User
    BY <1>1, TokensIssued DEF Requested, WellAsked, Refused, Answered
  <1>4. /\ store' \in [Tab -> [Store -> User \cup {Nil}]]
        /\ \A s \in Store : store'[t][s] \in {store[t][s]} \cup (IF Refused(r) THEN {} ELSE {r.answer})
        /\ \A x \in Tab \ {t} : store'[x] = store[x]
    BY <1>1, <1>3 DEF ClientTypes, ClientTypeOK
  <1>5. ClientTypes'
    <2>1. \A x \in Tab : \A q \in wire'[x] : q.kind \in RequestKind
      BY <1>2 DEF Req
    <2> QED
      BY <1>1, <1>2, <1>4, <2>1 DEF ClientTypes, ClientTypeOK, Req, server, shown, hist
  <1>6. Requested'
    BY <1>1, StillAsked DEF server, shown, Requested, ClientTypes, ClientTypeOK
  <1>7. LiveSessionIsHeld'
    BY <1>1, NoneForgotten DEF server, hist, Store, ResetStore
  <1>8. Unmixed'
    <2>1. SUFFICES ASSUME ~switched, ~cutOff, NEW x \in Tab PROVE OneUserIn(x)'
      BY <1>1 DEF Unmixed, hist
    <2>2. OneUserIn(x)
      BY <2>1 DEF Unmixed
    <2>3. CASE x # t
      <3>1. Stays(x) /\ wire'[x] = wire[x]
        BY <1>1, <1>2, <1>4, <2>3 DEF Stays, server, shown
      <3> QED
        BY <1>1, <2>2, <3>1, OtherTabs DEF server, hist
    <2>4. CASE x = t
      <3>1. page[t] # "callback" /\ \A q \in wire[t] : q.kind \notin {"me", "complete"}
        BY <1>1, <2>2, <2>4 DEF OneUserIn, Store, ResetStore
      <3>2. user[t] # Nil => \A s \in Store : store'[t][s] \in {Nil, user[t]}
        BY <1>1, <1>3, <1>4, <2>2, <2>4 DEF OneUserIn
      <3> QED
        BY <1>1, <1>2, <2>2, <2>4, <3>1, <3>2 DEF OneUserIn, server, shown, hist
    <2> QED
      BY <2>3, <2>4
  <1> QED
    BY <1>5, <1>6, <1>7, <1>8

-----------------------------------------------------------------------------
(***************************************************************************)
(* What the user does, and the pages' moves.                               *)
(***************************************************************************)
LEMMA RequestSent ==
    ASSUME ClientInv, NEW t \in Tab, signOut(t) \/ \E s \in Store : fetch(t, s) PROVE ClientInv'
  <1> USE DEF ClientInv
  <1>1. PICK k \in {"logout"} \cup Store :
              /\ page[t] = "home" /\ user[t] # Nil /\ Send(t, {k})
              /\ UNCHANGED <<server, stored, shown, zk, store, bounds, hist>>
    BY DEF signOut, fetch
  <1>2. /\ wire' \in [Tab -> SUBSET Req] /\ wire'[t] = wire[t] \cup {Request(k)}
        /\ \A x \in Tab \ {t} : wire'[x] = wire[x]
    BY <1>1, SendDoes DEF RequestKind
  <1>3. WellAsked(Request(k)) /\ k \notin {"me", "complete", "proof"}
    <2>1. stored # Nil => stored \in Session /\ owner[stored] # Nil
      BY TokensIssued, ClientAssumption
    <2> QED
      BY <2>1, ClientAssumption DEF WellAsked, Request, Store, ResetStore
  <1>4. ClientTypes'
    <2>1. \A x \in Tab : \A q \in wire'[x] : q.kind \in RequestKind
      BY <1>2 DEF Req
    <2> QED
      BY <1>1, <1>2, <2>1 DEF ClientTypes, ClientTypeOK, Req, server, shown, hist
  <1>5. Requested'
    <2>1. ASSUME NEW x \in Tab, NEW q \in wire'[x] PROVE WellAsked(q)'
      <3>1. WellAsked(q)
        BY <1>2, <1>3 DEF Requested
      <3> QED
        BY <1>1, <3>1 DEF WellAsked, live, server
    <2>2. \A x \in Tab : page'[x] = "google" => wire'[x] = {}
      BY <1>1, <1>2 DEF Requested, shown
    <2> QED
      BY <1>1, <2>1, <2>2 DEF Requested, server
  <1>6. LiveSessionIsHeld'
    BY <1>1, <1>2 DEF LiveSessionIsHeld, live, server, hist
  <1>7. Unmixed'
    <2>1. SUFFICES ASSUME ~switched, ~cutOff, NEW x \in Tab PROVE OneUserIn(x)'
      BY <1>1 DEF Unmixed, hist
    <2>2. OneUserIn(x) /\ Stays(x)
      BY <1>1, <2>1 DEF Unmixed, Stays, server, shown
    <2>3. CASE x # t
      BY <1>1, <1>2, <2>2, <2>3, OtherTabs DEF server, hist
    <2>4. CASE x = t
      <3>1. Request(k).kind = k /\ Request(k).token = stored
        BY DEF Request
      <3>2. \A q \in wire[t] : q.kind \notin {"me", "complete"}
        BY <1>1, <2>2, <2>4 DEF OneUserIn
      <3>3. stored # Nil => owner[stored] = user[t]
        BY <1>1, <2>2, <2>4, TokensIssued, ClientAssumption DEF OneUserIn
      <3>4. \A q \in wire'[t] : q.kind \notin {"me", "complete"}
        BY <1>2, <1>3, <3>1, <3>2
      <3>5. ASSUME NEW q \in wire'[t], q.token \in Session
            PROVE  (stored # Nil => owner[q.token] = owner[stored]) /\ owner[q.token] = user[t]
        BY <1>1, <1>2, <2>2, <2>4, <3>1, <3>3, <3>5, ClientAssumption DEF OneUserIn
      <3> QED
        BY <1>1, <2>2, <2>4, <3>4, <3>5 DEF OneUserIn, server, shown, hist
    <2> QED
      BY <2>3, <2>4
  <1> QED
    BY <1>4, <1>5, <1>6, <1>7

LEMMA PageMoved == ASSUME ClientInv, NEW t \in Tab, redirected(t) \/ signedIn(t) PROVE ClientInv'
  <1> USE DEF ClientInv
  <1>1. /\ UNCHANGED <<owner, dead, stored, user, loading, store, wire, hist>>
        /\ \E p \in {"home", "signin"} : page' = [page EXCEPT ![t] = p]
        /\ \/ UNCHANGED <<account, zk>>
           \/ /\ page[t] = "callback" /\ ~Sent(t, "complete")
              /\ zk' = [zk EXCEPT ![t] = account[t]] /\ account' = [account EXCEPT ![t] = Nil]
    BY DEF redirected, signedIn, server
  <1>2. account \in [Tab -> User \cup {Nil}] /\ zk \in [Tab -> User \cup {Nil}]
    BY DEF ClientTypes, ClientTypeOK
  <1>3. ClientTypes'
    <2>1. page' \in [Tab -> {"closed", "home", "signin", "google", "callback"}]
      BY <1>1 DEF ClientTypes, ClientTypeOK
    <2>2. account' \in [Tab -> User \cup {Nil}] /\ zk' \in [Tab -> User \cup {Nil}]
      BY <1>1, <1>2
    <2> QED
      BY <1>1, <2>1, <2>2 DEF ClientTypes, ClientTypeOK, hist
  <1>4. page'[t] \in {"home", "signin"} /\ \A x \in Tab \ {t} : page'[x] = page[x]
    BY <1>1 DEF ClientTypes, ClientTypeOK
  <1>5. Requested'
    <2>1. ASSUME NEW x \in Tab, NEW q \in wire[x] PROVE WellAsked(q)'
      <3>1. WellAsked(q)
        BY DEF Requested
      <3> QED
        BY <1>1, <3>1 DEF WellAsked, live
    <2> QED
      BY <1>1, <1>4, <2>1 DEF Requested
  <1>6. LiveSessionIsHeld'
    BY <1>1 DEF LiveSessionIsHeld, live, hist
  <1>7. Unmixed'
    <2>1. SUFFICES ASSUME ~switched, ~cutOff, NEW x \in Tab PROVE OneUserIn(x)'
      BY <1>1 DEF Unmixed, hist
    <2>2. OneUserIn(x)
      BY <2>1 DEF Unmixed
    <2>3. CASE x # t
      <3>1. Stays(x)
        BY <1>1, <1>2, <1>4, <2>3 DEF Stays
      <3> QED
        BY <1>1, <2>2, <3>1, OtherTabs DEF hist
    <2>4. CASE x = t /\ UNCHANGED <<account, zk>>
      BY <1>1, <1>4, <2>2, <2>4 DEF OneUserIn, hist
    <2>5. CASE /\ x = t /\ page[t] = "callback" /\ ~Sent(t, "complete")
               /\ zk' = [zk EXCEPT ![t] = account[t]]
      <3>1. zk'[t] = user[t] /\ \A q \in wire[t] : q.kind # "me"
        BY <1>2, <2>2, <2>5 DEF OneUserIn
      <3> QED
        BY <1>1, <1>4, <2>2, <2>5, <3>1 DEF OneUserIn, hist
    <2> QED
      BY <1>1, <2>3, <2>4, <2>5
  <1> QED
    BY <1>3, <1>5, <1>6, <1>7

-----------------------------------------------------------------------------
LEMMA ClientStays == ClientInv /\ UNCHANGED clientVars => ClientInv'
  <1> SUFFICES ASSUME ClientInv, UNCHANGED clientVars PROVE ClientInv'
    OBVIOUS
  <1> USE DEF ClientInv, clientVars, server, shown, hist, bounds
  <1>1. ClientTypes'
    BY DEF ClientTypes, ClientTypeOK
  <1>2. Requested'
    BY DEF Requested, WellAsked, live
  <1>3. LiveSessionIsHeld'
    BY DEF LiveSessionIsHeld, live
  <1>4. Unmixed'
    BY DEF Unmixed, OneUserIn, Sent
  <1> QED
    BY <1>1, <1>2, <1>3, <1>4

LEMMA ClientSteps == ClientInv /\ [ClientNext]_clientVars => ClientInv'
  <1> SUFFICES ASSUME ClientInv, [ClientNext]_clientVars PROVE ClientInv'
    OBVIOUS
  <1>1. ASSUME NEW t \in Tab, openTab(t) \/ redirected(t) \/ handleGoogleSignIn(t) \/ oauthError(t)
                              \/ signedIn(t) \/ signOut(t)
        PROVE  ClientInv'
    BY <1>1, TabOpened, PageMoved, LeftForGoogle, RequestSent
  <1>2. ASSUME NEW t \in Tab, (\E u \in User : handleCallback(t, u)) \/ \E s \in Store : fetch(t, s)
        PROVE  ClientInv'
    BY <1>2, BackFromGoogle, RequestSent
  <1>3. ASSUME NEW t \in Tab, Answers(t) PROVE ClientInv'
    BY <1>3, TokenVerified, SignInCompleted, ProofCame, SignedOut, StoreFilled DEF Answers
  <1>4. ASSUME NEW t \in Tab, Served(t) \/ loseRequest(t) PROVE ClientInv'
    BY <1>4, SessionIssued, SignOutServed, ReadServed, RequestLost DEF Served
  <1>5. ASSUME NEW s \in Session, expire(s) PROVE ClientInv'
    BY <1>5, SessionExpired
  <1> QED
    BY <1>1, <1>2, <1>3, <1>4, <1>5, ClientStays DEF ClientNext

\* What every tab shows is one user's, and no good session is forgotten by the browser
\* that was given it, for any number of tabs, users, sessions, page loads and faults
\* (auth-context.tsx, the sign-in pages and api-client.ts over session.service.ts).
THEOREM TabsAndSessionsAreSound == ClientSpec => []SessionSound
  <1>1. ClientSpec => []ClientInv
    BY ClientStarts, ClientSteps, PTL DEF ClientSpec
  <1> QED
    BY <1>1, UnmixedShows, PTL
=============================================================================
