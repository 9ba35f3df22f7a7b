------------------------- MODULE InkEarning_proofs -------------------------
(***************************************************************************)
(* Proofs that InkEarning is safe for every set of calls, users and keys.  *)
(*                                                                         *)
(* The chain's uniqueness (KeyMintedOnce) carries the argument: the call   *)
(* whose transaction minted a key is the only one that can ever reach the  *)
(* mirror for it, so the ledger row, once written, names that call, and    *)
(* no second mirror transaction can follow.                                *)
(*                                                                         *)
(* The second half proves the Move package itself (ChainObjects) for every *)
(* set of addresses, keys, suggestions and readings: it counts INK by the  *)
(* same lemmas about Total (EntryAdded, EntryChanged) as the books do.     *)
(***************************************************************************)
EXTENDS InkEarning, ChainObjects, FiniteSetTheorems, TLAPS

\* The registry is exactly the keys of executed transactions, one per key.
KeyMintedOnce ==
    /\ \A c \in Call : tx[c] = "executed" => keyOf[c] \in registry
    /\ \A k \in registry : \E c \in Call : tx[c] = "executed" /\ keyOf[c] = k
    /\ \A c, d \in Call :
          tx[c] = "executed" /\ tx[d] = "executed" /\ keyOf[c] = keyOf[d] => c = d

\* What a call's place in mintEarning says of its transaction.
CallMatchesTx ==
    \A c \in Call :
        /\ pc[c] \in {"idle", "execute", "cached"} => tx[c] = "none"
        /\ pc[c] \in {"mirror", "reads", "minted"} => tx[c] = "executed"
        /\ pc[c] = "conflict" => tx[c] = "aborted"
        /\ tx[c] = "aborted" => keyOf[c] \in registry

\* What a ledger row says of the call that wrote it, and the other way round.
RowMatchesCall ==
    /\ \A k \in Key : ledger[k] # NoRow =>
          /\ keyOf[ledger[k].digest] = k
          /\ tx[ledger[k].digest] = "executed"
          /\ pc[ledger[k].digest] \in {"reads", "minted", "error", "crashed"}
          /\ ledger[k].amount = get_amount_for_trigger(TriggerOf[k])
    /\ \A c \in Call : pc[c] \in {"reads", "minted"} =>
          ledger[keyOf[c]] # NoRow /\ ledger[keyOf[c]].digest = c
    /\ \A c \in Call : pc[c] = "cached" => ledger[keyOf[c]] # NoRow

IInv == TypeOK /\ KeyMintedOnce /\ CallMatchesTx /\ RowMatchesCall

-----------------------------------------------------------------------------
\* The backend's copy of the amounts is the contract's, and they are naturals.
LEMMA AmountsAgree ==
    ASSUME NEW t \in 0..2
    PROVE  /\ INK_AMOUNTS[t] = get_amount_for_trigger(t)
           /\ INK_AMOUNTS[t] \in Nat
  BY DEF INK_AMOUNTS, get_amount_for_trigger, CHAPTER_READ, SERIES_COMPLETE,
         SUBMISSION_APPROVED

\* The initial state satisfies the inductive invariant.
LEMMA InitIInv == Init => IInv
  <1> SUFFICES ASSUME Init PROVE IInv
    OBVIOUS
  <1>1. TypeOK
    BY DEF Init, TypeOK, Row
  <1>2. KeyMintedOnce /\ CallMatchesTx /\ RowMatchesCall
    BY DEF Init, KeyMintedOnce, CallMatchesTx, RowMatchesCall
  <1> QED
    BY <1>1, <1>2 DEF IInv

\* The type invariant is inductive by itself.
LEMMA NextTypeOK == TypeOK /\ [Next]_vars => TypeOK'
  <1> SUFFICES ASSUME TypeOK, [Next]_vars PROVE TypeOK'
    OBVIOUS
  <1> USE KeyAssumption DEF TypeOK, Active, Ended, chainVars, dbVars
  <1>1. ASSUME NEW c \in Call, findLedgerEntry(c) PROVE TypeOK'
    BY <1>1 DEF findLedgerEntry
  <1>2. ASSUME NEW c \in Call, assertTreasuryHealthyFails(c) PROVE TypeOK'
    BY <1>2 DEF assertTreasuryHealthyFails
  <1>3. ASSUME NEW c \in Call, signAndExecuteTransaction(c) PROVE TypeOK'
    BY <1>3 DEF signAndExecuteTransaction
  <1>4. ASSUME NEW c \in Call, replySuccess(c) PROVE TypeOK'
    BY <1>4 DEF replySuccess
  <1>5. ASSUME NEW c \in Call, replyAbort(c) PROVE TypeOK'
    BY <1>5 DEF replyAbort
  <1>6. ASSUME NEW c \in Call, replyLost(c) PROVE TypeOK'
    BY <1>6 DEF replyLost
  <1>7. ASSUME NEW c \in Call, mirrorEarning(c) PROVE TypeOK'
    <2> DEFINE k == keyOf[c]
               credit == INK_AMOUNTS[TriggerOf[k]]
    <2>1. k \in Key /\ UserOf[k] \in User /\ credit \in Nat
      BY AmountsAgree
    <2>2. ledger' \in [Key -> Row \cup {NoRow}]
      BY <1>7, <2>1 DEF mirrorEarning, Row
    <2>3. /\ balance' \in [User -> Nat]
          /\ totalInkEarned' \in [User -> Nat]
          /\ pc' \in [Call -> {"idle"} \cup Active \cup Ended]
      BY <1>7, <2>1 DEF mirrorEarning
    <2> QED
      BY <1>7, <2>2, <2>3 DEF mirrorEarning
  <1>8. ASSUME NEW c \in Call, mirrorFails(c) PROVE TypeOK'
    BY <1>8 DEF mirrorFails
  <1>14. ASSUME NEW c \in Call, readBack(c) PROVE TypeOK'
    BY <1>14 DEF readBack
  <1>9. ASSUME NEW c \in Call, earn(c) PROVE TypeOK'
    <2>1. get_amount_for_trigger(TriggerOf[keyOf[c]]) \in Nat
      BY AmountsAgree
    <2> QED
      BY <1>9, <2>1 DEF earn
  <1>10. ASSUME NEW c \in Call, earnAborts(c) PROVE TypeOK'
    BY <1>10 DEF earnAborts
  <1>11. ASSUME NEW c \in Call, txRejected(c) PROVE TypeOK'
    BY <1>11 DEF txRejected
  <1>12. CASE Crash
    BY <1>12 DEF Crash
  <1>13. CASE UNCHANGED vars
    BY <1>13 DEF vars
  <1> QED
    BY <1>1, <1>2, <1>3, <1>4, <1>5, <1>6, <1>7, <1>8, <1>9, <1>10, <1>11,
       <1>12, <1>13, <1>14 DEF Next, ServerStep, ChainStep

\* Types are respected in every reachable state of mintEarning.
THEOREM TypeCorrect == Spec => []TypeOK
  <1>1. Init => TypeOK
    BY InitIInv DEF IInv
  <1> QED
    BY <1>1, NextTypeOK, PTL DEF Spec

-----------------------------------------------------------------------------
\* Every step preserves the inductive invariant.  Most steps move a call only;
\* the two that carry the argument are earn (the key was not in the registry,
\* so no other transaction minted it) and mirrorEarning (the row is missing,
\* because a row would name another executed transaction of the same key).
LEMMA NextIInv == IInv /\ [Next]_vars => IInv'
  <1> SUFFICES ASSUME IInv, [Next]_vars PROVE IInv'
    OBVIOUS
  <1>t. TypeOK /\ TypeOK'
    BY NextTypeOK DEF IInv
  <1> SUFFICES KeyMintedOnce' /\ CallMatchesTx' /\ RowMatchesCall'
    BY <1>t DEF IInv
  <1> USE <1>t, KeyAssumption, NoRowAssumption DEF IInv, TypeOK, chainVars, dbVars
  <1>1. ASSUME NEW c \in Call, findLedgerEntry(c)
        PROVE  KeyMintedOnce' /\ CallMatchesTx' /\ RowMatchesCall'
    <2>1. KeyMintedOnce'
      BY <1>1 DEF findLedgerEntry, KeyMintedOnce
    <2>2. CallMatchesTx'
      BY <1>1 DEF findLedgerEntry, CallMatchesTx
    <2>3. RowMatchesCall'
      BY <1>1 DEF findLedgerEntry, RowMatchesCall, Row
    <2> QED BY <2>1, <2>2, <2>3
  <1>2. ASSUME NEW c \in Call, assertTreasuryHealthyFails(c)
        PROVE  KeyMintedOnce' /\ CallMatchesTx' /\ RowMatchesCall'
    <2>1. KeyMintedOnce'
      BY <1>2 DEF assertTreasuryHealthyFails, KeyMintedOnce
    <2>2. CallMatchesTx'
      BY <1>2 DEF assertTreasuryHealthyFails, CallMatchesTx
    <2>3. RowMatchesCall'
      BY <1>2 DEF assertTreasuryHealthyFails, RowMatchesCall, Row
    <2> QED BY <2>1, <2>2, <2>3
  <1>3. ASSUME NEW c \in Call, signAndExecuteTransaction(c)
        PROVE  KeyMintedOnce' /\ CallMatchesTx' /\ RowMatchesCall'
    <2>0. tx[c] = "none"
      BY <1>3 DEF signAndExecuteTransaction, CallMatchesTx
    <2>1. KeyMintedOnce'
      BY <1>3, <2>0 DEF signAndExecuteTransaction, KeyMintedOnce
    <2>2. CallMatchesTx'
      BY <1>3, <2>0 DEF signAndExecuteTransaction, CallMatchesTx
    <2>3. RowMatchesCall'
      BY <1>3, <2>0 DEF signAndExecuteTransaction, RowMatchesCall, Row
    <2> QED BY <2>1, <2>2, <2>3
  <1>4. ASSUME NEW c \in Call, replySuccess(c)
        PROVE  KeyMintedOnce' /\ CallMatchesTx' /\ RowMatchesCall'
    <2>1. KeyMintedOnce'
      BY <1>4 DEF replySuccess, KeyMintedOnce
    <2>2. CallMatchesTx'
      BY <1>4 DEF replySuccess, CallMatchesTx
    <2>3. RowMatchesCall'
      BY <1>4 DEF replySuccess, RowMatchesCall, Row
    <2> QED BY <2>1, <2>2, <2>3
  <1>5. ASSUME NEW c \in Call, replyAbort(c)
        PROVE  KeyMintedOnce' /\ CallMatchesTx' /\ RowMatchesCall'
    <2>1. KeyMintedOnce'
      BY <1>5 DEF replyAbort, KeyMintedOnce
    <2>2. CallMatchesTx'
      BY <1>5 DEF replyAbort, CallMatchesTx
    <2>3. RowMatchesCall'
      BY <1>5 DEF replyAbort, RowMatchesCall, Row
    <2> QED BY <2>1, <2>2, <2>3
  <1>6. ASSUME NEW c \in Call, replyLost(c)
        PROVE  KeyMintedOnce' /\ CallMatchesTx' /\ RowMatchesCall'
    <2>1. KeyMintedOnce'
      BY <1>6 DEF replyLost, KeyMintedOnce
    <2>2. CallMatchesTx'
      BY <1>6 DEF replyLost, CallMatchesTx
    <2>3. RowMatchesCall'
      BY <1>6 DEF replyLost, RowMatchesCall, Row
    <2> QED BY <2>1, <2>2, <2>3
  <1>7. ASSUME NEW c \in Call, mirrorEarning(c)
        PROVE  KeyMintedOnce' /\ CallMatchesTx' /\ RowMatchesCall'
    <2> DEFINE k == keyOf[c]
               credit == INK_AMOUNTS[TriggerOf[k]]
    \* The row is still missing: a row would name another executed call for k.
    <2>1. ledger[k] = NoRow /\ tx[c] = "executed"
      BY <1>7 DEF mirrorEarning, CallMatchesTx, RowMatchesCall, KeyMintedOnce, Row
    <2>2. ledger' = [ledger EXCEPT ![k] = [amount |-> credit, digest |-> c]]
      BY <1>7, <2>1 DEF mirrorEarning
    <2>3. /\ credit = get_amount_for_trigger(TriggerOf[k])
          /\ [amount |-> credit, digest |-> c] # NoRow
      BY AmountsAgree
    <2>4. KeyMintedOnce'
      BY <1>7 DEF mirrorEarning, KeyMintedOnce
    <2>5. CallMatchesTx'
      BY <1>7, <2>1 DEF mirrorEarning, CallMatchesTx
    <2>6. pc' = [pc EXCEPT ![c] = "reads"] /\ UNCHANGED <<tx, keyOf>>
      BY <1>7 DEF mirrorEarning
    <2> HIDE DEF credit
    <2>7. RowMatchesCall'
      <3>1. ASSUME NEW j \in Key, ledger'[j] # NoRow
            PROVE  /\ keyOf'[ledger'[j].digest] = j
                   /\ tx'[ledger'[j].digest] = "executed"
                   /\ pc'[ledger'[j].digest] \in {"reads", "minted", "error", "crashed"}
                   /\ ledger'[j].amount = get_amount_for_trigger(TriggerOf[j])
        <4>1. CASE j = k
          BY <4>1, <2>1, <2>2, <2>3, <2>6
        <4>2. CASE j # k
          BY <3>1, <4>2, <2>2, <2>6 DEF RowMatchesCall, Row
        <4> QED BY <4>1, <4>2
      <3>2. ASSUME NEW d \in Call, pc'[d] \in {"reads", "minted"}
            PROVE  ledger'[keyOf'[d]] # NoRow /\ ledger'[keyOf'[d]].digest = d
        <4>1. CASE d = c
          BY <4>1, <2>2, <2>3, <2>6
        <4>2. CASE d # c
          BY <3>2, <4>2, <2>1, <2>2, <2>6 DEF RowMatchesCall
        <4> QED BY <4>1, <4>2
      <3>3. ASSUME NEW d \in Call, pc'[d] = "cached"
            PROVE  ledger'[keyOf'[d]] # NoRow
        BY <3>3, <2>2, <2>3, <2>6 DEF RowMatchesCall
      <3> QED BY <3>1, <3>2, <3>3 DEF RowMatchesCall
    <2> QED BY <2>4, <2>5, <2>7
  <1>8. ASSUME NEW c \in Call, mirrorFails(c)
        PROVE  KeyMintedOnce' /\ CallMatchesTx' /\ RowMatchesCall'
    <2>1. KeyMintedOnce'
      BY <1>8 DEF mirrorFails, KeyMintedOnce
    <2>2. CallMatchesTx'
      BY <1>8 DEF mirrorFails, CallMatchesTx
    <2>3. RowMatchesCall'
      BY <1>8 DEF mirrorFails, RowMatchesCall, Row
    <2> QED BY <2>1, <2>2, <2>3
  <1>14. ASSUME NEW c \in Call, readBack(c)
         PROVE  KeyMintedOnce' /\ CallMatchesTx' /\ RowMatchesCall'
    <2>1. KeyMintedOnce'
      BY <1>14 DEF readBack, KeyMintedOnce
    <2>2. CallMatchesTx'
      BY <1>14 DEF readBack, CallMatchesTx
    <2>3. RowMatchesCall'
      BY <1>14 DEF readBack, RowMatchesCall, Row
    <2> QED BY <2>1, <2>2, <2>3
  <1>9. ASSUME NEW c \in Call, earn(c)
        PROVE  KeyMintedOnce' /\ CallMatchesTx' /\ RowMatchesCall'
    <2>1. keyOf[c] \notin registry /\ tx[c] = "submitted"
      BY <1>9 DEF earn, earnAllowed
    <2>2. KeyMintedOnce'
      BY <1>9, <2>1 DEF earn, KeyMintedOnce
    <2>3. CallMatchesTx'
      BY <1>9, <2>1 DEF earn, CallMatchesTx
    <2>4. RowMatchesCall'
      BY <1>9, <2>1 DEF earn, RowMatchesCall, Row
    <2> QED BY <2>2, <2>3, <2>4
  <1>10. ASSUME NEW c \in Call, earnAborts(c)
         PROVE  KeyMintedOnce' /\ CallMatchesTx' /\ RowMatchesCall'
    <2>1. keyOf[c] \in registry /\ tx[c] = "submitted"
      BY <1>10 DEF earnAborts, earnAllowed, SUBMISSION_APPROVED
    <2>2. KeyMintedOnce'
      BY <1>10, <2>1 DEF earnAborts, KeyMintedOnce
    <2>3. CallMatchesTx'
      BY <1>10, <2>1 DEF earnAborts, CallMatchesTx
    <2>4. RowMatchesCall'
      BY <1>10, <2>1 DEF earnAborts, RowMatchesCall, Row
    <2> QED BY <2>2, <2>3, <2>4
  <1>11. ASSUME NEW c \in Call, txRejected(c)
         PROVE  KeyMintedOnce' /\ CallMatchesTx' /\ RowMatchesCall'
    <2>1. KeyMintedOnce'
      BY <1>11 DEF txRejected, KeyMintedOnce
    <2>2. CallMatchesTx'
      BY <1>11 DEF txRejected, CallMatchesTx
    <2>3. RowMatchesCall'
      BY <1>11 DEF txRejected, RowMatchesCall, Row
    <2> QED BY <2>1, <2>2, <2>3
  <1>12. ASSUME Crash
         PROVE  KeyMintedOnce' /\ CallMatchesTx' /\ RowMatchesCall'
    <2>1. KeyMintedOnce'
      BY <1>12 DEF Crash, KeyMintedOnce
    <2>2. CallMatchesTx'
      BY <1>12 DEF Crash, CallMatchesTx, Active
    <2>3. RowMatchesCall'
      BY <1>12 DEF Crash, RowMatchesCall, Active, Row
    <2> QED BY <2>1, <2>2, <2>3
  <1>13. ASSUME UNCHANGED vars
         PROVE  KeyMintedOnce' /\ CallMatchesTx' /\ RowMatchesCall'
    BY <1>13 DEF vars, KeyMintedOnce, CallMatchesTx, RowMatchesCall
  <1> QED
    BY <1>1, <1>2, <1>3, <1>4, <1>5, <1>6, <1>7, <1>8, <1>9, <1>10, <1>11,
       <1>12, <1>13, <1>14 DEF Next, ServerStep, ChainStep

\* The inductive invariant holds in every reachable state.
LEMMA InvariantHolds == Spec => []IInv
  BY InitIInv, NextIInv, PTL DEF Spec

-----------------------------------------------------------------------------
(***************************************************************************)
(* The properties the runs check, for every value of the constants.        *)
(***************************************************************************)

\* earn and its EarningRegistry: however many calls race or retry a key, one
\* transaction at most mints it.
THEOREM MintedAtMostOnce == Spec => []NoDoubleMint
  <1>1. IInv => NoDoubleMint
    BY DEF IInv, TypeOK, KeyMintedOnce, NoDoubleMint
  <1> QED
    BY <1>1, InvariantHolds, PTL

\* The Prisma transaction of mintEarning: Postgres never records INK that the
\* chain has not minted, nor another amount.
THEOREM LedgerIsBacked == Spec => []LedgerBackedByChain
  <1>1. IInv => LedgerBackedByChain
    BY DEF IInv, TypeOK, KeyMintedOnce, RowMatchesCall, LedgerBackedByChain, Row
  <1> QED
    BY <1>1, InvariantHolds, PTL

\* The gap between chain and mirror in mintEarning: INK missing from the ledger
\* is being mirrored, or its call failed or crashed.
THEOREM DriftNeedsAFault == Spec => []DriftOnlyByFault
  <1>1. IInv => DriftOnlyByFault
    <2> SUFFICES ASSUME IInv, NEW k \in registry, ledger[k] = NoRow
                 PROVE  \E c \in Call : /\ keyOf[c] = k
                                       /\ tx[c] = "executed"
                                       /\ pc[c] \in {"await", "mirror", "error", "crashed"}
      BY DEF DriftOnlyByFault
    <2>1. PICK c \in Call : tx[c] = "executed" /\ keyOf[c] = k
      BY DEF IInv, KeyMintedOnce
    <2>2. pc[c] \in {"idle"} \cup Active \cup Ended
      BY DEF IInv, TypeOK
    <2>3. pc[c] \notin {"idle", "execute", "cached", "conflict", "reads", "minted"}
      BY <2>1 DEF IInv, CallMatchesTx, RowMatchesCall
    <2>4. pc[c] \in {"await", "mirror", "error", "crashed"}
      BY <2>2, <2>3 DEF Active, Ended
    <2> QED
      BY <2>1, <2>4
  <1> QED
    BY <1>1, InvariantHolds, PTL

\* The answers of mintEarning: a result is backed by a ledger row, and "INK
\* already minted" by another call's transaction.
THEOREM AnswersHold == Spec => []AnswersAreTrue
  <1>1. IInv => AnswersAreTrue
    <2> SUFFICES ASSUME IInv, NEW c \in Call
                 PROVE  /\ pc[c] \in {"cached", "minted"} => ledger[keyOf[c]] # NoRow
                        /\ pc[c] = "minted" => ledger[keyOf[c]].digest = c
                        /\ pc[c] \in {"cached", "conflict"} =>
                              \E d \in Call \ {c} : keyOf[d] = keyOf[c] /\ tx[d] = "executed"
      BY DEF AnswersAreTrue
    <2> USE DEF IInv, TypeOK
    <2>1. /\ pc[c] \in {"cached", "minted"} => ledger[keyOf[c]] # NoRow
          /\ pc[c] = "minted" => ledger[keyOf[c]].digest = c
      BY DEF RowMatchesCall
    <2>2. ASSUME pc[c] = "cached"
          PROVE  \E d \in Call \ {c} : keyOf[d] = keyOf[c] /\ tx[d] = "executed"
      <3>1. /\ ledger[keyOf[c]].digest \in Call
            /\ keyOf[ledger[keyOf[c]].digest] = keyOf[c]
            /\ tx[ledger[keyOf[c]].digest] = "executed"
        BY <2>1, <2>2 DEF RowMatchesCall, Row
      <3>2. tx[c] = "none"
        BY <2>2 DEF CallMatchesTx
      <3> QED
        BY <3>1, <3>2
    <2>3. ASSUME pc[c] = "conflict"
          PROVE  \E d \in Call \ {c} : keyOf[d] = keyOf[c] /\ tx[d] = "executed"
      <3>1. tx[c] = "aborted" /\ keyOf[c] \in registry
        BY <2>3 DEF CallMatchesTx
      <3> QED
        BY <3>1 DEF KeyMintedOnce
    <2> QED
      BY <2>1, <2>2, <2>3
  <1> QED
    BY <1>1, InvariantHolds, PTL

\* One step of mintEarning or of the chain, from a state of the invariant: rows
\* stay, and the step is one of the promise's steps or leaves it alone.
LEMMA StepIsAPromiseStep ==
    ASSUME IInv, IInv', [Next]_vars
    PROVE  /\ \A k \in Key : ledger[k] # NoRow => ledger'[k] = ledger[k]
           /\ [Promise!Next]_<<registry, {k \in Key : ledger[k] # NoRow}>>
  <1> DEFINE recorded == {k \in Key : ledger[k] # NoRow}
  <1>1. ASSUME NEW c \in Call, earn(c)
        PROVE  ledger' = ledger /\ Promise!Mint(keyOf[c])
    <2>1. ledger' = ledger /\ recorded' = recorded
      BY <1>1 DEF earn, dbVars
    <2> QED
      BY <1>1, <2>1 DEF earn, earnAllowed, Promise!Mint
  <1>2. ASSUME NEW c \in Call, mirrorEarning(c)
        PROVE  /\ \A k \in Key : ledger[k] # NoRow => ledger'[k] = ledger[k]
               /\ Promise!Record(keyOf[c])
    <2> DEFINE row == [amount |-> INK_AMOUNTS[TriggerOf[keyOf[c]]], digest |-> c]
    <2>1. /\ keyOf[c] \in Key
          /\ ledger[keyOf[c]] = NoRow
          /\ keyOf[c] \in registry
      BY <1>2 DEF mirrorEarning, IInv, TypeOK, CallMatchesTx, RowMatchesCall,
                  KeyMintedOnce, Row
    <2>2. ledger' = [ledger EXCEPT ![keyOf[c]] = row]
      BY <1>2, <2>1 DEF mirrorEarning
    <2>3. row # NoRow
      BY <2>1, AmountsAgree, KeyAssumption, NoRowAssumption
    <2> HIDE DEF row
    <2>4. recorded' = recorded \cup {keyOf[c]}
      BY <2>1, <2>2, <2>3 DEF IInv, TypeOK
    <2>5. \A k \in Key : ledger[k] # NoRow => ledger'[k] = ledger[k]
      BY <2>1, <2>2 DEF IInv, TypeOK
    <2>6. UNCHANGED registry
      BY <1>2 DEF mirrorEarning, chainVars
    <2> QED
      BY <2>1, <2>4, <2>5, <2>6 DEF Promise!Record
  <1>3. ASSUME Crash \/ UNCHANGED vars \/
               \E c \in Call : \/ findLedgerEntry(c)
                              \/ assertTreasuryHealthyFails(c)
                              \/ signAndExecuteTransaction(c)
                              \/ replySuccess(c)
                              \/ replyAbort(c)
                              \/ replyLost(c)
                              \/ mirrorFails(c)
                              \/ readBack(c)
                              \/ earnAborts(c)
                              \/ txRejected(c)
        PROVE  UNCHANGED <<registry, ledger>>
    BY <1>3 DEF Crash, vars, chainVars, dbVars, findLedgerEntry,
       assertTreasuryHealthyFails, signAndExecuteTransaction, replySuccess,
       replyAbort, replyLost, mirrorFails, readBack, earnAborts, txRejected
  <1>4. CASE \E c \in Call : earn(c)
    <2>1. PICK c \in Call : earn(c)
      BY <1>4
    <2>2. keyOf[c] \in Key
      BY DEF IInv, TypeOK
    <2> QED
      BY <2>1, <2>2, <1>1 DEF Promise!Next
  <1>5. CASE \E c \in Call : mirrorEarning(c)
    <2>1. PICK c \in Call : mirrorEarning(c)
      BY <1>5
    <2>2. keyOf[c] \in Key
      BY DEF IInv, TypeOK
    <2>3. Promise!Record(keyOf[c])
      BY <2>1, <1>2
    <2>4. Promise!Next
      BY <2>2, <2>3 DEF Promise!Next, Promise!Record
    <2>5. \A k \in Key : ledger[k] # NoRow => ledger'[k] = ledger[k]
      BY <2>1, <1>2
    <2> QED
      BY <2>4, <2>5
  <1> QED
    BY <1>3, <1>4, <1>5 DEF Next, ServerStep, ChainStep

\* The upsert of mintEarning never takes its update branch: a ledger row is
\* written once.
THEOREM RowsWrittenOnce == Spec => LedgerRowsAreFinal
  <1>1. IInv /\ IInv' /\ [Next]_vars =>
            [\A k \in Key : ledger[k] # NoRow => ledger'[k] = ledger[k]]_vars
    BY StepIsAPromiseStep
  <1> QED
    BY <1>1, InvariantHolds, PTL DEF Spec, LedgerRowsAreFinal

\* The conflict branch of mintEarning: INK that the mirror has missed stays
\* missed, since only the call that minted it could have credited it.
THEOREM LostStaysLost == Spec => LostIsNeverCredited
  <1>1. ASSUME IInv, IInv', [Next]_vars, NEW k \in Key, Lost(k)
        PROVE  Lost(k)'
    <2> USE <1>1 DEF IInv, TypeOK, chainVars, dbVars
    \* Who minted k is past every step of its own.
    <2>1. ASSUME NEW c \in Call, tx[c] = "executed", keyOf[c] = k
          PROVE  pc[c] \in {"error", "crashed"}
      BY <2>1 DEF Lost
    <2>2. ASSUME NEW c \in Call, earn(c) PROVE Lost(k)'
      BY <2>2 DEF earn, earnAllowed, Lost
    <2>3. ASSUME NEW c \in Call, mirrorEarning(c) PROVE Lost(k)'
      <3>1. keyOf[c] # k
        BY <2>1, <2>3 DEF mirrorEarning, CallMatchesTx
      <3>2. /\ ledger'[k] = ledger[k] /\ UNCHANGED <<registry, tx, keyOf>>
            /\ pc' = [pc EXCEPT ![c] = "reads"]
        BY <2>3, <3>1 DEF mirrorEarning
      <3> QED
        BY <3>1, <3>2 DEF Lost
    <2>4. ASSUME NEW c \in Call,
                 \/ findLedgerEntry(c) \/ assertTreasuryHealthyFails(c)
                 \/ signAndExecuteTransaction(c) \/ replySuccess(c) \/ replyAbort(c)
                 \/ replyLost(c) \/ mirrorFails(c) \/ readBack(c)
          PROVE  Lost(k)'
      <3>1. /\ UNCHANGED <<registry, ledger, keyOf>>
            /\ pc[c] \notin {"error", "crashed"}
            /\ \A d \in Call \ {c} : pc'[d] = pc[d]
            /\ \A d \in Call : tx'[d] = "executed" => tx[d] = "executed"
        BY <2>4 DEF findLedgerEntry, assertTreasuryHealthyFails, signAndExecuteTransaction,
                    replySuccess, replyAbort, replyLost, mirrorFails, readBack
      <3> QED
        BY <2>1, <3>1 DEF Lost
    <2>5. ASSUME NEW c \in Call, earnAborts(c) \/ txRejected(c) PROVE Lost(k)'
      BY <2>5 DEF earnAborts, txRejected, Lost
    <2>6. CASE Crash
      BY <2>6 DEF Crash, Lost, Active
    <2>7. CASE UNCHANGED vars
      BY <2>7 DEF vars, Lost
    <2> QED
      BY <2>2, <2>3, <2>4, <2>5, <2>6, <2>7 DEF Next, ServerStep, ChainStep
  <1>2. IInv /\ IInv' /\ [Next]_vars => [\A k \in Key : Lost(k) => Lost(k)']_vars
    BY <1>1
  <1> QED
    BY <1>2, InvariantHolds, PTL DEF Spec, LostIsNeverCredited

\* mintEarning over ink_earning::earn implements the abstract promise: mint at
\* most once, record only what is minted, forget nothing.
THEOREM EarningImplementsPromise == Spec => ImplementsPromise
  <1>1. Init => Promise!Init
    BY DEF Init, Promise!Init
  <1>2. IInv /\ IInv' /\ [Next]_vars =>
            [Promise!Next]_<<registry, {k \in Key : ledger[k] # NoRow}>>
    BY StepIsAPromiseStep
  <1> QED
    BY <1>1, <1>2, InvariantHolds, PTL DEF Spec, ImplementsPromise, Promise!Spec

-----------------------------------------------------------------------------
(***************************************************************************)
(* Totals.                                                                 *)
(***************************************************************************)

\* One more entry adds its units to the total.
LEMMA EntryAdded ==
    ASSUME NEW f, NEW g, NEW x,
           x \notin DOMAIN f, DOMAIN g = DOMAIN f \cup {x},
           \A y \in DOMAIN f : g[y] = f[y],
           g[x] \in Nat, IsFiniteSet(Units(f))
    PROVE  IsFiniteSet(Units(g)) /\ Total(g) = Total(f) + g[x]
  <1> DEFINE more == {x} \X (1..g[x])
  <1>1. IsFiniteSet(1..g[x]) /\ Cardinality(1..g[x]) = g[x]
    BY FS_Interval
  <1>2. IsFiniteSet({x}) /\ Cardinality({x}) = 1
    BY FS_Singleton
  <1>3. IsFiniteSet(more) /\ Cardinality(more) = g[x]
    <2>1. IsFiniteSet(more) /\ Cardinality(more) = Cardinality({x}) * Cardinality(1..g[x])
      BY <1>1, <1>2, FS_Product
    <2> QED
      BY <1>1, <1>2, <2>1
  <1>4. Units(g) = Units(f) \cup more
    <2>1. ASSUME NEW p \in Units(g) PROVE p \in Units(f) \cup more
      <3>1. PICK y \in DOMAIN g : p \in {y} \X (1..g[y])
        BY DEF Units
      <3>2. CASE y = x
        BY <3>1, <3>2
      <3>3. CASE y \in DOMAIN f
        <4>1. p \in {y} \X (1..f[y])
          BY <3>1, <3>3
        <4> QED
          BY <3>3, <4>1 DEF Units
      <3> QED
        BY <3>2, <3>3
    <2>2. Units(f) \subseteq Units(g)
      BY DEF Units
    <2>3. more \subseteq Units(g)
      BY DEF Units
    <2> QED
      BY <2>1, <2>2, <2>3
  <1>5. Units(f) \cap more = {}
    <2>1. ASSUME NEW p \in Units(f) PROVE p[1] \in DOMAIN f
      BY DEF Units
    <2>2. \A p \in more : p[1] = x
      OBVIOUS
    <2> QED
      BY <2>1, <2>2
  <1> HIDE DEF more
  <1>6. /\ IsFiniteSet(Units(f) \cup more)
        /\ Cardinality(Units(f) \cup more)
              = Cardinality(Units(f)) + Cardinality(more) - Cardinality({})
    BY <1>3, <1>5, FS_Union
  <1>7. Cardinality({}) = 0 /\ Cardinality(Units(f)) \in Nat
    BY FS_EmptySet, FS_CardinalityType
  <1> QED
    BY <1>3, <1>4, <1>6, <1>7 DEF Total

\* An empty book is worth nothing.
LEMMA NoEntries ==
    ASSUME NEW f, \A y \in DOMAIN f : f[y] = 0
    PROVE  IsFiniteSet(Units(f)) /\ Total(f) = 0
  <1>1. Units(f) = {}
    BY DEF Units
  <1> QED
    BY <1>1, FS_EmptySet DEF Total

-----------------------------------------------------------------------------
(***************************************************************************)
(* The books.                                                              *)
(***************************************************************************)

\* What user u's keys in the registry, and rows in the ledger, are worth.
KeyInk(u) == [k \in {j \in registry : UserOf[j] = u} |-> get_amount_for_trigger(TriggerOf[k])]
RowInk(u) == [k \in {j \in Key : ledger[j] # NoRow /\ UserOf[j] = u} |-> ledger[k].amount]

\* The books agree, and have finitely many entries.
BooksInv ==
    \A u \in User :
        /\ IsFiniteSet(Units(KeyInk(u))) /\ coins[u] = Total(KeyInk(u))
        /\ IsFiniteSet(Units(RowInk(u)))
        /\ balance[u] = Total(RowInk(u)) /\ totalInkEarned[u] = Total(RowInk(u))

\* earn adds the key of its user to the registry and to no other's keys.
LEMMA EarnKeepsBooks ==
    ASSUME IInv, BooksInv, NEW c \in Call, earn(c)
    PROVE  BooksInv'
  <1> DEFINE k == keyOf[c]
             w == UserOf[k]
             n == get_amount_for_trigger(TriggerOf[k])
  <1>1. k \in Key /\ w \in User /\ n \in Nat /\ k \notin registry
    BY KeyAssumption, AmountsAgree DEF IInv, TypeOK, earn, earnAllowed
  <1>2. /\ registry' = registry \cup {k} /\ coins' = [coins EXCEPT ![w] = @ + n]
        /\ UNCHANGED <<ledger, balance, totalInkEarned>>
    BY DEF earn, dbVars
  <1>3. coins \in [User -> Nat]
    BY DEF IInv, TypeOK
  <1> SUFFICES ASSUME NEW u \in User
               PROVE  /\ IsFiniteSet(Units(KeyInk(u)')) /\ coins'[u] = Total(KeyInk(u)')
                      /\ RowInk(u)' = RowInk(u)
    BY <1>2 DEF BooksInv
  <1>4. RowInk(u)' = RowInk(u)
    BY <1>2 DEF RowInk
  <1>5. CASE u = w
    <2>1. /\ k \notin DOMAIN KeyInk(u) /\ DOMAIN KeyInk(u)' = DOMAIN KeyInk(u) \cup {k}
          /\ \A y \in DOMAIN KeyInk(u) : KeyInk(u)'[y] = KeyInk(u)[y]
          /\ KeyInk(u)'[k] = n
      BY <1>1, <1>2, <1>5 DEF KeyInk
    <2>2. IsFiniteSet(Units(KeyInk(u))) /\ coins[u] = Total(KeyInk(u))
      BY DEF BooksInv
    <2>3. coins'[u] = coins[u] + n
      BY <1>1, <1>2, <1>3, <1>5
    <2> HIDE DEF k, n
    <2>4. IsFiniteSet(Units(KeyInk(u)')) /\ Total(KeyInk(u)') = Total(KeyInk(u)) + n
      BY <1>1, <2>1, <2>2, EntryAdded
    <2> QED
      BY <1>4, <2>2, <2>3, <2>4
  <1>6. CASE u # w
    <2>1. {j \in registry' : UserOf[j] = u} = {j \in registry : UserOf[j] = u}
      BY <1>2, <1>6
    <2>2. KeyInk(u)' = KeyInk(u)
      BY <2>1 DEF KeyInk
    <2>3. coins'[u] = coins[u]
      BY <1>2, <1>3, <1>6
    <2> QED
      BY <1>4, <2>2, <2>3 DEF BooksInv
  <1> QED
    BY <1>5, <1>6

\* mirrorEarning writes the missing row of its key and adds its amount to both
\* counters of its user.
LEMMA MirrorKeepsBooks ==
    ASSUME IInv, BooksInv, NEW c \in Call, mirrorEarning(c)
    PROVE  BooksInv'
  <1> DEFINE k == keyOf[c]
             w == UserOf[k]
             n == INK_AMOUNTS[TriggerOf[k]]
             row == [amount |-> n, digest |-> c]
  <1>1. k \in Key /\ w \in User /\ n \in Nat /\ row # NoRow
    BY KeyAssumption, NoRowAssumption, AmountsAgree DEF IInv, TypeOK
  <1>2. ledger[k] = NoRow
    BY KeyAssumption, NoRowAssumption
       DEF IInv, TypeOK, mirrorEarning, CallMatchesTx, RowMatchesCall, KeyMintedOnce, Row
  <1>3. /\ ledger' = [ledger EXCEPT ![k] = row]
        /\ balance' = [balance EXCEPT ![w] = @ + n]
        /\ totalInkEarned' = [totalInkEarned EXCEPT ![w] = @ + n]
        /\ UNCHANGED <<registry, coins>>
    BY <1>2 DEF mirrorEarning, chainVars
  <1>4. balance \in [User -> Nat] /\ totalInkEarned \in [User -> Nat]
           /\ ledger \in [Key -> Row \cup {NoRow}]
    BY DEF IInv, TypeOK
  <1>5. row.amount = n
    OBVIOUS
  <1> HIDE DEF k, n, row
  <1>6. \A j \in Key : ledger'[j] = IF j = k THEN row ELSE ledger[j]
    BY <1>3, <1>4
  <1> SUFFICES ASSUME NEW u \in User
               PROVE  /\ IsFiniteSet(Units(RowInk(u)'))
                      /\ balance'[u] = Total(RowInk(u)') /\ totalInkEarned'[u] = Total(RowInk(u)')
                      /\ KeyInk(u)' = KeyInk(u)
    BY <1>3 DEF BooksInv
  <1>7. KeyInk(u)' = KeyInk(u)
    BY <1>3 DEF KeyInk
  <1>8. CASE u = w
    <2>1. /\ k \notin DOMAIN RowInk(u) /\ DOMAIN RowInk(u)' = DOMAIN RowInk(u) \cup {k}
          /\ \A y \in DOMAIN RowInk(u) : RowInk(u)'[y] = RowInk(u)[y]
          /\ RowInk(u)'[k] = n
      BY <1>1, <1>2, <1>5, <1>6, <1>8 DEF RowInk
    <2>2. /\ IsFiniteSet(Units(RowInk(u)))
          /\ balance[u] = Total(RowInk(u)) /\ totalInkEarned[u] = Total(RowInk(u))
      BY DEF BooksInv
    <2>3. balance'[u] = balance[u] + n /\ totalInkEarned'[u] = totalInkEarned[u] + n
      BY <1>1, <1>3, <1>4, <1>8
    <2>4. IsFiniteSet(Units(RowInk(u)')) /\ Total(RowInk(u)') = Total(RowInk(u)) + n
      BY <1>1, <2>1, <2>2, EntryAdded
    <2> QED
      BY <1>7, <2>2, <2>3, <2>4
  <1>9. CASE u # w
    <2>1. {j \in Key : ledger'[j] # NoRow /\ UserOf[j] = u}
             = {j \in Key : ledger[j] # NoRow /\ UserOf[j] = u}
      BY <1>6, <1>9
    <2>2. \A j \in {i \in Key : ledger[i] # NoRow /\ UserOf[i] = u} : ledger'[j] = ledger[j]
      BY <1>6, <1>9
    <2>3. RowInk(u)' = RowInk(u)
      BY <2>1, <2>2 DEF RowInk
    <2>4. balance'[u] = balance[u] /\ totalInkEarned'[u] = totalInkEarned[u]
      BY <1>3, <1>4, <1>9
    <2> QED
      BY <1>7, <2>3, <2>4 DEF BooksInv
  <1> QED
    BY <1>8, <1>9

\* Every other step leaves the books alone.
LEMMA NextBooksInv == IInv /\ BooksInv /\ [Next]_vars => BooksInv'
  <1> SUFFICES ASSUME IInv, BooksInv, [Next]_vars PROVE BooksInv'
    OBVIOUS
  <1>1. CASE UNCHANGED <<registry, coins, ledger, balance, totalInkEarned>>
    <2>1. \A u \in User : KeyInk(u)' = KeyInk(u) /\ RowInk(u)' = RowInk(u)
      BY <1>1 DEF KeyInk, RowInk
    <2> QED
      BY <1>1, <2>1 DEF BooksInv
  <1>2. CASE Crash \/ UNCHANGED vars \/
             \E c \in Call : \/ findLedgerEntry(c)
                            \/ assertTreasuryHealthyFails(c)
                            \/ signAndExecuteTransaction(c)
                            \/ replySuccess(c)
                            \/ replyAbort(c)
                            \/ replyLost(c)
                            \/ mirrorFails(c)
                            \/ readBack(c)
                            \/ earnAborts(c)
                            \/ txRejected(c)
    <2>1. UNCHANGED <<registry, coins, ledger, balance, totalInkEarned>>
      BY <1>2 DEF Crash, vars, chainVars, dbVars, findLedgerEntry,
         assertTreasuryHealthyFails, signAndExecuteTransaction, replySuccess,
         replyAbort, replyLost, mirrorFails, readBack, earnAborts, txRejected
    <2> QED
      BY <1>1, <2>1
  <1> QED
    BY <1>2, EarnKeepsBooks, MirrorKeepsBooks DEF Next, ServerStep, ChainStep

\* The three books of INK agree in every reachable state, whatever calls race,
\* fail, crash or retry: a wallet holds what its keys in the registry are worth,
\* and balance and totalInkEarned what the ledger's rows say.
THEOREM BooksAlwaysAgree == Spec => []BooksAgree
  <1>1. Init => IInv /\ BooksInv
    <2> SUFFICES ASSUME Init PROVE BooksInv
      BY InitIInv
    <2>1. \A u \in User : /\ \A k \in DOMAIN KeyInk(u) : KeyInk(u)[k] = 0
                          /\ \A k \in DOMAIN RowInk(u) : RowInk(u)[k] = 0
      BY DEF Init, KeyInk, RowInk
    <2>2. \A u \in User : coins[u] = 0 /\ balance[u] = 0 /\ totalInkEarned[u] = 0
      BY DEF Init
    <2> QED
      BY <2>1, <2>2, NoEntries DEF BooksInv
  <1>2. IInv /\ BooksInv /\ [Next]_vars => IInv' /\ BooksInv'
    BY NextIInv, NextBooksInv
  <1>3. IInv /\ BooksInv => BooksAgree
    BY DEF BooksInv, KeyInk, RowInk, BooksAgree, SupplyMatchesRegistry, MirrorAddsUp
  <1> QED
    BY <1>1, <1>2, <1>3, PTL DEF Spec
-----------------------------------------------------------------------------
(***************************************************************************)
(* The Move package's own way of paying.                                   *)
(*                                                                         *)
(* ClaimSound is inductive.  What carries it is that nothing it names is   *)
(* ever undone: a suggestion leaves "pending" once, a key is locked once,  *)
(* and a badge, once given, refuses the next one to the same reader.       *)
(***************************************************************************)
\* Each trigger pays an amount.
LEMMA AmountPositive == \A t \in Trigger : amount(t) \in Nat \ {0}
  BY DEF Trigger, amount

\* At publication there is nothing to claim.
LEMMA RewardsStart == RewardsInit => ClaimSound
  <1> SUFFICES ASSUME RewardsInit PROVE ClaimSound
    OBVIOUS
  <1> USE RewardsAssumption DEF RewardsInit, NoSuggestion
  <1>1. RewardsTypeOK
    BY DEF RewardsTypeOK
  <1>2. ClaimBacked /\ OneClaimPerReader /\ ReviewDated
    BY DEF ClaimBacked, OneClaimPerReader, ReviewDated
  <1> QED
    BY <1>1, <1>2 DEF ClaimSound

\* A step that leaves suggestions alone, locks keys and gives badges, keeps what the claims
\* rest on.
LEMMA ClaimsUndisturbed ==
    ASSUME ClaimBacked, OneClaimPerReader, ReviewDated, UNCHANGED suggestion,
           \A k \in RecordKey : earning[k] # NoRecord => earning'[k] = earning[k],
           contributor \subseteq contributor'
    PROVE  ClaimBacked' /\ OneClaimPerReader' /\ ReviewDated'
  <1>1. ASSUME NEW s \in Suggestion, suggestion'[s].claimed
        PROVE  /\ suggestion'[s].status = "approved"
               /\ suggestion'[s].submitter \in contributor'
               /\ \E k \in RecordKey : earning'[k] = [user |-> suggestion'[s].submitter,
                                                trigger |-> "submission"]
    <2>1. PICK k \in RecordKey : earning[k] = [user |-> suggestion[s].submitter, trigger |-> "submission"]
      BY <1>1 DEF ClaimBacked
    <2>2. earning[k] # NoRecord
      BY <2>1 DEF NoRecord
    <2> QED
      BY <1>1, <2>1, <2>2 DEF ClaimBacked
  <1>2. ClaimBacked'
    BY <1>1 DEF ClaimBacked
  <1> QED
    BY <1>2 DEF OneClaimPerReader, ReviewDated

\* The gates: capabilities and coins change hands, INK is minted or burned beside the claims.
LEMMA AuthorityKeeps ==
    ASSUME ClaimSound, NEW a \in Address, NEW b \in Address, NEW n \in Nat,
           \/ grant(a, b) \/ revoke(a, b) \/ transferCap(a, b) \/ transferTreasury(a, b)
           \/ sendInk(a, b, n) \/ mint(a, b, n) \/ burn(a, n)
    PROVE  ClaimSound'
  <1> USE RewardsAssumption DEF ClaimSound, authority, money
  <1>1. UNCHANGED <<suggestion, earning, contributor>>
    BY DEF grant, revoke, transferCap, transferTreasury, sendInk, mint, burn
  <1>2. ClaimBacked' /\ OneClaimPerReader' /\ ReviewDated'
    BY <1>1, ClaimsUndisturbed
  <1>3. RewardsTypeOK'
    <2> USE <1>1 DEF RewardsTypeOK
    <2>1. CASE grant(a, b)
      BY <2>1 DEF grant
    <2>2. CASE revoke(a, b)
      BY <2>2 DEF revoke
    <2>3. CASE transferCap(a, b)
      <3>1. caps' = [caps EXCEPT ![a] = @ - 1, ![b] = @ + 1] /\ caps[a] > 0 /\ a # b
        BY <2>3 DEF transferCap, holdsCap
      <3>2. caps' \in [Address -> Nat]
        BY <3>1
      <3> QED
        BY <2>3, <3>2 DEF transferCap, handOver
    <2>4. CASE transferTreasury(a, b)
      BY <2>4 DEF transferTreasury, handOver
    <2>5. CASE sendInk(a, b, n)
      <3>1. /\ wallet' = [wallet EXCEPT ![a] = @ - n, ![b] = @ + n] /\ wallet[a] >= n /\ a # b
        BY <2>5 DEF sendInk
      <3>2. wallet' \in [Address -> Nat]
        BY <3>1
      <3> QED
        BY <2>5, <3>2 DEF sendInk, handOver
    <2>6. CASE mint(a, b, n)
      BY <2>6 DEF mint, minted
    <2>7. CASE burn(a, n)
      <3>1. /\ wallet' = [wallet EXCEPT ![a] = @ - n] /\ wallet[a] >= n
            /\ supply' = supply - n /\ burned' = burned + n
        BY <2>7 DEF burn
      <3> QED
        BY <2>7, <3>1 DEF burn
    <2> QED
      BY <2>1, <2>2, <2>3, <2>4, <2>5, <2>6, <2>7
  <1> QED
    BY <1>2, <1>3

-----------------------------------------------------------------------------
\* earn locks a key without a suggestion.
LEMMA EarningKeeps ==
    ASSUME ClaimSound, NEW a \in Address, NEW b \in Address, NEW t \in Trigger,
           NEW k \in RecordKey, earnEntry(a, b, t, k)
    PROVE  ClaimSound'
  <1> USE RewardsAssumption, AmountPositive DEF ClaimSound, authority, money
  <1>1. UNCHANGED <<suggestion, contributor>>
    BY DEF earnEntry
  <1>2. \A j \in RecordKey : earning[j] # NoRecord => earning'[j] = earning[j]
    BY DEF earnEntry, earned, RewardsTypeOK
  <1>3. ClaimBacked' /\ OneClaimPerReader' /\ ReviewDated'
    BY <1>1, <1>2, ClaimsUndisturbed
  <1>4. RewardsTypeOK'
    BY DEF RewardsTypeOK, earnEntry, earned, minted
  <1> QED
    BY <1>3, <1>4

\* mintBadge gives a badge without a suggestion.
LEMMA BadgeKeeps ==
    ASSUME ClaimSound, NEW a \in Address, NEW b \in Address, mintBadge(a, b)
    PROVE  ClaimSound'
  <1> USE DEF ClaimSound, authority, money
  <1>1. ClaimBacked' /\ OneClaimPerReader' /\ ReviewDated'
    BY ClaimsUndisturbed DEF mintBadge, badged
  <1>2. RewardsTypeOK'
    BY DEF RewardsTypeOK, mintBadge, badged
  <1> QED
    BY <1>1, <1>2

\* A suggestion is made, and is decided once.
LEMMA ReviewKeeps ==
    ASSUME ClaimSound, NEW a \in Address, NEW s \in Suggestion, NEW d \in {"approved", "rejected"},
           create(a, s) \/ decide(a, s, d)
    PROVE  ClaimSound'
  <1> USE RewardsAssumption DEF ClaimSound, authority, money
  <1>1. UNCHANGED <<earning, contributor, authority, money, handovers>>
    BY DEF create, decide
  <1> DEFINE Made == [submitter : Address, status : {"pending", "approved", "rejected"},
                      reviewed : BOOLEAN, claimed : BOOLEAN]
  <1>2. /\ suggestion' \in [Suggestion -> {NoSuggestion} \cup Made]
        /\ ~suggestion'[s].claimed
        /\ suggestion'[s].reviewed <=> suggestion'[s].status \in {"approved", "rejected"}
        /\ \A t \in Suggestion \ {s} : suggestion'[t] = suggestion[t]
    <2>1. suggestion \in [Suggestion -> {NoSuggestion} \cup Made]
      BY DEF RewardsTypeOK
    <2>2. CASE create(a, s)
      <3> DEFINE r == [submitter |-> a, status |-> "pending", reviewed |-> FALSE, claimed |-> FALSE]
      <3>1. suggestion' = [suggestion EXCEPT ![s] = r]
        BY <2>2 DEF create, NoSuggestion
      <3> QED
        BY <2>1, <3>1
    <2>3. CASE decide(a, s, d)
      <3>1. suggestion[s].status = "pending"
        BY <2>3 DEF decide
      <3>2. suggestion[s] \in Made
        BY <2>1, <3>1 DEF NoSuggestion
      <3>3. suggestion[s].claimed = FALSE
        BY <3>1, <3>2 DEF ClaimBacked
      <3> DEFINE r == [submitter |-> suggestion[s].submitter, status |-> d, reviewed |-> TRUE,
                       claimed |-> FALSE]
      <3>4. suggestion' = [suggestion EXCEPT ![s] = r]
        BY <2>1, <2>3, <3>2, <3>3 DEF decide
      <3> QED
        BY <2>1, <3>2, <3>4
    <2> QED
      BY <2>2, <2>3
  <1>3. RewardsTypeOK'
    BY <1>1, <1>2 DEF RewardsTypeOK
  <1>4. ClaimBacked' /\ OneClaimPerReader' /\ ReviewDated'
    BY <1>1, <1>2 DEF ClaimBacked, OneClaimPerReader, ReviewDated
  <1> QED
    BY <1>3, <1>4

\* The claim itself: approved, its key fresh, and the badge not yet given to this reader,
\* which no other claimed suggestion of the reader would have left open.
LEMMA ClaimKeeps ==
    ASSUME ClaimSound, NEW a \in Address, NEW s \in Suggestion, NEW k \in RecordKey,
           claim_reward(a, s, k)
    PROVE  ClaimSound'
  <1> USE RewardsAssumption, AmountPositive DEF ClaimSound, authority, money
  <1> DEFINE u == suggestion[s].submitter
  <1>1. /\ suggestion[s].status = "approved"
        /\ suggestion' = [suggestion EXCEPT ![s].claimed = TRUE]
        /\ earning[k] = NoRecord
        /\ earning' = [earning EXCEPT ![k] = [user |-> u, trigger |-> "submission"]]
        /\ wallet' = [wallet EXCEPT ![u] = @ + amount("submission")]
        /\ supply' = supply + amount("submission")
        /\ u \notin contributor /\ contributor' = contributor \cup {u}
        /\ UNCHANGED <<authority, direct, burned, handovers>>
    BY DEF claim_reward, earned, minted, badged
  <1>2. u \in Address /\ suggestion[s] # NoSuggestion
    BY <1>1 DEF RewardsTypeOK, NoSuggestion
  <1>3. /\ suggestion'[s].claimed /\ suggestion'[s].status = "approved"
        /\ suggestion'[s].submitter = u
        /\ suggestion'[s].reviewed = suggestion[s].reviewed
        /\ \A t \in Suggestion \ {s} : suggestion'[t] = suggestion[t]
    BY <1>1, <1>2 DEF RewardsTypeOK
  <1>4. RewardsTypeOK'
    <2>1. amount("submission") \in Nat
      BY DEF Trigger
    <2>2. suggestion' \in [Suggestion -> {NoSuggestion} \cup
             [submitter : Address, status : {"pending", "approved", "rejected"},
              reviewed : BOOLEAN, claimed : BOOLEAN]]
      BY <1>1, <1>2 DEF RewardsTypeOK
    <2>3. earning' \in [RecordKey -> {NoRecord} \cup [user : Address, trigger : Trigger]]
      BY <1>1, <1>2 DEF RewardsTypeOK, Trigger
    <2> QED
      BY <1>1, <1>2, <2>1, <2>2, <2>3 DEF RewardsTypeOK
  <1>5. ClaimBacked'
    <2> SUFFICES ASSUME NEW t \in Suggestion, suggestion'[t].claimed
                 PROVE  /\ suggestion'[t].status = "approved"
                        /\ suggestion'[t].submitter \in contributor'
                        /\ \E j \in RecordKey : earning'[j] = [user |-> suggestion'[t].submitter,
                                                         trigger |-> "submission"]
      BY DEF ClaimBacked
    <2>1. CASE t = s
      BY <1>1, <1>3, <2>1 DEF RewardsTypeOK
    <2>2. CASE t # s
      <3>1. suggestion'[t] = suggestion[t] /\ suggestion[t].claimed
        BY <1>3, <2>2
      <3>2. PICK j \in RecordKey : earning[j] = [user |-> suggestion[t].submitter, trigger |-> "submission"]
        BY <3>1 DEF ClaimBacked
      <3>3. j # k /\ earning'[j] = earning[j]
        BY <1>1, <3>2 DEF NoRecord, RewardsTypeOK
      <3> QED
        BY <1>1, <3>1, <3>2, <3>3 DEF ClaimBacked
    <2> QED
      BY <2>1, <2>2
  <1>6. OneClaimPerReader'
    <2>1. \A t \in Suggestion \ {s} : suggestion[t].claimed => suggestion[t].submitter # u
      BY <1>1 DEF ClaimBacked
    <2> QED
      BY <1>3, <2>1 DEF OneClaimPerReader
  <1>7. ReviewDated'
    BY <1>1, <1>3 DEF ReviewDated
  <1> QED
    BY <1>4, <1>5, <1>6, <1>7

\* Every step keeps the invariant.
LEMMA RewardsStepKeeps == ClaimSound /\ [RewardsNext]_rewardsVars => ClaimSound'
  <1> SUFFICES ASSUME ClaimSound, [RewardsNext]_rewardsVars PROVE ClaimSound'
    OBVIOUS
  <1>1. CASE RewardsNext
    <2>1. PICK a \in Address :
             \/ \E b \in Address : grant(a, b) \/ revoke(a, b) \/ transferCap(a, b) \/ transferTreasury(a, b)
             \/ \E b \in Address, n \in Amount : sendInk(a, b, n) \/ mint(a, b, n)
             \/ \E n \in Amount : burn(a, n)
             \/ \E b \in Address, t \in Trigger, k \in RecordKey : earnEntry(a, b, t, k)
             \/ \E b \in Address : mintBadge(a, b)
             \/ \E s \in Suggestion : \/ create(a, s)
                                      \/ \E d \in {"approved", "rejected"} : decide(a, s, d)
                                      \/ \E k \in RecordKey : claim_reward(a, s, k)
      BY <1>1 DEF RewardsNext
    <2>2. 0 \in Nat /\ Amount \subseteq Nat
      BY RewardsAssumption
    <2>3. ASSUME NEW b \in Address,
                 grant(a, b) \/ revoke(a, b) \/ transferCap(a, b) \/ transferTreasury(a, b)
          PROVE  ClaimSound'
      BY <2>2, <2>3, AuthorityKeeps
    <2>4. ASSUME NEW b \in Address, NEW n \in Amount, sendInk(a, b, n) \/ mint(a, b, n) \/ burn(a, n)
          PROVE  ClaimSound'
      BY <2>2, <2>4, AuthorityKeeps
    <2>5. ASSUME NEW b \in Address, NEW t \in Trigger, NEW k \in RecordKey, earnEntry(a, b, t, k)
          PROVE  ClaimSound'
      BY <2>5, EarningKeeps
    <2>6. ASSUME NEW b \in Address, mintBadge(a, b) PROVE ClaimSound'
      BY <2>6, BadgeKeeps
    <2>7. ASSUME NEW s \in Suggestion,
                 create(a, s) \/ \E d \in {"approved", "rejected"} : decide(a, s, d)
          PROVE  ClaimSound'
      BY <2>7, ReviewKeeps
    <2>8. ASSUME NEW s \in Suggestion, NEW k \in RecordKey, claim_reward(a, s, k) PROVE ClaimSound'
      BY <2>8, ClaimKeeps
    <2> QED
      BY <2>1, <2>3, <2>4, <2>5, <2>6, <2>7, <2>8
  <1>2. CASE UNCHANGED rewardsVars
    BY <1>2, ClaimsUndisturbed
       DEF rewardsVars, authority, money, ClaimSound, RewardsTypeOK
  <1> QED
    BY <1>1, <1>2

\* What a step leaves standing: decisions, claims, locked keys and badges.
LEMMA RewardsStepStands == ClaimSound /\ [RewardsNext]_rewardsVars => [RewardsKept]_rewardsVars
  <1> SUFFICES ASSUME ClaimSound, RewardsNext PROVE RewardsKept
    OBVIOUS
  <1> USE DEF ClaimSound
  <1>1. \A s \in Suggestion : suggestion[s] # NoSuggestion /\ suggestion[s].status # "pending" =>
           \/ suggestion'[s] = suggestion[s]
           \/ ~suggestion[s].claimed /\ suggestion'[s] = [suggestion[s] EXCEPT !.claimed = TRUE]
    BY DEF RewardsNext, grant, revoke, transferCap, transferTreasury, sendInk, mint, burn,
           earnEntry, mintBadge, create, decide, claim_reward, RewardsTypeOK
  <1>2. ASSUME NEW s \in Suggestion, suggestion[s].reviewed \/ suggestion[s].claimed
        PROVE  suggestion[s] # NoSuggestion /\ suggestion[s].status # "pending"
    <2>1. suggestion[s].status \in {"approved", "rejected"}
      <3>1. CASE suggestion[s].reviewed
        BY <3>1 DEF ReviewDated
      <3>2. CASE suggestion[s].claimed
        BY <3>2 DEF ClaimBacked
      <3> QED
        BY <1>2, <3>1, <3>2
    <2> QED
      BY <2>1 DEF NoSuggestion
  <1>3. \A s \in Suggestion :
           /\ suggestion[s].reviewed => /\ suggestion'[s].status = suggestion[s].status
                                        /\ suggestion'[s].reviewed
           /\ suggestion[s].claimed => suggestion'[s] = suggestion[s]
    BY <1>1, <1>2 DEF RewardsTypeOK
  <1>4. \A k \in RecordKey : earning[k] # NoRecord => earning'[k] = earning[k]
    BY DEF RewardsNext, grant, revoke, transferCap, transferTreasury, sendInk, mint, burn,
           earnEntry, mintBadge, create, decide, claim_reward, earned, RewardsTypeOK
  <1>5. contributor \subseteq contributor'
    BY DEF RewardsNext, grant, revoke, transferCap, transferTreasury, sendInk, mint, burn,
           earnEntry, mintBadge, create, decide, claim_reward, badged
  <1> QED
    BY <1>3, <1>4, <1>5 DEF RewardsKept

-----------------------------------------------------------------------------
\* Whoever holds the capabilities and whatever keys are used: a claimed reward was approved,
\* is badged and recorded, and no reader has claimed two.
THEOREM ClaimsAreSound == RewardsSpec => []ClaimSound
  BY RewardsStart, RewardsStepKeeps, PTL DEF RewardsSpec

\* No step takes back a decision, a claim, a locked key or a badge.
THEOREM DecisionsStand == RewardsSpec => [][RewardsKept]_rewardsVars
  BY RewardsStart, RewardsStepKeeps, RewardsStepStands, PTL DEF RewardsSpec

-----------------------------------------------------------------------------
(***************************************************************************)
(* The package's INK adds up.                                              *)
(***************************************************************************)

\* A changed entry changes the total by as much.
LEMMA EntryChanged ==
    ASSUME NEW f, NEW g, NEW x \in DOMAIN f,
           DOMAIN g = DOMAIN f,
           \A y \in DOMAIN f \ {x} : g[y] = f[y],
           f[x] \in Nat, g[x] \in Nat, IsFiniteSet(Units(f))
    PROVE  /\ IsFiniteSet(Units(g))
           /\ Total(f) \in Nat /\ Total(g) \in Nat
           /\ Total(g) + f[x] = Total(f) + g[x]
  <1> DEFINE h == [y \in DOMAIN f \ {x} |-> f[y]]
  <1>1. /\ DOMAIN h = DOMAIN f \ {x} /\ x \notin DOMAIN h
        /\ DOMAIN f = DOMAIN h \cup {x} /\ DOMAIN g = DOMAIN h \cup {x}
        /\ \A y \in DOMAIN h : h[y] = f[y] /\ h[y] = g[y]
    OBVIOUS
  <1> HIDE DEF h
  <1>2. Units(h) \subseteq Units(f)
    <2> SUFFICES ASSUME NEW p \in Units(h) PROVE p \in Units(f)
      OBVIOUS
    <2>1. PICK y \in DOMAIN h : p \in {y} \X (1..h[y])
      BY DEF Units
    <2>2. y \in DOMAIN f /\ p \in {y} \X (1..f[y])
      BY <1>1, <2>1
    <2> QED
      BY <2>2 DEF Units
  <1>3. IsFiniteSet(Units(h))
    BY <1>2, FS_Subset
  <1>4. Total(f) = Total(h) + f[x]
    <2>1. /\ x \notin DOMAIN h /\ DOMAIN f = DOMAIN h \cup {x}
          /\ \A y \in DOMAIN h : f[y] = h[y]
      BY <1>1
    <2> QED
      BY <1>3, <2>1, EntryAdded
  <1>5. IsFiniteSet(Units(g)) /\ Total(g) = Total(h) + g[x]
    BY <1>1, <1>3, EntryAdded
  <1>6. Total(h) \in Nat
    BY <1>3, FS_CardinalityType DEF Total
  <1>7. Total(f) \in Nat
    BY FS_CardinalityType DEF Total
  <1> QED
    BY <1>4, <1>5, <1>6, <1>7

\* What the locked keys account for.
RecordInk == [k \in {j \in RecordKey : earning[j] # NoRecord} |-> amount(earning[k].trigger)]

AccountsInv ==
    /\ IsFiniteSet(Units(wallet)) /\ supply = Total(wallet)
    /\ IsFiniteSet(Units(RecordInk)) /\ Total(RecordInk) \in Nat
    /\ supply + burned = direct + Total(RecordInk)

\* Coins are minted to a wallet.
LEMMA MintedAdds ==
    ASSUME ClaimSound, AccountsInv, NEW u \in Address, NEW n \in Nat, minted(u, n)
    PROVE  /\ IsFiniteSet(Units(wallet')) /\ supply' = Total(wallet')
           /\ supply' = supply + n
  <1>1. /\ wallet' = [wallet EXCEPT ![u] = @ + n] /\ supply' = supply + n
        /\ wallet \in [Address -> Nat]
    BY DEF minted, ClaimSound, RewardsTypeOK
  <1>2. /\ u \in DOMAIN wallet /\ DOMAIN wallet' = DOMAIN wallet
        /\ \A a \in DOMAIN wallet \ {u} : wallet'[a] = wallet[a]
        /\ wallet[u] \in Nat /\ wallet'[u] = wallet[u] + n /\ wallet'[u] \in Nat
    BY <1>1
  <1>3. /\ IsFiniteSet(Units(wallet')) /\ Total(wallet) \in Nat /\ Total(wallet') \in Nat
        /\ Total(wallet') + wallet[u] = Total(wallet) + wallet'[u]
    BY <1>2, EntryChanged DEF AccountsInv
  <1> QED
    BY <1>1, <1>2, <1>3 DEF AccountsInv

\* A key that is locked adds its amount to what the records account for.
LEMMA LockedAdds ==
    ASSUME ClaimSound, AccountsInv, NEW a \in Address, NEW u \in Address, NEW t \in Trigger,
           NEW k \in RecordKey, earned(a, u, t, k), UNCHANGED <<direct, burned>>
    PROVE  AccountsInv'
  <1>1. /\ earning[k] = NoRecord /\ minted(u, amount(t))
        /\ earning' = [earning EXCEPT ![k] = [user |-> u, trigger |-> t]]
        /\ earning \in [RecordKey -> {NoRecord} \cup [user : Address, trigger : Trigger]]
    BY DEF earned, ClaimSound, RewardsTypeOK
  <1>2. amount(t) \in Nat
    BY AmountPositive
  <1>3. /\ IsFiniteSet(Units(wallet')) /\ supply' = Total(wallet')
        /\ supply' = supply + amount(t)
    BY <1>1, <1>2, MintedAdds
  <1>4. earning'[k] # NoRecord /\ earning'[k].trigger = t
    BY <1>1, RewardsAssumption DEF NoRecord
  <1>5. \A j \in RecordKey \ {k} : earning'[j] = earning[j]
    BY <1>1
  <1>6. /\ k \notin DOMAIN RecordInk /\ DOMAIN RecordInk' = DOMAIN RecordInk \cup {k}
        /\ \A j \in DOMAIN RecordInk : RecordInk'[j] = RecordInk[j]
        /\ RecordInk'[k] = amount(t)
    BY <1>1, <1>4, <1>5 DEF RecordInk
  <1>7. IsFiniteSet(Units(RecordInk')) /\ Total(RecordInk') = Total(RecordInk) + amount(t)
    BY <1>2, <1>6, EntryAdded DEF AccountsInv
  <1>8. supply \in Int /\ direct \in Nat /\ burned \in Nat
    BY DEF ClaimSound, RewardsTypeOK
  <1> QED
    BY <1>2, <1>3, <1>7, <1>8 DEF AccountsInv

\* Coins change hands.
LEMMA SentKeeps ==
    ASSUME ClaimSound, AccountsInv, NEW a \in Address, NEW b \in Address, NEW n \in Nat,
           sendInk(a, b, n)
    PROVE  AccountsInv'
  <1> DEFINE between == [wallet EXCEPT ![a] = @ - n]
  <1>1. /\ a # b /\ wallet[a] >= n
        /\ wallet' = [wallet EXCEPT ![a] = @ - n, ![b] = @ + n]
        /\ wallet \in [Address -> Nat]
        /\ UNCHANGED <<supply, direct, burned, earning>>
    BY DEF sendInk, ClaimSound, RewardsTypeOK
  <1>2. /\ a \in DOMAIN wallet /\ DOMAIN between = DOMAIN wallet
        /\ \A y \in DOMAIN wallet \ {a} : between[y] = wallet[y]
        /\ wallet[a] \in Nat /\ between[a] = wallet[a] - n /\ between[a] \in Nat
    BY <1>1
  <1>3. /\ b \in DOMAIN between /\ DOMAIN wallet' = DOMAIN between
        /\ \A y \in DOMAIN between \ {b} : wallet'[y] = between[y]
        /\ between[b] \in Nat /\ wallet'[b] = between[b] + n /\ wallet'[b] \in Nat
    BY <1>1
  <1> HIDE DEF between
  <1>4. /\ IsFiniteSet(Units(between)) /\ Total(wallet) \in Nat /\ Total(between) \in Nat
        /\ Total(between) + wallet[a] = Total(wallet) + between[a]
    BY <1>2, EntryChanged DEF AccountsInv
  <1>5. /\ IsFiniteSet(Units(wallet')) /\ Total(wallet') \in Nat
        /\ Total(wallet') + between[b] = Total(between) + wallet'[b]
    BY <1>3, <1>4, EntryChanged
  <1>6. Total(wallet') = Total(wallet)
    <2>1. Total(between) + wallet[a] = Total(wallet) + (wallet[a] - n)
      BY <1>2, <1>4
    <2>2. Total(wallet') + between[b] = Total(between) + (between[b] + n)
      BY <1>3, <1>5
    <2>3. /\ wallet[a] \in Nat /\ between[b] \in Nat /\ Total(wallet') \in Nat
          /\ Total(wallet) \in Nat /\ Total(between) \in Nat
      BY <1>2, <1>3, <1>4, <1>5
    <2> QED
      BY <2>1, <2>2, <2>3
  <1>7. RecordInk' = RecordInk
    BY <1>1 DEF RecordInk
  <1> QED
    BY <1>1, <1>5, <1>6, <1>7 DEF AccountsInv

\* A coin is burned.
LEMMA BurnedKeeps ==
    ASSUME ClaimSound, AccountsInv, NEW a \in Address, NEW n \in Nat, burn(a, n)
    PROVE  AccountsInv'
  <1>1. /\ wallet[a] >= n /\ wallet' = [wallet EXCEPT ![a] = @ - n]
        /\ supply' = supply - n /\ burned' = burned + n
        /\ wallet \in [Address -> Nat] /\ supply \in Int /\ burned \in Nat /\ direct \in Nat
        /\ UNCHANGED <<direct, earning>>
    BY DEF burn, ClaimSound, RewardsTypeOK
  <1>2. /\ a \in DOMAIN wallet /\ DOMAIN wallet' = DOMAIN wallet
        /\ \A y \in DOMAIN wallet \ {a} : wallet'[y] = wallet[y]
        /\ wallet[a] \in Nat /\ wallet'[a] = wallet[a] - n /\ wallet'[a] \in Nat
    BY <1>1
  <1>3. /\ IsFiniteSet(Units(wallet')) /\ Total(wallet) \in Nat /\ Total(wallet') \in Nat
        /\ Total(wallet') + wallet[a] = Total(wallet) + wallet'[a]
    BY <1>2, EntryChanged DEF AccountsInv
  <1>4. RecordInk' = RecordInk
    BY <1>1 DEF RecordInk
  <1> QED
    BY <1>1, <1>2, <1>3, <1>4 DEF AccountsInv

\* Every step keeps the accounts.
LEMMA AccountsKept == ClaimSound /\ AccountsInv /\ [RewardsNext]_rewardsVars => AccountsInv'
  <1> SUFFICES ASSUME ClaimSound, AccountsInv, [RewardsNext]_rewardsVars PROVE AccountsInv'
    OBVIOUS
  <1> USE DEF authority, money
  <1>1. CASE UNCHANGED <<wallet, supply, direct, burned, earning>>
    <2>1. RecordInk' = RecordInk
      BY <1>1 DEF RecordInk
    <2> QED
      BY <1>1, <2>1 DEF AccountsInv
  <1>2. ASSUME NEW a \in Address, NEW b \in Address, NEW n \in Amount, mint(a, b, n)
        PROVE  AccountsInv'
    <2>1. /\ minted(b, n) /\ direct' = direct + n
          /\ UNCHANGED <<burned, earning>>
      BY <1>2 DEF mint
    <2>2. n \in Nat /\ supply \in Int /\ direct \in Nat /\ burned \in Nat
      BY RewardsAssumption DEF ClaimSound, RewardsTypeOK
    <2>3. /\ IsFiniteSet(Units(wallet')) /\ supply' = Total(wallet')
          /\ supply' = supply + n
      BY <2>1, <2>2, MintedAdds
    <2>4. RecordInk' = RecordInk
      BY <2>1 DEF RecordInk
    <2> QED
      BY <2>1, <2>2, <2>3, <2>4 DEF AccountsInv
  <1>3. ASSUME NEW a \in Address, NEW b \in Address, NEW n \in Amount,
               sendInk(a, b, n) \/ burn(a, n)
        PROVE  AccountsInv'
    BY <1>3, RewardsAssumption, SentKeeps, BurnedKeeps
  <1>4. ASSUME NEW a \in Address, NEW b \in Address, NEW t \in Trigger, NEW k \in RecordKey,
               earnEntry(a, b, t, k)
        PROVE  AccountsInv'
    BY <1>4, LockedAdds DEF earnEntry
  <1>5. ASSUME NEW a \in Address, NEW s \in Suggestion, NEW k \in RecordKey,
               claim_reward(a, s, k)
        PROVE  AccountsInv'
    <2>1. suggestion[s].submitter \in Address
      BY <1>5 DEF claim_reward, ClaimSound, RewardsTypeOK, NoSuggestion
    <2>2. "submission" \in Trigger
      BY DEF Trigger
    <2> QED
      BY <1>5, <2>1, <2>2, LockedAdds DEF claim_reward
  <1>6. CASE \/ UNCHANGED rewardsVars
             \/ \E a, b \in Address : \/ grant(a, b) \/ revoke(a, b) \/ transferCap(a, b)
                                      \/ transferTreasury(a, b) \/ mintBadge(a, b)
             \/ \E a \in Address, s \in Suggestion :
                   create(a, s) \/ \E d \in {"approved", "rejected"} : decide(a, s, d)
    <2>1. UNCHANGED <<wallet, supply, direct, burned, earning>>
      BY <1>6 DEF rewardsVars, grant, revoke, transferCap, transferTreasury, mintBadge, create,
                  decide
    <2> QED
      BY <1>1, <2>1
  <1> QED
    BY <1>2, <1>3, <1>4, <1>5, <1>6 DEF RewardsNext

-----------------------------------------------------------------------------
(***************************************************************************)
(* A reader's own objects.                                                 *)
(***************************************************************************)

Record == [status : ReadStatus \cup {"none"}, chapter : Nat, last : Nat,
           completedAt : Nat \cup {Nil}]
Entry  == [chapter : Nat \cup {Nil}, submitted : BOOLEAN]

ShelvesTypeOK ==
    /\ library \in [Library -> Owner \cup {Nil}]
    /\ record \in [Library -> [SeriesId -> Record]]
    /\ journalOf \in [Journal -> Owner \cup {Nil}]
    /\ entry \in [Journal -> [EntryId -> Entry]]
    /\ epoch \in Nat

ShelvesInv == ShelvesTypeOK /\ RecordsDated

LEMMA ShelvesStart == ShelvesInit => ShelvesInv
  <1> SUFFICES ASSUME ShelvesInit PROVE ShelvesInv
    OBVIOUS
  <1> USE ShelvesAssumption DEF ShelvesInit, NoField, NoEntry
  <1>1. ShelvesTypeOK
    BY DEF ShelvesTypeOK, Record, Entry
  <1>2. RecordsDated
    BY DEF RecordsDated
  <1> QED
    BY <1>1, <1>2 DEF ShelvesInv

\* The date of completion that add_or_update_record writes.
LEMMA DatedOnce ==
    ASSUME ShelvesInv, NEW l \in Library, NEW s \in SeriesId, NEW st \in ReadStatus
    PROVE  LET r == record[l][s]
               d == dated(r, st)
           IN  /\ d \in Nat \cup {Nil} /\ (d # Nil => d <= epoch)
               /\ st = "completed" => d # Nil
               /\ d \in IF r.completedAt = Nil THEN {Nil, epoch} ELSE {r.completedAt}
               /\ r.last <= epoch
  <1> DEFINE r == record[l][s]
  <1>1. r \in Record /\ epoch \in Nat
    BY DEF ShelvesInv, ShelvesTypeOK
  <1>2. r.completedAt \in Nat \cup {Nil} /\ r.last \in Nat
    BY <1>1 DEF Record
  <1>3. (r.completedAt # Nil => r.completedAt <= r.last) /\ r.last <= epoch
    BY DEF ShelvesInv, RecordsDated
  <1> QED
    BY <1>1, <1>2, <1>3, ShelvesAssumption DEF dated

\* One step of a reader or an operator keeps the invariant and what must stand.
LEMMA RecordStep ==
    ASSUME ShelvesInv, NEW u \in Owner, NEW l \in Library, NEW s \in SeriesId,
           NEW st \in ReadStatus, NEW n \in Nat, add_or_update_record(u, l, s, st, n)
    PROVE  ShelvesInv' /\ ShelvesKept
  <1> DEFINE d == dated(record[l][s], st)
             r == [status |-> st, chapter |-> n, last |-> epoch, completedAt |-> d]
  <1>1. /\ library[l] = u /\ record' = [record EXCEPT ![l][s] = r]
        /\ UNCHANGED <<library, journalOf, entry, epoch>>
    BY DEF add_or_update_record
  <1>2. /\ d \in Nat \cup {Nil} /\ (d # Nil => d <= epoch)
        /\ st = "completed" => d # Nil
        /\ d \in IF record[l][s].completedAt = Nil THEN {Nil, epoch}
                                                   ELSE {record[l][s].completedAt}
        /\ record[l][s].last <= epoch
    BY DatedOnce
  <1> HIDE DEF d
  <1>3. epoch \in Nat /\ record \in [Library -> [SeriesId -> Record]]
    BY DEF ShelvesInv, ShelvesTypeOK
  <1>4. r \in Record /\ r.status = st /\ r.last = epoch /\ r.completedAt = d
    BY <1>2, <1>3 DEF Record
  <1> HIDE DEF r
  <1>5. record' \in [Library -> [SeriesId -> Record]]
    BY <1>1, <1>3, <1>4
  <1>6. \A m \in Library, z \in SeriesId :
           \/ m = l /\ z = s /\ record'[m][z] = r
           \/ record'[m][z] = record[m][z]
    BY <1>1, <1>3
  <1>7. library[l] # Nil
    BY <1>1, ShelvesAssumption
  <1>8. ShelvesTypeOK'
    BY <1>1, <1>5 DEF ShelvesInv, ShelvesTypeOK
  <1>9. RecordsDated'
    <2> SUFFICES ASSUME NEW m \in Library, NEW z \in SeriesId
                 PROVE  /\ record'[m][z].status = "completed" => record'[m][z].completedAt # Nil
                        /\ record'[m][z].completedAt # Nil
                              => record'[m][z].completedAt <= record'[m][z].last
                        /\ record'[m][z].last <= epoch'
                        /\ record'[m][z] # NoField => library'[m] # Nil
      BY <1>1 DEF ShelvesInv, RecordsDated
    <2>1. CASE m = l /\ z = s /\ record'[m][z] = r
      BY <1>1, <1>2, <1>3, <1>4, <1>7, <2>1
    <2>2. CASE record'[m][z] = record[m][z]
      BY <1>1, <2>2 DEF ShelvesInv, RecordsDated
    <2> QED
      BY <1>6, <2>1, <2>2
  <1>10. ShelvesKept
    <2>1. \A m \in Library, z \in SeriesId :
             /\ record'[m][z].completedAt \in
                   IF record[m][z].completedAt = Nil THEN {Nil, epoch}
                                                     ELSE {record[m][z].completedAt}
             /\ record[m][z].last <= record'[m][z].last
      <3> TAKE m \in Library, z \in SeriesId
      <3>1. record[m][z].last \in Nat
        BY <1>3 DEF Record
      <3>2. CASE m = l /\ z = s /\ record'[m][z] = r
        BY <1>2, <1>4, <3>2
      <3>3. CASE record'[m][z] = record[m][z]
        BY <3>1, <3>3
      <3> QED
        BY <1>6, <3>2, <3>3
    <2> QED
      BY <1>1, <2>1 DEF ShelvesKept
  <1> QED
    BY <1>8, <1>9, <1>10 DEF ShelvesInv

\* What a step leaves of a record it does not write.
LEMMA RecordsRest ==
    ASSUME ShelvesInv, UNCHANGED record
    PROVE  \A l \in Library, s \in SeriesId :
              /\ record'[l][s].completedAt \in
                    IF record[l][s].completedAt = Nil THEN {Nil, epoch}
                                                      ELSE {record[l][s].completedAt}
              /\ record[l][s].last <= record'[l][s].last
  <1> TAKE l \in Library, s \in SeriesId
  <1>1. record[l][s].last \in Nat
    BY DEF ShelvesInv, ShelvesTypeOK, Record
  <1> QED
    BY <1>1

LEMMA EntryStep ==
    ASSUME ShelvesInv, NEW u \in Owner, NEW j \in Journal, NEW e \in EntryId, NEW n \in Nat,
           add_entry(u, j, e, n) \/ update_entry(u, j, e, n) \/ mark_as_submitted(u, j, e)
    PROVE  ShelvesInv' /\ ShelvesKept
  <1>1. journalOf[j] = u /\ UNCHANGED <<library, record, journalOf, epoch>>
    BY DEF add_entry, update_entry, mark_as_submitted
  <1>2. entry \in [Journal -> [EntryId -> Entry]]
    BY DEF ShelvesInv, ShelvesTypeOK
  <1>3. PICK x \in Entry : /\ entry' = [entry EXCEPT ![j][e] = x] /\ x # NoEntry
                           /\ entry[j][e].submitted => x.submitted
    <2>1. entry[j][e] \in Entry
      BY <1>2
    <2>2. CASE add_entry(u, j, e, n)
      <3> DEFINE x == [chapter |-> n, submitted |-> FALSE]
      <3>1. entry' = [entry EXCEPT ![j][e] = x] /\ entry[j][e] = NoEntry
        BY <2>2 DEF add_entry
      <3>2. x \in Entry /\ x # NoEntry
        BY ShelvesAssumption DEF Entry, NoEntry
      <3>3. entry[j][e].submitted = FALSE
        BY <3>1 DEF NoEntry
      <3> HIDE DEF x
      <3> QED
        BY <3>1, <3>2, <3>3
    <2>3. CASE update_entry(u, j, e, n)
      <3> DEFINE x == [entry[j][e] EXCEPT !.chapter = n]
      <3>1. entry' = [entry EXCEPT ![j][e] = x]
        BY <1>2, <2>3 DEF update_entry
      <3>2. x \in Entry /\ x.submitted = entry[j][e].submitted /\ x.chapter = n
        BY <2>1 DEF Entry
      <3>3. x # NoEntry
        BY <3>2, ShelvesAssumption DEF NoEntry
      <3> QED
        BY <3>1, <3>2, <3>3
    <2>4. CASE mark_as_submitted(u, j, e)
      <3> DEFINE x == [entry[j][e] EXCEPT !.submitted = TRUE]
      <3>1. entry' = [entry EXCEPT ![j][e] = x]
        BY <1>2, <2>4 DEF mark_as_submitted
      <3>2. x \in Entry /\ x.submitted = TRUE
        BY <2>1 DEF Entry
      <3>3. x # NoEntry
        BY <3>2 DEF NoEntry
      <3> QED
        BY <3>1, <3>2, <3>3
    <2> QED
      BY <2>2, <2>3, <2>4
  <1>4. \A i \in Journal, f \in EntryId :
           \/ i = j /\ f = e /\ entry'[i][f] = x
           \/ entry'[i][f] = entry[i][f]
    BY <1>2, <1>3
  <1>5. journalOf[j] # Nil
    BY <1>1, ShelvesAssumption
  <1>6. ShelvesTypeOK'
    BY <1>1, <1>2, <1>3 DEF ShelvesInv, ShelvesTypeOK
  <1>7. RecordsDated'
    BY <1>1, <1>4, <1>5 DEF ShelvesInv, RecordsDated
  <1>8. ShelvesKept
    BY <1>1, <1>3, <1>4, RecordsRest DEF ShelvesKept
  <1> QED
    BY <1>6, <1>7, <1>8 DEF ShelvesInv

\* The steps that leave records and entries alone.
LEMMA OwnersStep ==
    ASSUME ShelvesInv,
           \/ nextEpoch
           \/ \E u \in Owner, l \in Library : create_library(l, u) \/ set_history_blob(u, l)
           \/ \E u \in Owner, j \in Journal : create_journal(j, u)
           \/ UNCHANGED shelvesVars
    PROVE  ShelvesInv' /\ ShelvesKept
  <1>1. /\ UNCHANGED <<record, entry>>
        /\ epoch' \in Nat /\ epoch <= epoch'
        /\ library' \in [Library -> Owner \cup {Nil}]
        /\ journalOf' \in [Journal -> Owner \cup {Nil}]
        /\ \A l \in Library : library[l] # Nil => library'[l] = library[l]
        /\ \A j \in Journal : journalOf[j] # Nil => journalOf'[j] = journalOf[j]
    BY DEF ShelvesInv, ShelvesTypeOK, nextEpoch, create_library, set_history_blob,
           create_journal, shelvesVars
  <1>2. ShelvesTypeOK'
    BY <1>1 DEF ShelvesInv, ShelvesTypeOK
  <1>3. \A l \in Library, s \in SeriesId : record[l][s].last \in Nat /\ epoch \in Nat
    BY DEF ShelvesInv, ShelvesTypeOK, Record
  <1>4. RecordsDated'
    BY <1>1, <1>3 DEF ShelvesInv, RecordsDated
  <1>5. ShelvesKept
    BY <1>1, RecordsRest DEF ShelvesKept
  <1> QED
    BY <1>2, <1>4, <1>5 DEF ShelvesInv

LEMMA ShelvesStep ==
    ShelvesInv /\ [ShelvesNext]_shelvesVars => ShelvesInv' /\ ShelvesKept
  <1> SUFFICES ASSUME ShelvesInv, [ShelvesNext]_shelvesVars PROVE ShelvesInv' /\ ShelvesKept
    OBVIOUS
  <1>1. 0..MaxChapterNo \subseteq Nat /\ 0 \in Nat
    OBVIOUS
  <1> QED
    BY <1>1, RecordStep, EntryStep, OwnersStep DEF ShelvesNext

-----------------------------------------------------------------------------
ObjectsInv == ClaimSound /\ AccountsInv /\ ShelvesInv

LEMMA ObjectsStart == ObjectsInit => ObjectsInv
  <1> SUFFICES ASSUME ObjectsInit PROVE ObjectsInv
    OBVIOUS
  <1>1. ClaimSound /\ ShelvesInv
    BY RewardsStart, ShelvesStart DEF ObjectsInit
  <1>2. \A a \in DOMAIN wallet : wallet[a] = 0
    BY DEF ObjectsInit, RewardsInit
  <1>3. \A k \in DOMAIN RecordInk : RecordInk[k] = 0
    BY DEF ObjectsInit, RewardsInit, RecordInk
  <1>4. supply = 0 /\ burned = 0 /\ direct = 0
    BY DEF ObjectsInit, RewardsInit
  <1> QED
    BY <1>1, <1>2, <1>3, <1>4, NoEntries DEF ObjectsInv, AccountsInv

LEMMA ObjectsStep ==
    ObjectsInv /\ [ObjectsNext]_objectsVars
       => ObjectsInv' /\ [RewardsKept /\ ShelvesKept]_objectsVars
  <1> SUFFICES ASSUME ObjectsInv, [ObjectsNext]_objectsVars
               PROVE  ObjectsInv' /\ [RewardsKept /\ ShelvesKept]_objectsVars
    OBVIOUS
  <1>1. [RewardsNext]_rewardsVars /\ [ShelvesNext]_shelvesVars
    BY DEF ObjectsNext, objectsVars
  <1>2. ClaimSound' /\ AccountsInv' /\ [RewardsKept]_rewardsVars
    BY <1>1, RewardsStepKeeps, AccountsKept, RewardsStepStands DEF ObjectsInv
  <1>3. ShelvesInv' /\ ShelvesKept
    BY <1>1, ShelvesStep DEF ObjectsInv
  <1>4. RewardsKept
    BY <1>2 DEF RewardsKept, rewardsVars, authority, money
  <1> QED
    BY <1>2, <1>3, <1>4 DEF ObjectsInv

\* Whatever is minted, handed on, claimed or burned, all INK is in some wallet and comes
\* from a locked key or a direct mint; and every completed reading is dated, in a library
\* that exists.
THEOREM ObjectsAreSound == ObjectsSpec => []ObjectsSound
  <1>1. ObjectsInv => ObjectsSound
    BY DEF ObjectsInv, AccountsInv, ShelvesInv, ObjectsSound, InkAccounted, RecordInk
  <1> QED
    BY <1>1, ObjectsStart, ObjectsStep, PTL DEF ObjectsSpec

\* No transaction takes back what was decided, locked, badged, dated or marked.
THEOREM ObjectsAreKept == ObjectsSpec => ObjectsKept
  BY ObjectsStart, ObjectsStep, PTL DEF ObjectsSpec, ObjectsKept
=============================================================================
