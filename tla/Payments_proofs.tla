--------------------------- MODULE Payments_proofs ---------------------------
(***************************************************************************)
(* Proofs about USDC tips and sends, for any number of presses, keys and   *)
(* transfers: what is shown as paid was paid, what was submitted is on     *)
(* record and settled, and paying twice for one press takes a fault.       *)
(*                                                                         *)
(* The argument: a key stands for one transfer, whoever uses it; what a    *)
(* handler's place says of its transfer and row (Placed); one tip runs at  *)
(* a time unless one was left running or given up (OneAtATime); and so     *)
(* an attempt that comes after another with its key finds the row          *)
(* settled and is refused (SecondIsTurnedAway).  The wallet page's sends   *)
(* and cards follow, with an invariant of their own (WalletInv).           *)
(***************************************************************************)
EXTENDS Payments, WalletPage, FiniteSetTheorems, TLAPS

Settled  == {"CONFIRMED", "FAILED"}
BeforeTx == {"idle", "find", "balance", "create", "built", "read", "execute", "refused"}
OnRecord == {"built", "read", "execute", "await", "confirm", "fail", "done", "error"}
Past     == {"await", "confirm", "fail", "done", "error"}
Spared   == {"find", "refused", "failed", "crashed"}
Busy     == Working \cup {"built"}

\* An attempt that was made has a key and a transfer.
Asks == \A a \in Attempt :
    IF pc[a] = "idle" THEN req[a] = NoLocals
                      ELSE req[a].key \in Key /\ req[a].transfer \in Transfer

\* Attempts with one key ask for one transfer, and so does the form while it keeps the key.
KeysAgree ==
    /\ \A a, b \in Attempt : req[a].key = req[b].key => req[a].transfer = req[b].transfer
    /\ keyRef # None =>
          asked \in Transfer /\ \A a \in Attempt : req[a].key = keyRef => req[a].transfer = asked

\* A row belongs to an attempt, and says what every attempt with its key asks for.
RowsAgree == \A k \in Key :
    /\ payment[k].status = "none" => payment[k] = NoRow
    /\ payment[k] # NoRow =>
          /\ \E a \in Attempt : req[a].key = k
          /\ \A a \in Attempt : req[a].key = k => req[a].transfer = payment[k].transfer

\* What the place of an attempt says of its transaction and its row.
Fits(place, t, q, rows) ==
    /\ place \in BeforeTx => t = "none"
    /\ place \in {"confirm", "done"} => t = "executed"
    /\ place \in OnRecord => rows[q.key] # NoRow
    /\ place = "balance" /\ q.existing => rows[q.key] # NoRow
    /\ t # "none" => rows[q.key] # NoRow
    /\ place \in {"done", "error"} => rows[q.key].status \in Settled

Placed == \A a \in Attempt : Fits(pc[a], tx[a], req[a], payment)

\* Unless a tip was left running, one flow runs at a time and shuts the button meanwhile.
OneAtATime ==
    /\ stage = "success" => txDigest \in Attempt
    /\ left = {} => \A a \in Flowing : Submitting /\ \A b \in Flowing : a = b

\* Once an attempt has got as far as its transaction, no other one with its key does.
SecondIsTurnedAway == left = {} => \A a, b \in Attempt :
    /\ a # b /\ req[a].key = req[b].key
    /\ a \notin timedOut /\ b \notin timedOut
    /\ pc[a] \in Past /\ pc[b] # "idle"
    => pc[b] \in Spared

IInv ==
    /\ TypeOK /\ Asks /\ KeysAgree /\ RowsAgree /\ Placed
    /\ ConfirmedIsPaid /\ OneAtATime /\ SecondIsTurnedAway

-----------------------------------------------------------------------------
\* Every step keeps the types.
LEMMA TypesKept == IInv /\ [Next]_vars => TypeOK'
  <1> SUFFICES ASSUME IInv, [Next]_vars PROVE TypeOK'
    OBVIOUS
  <1> USE DEF TypeOK, pageVars, chainVars, Working, Ended
  <1>0. TypeOK
    BY DEF IInv
  <1> DEFINE Rows   == [status : {"none", "PENDING", "CONFIRMED", "FAILED"},
                        transfer : Transfer \cup {None}, digest : Attempt \cup {None}]
             Locals == [key : Key \cup {None}, transfer : Transfer \cup {None},
                        existing : BOOLEAN]
  <1>1. ASSUME NEW a \in Attempt, Page(a)
        PROVE  TypeOK'
    <2>1. CASE handleSubmit(a)
      <3>1. keyRef' \in Key \cup {None} /\ asked' \in Transfer \cup {None}
        <4>1. CASE UNCHANGED <<keyRef, asked>>
          BY <1>0, <4>1
        <4>2. CASE keyRef' \in Key /\ asked' \in Transfer
          BY <4>2
        <4> QED
          BY <2>1, <4>1, <4>2 DEF handleSubmit
      <3> DEFINE l == [NoLocals EXCEPT !.key = keyRef', !.transfer = asked']
      <3>2. l \in Locals
        BY <3>1 DEF NoLocals
      <3>3. req' = [req EXCEPT ![a] = l]
        BY <2>1 DEF handleSubmit
      <3>4. req' \in [Attempt -> Locals]
        BY <1>0, <3>2, <3>3
      <3> QED
        BY <1>0, <2>1, <3>1, <3>4 DEF handleSubmit
    <2>2. CASE signAndConfirm(a) \/ clientTimesOut(a)
      BY <1>0, <2>2 DEF signAndConfirm, clientTimesOut
    <2>3. CASE signingFails(a)
      BY <1>0, <2>3 DEF signingFails, Show
    <2> QED
      BY <1>1, <2>1, <2>2, <2>3 DEF Page
  <1>2. ASSUME NEW a \in Attempt, Build(a)
        PROVE  TypeOK'
    <2>1. CASE findPayment(a)
      <3>1. CASE Refuse(a)
        BY <1>0, <3>1 DEF Refuse, Show
      <3>2. PICK e \in BOOLEAN :
               \/ Refuse(a)
               \/ /\ pc' = [pc EXCEPT ![a] = "balance"]
                  /\ req' = [req EXCEPT ![a].existing = e]
                  /\ UNCHANGED <<pageVars, payment, chainVars>>
        BY <2>1 DEF findPayment
      <3>3. CASE /\ pc' = [pc EXCEPT ![a] = "balance"]
                 /\ req' = [req EXCEPT ![a].existing = e]
                 /\ UNCHANGED <<pageVars, payment, chainVars>>
        <4>1. req' = [req EXCEPT ![a] = [req[a] EXCEPT !.existing = e]]
          BY <1>0, <3>3
        <4>2. req[a] \in Locals
          BY <1>0
        <4>3. [req[a] EXCEPT !.existing = e] \in Locals
          BY <4>2
        <4>4. req' \in [Attempt -> Locals]
          BY <1>0, <4>1, <4>3
        <4> QED
          BY <1>0, <3>3, <4>4
      <3> QED
        BY <3>1, <3>2, <3>3
    <2>2. CASE checkBalance(a)
      BY <1>0, <2>2 DEF checkBalance, Refuse, Show, Goto
    <2>3. CASE createPayment(a)
      BY <1>0, <2>3 DEF createPayment, NoRow
    <2> QED
      BY <1>2, <2>1, <2>2, <2>3 DEF Build
  <1>3. ASSUME NEW a \in Attempt, Confirm(a)
        PROVE  TypeOK'
    <2>1. CASE readPayment(a)
      BY <1>0, <2>1 DEF readPayment, Refuse, Show, Goto
    <2>2. CASE executeTransaction(a)
      BY <1>0, <2>2 DEF executeTransaction
    <2>3. CASE executeRefused(a) \/ replySuccess(a) \/ replyAborted(a) \/ replyLost(a)
      BY <1>0, <2>3 DEF executeRefused, replySuccess, replyAborted, replyLost, Goto
    <2>4. CASE markConfirmed(a) \/ markFailed(a)
      <3> DEFINE k == req[a].key
      <3>0. k \in Key /\ payment[k] \in Rows
        BY <1>0, <2>4 DEF markConfirmed, markFailed, IInv, Asks
      <3>1. PICK r \in Rows : payment' = [payment EXCEPT ![k] = r]
        <4>1. CASE markConfirmed(a)
          <5>1. [payment[k] EXCEPT !.status = "CONFIRMED", !.digest = a] \in Rows
            BY <3>0
          <5>2. payment' = [payment EXCEPT ![k] =
                               [payment[k] EXCEPT !.status = "CONFIRMED", !.digest = a]]
            BY <1>0, <3>0, <4>1 DEF markConfirmed
          <5> QED
            BY <5>1, <5>2
        <4>2. CASE markFailed(a)
          <5>1. [payment[k] EXCEPT !.status = "FAILED"] \in Rows
            BY <3>0
          <5>2. payment' = [payment EXCEPT ![k] = [payment[k] EXCEPT !.status = "FAILED"]]
            BY <1>0, <3>0, <4>2 DEF markFailed
          <5> QED
            BY <5>1, <5>2
        <4> QED
          BY <2>4, <4>1, <4>2
      <3>2. payment' \in [Key -> Rows]
        BY <1>0, <3>1
      <3> QED
        BY <1>0, <2>4, <3>2 DEF markConfirmed, markFailed, Show
    <2> QED
      BY <1>3, <2>1, <2>2, <2>3, <2>4 DEF Confirm
  <1>4. ASSUME NEW a \in Attempt, stepFails(a)
        PROVE  TypeOK'
    BY <1>0, <1>4 DEF stepFails, Show
  <1>5. ASSUME NEW a \in Attempt, Chain(a)
        PROVE  TypeOK'
    <2>1. CASE txRejected(a)
      BY <1>0, <2>1 DEF txRejected
    <2>2. CASE sendFunds(a) /\ usdc >= AmountOf[req[a].transfer]
      <3>1. AmountOf[req[a].transfer] \in Nat
        BY <2>2, PaymentAssumption DEF sendFunds, IInv, Placed, Fits, Asks, BeforeTx
      <3>2. usdc' \in Nat
        BY <1>0, <2>2, <3>1 DEF sendFunds
      <3> QED
        BY <1>0, <2>2, <3>2 DEF sendFunds
    <2>3. CASE sendFunds(a) /\ ~(usdc >= AmountOf[req[a].transfer])
      BY <1>0, <2>3 DEF sendFunds
    <2> QED
      BY <1>5, <2>1, <2>2, <2>3 DEF Chain
  <1>6. CASE openPage \/ changeAmount \/ Crash
    BY <1>0, <1>6 DEF openPage, changeAmount, Crash, Flowing
  <1>7. CASE UNCHANGED vars
    BY <1>0, <1>7 DEF vars
  <1> QED
    BY <1>1, <1>2, <1>3, <1>4, <1>5, <1>6, <1>7 DEF Next

-----------------------------------------------------------------------------
\* A row stays, says the same, and once settled is settled for good.
RowsGrow == \A k \in Key :
    /\ payment[k] # NoRow => payment'[k] # NoRow /\ payment'[k].transfer = payment[k].transfer
    /\ payment[k].status \in Settled => payment'[k].status \in Settled

\* What an attempt relies on survives rows that only grow.
LEMMA FitsGrows ==
    ASSUME RowsGrow, NEW place, NEW t, NEW q, q.key \in Key \/ (place = "idle" /\ t = "none"),
           Fits(place, t, q, payment)
    PROVE  Fits(place, t, q, payment')
  BY DEF RowsGrow, Fits, OnRecord, Settled

\* How the page takes a step of attempt a that leads to a place.
Follows(a, place) ==
    \/ UNCHANGED pageVars /\ place \in Busy
    \/ Show(a, "error") /\ place \in Ended
    \/ Show(a, "success") /\ place = "done"
    \/ /\ a \notin timedOut /\ place \in Busy
       /\ stage' = "confirming" /\ UNCHANGED <<txDigest, keyRef, asked, timedOut, left>>

\* A step of an attempt that is under way keeps the invariant: it goes to a place where it
\* fits, it gets past its transaction from "execute" only, and past "find" only on a row
\* that is not settled.
LEMMA StepOfAttempt ==
    ASSUME IInv, TypeOK', NEW a \in Attempt, NEW place \in Busy \cup Ended,
           pc[a] \in Busy, pc' = [pc EXCEPT ![a] = place],
           \/ req' = req
           \/ \E e \in BOOLEAN : req' = [req EXCEPT ![a] = [req[a] EXCEPT !.existing = e]],
           Follows(a, place),
           RowsGrow, RowsAgree',
           \A b \in Attempt \ {a} : tx'[b] = tx[b],
           tx[a] = "executed" => tx'[a] = "executed",
           Fits(place, tx'[a], req'[a], payment'),
           \A k \in Key : payment'[k].status = "CONFIRMED" =>
              \/ payment[k].status = "CONFIRMED" /\ payment'[k].digest = payment[k].digest
              \/ /\ k = req[a].key /\ payment'[k].digest = a /\ tx'[a] = "executed"
                 /\ payment'[k].transfer = req[a].transfer,
           place \in Past => pc[a] \in Past \cup {"execute"},
           place \notin Spared /\ pc[a] = "find" => payment[req[a].key].status \notin Settled
    PROVE  IInv'
  <1> USE DEF Busy, Working, Ended
  <1>0. /\ TypeOK /\ Asks /\ KeysAgree /\ RowsAgree /\ Placed
        /\ ConfirmedIsPaid /\ OneAtATime /\ SecondIsTurnedAway
    BY DEF IInv
  <1>1. /\ pc'[a] = place /\ \A b \in Attempt \ {a} : pc'[b] = pc[b]
        /\ pc[a] # "idle" /\ place # "idle"
    BY <1>0 DEF TypeOK
  <1>2. /\ \A b \in Attempt : req'[b].key = req[b].key /\ req'[b].transfer = req[b].transfer
        /\ \A b \in Attempt \ {a} : req'[b] = req[b]
    <2>1. CASE req' = req
      BY <2>1
    <2>2. CASE \E e \in BOOLEAN : req' = [req EXCEPT ![a] = [req[a] EXCEPT !.existing = e]]
      BY <1>0, <2>2 DEF TypeOK
    <2> QED
      BY <2>1, <2>2
  <1>3. /\ keyRef' = None \/ UNCHANGED <<keyRef, asked>>
        /\ UNCHANGED <<timedOut, left>>
        /\ a \in timedOut => UNCHANGED stage
    BY DEF Follows, Show, pageVars
  <1>f. /\ \A b \in Attempt : b \in Flowing <=> pc[b] \in Busy /\ b \notin timedOut
        /\ \A b \in Attempt : b \in Flowing' <=> pc'[b] \in Busy /\ b \notin timedOut
        /\ Flowing' \subseteq Flowing
    BY <1>1, <1>3 DEF Flowing
  <1>4. req[a].key \in Key /\ \A b \in Attempt : pc[b] # "idle" => req[b].key \in Key
    BY <1>0, <1>1 DEF Asks
  <1>5. Asks'
    BY <1>0, <1>1, <1>2 DEF Asks
  <1>6. KeysAgree'
    BY <1>0, <1>2, <1>3 DEF KeysAgree
  <1>7. Placed'
    <2> SUFFICES ASSUME NEW b \in Attempt
                 PROVE  Fits(pc'[b], tx'[b], req'[b], payment')
      BY DEF Placed
    <2>1. CASE b = a
      BY <1>1, <2>1
    <2>2. CASE b # a
      <3>1. Fits(pc[b], tx[b], req[b], payment)
        BY <1>0 DEF Placed
      <3>2. req[b].key \in Key \/ (pc[b] = "idle" /\ tx[b] = "none")
        BY <1>4, <3>1 DEF Fits, BeforeTx
      <3>3. Fits(pc[b], tx[b], req[b], payment')
        BY <3>1, <3>2, FitsGrows
      <3> QED
        BY <1>1, <1>2, <2>2, <3>3
    <2> QED
      BY <2>1, <2>2
  <1>8. ConfirmedIsPaid'
    <2>1. ASSUME NEW k \in Key, payment'[k].status = "CONFIRMED"
          PROVE  /\ payment'[k].digest \in Attempt
                 /\ tx'[payment'[k].digest] = "executed"
                 /\ req'[payment'[k].digest].key = k
                 /\ req'[payment'[k].digest].transfer = payment'[k].transfer
      <3>1. CASE payment[k].status = "CONFIRMED" /\ payment'[k].digest = payment[k].digest
        <4>1. payment[k] # NoRow
          BY <3>1 DEF NoRow
        <4>2. payment'[k].transfer = payment[k].transfer
          BY <4>1 DEF RowsGrow
        <4>3. /\ payment[k].digest \in Attempt /\ tx[payment[k].digest] = "executed"
              /\ req[payment[k].digest].key = k
              /\ req[payment[k].digest].transfer = payment[k].transfer
          BY <1>0, <3>1 DEF ConfirmedIsPaid
        <4>4. tx'[payment[k].digest] = "executed"
          BY <4>3
        <4> QED
          BY <1>2, <3>1, <4>2, <4>3, <4>4
      <3>2. CASE /\ k = req[a].key /\ payment'[k].digest = a /\ tx'[a] = "executed"
                 /\ payment'[k].transfer = req[a].transfer
        BY <1>2, <3>2
      <3> QED
        BY <2>1, <3>1, <3>2
    <2>2. stage' = "success" => tx'[txDigest'] = "executed"
      <3>1. CASE txDigest' = txDigest /\ stage = "success"
        BY <1>0, <3>1 DEF ConfirmedIsPaid, OneAtATime
      <3>2. CASE ~ (txDigest' = txDigest /\ stage = "success")
        BY <3>2 DEF Follows, Show, Fits, pageVars
      <3> QED
        BY <3>1, <3>2
    <2> QED
      BY <2>1, <2>2 DEF ConfirmedIsPaid
  <1>9. OneAtATime'
    <2>0. stage' = "success" => txDigest' \in Attempt
      BY <1>0 DEF OneAtATime, Follows, Show, pageVars
    <2> SUFFICES ASSUME left = {}, NEW b \in Flowing'
                 PROVE  Submitting' /\ \A c \in Flowing' : b = c
      BY <1>3, <2>0 DEF OneAtATime
    <2>1. Submitting /\ \A c \in Flowing : b = c
      BY <1>0, <1>f DEF OneAtATime
    <2>2. Submitting'
      <3>1. CASE a \in timedOut
        BY <1>3, <2>1, <3>1 DEF Submitting
      <3>2. CASE a \notin timedOut
        <4>1. b = a /\ place \in Busy
          BY <1>1, <1>f, <2>1, <3>2
        <4>2. place \notin Ended
          BY <4>1
        <4> QED
          BY <2>1, <4>1, <4>2 DEF Follows, pageVars, Submitting
      <3> QED
        BY <3>1, <3>2
    <2> QED
      BY <1>f, <2>1, <2>2
  <1>10. SecondIsTurnedAway'
    <2> SUFFICES ASSUME left = {},
                        NEW b \in Attempt, NEW c \in Attempt, b # c, req[b].key = req[c].key,
                        b \notin timedOut, c \notin timedOut,
                        pc'[b] \in Past, pc'[c] # "idle"
                 PROVE  pc'[c] \in Spared
      BY <1>2, <1>3 DEF SecondIsTurnedAway
    <2>1. pc[c] # "idle" /\ pc[b] # "idle"
      BY <1>1 DEF Past
    <2>2. CASE b = a
      <3>1. CASE pc[a] \in Past
        BY <1>0, <1>1, <2>1, <2>2, <3>1 DEF SecondIsTurnedAway
      <3>2. CASE pc[a] = "execute"
        <4>1. a \in Flowing
          BY <1>f, <2>2
        <4>2. pc[c] \notin Busy
          BY <1>0, <1>f, <2>2, <4>1 DEF OneAtATime
        <4>3. pc[c] \notin Past
          BY <1>0, <2>1, <2>2, <3>2 DEF SecondIsTurnedAway, Spared
        <4> QED
          BY <1>0, <1>1, <2>1, <2>2, <4>2, <4>3 DEF TypeOK, Past, Spared
      <3> QED
        BY <1>1, <2>2, <3>1, <3>2
    <2>3. CASE b # a
      <3>1. pc[b] \in Past
        BY <1>1, <2>3
      <3>2. pc[c] \in Spared
        BY <1>0, <2>1, <3>1 DEF SecondIsTurnedAway
      <3>3. CASE c # a
        BY <1>1, <3>2, <3>3
      <3>4. CASE c = a
        <4>1. pc[a] = "find"
          BY <3>2, <3>4 DEF Spared
        <4>2. a \in Flowing
          BY <1>f, <3>4
        <4>3. pc[b] \notin Busy
          BY <1>0, <1>f, <2>3, <4>2 DEF OneAtATime
        <4>4. pc[b] \in {"done", "error"}
          BY <3>1, <4>3 DEF Past
        <4>5. payment[req[b].key].status \in Settled
          BY <1>0, <4>4 DEF Placed, Fits
        <4> QED
          BY <1>1, <3>4, <4>1, <4>5
      <3> QED
        BY <3>3, <3>4
    <2> QED
      BY <2>2, <2>3
  <1> QED
    BY <1>5, <1>6, <1>7, <1>8, <1>9, <1>10 DEF IInv

\* A step that leaves the rows and the transactions alone.
LEMMA StepThatReads ==
    ASSUME IInv, TypeOK', NEW a \in Attempt, NEW place \in Busy \cup Ended,
           pc[a] \in Busy, pc' = [pc EXCEPT ![a] = place],
           \/ req' = req
           \/ \E e \in BOOLEAN : req' = [req EXCEPT ![a] = [req[a] EXCEPT !.existing = e]],
           Follows(a, place),
           UNCHANGED <<payment, chainVars>>,
           Fits(place, tx[a], req'[a], payment),
           place \in Past => pc[a] \in Past \cup {"execute"},
           place \notin Spared /\ pc[a] = "find" => payment[req[a].key].status \notin Settled
    PROVE  IInv'
  <1>1. UNCHANGED <<payment, tx>>
    BY DEF chainVars
  <1>2. RowsGrow
    BY <1>1 DEF RowsGrow
  <1>3. RowsAgree'
    <2>1. \A b \in Attempt : req'[b].key = req[b].key /\ req'[b].transfer = req[b].transfer
      <3>1. CASE req' = req
        BY <3>1
      <3>2. CASE \E e \in BOOLEAN : req' = [req EXCEPT ![a] = [req[a] EXCEPT !.existing = e]]
        BY <3>2 DEF IInv, TypeOK
      <3> QED
        BY <3>1, <3>2
    <2> QED
      BY <1>1, <2>1 DEF IInv, RowsAgree
  <1>4. Fits(place, tx'[a], req'[a], payment')
    BY <1>1
  <1> QED
    BY <1>1, <1>2, <1>3, <1>4, StepOfAttempt

\* A step that ends an attempt before its transaction.
LEMMA StepEnds ==
    ASSUME IInv, TypeOK', NEW a \in Attempt, NEW place \in {"refused", "failed"},
           pc[a] \in Busy, place = "refused" => pc[a] \in BeforeTx,
           pc' = [pc EXCEPT ![a] = place], Show(a, "error"),
           UNCHANGED <<payment, chainVars, req>>
    PROVE  IInv'
  <1>1. Fits(pc[a], tx[a], req[a], payment)
    BY DEF IInv, Placed
  <1>2. Fits(place, tx[a], req'[a], payment)
    BY <1>1 DEF Fits, BeforeTx, OnRecord
  <1>3. Follows(a, place)
    BY DEF Follows, Ended
  <1>4. place \in Busy \cup Ended /\ place \notin Past /\ place \in Spared
    BY DEF Ended, Past, Spared
  <1> QED
    BY <1>2, <1>3, <1>4, StepThatReads

\* A step that goes on, leaving everything but its place alone.
LEMMA StepGoesOn ==
    ASSUME IInv, TypeOK', NEW a \in Attempt, NEW place \in Busy,
           pc[a] \in Busy \ {"find"}, Goto(a, place),
           Fits(place, tx[a], req[a], payment),
           place \in Past => pc[a] \in Past \cup {"execute"}
    PROVE  IInv'
  <1>1. Follows(a, place)
    BY DEF Follows, Goto
  <1>2. pc' = [pc EXCEPT ![a] = place] /\ req' = req /\ UNCHANGED <<payment, chainVars>>
    BY DEF Goto
  <1> QED
    BY <1>1, <1>2, StepThatReads

-----------------------------------------------------------------------------
\* buildTipTransaction writes a row only where the key has none.
LEMMA BuildKeeps == ASSUME IInv, TypeOK', NEW a \in Attempt, Build(a) PROVE IInv'
  <1> DEFINE k == req[a].key
  <1>1. Fits(pc[a], tx[a], req[a], payment) /\ TypeOK /\ RowsAgree
    BY DEF IInv, Placed
  <1>2. pc[a] \in {"find", "balance", "create"}
    BY DEF Build, findPayment, checkBalance, createPayment
  <1>3. k \in Key /\ req[a].transfer \in Transfer /\ tx[a] = "none" /\ pc[a] \in Busy
    BY <1>1, <1>2 DEF IInv, Asks, Fits, BeforeTx, Busy, Working
  <1>4. ASSUME Refuse(a)
        PROVE  IInv'
    BY <1>2, <1>3, <1>4, StepEnds DEF Refuse, BeforeTx
  <1>5. CASE findPayment(a)
    <2> DEFINE existing == payment[k] # NoRow
    <2>1. CASE ~ Refuse(a)
      <3>1. /\ pc[a] = "find" /\ pc' = [pc EXCEPT ![a] = "balance"]
            /\ req' = [req EXCEPT ![a].existing = existing]
            /\ existing => payment[k].status = "PENDING"
            /\ UNCHANGED <<pageVars, payment, chainVars>>
        BY <1>5, <2>1 DEF findPayment
      <3>2. existing \in BOOLEAN
        OBVIOUS
      <3>3. /\ req' = [req EXCEPT ![a] = [req[a] EXCEPT !.existing = existing]]
            /\ req'[a].existing = existing /\ req'[a].key = k
        BY <1>1, <3>1, <3>2 DEF TypeOK
      <3>4. Fits("balance", tx[a], req'[a], payment)
        BY <1>3, <3>3 DEF Fits, BeforeTx, OnRecord
      <3>5. payment[k].status \notin Settled
        BY <3>1 DEF NoRow, Settled
      <3>6. "balance" \in Busy /\ "balance" \notin Past /\ Follows(a, "balance")
        BY <3>1 DEF Busy, Working, Past, Follows
      <3> HIDE DEF existing
      <3> QED
        BY <1>3, <3>1, <3>2, <3>3, <3>4, <3>5, <3>6, StepThatReads
    <2> QED
      BY <1>4, <2>1
  <1>6. CASE checkBalance(a)
    <2>1. PICK place \in {"built", "create"} :
             /\ pc[a] = "balance" /\ (Refuse(a) \/ Goto(a, place))
             /\ place = "built" => req[a].existing
      BY <1>6 DEF checkBalance
    <2>2. Fits(place, tx[a], req[a], payment)
      BY <1>1, <1>3, <2>1 DEF Fits, BeforeTx, OnRecord
    <2>3. place \in Busy /\ place \notin Past /\ pc[a] \in Busy \ {"find"}
      BY <2>1 DEF Busy, Working, Past
    <2> QED
      BY <1>4, <2>1, <2>2, <2>3, StepGoesOn
  <1>7. CASE createPayment(a)
    <2> DEFINE r == [NoRow EXCEPT !.status = "PENDING", !.transfer = req[a].transfer]
               row == IF payment[k] = NoRow THEN r ELSE payment[k]
    <2>1. /\ payment' = [payment EXCEPT ![k] = row]
          /\ pc[a] = "create" /\ pc' = [pc EXCEPT ![a] = "built"]
          /\ UNCHANGED <<pageVars, chainVars, req>>
      BY <1>7 DEF createPayment
    <2>2. /\ r # NoRow /\ r.status = "PENDING" /\ r.transfer = req[a].transfer
      BY DEF NoRow
    <2> HIDE DEF r
    <2>3. /\ payment'[k] = row /\ row # NoRow
          /\ \A j \in Key \ {k} : payment'[j] = payment[j]
      BY <1>1, <1>3, <2>1, <2>2 DEF TypeOK
    <2>4. RowsGrow
      BY <2>3 DEF RowsGrow, NoRow, Settled
    <2>5. \A b \in Attempt : req[b].key = k => req[b].transfer = req[a].transfer
      BY DEF IInv, KeysAgree
    <2>6. RowsAgree'
      <3> SUFFICES ASSUME NEW j \in Key
                   PROVE  /\ payment'[j].status = "none" => payment'[j] = NoRow
                          /\ payment'[j] # NoRow =>
                                /\ \E b \in Attempt : req'[b].key = j
                                /\ \A b \in Attempt : req'[b].key = j =>
                                      req'[b].transfer = payment'[j].transfer
        BY DEF RowsAgree
      <3>1. CASE j # k \/ payment[k] # NoRow
        BY <1>1, <2>1, <2>3, <3>1 DEF RowsAgree
      <3>2. CASE j = k /\ payment[k] = NoRow
        BY <2>1, <2>2, <2>3, <2>5, <3>2
      <3> QED
        BY <3>1, <3>2
    <2>7. \A j \in Key : payment'[j].status = "CONFIRMED" =>
             payment[j].status = "CONFIRMED" /\ payment'[j].digest = payment[j].digest
      BY <2>2, <2>3
    <2>8. Fits("built", tx'[a], req'[a], payment')
      BY <1>3, <2>1, <2>3 DEF Fits, BeforeTx, OnRecord, chainVars
    <2>9. "built" \in Busy /\ "built" \notin Past /\ Follows(a, "built")
      BY <2>1 DEF Busy, Past, Follows
    <2>10. tx' = tx /\ req' = req
      BY <2>1 DEF chainVars
    <2> HIDE DEF row
    <2> QED
      BY <1>3, <2>1, <2>4, <2>6, <2>7, <2>8, <2>9, <2>10, StepOfAttempt
  <1> QED
    BY <1>5, <1>6, <1>7 DEF Build

\* confirmTip settles the row as the transfer ended.
LEMMA ConfirmKeeps == ASSUME IInv, TypeOK', NEW a \in Attempt, Confirm(a) PROVE IInv'
  <1> DEFINE k == req[a].key
  <1>1. Fits(pc[a], tx[a], req[a], payment) /\ TypeOK /\ RowsAgree
    BY DEF IInv, Placed
  <1>2. pc[a] \in {"read", "execute", "await", "confirm", "fail"}
    BY DEF Confirm, readPayment, executeTransaction, executeRefused, replySuccess, replyAborted,
           replyLost, markConfirmed, markFailed
  <1>3. k \in Key /\ payment[k] # NoRow /\ pc[a] \in Busy \ {"find"}
    BY <1>1, <1>2 DEF IInv, Asks, Fits, OnRecord, Busy, Working
  <1>4. req[a].transfer = payment[k].transfer
    BY <1>1, <1>3 DEF RowsAgree
  <1>5. CASE readPayment(a)
    <2>1. pc[a] = "read" /\ (Refuse(a) \/ Goto(a, "execute"))
      BY <1>5 DEF readPayment
    <2>2. CASE Refuse(a)
      BY <1>3, <2>1, <2>2, StepEnds DEF Refuse, BeforeTx
    <2>3. CASE Goto(a, "execute")
      <3>1. Fits("execute", tx[a], req[a], payment)
        BY <1>1, <2>1 DEF Fits, BeforeTx, OnRecord
      <3>2. "execute" \in Busy /\ "execute" \notin Past
        BY DEF Busy, Working, Past
      <3> QED
        BY <1>3, <2>3, <3>1, <3>2, StepGoesOn
    <2> QED
      BY <2>1, <2>2, <2>3
  <1>6. CASE executeTransaction(a)
    <2>1. /\ pc[a] = "execute" /\ pc' = [pc EXCEPT ![a] = "await"]
          /\ tx' = [tx EXCEPT ![a] = "submitted"]
          /\ UNCHANGED <<pageVars, payment, req>>
      BY <1>6 DEF executeTransaction
    <2>2. tx'[a] = "submitted" /\ tx[a] = "none" /\ \A b \in Attempt \ {a} : tx'[b] = tx[b]
      BY <1>1, <2>1 DEF TypeOK, Fits, BeforeTx
    <2>3. RowsGrow /\ RowsAgree'
      BY <1>1, <2>1 DEF RowsGrow, RowsAgree
    <2>4. Fits("await", tx'[a], req'[a], payment')
      BY <1>3, <2>1 DEF Fits, BeforeTx
    <2>5. "await" \in Busy /\ Follows(a, "await") /\ "await" \in Past
      BY <2>1 DEF Busy, Working, Past, Follows
    <2> QED
      BY <1>3, <2>1, <2>2, <2>3, <2>4, <2>5, StepOfAttempt
  <1>7. CASE executeRefused(a) \/ replySuccess(a) \/ replyAborted(a) \/ replyLost(a)
    <2>1. PICK place \in {"confirm", "fail"} :
             /\ Goto(a, place)
             /\ pc[a] \in {"execute", "await"}
             /\ place = "confirm" => tx[a] = "executed"
      BY <1>7 DEF executeRefused, replySuccess, replyAborted, replyLost
    <2>2. Fits(place, tx[a], req[a], payment)
      BY <1>3, <2>1 DEF Fits, BeforeTx, OnRecord
    <2>3. place \in Busy /\ pc[a] \in Past \cup {"execute"}
      BY <2>1 DEF Busy, Working, Past
    <2> QED
      BY <1>3, <2>1, <2>2, <2>3, StepGoesOn
  <1>8. CASE markConfirmed(a)
    <2> DEFINE r == [payment[k] EXCEPT !.status = "CONFIRMED", !.digest = a]
    <2>1. /\ pc[a] = "confirm" /\ pc' = [pc EXCEPT ![a] = "done"]
          /\ Show(a, "success") /\ UNCHANGED <<chainVars, req>>
      BY <1>8 DEF markConfirmed
    <2>2. payment' = [payment EXCEPT ![k] = r]
      BY <1>1, <1>3, <1>8 DEF markConfirmed, TypeOK
    <2>3. r.status = "CONFIRMED" /\ r.digest = a /\ r.transfer = payment[k].transfer
      BY <1>1, <1>3 DEF TypeOK
    <2> HIDE DEF r
    <2>4. payment'[k] = r /\ r # NoRow /\ \A j \in Key \ {k} : payment'[j] = payment[j]
      BY <1>1, <1>3, <2>2, <2>3 DEF TypeOK, NoRow
    <2>5. RowsGrow
      BY <2>3, <2>4 DEF RowsGrow, Settled
    <2>6. RowsAgree'
      BY <1>1, <1>3, <2>1, <2>3, <2>4 DEF RowsAgree
    <2>7. tx[a] = "executed" /\ UNCHANGED tx
      BY <1>1, <2>1 DEF Fits, chainVars
    <2>8. Fits("done", tx'[a], req'[a], payment')
      BY <2>1, <2>3, <2>4, <2>7 DEF Fits, BeforeTx, Settled
    <2>9. "done" \in Ended /\ Follows(a, "done") /\ "done" \in Past /\ pc[a] \in Past
      BY <2>1 DEF Ended, Follows, Past
    <2>10. \A j \in Key : payment'[j].status = "CONFIRMED" =>
              \/ payment[j].status = "CONFIRMED" /\ payment'[j].digest = payment[j].digest
              \/ /\ j = k /\ payment'[j].digest = a /\ tx'[a] = "executed"
                 /\ payment'[j].transfer = req[a].transfer
      BY <1>4, <2>3, <2>4, <2>7
    <2> QED
      BY <1>3, <2>1, <2>5, <2>6, <2>7, <2>8, <2>9, <2>10, StepOfAttempt
  <1>9. CASE markFailed(a)
    <2> DEFINE r == [payment[k] EXCEPT !.status = "FAILED"]
    <2>1. /\ pc[a] = "fail" /\ pc' = [pc EXCEPT ![a] = "error"]
          /\ Show(a, "error") /\ UNCHANGED <<chainVars, req>>
      BY <1>9 DEF markFailed
    <2>2. payment' = [payment EXCEPT ![k] = r]
      BY <1>1, <1>3, <1>9 DEF markFailed, TypeOK
    <2>3. r.status = "FAILED" /\ r.transfer = payment[k].transfer
      BY <1>1, <1>3 DEF TypeOK
    <2> HIDE DEF r
    <2>4. payment'[k] = r /\ r # NoRow /\ \A j \in Key \ {k} : payment'[j] = payment[j]
      BY <1>1, <1>3, <2>2, <2>3 DEF TypeOK, NoRow
    <2>5. RowsGrow
      BY <2>3, <2>4 DEF RowsGrow, Settled
    <2>6. RowsAgree'
      BY <1>1, <1>3, <2>1, <2>3, <2>4 DEF RowsAgree
    <2>7. UNCHANGED tx
      BY <2>1 DEF chainVars
    <2>8. Fits("error", tx'[a], req'[a], payment')
      BY <2>1, <2>3, <2>4, <2>7 DEF Fits, BeforeTx, Settled
    <2>9. "error" \in Ended /\ Follows(a, "error") /\ "error" \in Past /\ pc[a] \in Past
      BY <2>1 DEF Ended, Follows, Past
    <2>10. \A j \in Key : payment'[j].status = "CONFIRMED" =>
              payment[j].status = "CONFIRMED" /\ payment'[j].digest = payment[j].digest
      BY <2>3, <2>4
    <2> QED
      BY <1>3, <2>1, <2>5, <2>6, <2>7, <2>8, <2>9, <2>10, StepOfAttempt
  <1> QED
    BY <1>5, <1>6, <1>7, <1>8, <1>9 DEF Confirm

-----------------------------------------------------------------------------
\* The tip button: a new attempt with the form's key, or with a new one.
LEMMA PressKeeps == ASSUME IInv, TypeOK', NEW a \in Attempt, handleSubmit(a) PROVE IInv'
  <1> DEFINE l == [NoLocals EXCEPT !.key = keyRef', !.transfer = asked']
  <1>0. /\ TypeOK /\ Asks /\ KeysAgree /\ RowsAgree /\ Placed
        /\ ConfirmedIsPaid /\ OneAtATime /\ SecondIsTurnedAway
    BY DEF IInv
  <1>1. /\ ~Submitting /\ pc[a] = "idle" /\ stage' = "building"
        /\ pc' = [pc EXCEPT ![a] = "find"] /\ req' = [req EXCEPT ![a] = l]
        /\ UNCHANGED <<timedOut, left, payment, tx>>
    BY DEF handleSubmit, chainVars
  <1>2. l.key = keyRef' /\ l.transfer = asked' /\ l.existing = FALSE
    BY DEF NoLocals
  <1> HIDE DEF l
  <1>3. /\ pc'[a] = "find" /\ req'[a] = l /\ req[a].key = None /\ tx[a] = "none"
        /\ \A b \in Attempt \ {a} : pc'[b] = pc[b] /\ req'[b] = req[b]
    BY <1>0, <1>1 DEF TypeOK, Asks, Placed, Fits, BeforeTx, NoLocals
  <1>4. /\ keyRef' \in Key /\ asked' \in Transfer
        /\ \A b \in Attempt : req[b].key = keyRef' => req[b].transfer = asked'
    <2>1. CASE keyRef # None /\ UNCHANGED <<keyRef, asked>>
      BY <1>0, <2>1 DEF KeysAgree, TypeOK
    <2>2. CASE /\ asked' \in Transfer
               /\ keyRef' \in {k \in Key : \A b \in Attempt : req[b].key # k}
      BY <2>2
    <2> QED
      BY <2>1, <2>2 DEF handleSubmit
  <1>5. None \notin Key
    BY PaymentAssumption
  <1>6. Asks'
    BY <1>0, <1>2, <1>3, <1>4 DEF Asks
  <1>7. KeysAgree'
    <2>1. \A b \in Attempt : req'[b].key = keyRef' => req'[b].transfer = asked'
      BY <1>2, <1>3, <1>4
    <2>2. ASSUME NEW b \in Attempt, NEW c \in Attempt, req'[b].key = req'[c].key
          PROVE  req'[b].transfer = req'[c].transfer
      BY <1>0, <1>2, <1>3, <2>1, <2>2 DEF KeysAgree
    <2> QED
      BY <1>4, <2>1, <2>2 DEF KeysAgree
  <1>8. RowsAgree'
    <2> SUFFICES ASSUME NEW k \in Key
                 PROVE  /\ payment'[k].status = "none" => payment'[k] = NoRow
                        /\ payment'[k] # NoRow =>
                              /\ \E b \in Attempt : req'[b].key = k
                              /\ \A b \in Attempt : req'[b].key = k =>
                                    req'[b].transfer = payment'[k].transfer
      BY DEF RowsAgree
    <2>1. payment'[k].status = "none" => payment'[k] = NoRow
      BY <1>0, <1>1 DEF RowsAgree
    <2>2. ASSUME payment[k] # NoRow
          PROVE  /\ \E b \in Attempt : req'[b].key = k
                 /\ \A b \in Attempt : req'[b].key = k => req'[b].transfer = payment[k].transfer
      <3>1. PICK b \in Attempt : req[b].key = k /\ req[b].transfer = payment[k].transfer
        BY <1>0, <2>2 DEF RowsAgree
      <3>2. b # a
        BY <1>3, <1>5, <3>1
      <3>3. req'[b].key = k
        BY <1>3, <3>1, <3>2
      <3>4. l.key = k => l.transfer = payment[k].transfer
        BY <1>2, <1>4, <3>1
      <3> QED
        BY <1>0, <1>3, <2>2, <3>3, <3>4 DEF RowsAgree
    <2> QED
      BY <1>1, <2>1, <2>2
  <1>9. Placed'
    BY <1>0, <1>1, <1>2, <1>3 DEF Placed, Fits, BeforeTx, OnRecord
  <1>10. ConfirmedIsPaid'
    <2>1. \A k \in Key : payment[k].status = "CONFIRMED" => payment[k].digest # a
      BY <1>0, <1>3 DEF ConfirmedIsPaid
    <2> QED
      BY <1>0, <1>1, <1>3, <2>1 DEF ConfirmedIsPaid
  <1>11. OneAtATime'
    <2>1. Flowing' \subseteq Flowing \cup {a}
      BY <1>1, <1>3 DEF Flowing
    <2>2. left = {} => Flowing = {}
      BY <1>0, <1>1 DEF OneAtATime
    <2> QED
      BY <1>1, <2>1, <2>2 DEF OneAtATime, Submitting
  <1>12. SecondIsTurnedAway'
    BY <1>0, <1>1, <1>3 DEF SecondIsTurnedAway, Past, Spared
  <1> QED
    BY <1>6, <1>7, <1>8, <1>9, <1>10, <1>11, <1>12 DEF IInv

\* The other steps of the page.
LEMMA PageKeeps == ASSUME IInv, TypeOK', NEW a \in Attempt, Page(a) PROVE IInv'
  <1>0. Fits(pc[a], tx[a], req[a], payment) /\ TypeOK
    BY DEF IInv, Placed
  <1>1. CASE signAndConfirm(a)
    <2>1. /\ pc[a] = "built" /\ pc' = [pc EXCEPT ![a] = "read"]
          /\ UNCHANGED <<payment, chainVars, req>>
      BY <1>1 DEF signAndConfirm
    <2>2. "read" \in Busy /\ "read" \notin Past /\ pc[a] \in Busy
      BY <2>1 DEF Busy, Working, Past
    <2>3. Follows(a, "read")
      BY <1>1, <2>2 DEF signAndConfirm, Follows
    <2>4. Fits("read", tx[a], req'[a], payment)
      BY <1>0, <2>1 DEF Fits, BeforeTx, OnRecord
    <2> QED
      BY <2>1, <2>2, <2>3, <2>4, StepThatReads
  <1>2. CASE signingFails(a)
    BY <1>2, StepEnds DEF signingFails, Busy, BeforeTx
  <1>3. CASE clientTimesOut(a)
    <2>1. /\ stage' = "error" /\ timedOut' = timedOut \cup {a} /\ a \in Flowing
          /\ UNCHANGED <<txDigest, keyRef, asked, left, payment, tx, pc, req>>
      BY <1>3 DEF clientTimesOut, chainVars, Flowing
    <2>2. /\ Asks' /\ KeysAgree' /\ RowsAgree' /\ Placed'
      BY <2>1 DEF IInv, Asks, KeysAgree, RowsAgree, Placed, Fits
    <2>3. ConfirmedIsPaid'
      BY <2>1 DEF IInv, ConfirmedIsPaid
    <2>4. SecondIsTurnedAway'
      BY <2>1 DEF IInv, SecondIsTurnedAway
    <2>5. OneAtATime'
      <3>1. Flowing' = Flowing \ {a}
        BY <2>1 DEF Flowing
      <3>2. left = {} => Flowing = {a}
        BY <2>1 DEF IInv, OneAtATime
      <3> QED
        BY <2>1, <3>1, <3>2 DEF OneAtATime
    <2> QED
      BY <2>2, <2>3, <2>4, <2>5 DEF IInv
  <1> QED
    BY <1>1, <1>2, <1>3, PressKeeps DEF Page

\* The page is opened anew, over what is running, or the amount is changed.
LEMMA FormKeeps == ASSUME IInv, TypeOK', openPage \/ changeAmount PROVE IInv'
  <1>1. /\ stage' # "success" \/ UNCHANGED <<stage, txDigest>>
        /\ keyRef' = None
        /\ UNCHANGED <<timedOut, payment, tx, pc, req>>
        /\ \/ left' = left \cup Flowing
           \/ UNCHANGED <<stage, left>>
    BY DEF openPage, changeAmount, chainVars
  <1>2. Asks' /\ KeysAgree' /\ RowsAgree' /\ Placed'
    BY <1>1 DEF IInv, Asks, KeysAgree, RowsAgree, Placed, Fits
  <1>3. ConfirmedIsPaid'
    BY <1>1 DEF IInv, ConfirmedIsPaid
  <1>4. left' = {} => left = {} /\ (Flowing = {} \/ UNCHANGED <<stage, left>>)
    BY <1>1
  <1>5. Flowing' = Flowing
    BY <1>1 DEF Flowing
  <1>6. OneAtATime' /\ SecondIsTurnedAway'
    BY <1>1, <1>4, <1>5 DEF IInv, OneAtATime, SecondIsTurnedAway, Submitting
  <1> QED
    BY <1>2, <1>3, <1>6 DEF IInv

-----------------------------------------------------------------------------
\* The chain decides, and the server dies.
LEMMA ChainKeeps == ASSUME IInv, TypeOK', NEW a \in Attempt, Chain(a) PROVE IInv'
  <1>1. PICK fate \in {"executed", "aborted", "rejected"} :
           /\ tx[a] = "submitted" /\ tx' = [tx EXCEPT ![a] = fate]
           /\ UNCHANGED <<pageVars, payment, pc, req>>
    BY DEF Chain, sendFunds, txRejected
  <1>2. tx'[a] = fate /\ \A b \in Attempt \ {a} : tx'[b] = tx[b]
    BY <1>1 DEF IInv, TypeOK
  <1>3. UNCHANGED <<stage, txDigest, keyRef, asked, timedOut, left, payment, pc, req>>
    BY <1>1 DEF pageVars
  <1>4. Asks' /\ KeysAgree' /\ RowsAgree' /\ OneAtATime' /\ SecondIsTurnedAway'
    BY <1>3 DEF IInv, Asks, KeysAgree, RowsAgree, OneAtATime, SecondIsTurnedAway, Submitting,
                Flowing
  <1>5. Placed'
    <2> SUFFICES ASSUME NEW b \in Attempt
                 PROVE  Fits(pc[b], tx'[b], req[b], payment)
      BY <1>3 DEF Placed
    <2>1. Fits(pc[b], tx[b], req[b], payment)
      BY DEF IInv, Placed
    <2> QED
      BY <1>1, <1>2, <2>1 DEF Fits
  <1>6. ConfirmedIsPaid'
    <2>1. \A b \in Attempt : tx[b] = "executed" => tx'[b] = "executed"
      BY <1>1, <1>2
    <2>2. stage = "success" => txDigest \in Attempt
      BY DEF IInv, OneAtATime
    <2> QED
      BY <1>3, <2>1, <2>2 DEF IInv, ConfirmedIsPaid
  <1> QED
    BY <1>4, <1>5, <1>6 DEF IInv

\* A crash of the server settles no row.
LEMMA CrashKeeps == ASSUME IInv, TypeOK', Crash PROVE IInv'
  <1>0. TypeOK
    BY DEF IInv
  <1>1. /\ \A b \in Attempt : pc'[b] = IF pc[b] \in Working THEN "crashed" ELSE pc[b]
        /\ UNCHANGED <<txDigest, keyRef, asked, timedOut, left, payment, tx, req>>
        /\ stage' = IF \E b \in Flowing : pc[b] \in Working THEN "error" ELSE stage
    BY DEF Crash, chainVars
  <1>2. "idle" \notin Working /\ "crashed" # "idle"
    BY DEF Working
  <1>3. Asks' /\ KeysAgree' /\ RowsAgree'
    BY <1>1, <1>2 DEF IInv, Asks, KeysAgree, RowsAgree
  <1>4. Placed'
    <2> SUFFICES ASSUME NEW b \in Attempt
                 PROVE  Fits(pc'[b], tx[b], req[b], payment)
      BY <1>1 DEF Placed
    <2>1. Fits(pc[b], tx[b], req[b], payment)
      BY DEF IInv, Placed
    <2> QED
      BY <1>1, <2>1 DEF Fits, BeforeTx, OnRecord
  <1>5. ConfirmedIsPaid'
    BY <1>1 DEF IInv, ConfirmedIsPaid
  <1>6. OneAtATime'
    <2>1. Flowing' = {b \in Flowing : pc[b] \notin Working}
      BY <1>1 DEF Flowing, Working
    <2>2. ASSUME left = {}, NEW b \in Flowing'
          PROVE  Submitting' /\ \A c \in Flowing' : b = c
      <3>1. \A c \in Flowing : c = b
        BY <2>1, <2>2 DEF IInv, OneAtATime
      <3> QED
        BY <1>1, <2>1, <2>2, <3>1 DEF IInv, OneAtATime, Submitting
    <2> QED
      BY <1>1, <2>2 DEF IInv, OneAtATime
  <1>7. SecondIsTurnedAway'
    BY <1>1 DEF IInv, SecondIsTurnedAway, Past, Spared, Working
  <1> QED
    BY <1>3, <1>4, <1>5, <1>6, <1>7 DEF IInv

-----------------------------------------------------------------------------
\* Nobody has pressed the button at first.
LEMMA InitSound == Init => IInv
  <1> SUFFICES ASSUME Init PROVE IInv
    OBVIOUS
  <1> USE DEF Init
  <1>1. TypeOK
    BY PaymentAssumption DEF TypeOK, NoRow, NoLocals
  <1>2. Asks /\ KeysAgree
    BY DEF Asks, KeysAgree, NoLocals
  <1>3. RowsAgree /\ Placed
    BY DEF RowsAgree, NoRow, Placed, Fits, BeforeTx, OnRecord
  <1>4. ConfirmedIsPaid
    BY DEF ConfirmedIsPaid, NoRow
  <1>5. OneAtATime /\ SecondIsTurnedAway
    BY DEF OneAtATime, SecondIsTurnedAway, Flowing, Working, Past
  <1> QED
    BY <1>1, <1>2, <1>3, <1>4, <1>5 DEF IInv

\* Every step keeps the invariant.
LEMMA StepKeeps == IInv /\ [Next]_vars => IInv'
  <1> SUFFICES ASSUME IInv, [Next]_vars PROVE IInv'
    OBVIOUS
  <1>0. TypeOK'
    BY TypesKept
  <1>1. ASSUME NEW a \in Attempt, stepFails(a)
        PROVE  IInv'
    BY <1>0, <1>1, StepEnds DEF stepFails, Busy
  <1>2. CASE UNCHANGED vars
    <2>1. UNCHANGED <<stage, txDigest, keyRef, asked, timedOut, left, payment, tx, pc, req>>
      BY <1>2 DEF vars, pageVars, chainVars
    <2>2. Asks' /\ KeysAgree' /\ RowsAgree' /\ Placed'
      BY <2>1 DEF IInv, Asks, KeysAgree, RowsAgree, Placed, Fits
    <2>3. ConfirmedIsPaid' /\ OneAtATime' /\ SecondIsTurnedAway'
      BY <2>1 DEF IInv, ConfirmedIsPaid, OneAtATime, SecondIsTurnedAway, Submitting, Flowing
    <2> QED
      BY <1>0, <2>2, <2>3 DEF IInv
  <1> QED
    BY <1>0, <1>1, <1>2, PageKeeps, FormKeeps, BuildKeeps, ConfirmKeeps, ChainKeeps,
       CrashKeeps DEF Next

\* In every behaviour the rows, the keys and the attempts fit each other (PaymentService).
THEOREM PaymentsAreSound == Spec => []IInv
  BY InitSound, StepKeeps, PTL DEF Spec

\* In every behaviour, what is shown as paid was paid: a CONFIRMED row names a transfer that
\* was executed for its key and for what it says (PaymentService.confirmTip).
THEOREM ConfirmedWasPaid == Spec => []ConfirmedSound
  <1>1. IInv => ConfirmedSound
    BY DEF IInv, ConfirmedSound
  <1> QED
    BY <1>1, PaymentsAreSound, PTL

\* In every behaviour, what was submitted has a row that says so, and the row is settled when
\* its handler has ended in good order.
THEOREM SubmittedIsKept == Spec => []SubmittedSound
  <1>1. IInv => SubmittedSound
    <2> SUFFICES ASSUME IInv, NEW a \in Attempt, tx[a] # "none"
                 PROVE  /\ payment[req[a].key].transfer = req[a].transfer
                        /\ pc[a] \in Ended \ {"failed", "crashed"} =>
                              payment[req[a].key].status \in {"CONFIRMED", "FAILED"}
      BY DEF SubmittedSound, SubmittedIsOnRecord, SubmittedIsSettled
    <2>1. Fits(pc[a], tx[a], req[a], payment)
      BY DEF IInv, Placed
    <2>2. req[a].key \in Key
      BY <2>1 DEF IInv, Asks, Fits, BeforeTx
    <2> QED
      BY <2>1, <2>2 DEF IInv, RowsAgree, Fits, Ended, BeforeTx, Settled
  <1> QED
    BY <1>1, PaymentsAreSound, PTL

\* In every behaviour, paying twice for one press takes a time-out of the client, a failed
\* query, a crash, or a tip left running when the page was opened anew.
THEOREM PayingTwiceTakesAFault == Spec => []PaidTwiceOnlyByFault
  <1>1. IInv => PaidTwiceOnlyByFault
    <2> SUFFICES ASSUME IInv, NEW a \in Attempt, NEW b \in Attempt, a # b,
                        tx[a] = "executed", tx[b] = "executed", req[a].key = req[b].key,
                        a \notin timedOut, b \notin timedOut,
                        pc[a] \notin {"failed", "crashed"}, pc[b] \notin {"failed", "crashed"},
                        left = {}
                 PROVE  FALSE
      BY DEF PaidTwiceOnlyByFault
    <2>1. TypeOK /\ Fits(pc[a], tx[a], req[a], payment) /\ Fits(pc[b], tx[b], req[b], payment)
      BY DEF IInv, Placed
    <2>2. pc[a] \notin BeforeTx /\ pc[b] \notin BeforeTx
      BY <2>1 DEF Fits
    <2>3. pc[a] \in Past
      BY <2>1, <2>2 DEF TypeOK, Working, Ended, BeforeTx, Past
    <2>4. pc[b] \in Spared
      BY <2>2, <2>3 DEF IInv, SecondIsTurnedAway, BeforeTx
    <2> QED
      BY <2>2, <2>4 DEF Spared, BeforeTx
  <1> QED
    BY <1>1, PaymentsAreSound, PTL

-----------------------------------------------------------------------------
(***************************************************************************)
(* The wallet page's sends and cards.                                      *)
(***************************************************************************)
SendPlace == {"idle", "find", "create", "built", "read", "execute", "await", "sent", "fail",
              "ended"}
Told == {Nobody} \cup [page : Nat, amount : Nat]

WalletTypes ==
    /\ sendOpen \in BOOLEAN /\ sendStage \in {"idle", "working", "success", "error"}
    /\ sentBy \in 0 .. MaxPresses /\ sendKeyRef \in 0 .. MaxPresses
    /\ form \in Parcel \cup {Nobody} /\ page \in Nat
    /\ card \in [Card -> [told : Told, loading : BOOLEAN, failed : BOOLEAN]]
    /\ reads \subseteq [card : Card, page : Nat, told : Told, number : Nat]
    /\ send \in [Press -> [pc : SendPlace, key : 0 .. MaxPresses,
                           what : Parcel \cup {Nobody}, visit : Nat]]
    /\ waiting \subseteq Press
    /\ sendRow \in [Press -> [status : {"none", "PENDING", "CONFIRMED", "FAILED"},
                              what : Parcel \cup {Nobody}, digest : 0 .. MaxPresses]]
    /\ coins \in Nat /\ earned \in Nat
    /\ moved \in [Press -> {"none", "submitted", "executed", "aborted"}]
    /\ walletVisits \in Nat /\ readCount \in Nat /\ walletFaults \in Nat
    /\ faulted \subseteq Press /\ strayed \in BOOLEAN /\ passed \subseteq Card

\* A press that was made names its key and its parcel; one that was not has moved nothing.
Asked == \A f \in Press :
    IF send[f].pc = "idle" THEN moved[f] = "none" /\ f \notin waiting
    ELSE send[f].what \in Parcel /\ send[f].key \in Press

\* What reads that begin leave.
LEMMA ReadTypes ==
    ASSUME WalletTypes, NEW ks, ks \subseteq Card, NEW p \in Nat, Read(ks, p)
    PROVE  /\ readCount' \in Nat /\ passed' \subseteq Card
           /\ card' \in [Card -> [told : Told, loading : BOOLEAN, failed : BOOLEAN]]
           /\ reads' \subseteq [card : Card, page : Nat, told : Told, number : Nat]
  <1>a. passed \subseteq Card /\ readCount \in Nat
    BY DEF WalletTypes
  <1>b. reads \subseteq [card : Card, page : Nat, told : Told, number : Nat]
    BY DEF WalletTypes
  <1>1. ASSUME NEW k \in ks
        PROVE  [card |-> k, page |-> p, told |-> Nobody, number |-> readCount]
                  \in [card : Card, page : Nat, told : Told, number : Nat]
    BY <1>1, <1>a DEF Told
  <1>2. reads' = reads \cup {[card |-> k, page |-> p, told |-> Nobody, number |-> readCount] : k \in ks}
    BY DEF Read
  <1>3. reads' \subseteq [card : Card, page : Nat, told : Told, number : Nat]
    BY <1>1, <1>2, <1>b
  <1>4. ASSUME NEW k \in Card
        PROVE  (IF k \in ks THEN [card[k] EXCEPT !.loading = TRUE, !.failed = FALSE] ELSE card[k])
                  \in [told : Told, loading : BOOLEAN, failed : BOOLEAN]
    <2>1. card[k] \in [told : Told, loading : BOOLEAN, failed : BOOLEAN]
      BY DEF WalletTypes
    <2> QED
      BY <2>1
  <1>5. card' \in [Card -> [told : Told, loading : BOOLEAN, failed : BOOLEAN]]
    BY <1>4 DEF Read
  <1>6. readCount' \in Nat
    <2>1. readCount' = readCount + 1
      BY DEF Read
    <2> QED
      BY <1>a, <2>1
  <1>7. passed' \subseteq Card
    BY <1>a DEF Read
  <1> QED
    BY <1>3, <1>5, <1>6, <1>7

\* What the end of a send tells the page and the store.
LEMMA ToldDoes ==
    ASSUME WalletTypes, NEW f \in Press, NEW outcome \in {"success", "error"}, told(f, outcome)
    PROVE  /\ waiting' = waiting \ {f} /\ sendStage' = outcome /\ UNCHANGED <<sendOpen, page>>
           /\ outcome = "success" => sentBy' = f
           /\ outcome = "error" => sentBy' = sentBy
           /\ outcome = "success" /\ send[f].visit = walletVisits =>
                 sendKeyRef' = 0 /\ form' = Nobody
           /\ ~(outcome = "success" /\ send[f].visit = walletVisits) =>
                 sendKeyRef' = sendKeyRef /\ form' = form
           /\ readCount' \in Nat /\ passed' \subseteq Card
           /\ card' \in [Card -> [told : Told, loading : BOOLEAN, failed : BOOLEAN]]
           /\ reads' \subseteq [card : Card, page : Nat, told : Told, number : Nat]
           /\ Read({"usdc"}, 0)
  <1>1. Read({"usdc"}, 0)
    BY DEF told
  <1>2. /\ readCount' \in Nat /\ passed' \subseteq Card
        /\ card' \in [Card -> [told : Told, loading : BOOLEAN, failed : BOOLEAN]]
        /\ reads' \subseteq [card : Card, page : Nat, told : Told, number : Nat]
    BY <1>1, ReadTypes DEF Card
  <1> QED
    BY <1>1, <1>2 DEF told

\* The dialog's variables, the cards and what the client waits for keep their types when a
\* send ends.
ClientTypes ==
    /\ sendOpen \in BOOLEAN /\ sendStage \in {"idle", "working", "success", "error"}
    /\ sentBy \in 0 .. MaxPresses /\ sendKeyRef \in 0 .. MaxPresses
    /\ form \in Parcel \cup {Nobody} /\ page \in Nat
    /\ card \in [Card -> [told : Told, loading : BOOLEAN, failed : BOOLEAN]]
    /\ reads \subseteq [card : Card, page : Nat, told : Told, number : Nat]
    /\ waiting \subseteq Press /\ readCount \in Nat /\ passed \subseteq Card

LEMMA EndsTypes ==
    ASSUME WalletTypes, NEW f \in Press, NEW outcome \in {"success", "error"}, Ends(f, outcome)
    PROVE  ClientTypes'
  <1>1. CASE f \in waiting
    <2>1. told(f, outcome)
      BY <1>1 DEF Ends
    <2>a. 0 \in 0 .. MaxPresses /\ f \in 0 .. MaxPresses
      BY WalletAssumption DEF Press
    <2>b. sentBy \in 0 .. MaxPresses /\ sendKeyRef \in 0 .. MaxPresses
      BY DEF WalletTypes
    <2>c. (sentBy' = f \/ sentBy' = sentBy) /\ (sendKeyRef' = 0 \/ sendKeyRef' = sendKeyRef)
      BY <2>1 DEF told
    <2>2. sentBy' \in 0 .. MaxPresses /\ sendKeyRef' \in 0 .. MaxPresses
      BY <2>a, <2>b, <2>c
    <2> QED
      BY <2>1, <2>2, ToldDoes DEF ClientTypes, WalletTypes
  <1>2. CASE f \notin waiting
    BY <1>2 DEF Ends, dialogVars, cardVars, ClientTypes, WalletTypes
  <1> QED
    BY <1>1, <1>2

\* A send that moves to another place keeps its type.
LEMMA PlacedSend ==
    ASSUME NEW f \in Press, NEW place \in SendPlace,
           send \in [Press -> [pc : SendPlace, key : 0 .. MaxPresses,
                               what : Parcel \cup {Nobody}, visit : Nat]]
    PROVE  [send EXCEPT ![f].pc = place]
              \in [Press -> [pc : SendPlace, key : 0 .. MaxPresses,
                             what : Parcel \cup {Nobody}, visit : Nat]]
  <1> DEFINE Row == [pc : SendPlace, key : 0 .. MaxPresses,
                     what : Parcel \cup {Nobody}, visit : Nat]
             row == [send[f] EXCEPT !.pc = place]
  <1>1. send[f] \in Row
    OBVIOUS
  <1>2. row \in Row
    BY <1>1
  <1>3. [send EXCEPT ![f].pc = place] = [send EXCEPT ![f] = row]
    OBVIOUS
  <1> HIDE DEF Row, row
  <1> QED
    BY <1>2, <1>3 DEF Row

LEMMA WalletTypesKept == WalletTypes /\ Asked /\ [WalletNext]_walletVars => WalletTypes'
  <1> SUFFICES ASSUME WalletTypes, Asked, [WalletNext]_walletVars PROVE WalletTypes'
    OBVIOUS
  <1>0. 0 \in 0 .. MaxPresses
    BY WalletAssumption
  <1> USE DEF WalletTypes, walletVars, dialogVars, cardVars, serverVars
  <1>1. CASE UNCHANGED walletVars
    BY <1>1
  <1>2. CASE openWallet \/ openCreatorWallet
    <2>1. PICK ks \in SUBSET Card, p \in Nat : mountWallet(ks, p)
      BY <1>2 DEF openWallet, openCreatorWallet, Card
    <2>2. Read(ks, p)
      BY <2>1 DEF mountWallet
    <2>3. /\ readCount' \in Nat /\ passed' \subseteq Card
          /\ card' \in [Card -> [told : Told, loading : BOOLEAN, failed : BOOLEAN]]
          /\ reads' \subseteq [card : Card, page : Nat, told : Told, number : Nat]
      BY <2>2, ReadTypes
    <2>4. /\ sendOpen' = FALSE /\ sendKeyRef' = 0 /\ form' = Nobody /\ page' = p
          /\ walletVisits' = walletVisits + 1
      BY <2>1 DEF mountWallet
    <2>5. strayed' \in BOOLEAN
      BY <2>1 DEF mountWallet
    <2>6. UNCHANGED <<sendStage, sentBy, send, waiting, sendRow, coins, moved, earned,
                      walletFaults, faulted>>
      BY <2>1 DEF mountWallet
    <2>7. /\ sendOpen' \in BOOLEAN /\ sendKeyRef' \in 0 .. MaxPresses
          /\ form' \in Parcel \cup {Nobody} /\ page' \in Nat /\ walletVisits' \in Nat
      <3>1. walletVisits \in Nat /\ p \in Nat
        BY <2>1
      <3>2. walletVisits' \in Nat
        BY <2>4, <3>1
      <3>3. sendOpen' \in BOOLEAN /\ page' \in Nat
        BY <2>4, <3>1
      <3>4. sendKeyRef' \in 0 .. MaxPresses
        BY <1>0, <2>4
      <3>5. form' \in Parcel \cup {Nobody}
        BY <2>4
      <3> QED
        BY <3>2, <3>3, <3>4, <3>5
    <2> QED
      BY <2>3, <2>5, <2>6, <2>7
  <1>3. CASE SendModal
    <2>1. CASE openSend \/ handleClose \/ resetSend
      BY <1>0, <2>1 DEF openSend, handleClose, resetSend
    <2>2. ASSUME NEW f \in Press, NEW t \in Parcel, handleSend(f, t)
          PROVE  WalletTypes'
      <3>1. keyFor(f, t) \in 0 .. MaxPresses
        BY DEF keyFor, Press
      <3>2. [pc |-> "find", key |-> keyFor(f, t), what |-> t, visit |-> walletVisits]
               \in [pc : SendPlace, key : 0 .. MaxPresses, what : Parcel \cup {Nobody}, visit : Nat]
        BY <3>1 DEF SendPlace
      <3> QED
        BY <1>0, <2>2, <3>1, <3>2 DEF handleSend
    <2> QED
      BY <1>3, <2>1, <2>2 DEF SendModal
  <1>4. CASE earnElsewhere
    BY <1>4 DEF earnElsewhere, Card
  <1>5. ASSUME NEW p \in 1 .. MaxEarned, setPage(p)
        PROVE  WalletTypes'
    <2>1. Read({"ledger"}, p) /\ page' = p /\ p \in Nat
      BY <1>5, WalletAssumption DEF setPage
    <2>2. /\ readCount' \in Nat /\ passed' \subseteq Card
          /\ card' \in [Card -> [told : Told, loading : BOOLEAN, failed : BOOLEAN]]
          /\ reads' \subseteq [card : Card, page : Nat, told : Told, number : Nat]
      BY <2>1, ReadTypes DEF Card
    <2>3. UNCHANGED <<sendOpen, sendStage, sentBy, sendKeyRef, form, send, waiting, sendRow,
                      coins, moved, earned, walletVisits, walletFaults, faulted, strayed>>
      BY <1>5 DEF setPage
    <2> QED
      BY <2>1, <2>2, <2>3
  <1>6. ASSUME NEW k \in Card, retryRead(k)
        PROVE  WalletTypes'
    <2>1. Read({k}, page) /\ page' = page
      BY <1>6 DEF retryRead
    <2>2. /\ readCount' \in Nat /\ passed' \subseteq Card
          /\ card' \in [Card -> [told : Told, loading : BOOLEAN, failed : BOOLEAN]]
          /\ reads' \subseteq [card : Card, page : Nat, told : Told, number : Nat]
      BY <2>1, ReadTypes
    <2>3. UNCHANGED <<sendOpen, sendStage, sentBy, sendKeyRef, form, send, waiting, sendRow,
                      coins, moved, earned, walletVisits, walletFaults, faulted, strayed>>
      BY <1>6 DEF retryRead
    <2> QED
      BY <2>1, <2>2, <2>3
  <1>7. ASSUME NEW r \in reads, serveRead(r) \/ readAnswered(r) \/ loseRead(r)
        PROVE  WalletTypes'
    <2>1. r \in [card : Card, page : Nat, told : Told, number : Nat]
      OBVIOUS
    <2>2. CASE serveRead(r)
      <3>1. Truth(r.card, r.page) \in Told
        BY <2>1 DEF Truth, Told
      <3>2. [r EXCEPT !.told = Truth(r.card, r.page)]
               \in [card : Card, page : Nat, told : Told, number : Nat]
        BY <2>1, <3>1
      <3> QED
        BY <2>2, <3>2 DEF serveRead
    <2>3. CASE readAnswered(r)
      BY <2>1, <2>3 DEF readAnswered
    <2>4. CASE loseRead(r)
      <3>1. card[r.card] \in [told : Told, loading : BOOLEAN, failed : BOOLEAN] /\ r.card \in Card
        BY <2>1
      <3>2. [card[r.card] EXCEPT !.failed = TRUE, !.loading = FALSE]
               \in [told : Told, loading : BOOLEAN, failed : BOOLEAN]
        BY <3>1
      <3>3. card' = [card EXCEPT ![r.card] = [card[r.card] EXCEPT !.failed = TRUE, !.loading = FALSE]]
        BY <2>4, <3>1 DEF loseRead
      <3> QED
        BY <2>4, <3>2, <3>3 DEF loseRead
    <2> QED
      BY <1>7, <2>2, <2>3, <2>4
  <1>8. ASSUME NEW f \in Press,
               \/ signSend(f) \/ signingExpired(f) \/ findSend(f) \/ createSend(f) \/ readSend(f)
               \/ executeSend(f) \/ replySent(f) \/ sendAborted(f) \/ markSent(f)
               \/ markSendFailed(f) \/ clientGivesUp(f) \/ handlerFails(f) \/ sendReplyLost(f)
               \/ moveFunds(f)
        PROVE  WalletTypes'
    <2>1. ASSUME NEW outcome \in {"success", "error"}, Ends(f, outcome)
          PROVE  /\ ClientTypes' /\ UNCHANGED <<walletVisits, strayed>>
                 /\ send' \in [Press -> [pc : SendPlace, key : 0 .. MaxPresses,
                                         what : Parcel \cup {Nobody}, visit : Nat]]
      <3>1. send' = [send EXCEPT ![f].pc = "ended"] /\ UNCHANGED <<walletVisits, strayed>>
        BY <2>1 DEF Ends
      <3> QED
        BY <2>1, <3>1, EndsTypes DEF SendPlace
    <2>2. ASSUME NEW place \in SendPlace, Moves(f, place)
          PROVE  /\ ClientTypes'
                 /\ UNCHANGED <<walletVisits, strayed, walletFaults, faulted>>
                 /\ send' \in [Press -> [pc : SendPlace, key : 0 .. MaxPresses,
                                         what : Parcel \cup {Nobody}, visit : Nat]]
      <3>1. /\ send' = [send EXCEPT ![f].pc = place]
            /\ UNCHANGED <<dialogVars, cardVars, waiting>>
            /\ UNCHANGED <<walletVisits, strayed, walletFaults, faulted>>
        BY <2>2 DEF Moves
      <3>2. ClientTypes'
        BY <3>1 DEF ClientTypes
      <3>3. send \in [Press -> [pc : SendPlace, key : 0 .. MaxPresses,
                                what : Parcel \cup {Nobody}, visit : Nat]]
        OBVIOUS
      <3> QED
        BY <3>1, <3>2, <3>3, PlacedSend
    <2>3. Fault(f) => walletFaults' \in Nat /\ faulted' \subseteq Press
      BY DEF Fault
    <2>4. CASE signSend(f)
      BY <2>4 DEF signSend, SendPlace
    <2>5. CASE signingExpired(f)
      BY <2>1, <2>5 DEF signingExpired, ClientTypes
    <2>6. CASE findSend(f)
      BY <2>1, <2>2, <2>6 DEF findSend, ClientTypes, SendPlace
    <2>7. CASE createSend(f)
      BY <2>2, <2>7 DEF createSend, ClientTypes, SendPlace, NoSend
    <2>8. CASE readSend(f)
      BY <2>1, <2>2, <2>8 DEF readSend, ClientTypes, SendPlace
    <2>9. CASE executeSend(f)
      BY <2>2, <2>9 DEF executeSend, ClientTypes, SendPlace
    <2>10. CASE replySent(f) \/ sendAborted(f)
      BY <2>2, <2>10 DEF replySent, sendAborted, ClientTypes, SendPlace
    <2>11. CASE markSent(f)
      <3>1. Ends(f, "success") /\ f \in 0 .. MaxPresses
        BY <2>11 DEF markSent, Press
      <3>2. sendRow' \in [Press -> [status : {"none", "PENDING", "CONFIRMED", "FAILED"},
                                     what : Parcel \cup {Nobody}, digest : 0 .. MaxPresses]]
        <4> DEFINE k == send[f].key
                   row == [sendRow[k] EXCEPT !.status = "CONFIRMED", !.digest = f]
        <4>1. k \in Press
          BY <2>11 DEF markSent, Asked
        <4>2. row \in [status : {"none", "PENDING", "CONFIRMED", "FAILED"},
                       what : Parcel \cup {Nobody}, digest : 0 .. MaxPresses]
          <5>1. sendRow[k] \in [status : {"none", "PENDING", "CONFIRMED", "FAILED"},
                                what : Parcel \cup {Nobody}, digest : 0 .. MaxPresses]
            BY <4>1
          <5> QED
            BY <5>1, <3>1
        <4>3. sendRow' = [sendRow EXCEPT ![k] = row]
          BY <2>11, <4>1 DEF markSent
        <4> HIDE DEF k, row
        <4> QED
          BY <4>1, <4>2, <4>3
      <3> QED
        BY <2>1, <2>11, <3>1, <3>2 DEF markSent, ClientTypes
    <2>12. CASE markSendFailed(f)
      BY <2>1, <2>12 DEF markSendFailed, ClientTypes
    <2>13. CASE clientGivesUp(f)
      <3>1. told(f, "error")
        BY <2>13 DEF clientGivesUp
      <3> QED
        BY <2>3, <2>13, <3>1, ToldDoes DEF clientGivesUp
    <2>14. CASE handlerFails(f)
      BY <2>1, <2>3, <2>14 DEF handlerFails, ClientTypes
    <2>15. CASE sendReplyLost(f)
      BY <2>3, <2>15 DEF sendReplyLost, SendPlace
    <2>16. CASE moveFunds(f)
      <3>1. Cost[send[f].what] \in Nat
        BY <2>16, WalletAssumption DEF moveFunds, Asked
      <3>2. coins' \in Nat /\ moved' \in [Press -> {"none", "submitted", "executed", "aborted"}]
        <4>1. moved' \in [Press -> {"none", "submitted", "executed", "aborted"}]
          BY <2>16 DEF moveFunds
        <4>2. coins' \in Nat
          BY <2>16, <3>1 DEF moveFunds
        <4> QED
          BY <4>1, <4>2
      <3> QED
        BY <2>16, <3>2 DEF moveFunds, Card
    <2> QED
      BY <1>8, <2>4, <2>5, <2>6, <2>7, <2>8, <2>9, <2>10, <2>11, <2>12, <2>13, <2>14, <2>15, <2>16
  <1> QED
    BY <1>1, <1>2, <1>3, <1>4, <1>5, <1>6, <1>7, <1>8 DEF WalletNext

-----------------------------------------------------------------------------
(***************************************************************************)
(* The invariant behind WalletSound: the sends in order, what each has     *)
(* moved, its key and its row, and, unless a send was left running, one    *)
(* send at a time; and each card of the page with at most one read.        *)
(***************************************************************************)
Pressed(f) == send[f].pc # "idle"

\* The presses made are the first ones, so the next is a new one.
Front == \E n \in 0 .. MaxPresses : \A f \in Press : Pressed(f) <=> f <= n

\* What a send has moved, by the place it stands at.
MovedAt(f) ==
    /\ send[f].pc \in {"idle", "find", "create", "built", "read", "execute"} => moved[f] = "none"
    /\ send[f].pc = "await" => moved[f] # "none"
    /\ send[f].pc = "sent" => moved[f] = "executed"
    /\ f \notin faulted =>
          /\ send[f].pc = "fail" => moved[f] = "aborted"
          /\ send[f].pc = "ended" => moved[f] # "submitted"

\* A key was drawn by a press that was made, and names one parcel: that of the page's form
\* while the page still has the key.
KeysDrawn ==
    /\ \A f \in Press : Pressed(f) =>
          Pressed(send[f].key) /\ send[send[f].key].key = send[f].key
    /\ \A f, g \in Press : Pressed(f) /\ Pressed(g) /\ send[f].key = send[g].key
          => send[f].what = send[g].what
    /\ sendKeyRef # 0 =>
          /\ Pressed(sendKeyRef) /\ send[sendKeyRef].key = sendKeyRef
          /\ \A f \in Press : Pressed(f) /\ send[f].key = sendKeyRef => send[f].what = form

\* A request past its build found or made the row of its key, a row is for the parcel of the
\* press that drew the key, and one that says CONFIRMED names a transfer that was executed.
RowsHeld ==
    /\ \A f \in Press : send[f].pc \in {"built", "read", "execute", "await", "sent", "fail"}
          => sendRow[send[f].key] # NoSend
    /\ \A k \in Press : sendRow[k] # NoSend =>
          Pressed(k) /\ send[k].key = k /\ sendRow[k].what = send[k].what
    /\ \A k \in Press : sendRow[k].status = "CONFIRMED" =>
          \E f \in Press : /\ f = sendRow[k].digest /\ moved[f] = "executed"
                           /\ send[f].key = k /\ send[f].what = sendRow[k].what

Shown == sendStage = "success" => sentBy \in Press /\ moved[sentBy] = "executed"

\* The client waits for one send at a time, whose key the page has; one it no longer waits
\* for has ended, and the page has forgotten its key if it paid.
OneWaits ==
    /\ \A f \in waiting : /\ sendStage = "working" /\ waiting = {f}
                          /\ sendKeyRef = send[f].key /\ send[f].visit = walletVisits
    /\ \A f \in Press : Pressed(f) /\ f \notin waiting /\ f \notin faulted =>
          send[f].pc = "ended" /\ (moved[f] = "executed" => sendKeyRef # send[f].key)

\* Of two sends with one key that met no fault, one at most is paid or on its way.
PaysOnce ==
    \A f, g \in Press \ faulted : f # g /\ send[f].key = send[g].key =>
        ~(moved[f] \in {"submitted", "executed"} /\ moved[g] \in {"submitted", "executed"})

\* A card that was not overtaken has one read at most, which tells the truth or has yet to
\* be served; without one it shows the truth or an error.
Current(k) ==
    /\ \A r, s \in reads : r.card = k /\ s.card = k => r = s
    /\ \A r \in reads : r.card = k =>
          /\ k = "ledger" => r.page = page
          /\ r.told # Nobody => r.told = Truth(k, page)
    /\ (\A r \in reads : r.card # k) => card[k].failed \/ card[k].told = Truth(k, page)

CardsCurrent ==
    walletVisits > 0 =>
        \A k \in onPage \ passed : (k = "usdc" => waiting = {}) => Current(k)

WalletInv ==
    /\ WalletTypes /\ Asked /\ Front /\ (\A f \in Press : MovedAt(f)) /\ KeysDrawn /\ RowsHeld
    /\ Shown /\ (~strayed => OneWaits /\ PaysOnce) /\ CardsCurrent

-----------------------------------------------------------------------------
Built == {"built", "read", "execute", "await", "sent", "fail"}

\* How a step of press f changes the sends: its own place and fate, in the order of the code.
Walks(f) ==
    /\ \A g \in Press \ {f} : send'[g] = send[g] /\ moved'[g] = moved[g]
    /\ send'[f].key = send[f].key /\ send'[f].what = send[f].what /\ send'[f].visit = send[f].visit
    /\ send[f].pc # "idle" /\ send'[f].pc # "idle"
    /\ \/ /\ faulted' = faulted /\ moved'[f] = moved[f]
          /\ \/ send[f].pc = "find" /\ send'[f].pc \in {"create", "built", "ended"}
             \/ send[f].pc = "create" /\ send'[f].pc = "built"
             \/ send[f].pc = "built" /\ send'[f].pc \in {"read", "ended"}
             \/ send[f].pc = "read" /\ send'[f].pc \in {"execute", "ended"}
             \/ send[f].pc = "await" /\ send'[f].pc = "sent" /\ moved[f] = "executed"
             \/ send[f].pc = "await" /\ send'[f].pc = "fail" /\ moved[f] = "aborted"
             \/ send[f].pc \in {"sent", "fail"} /\ send'[f].pc = "ended"
       \/ /\ faulted' = faulted /\ moved'[f] = "submitted"
          /\ send[f].pc = "execute" /\ send'[f].pc = "await"
       \/ /\ faulted' = faulted /\ moved[f] = "submitted" /\ moved'[f] \in {"executed", "aborted"}
          /\ send'[f].pc = send[f].pc
       \/ /\ faulted' = faulted \cup {f} /\ moved'[f] = moved[f]
          /\ \/ send'[f].pc \in {send[f].pc, "ended"}
             \/ send[f].pc \in {"execute", "await"} /\ send'[f].pc = "fail"

\* What a step of press f tells the page: nothing, or how the send ended.
Tells(f) ==
    /\ UNCHANGED <<strayed, walletVisits>>
    /\ \/ /\ UNCHANGED <<waiting, sendStage, sentBy, sendKeyRef, form>>
          /\ f \in waiting => send'[f].pc # "ended" \/ send[f].pc = "ended"
       \/ /\ f \in waiting /\ sendStage' = "working" /\ send'[f].pc = "read"
          /\ UNCHANGED <<waiting, sentBy, sendKeyRef, form>>
       \/ /\ f \in waiting /\ told(f, "error")
          /\ f \in faulted' \/ (send'[f].pc = "ended" /\ send[f].pc # "sent")
       \/ /\ f \in waiting /\ told(f, "success") /\ send[f].pc = "sent" /\ send'[f].pc = "ended"

\* What it does to the rows.
RowStep(f) ==
    \/ /\ sendRow' = sendRow
       /\ send'[f].pc \in Built => \/ send[f].pc \in Built
                                   \/ sendRow[send[f].key].what = send[f].what
    \/ /\ send[f].pc = "create" /\ send'[f].pc = "built"
       /\ sendRow' = [sendRow EXCEPT ![send[f].key] =
             IF @ = NoSend THEN [NoSend EXCEPT !.status = "PENDING", !.what = send[f].what] ELSE @]
    \/ /\ send[f].pc = "sent" /\ send'[f].pc = "ended"
       /\ sendRow' = [sendRow EXCEPT ![send[f].key].status = "CONFIRMED",
                                     ![send[f].key].digest = f]
    \/ /\ send[f].pc = "fail" /\ send'[f].pc = "ended"
       /\ sendRow' = [sendRow EXCEPT ![send[f].key].status = "FAILED"]

LEMMA PressStep ==
    ASSUME WalletTypes, Asked, NEW f \in Press,
           \/ signSend(f) \/ signingExpired(f) \/ findSend(f) \/ createSend(f) \/ readSend(f)
           \/ executeSend(f) \/ replySent(f) \/ sendAborted(f) \/ markSent(f)
           \/ markSendFailed(f) \/ clientGivesUp(f) \/ handlerFails(f) \/ sendReplyLost(f)
           \/ moveFunds(f)
    PROVE  Walks(f) /\ Tells(f) /\ RowStep(f)
  <1>a. send \in [Press -> [pc : SendPlace, key : 0 .. MaxPresses,
                            what : Parcel \cup {Nobody}, visit : Nat]]
        /\ moved \in [Press -> {"none", "submitted", "executed", "aborted"}]
    BY DEF WalletTypes
  <1>b. ASSUME NEW place \in SendPlace, place # "idle",
               send' = [send EXCEPT ![f].pc = place]
        PROVE  /\ \A g \in Press \ {f} : send'[g] = send[g]
               /\ send'[f].key = send[f].key /\ send'[f].what = send[f].what
               /\ send'[f].visit = send[f].visit /\ send'[f].pc = place
    BY <1>a, <1>b
  <1>c. ASSUME NEW outcome \in {"success", "error"}, Ends(f, outcome)
        PROVE  /\ \A g \in Press \ {f} : send'[g] = send[g]
               /\ send'[f].key = send[f].key /\ send'[f].what = send[f].what
               /\ send'[f].visit = send[f].visit /\ send'[f].pc = "ended"
               /\ UNCHANGED <<strayed, walletVisits>>
               /\ \/ f \in waiting /\ told(f, outcome)
                  \/ f \notin waiting /\ UNCHANGED <<waiting, sendStage, sentBy, sendKeyRef, form>>
    <2>1. send' = [send EXCEPT ![f].pc = "ended"]
      BY <1>c DEF Ends
    <2>2. /\ UNCHANGED <<strayed, walletVisits>>
          /\ \/ f \in waiting /\ told(f, outcome)
             \/ f \notin waiting /\ UNCHANGED <<waiting, sendStage, sentBy, sendKeyRef, form>>
      BY <1>c DEF Ends, dialogVars
    <2> QED
      BY <1>b, <2>1, <2>2 DEF SendPlace
  <1>d. ASSUME NEW place \in SendPlace, place # "idle", Moves(f, place)
        PROVE  /\ \A g \in Press \ {f} : send'[g] = send[g]
               /\ send'[f].key = send[f].key /\ send'[f].what = send[f].what
               /\ send'[f].visit = send[f].visit /\ send'[f].pc = place
               /\ UNCHANGED <<strayed, walletVisits, waiting, sendStage, sentBy, sendKeyRef, form,
                              faulted>>
    <2>1. send' = [send EXCEPT ![f].pc = place]
          /\ UNCHANGED <<strayed, walletVisits, waiting, sendStage, sentBy, sendKeyRef, form,
                         faulted>>
      BY <1>d DEF Moves, dialogVars
    <2> QED
      BY <1>b, <1>d, <2>1
  <1>e. /\ "create" \in SendPlace /\ "built" \in SendPlace /\ "read" \in SendPlace
        /\ "execute" \in SendPlace /\ "await" \in SendPlace /\ "sent" \in SendPlace
        /\ "fail" \in SendPlace /\ "ended" \in SendPlace
    BY DEF SendPlace
  <1>1. CASE signSend(f)
    <2>1. /\ send' = [send EXCEPT ![f].pc = "read"] /\ send[f].pc = "built" /\ f \in waiting
          /\ sendStage' = "working"
          /\ UNCHANGED <<strayed, walletVisits, waiting, sentBy, sendKeyRef, form, faulted, moved,
                         sendRow>>
      BY <1>1 DEF signSend, serverVars
    <2>2. /\ \A g \in Press \ {f} : send'[g] = send[g]
          /\ send'[f].key = send[f].key /\ send'[f].what = send[f].what
          /\ send'[f].visit = send[f].visit /\ send'[f].pc = "read"
      BY <1>b, <1>e, <2>1
    <2> QED
      BY <2>1, <2>2 DEF Walks, Tells, RowStep, Built
  <1>2. CASE signingExpired(f)
    <2>1. /\ Ends(f, "error") /\ send[f].pc \in {"find", "built"}
          /\ UNCHANGED <<faulted, moved, sendRow>>
      BY <1>2 DEF signingExpired, serverVars
    <2> QED
      BY <1>c, <2>1 DEF Walks, Tells, RowStep, Built
  <1>3. CASE findSend(f)
    <2>1. send[f].pc = "find" /\ UNCHANGED <<faulted, moved, sendRow>>
      BY <1>3 DEF findSend, Moves, serverVars
    <2>2. CASE Ends(f, "error")
      BY <1>c, <2>1, <2>2 DEF Walks, Tells, RowStep, Built
    <2>3. CASE Moves(f, "create")
      BY <1>d, <1>e, <2>1, <2>3 DEF Walks, Tells, RowStep, Built
    <2>4. CASE Moves(f, "built") /\ sendRow[send[f].key].what = send[f].what
      BY <1>d, <1>e, <2>1, <2>4 DEF Walks, Tells, RowStep, Built
    <2> QED
      BY <1>3, <2>2, <2>3, <2>4 DEF findSend
  <1>4. CASE createSend(f)
    <2>1. /\ send[f].pc = "create" /\ Moves(f, "built") /\ UNCHANGED moved
          /\ sendRow' = [sendRow EXCEPT ![send[f].key] =
                IF @ = NoSend THEN [NoSend EXCEPT !.status = "PENDING", !.what = send[f].what] ELSE @]
      BY <1>4 DEF createSend
    <2> QED
      BY <1>d, <1>e, <2>1 DEF Walks, Tells, RowStep
  <1>5. CASE readSend(f)
    <2>1. /\ send[f].pc = "read" /\ UNCHANGED <<faulted, moved, sendRow>>
          /\ Moves(f, "execute") \/ Ends(f, "error")
      BY <1>5 DEF readSend, Moves, serverVars
    <2> QED
      BY <1>c, <1>d, <1>e, <2>1 DEF Walks, Tells, RowStep, Built
  <1>6. CASE executeSend(f)
    <2>1. /\ send[f].pc = "execute" /\ Moves(f, "await") /\ sendRow' = sendRow
          /\ moved' = [moved EXCEPT ![f] = "submitted"]
      BY <1>6 DEF executeSend
    <2>2. moved'[f] = "submitted" /\ \A g \in Press \ {f} : moved'[g] = moved[g]
      BY <1>a, <2>1
    <2> QED
      BY <1>d, <1>e, <2>1, <2>2 DEF Walks, Tells, RowStep, Built
  <1>7. CASE replySent(f)
    <2>1. /\ send[f].pc = "await" /\ moved[f] = "executed" /\ Moves(f, "sent")
          /\ UNCHANGED <<moved, sendRow>>
      BY <1>7 DEF replySent, serverVars
    <2> QED
      BY <1>d, <1>e, <2>1 DEF Walks, Tells, RowStep, Built
  <1>8. CASE sendAborted(f)
    <2>1. /\ send[f].pc = "await" /\ moved[f] = "aborted" /\ Moves(f, "fail")
          /\ UNCHANGED <<moved, sendRow>>
      BY <1>8 DEF sendAborted, serverVars
    <2> QED
      BY <1>d, <1>e, <2>1 DEF Walks, Tells, RowStep, Built
  <1>9. CASE markSent(f)
    <2>1. /\ send[f].pc = "sent" /\ Ends(f, "success") /\ UNCHANGED <<moved, faulted>>
          /\ sendRow' = [sendRow EXCEPT ![send[f].key].status = "CONFIRMED",
                                        ![send[f].key].digest = f]
      BY <1>9 DEF markSent
    <2> QED
      BY <1>c, <2>1 DEF Walks, Tells, RowStep
  <1>10. CASE markSendFailed(f)
    <2>1. /\ send[f].pc = "fail" /\ Ends(f, "error") /\ UNCHANGED <<moved, faulted>>
          /\ sendRow' = [sendRow EXCEPT ![send[f].key].status = "FAILED"]
      BY <1>10 DEF markSendFailed
    <2> QED
      BY <1>c, <2>1 DEF Walks, Tells, RowStep
  <1>11. CASE clientGivesUp(f)
    <2>1. /\ send[f].pc \in Serving /\ told(f, "error") /\ f \in waiting
          /\ faulted' = faulted \cup {f}
          /\ UNCHANGED <<send, sendRow, moved, walletVisits, strayed>>
      BY <1>11 DEF clientGivesUp, Fault, serverVars
    <2> QED
      BY <2>1 DEF Walks, Tells, RowStep, Serving
  <1>12. CASE handlerFails(f)
    <2>1. /\ send[f].pc \in Serving /\ Ends(f, "error") /\ faulted' = faulted \cup {f}
          /\ UNCHANGED <<sendRow, moved>>
      BY <1>12 DEF handlerFails, Fault, serverVars
    <2>2. send[f].pc # "idle" /\ f \in faulted'
      BY <2>1 DEF Serving
    <2> QED
      BY <1>c, <2>1, <2>2 DEF Walks, Tells, RowStep, Serving, Built
  <1>13. CASE sendReplyLost(f)
    <2>1. /\ send[f].pc \in {"execute", "await"} /\ faulted' = faulted \cup {f}
          /\ send' = [send EXCEPT ![f].pc = "fail"]
          /\ UNCHANGED <<sendRow, moved, strayed, walletVisits, waiting, sendStage, sentBy,
                         sendKeyRef, form>>
      BY <1>13 DEF sendReplyLost, Fault, serverVars, dialogVars
    <2> QED
      BY <1>b, <1>e, <2>1 DEF Walks, Tells, RowStep, Built
  <1>14. CASE moveFunds(f)
    <2>1. /\ moved[f] = "submitted"
          /\ \/ moved' = [moved EXCEPT ![f] = "executed"]
             \/ moved' = [moved EXCEPT ![f] = "aborted"]
          /\ UNCHANGED <<send, sendRow, faulted, strayed, walletVisits, waiting, sendStage, sentBy,
                         sendKeyRef, form>>
      BY <1>14 DEF moveFunds, dialogVars
    <2>2. /\ \A g \in Press \ {f} : moved'[g] = moved[g]
          /\ moved'[f] \in {"executed", "aborted"}
      BY <1>a, <2>1
    <2>3. send[f].pc # "idle"
      BY <2>1 DEF Asked
    <2> QED
      BY <2>1, <2>2, <2>3 DEF Walks, Tells, RowStep
  <1> QED
    BY <1>1, <1>2, <1>3, <1>4, <1>5, <1>6, <1>7, <1>8, <1>9, <1>10, <1>11, <1>12, <1>13, <1>14

\* The page and the dialog move, a press apart: no send, row or wait changes.
PageMoves ==
    /\ UNCHANGED <<send, moved, sendRow, waiting, faulted>>
    /\ \/ UNCHANGED <<sendStage, sentBy, sendKeyRef, form, walletVisits, strayed>>
       \/ /\ sendKeyRef' = 0 /\ strayed' = (strayed \/ waiting # {})
          /\ UNCHANGED <<sendStage, sentBy>> \/ sendStage' = "idle"
       \/ /\ sendStage = "error" /\ sendStage' = "idle"
          /\ UNCHANGED <<sendKeyRef, form, walletVisits, strayed>>

LEMMA PageStep ==
    ASSUME \/ openWallet \/ openCreatorWallet \/ openSend \/ handleClose \/ resetSend
           \/ earnElsewhere
           \/ \E p \in 1 .. MaxEarned : setPage(p)
           \/ \E k \in Card : retryRead(k)
           \/ \E r \in reads : serveRead(r) \/ readAnswered(r) \/ loseRead(r)
           \/ UNCHANGED walletVars
    PROVE  PageMoves
  <1> USE DEF PageMoves, dialogVars, serverVars
  <1>1. CASE openWallet \/ openCreatorWallet
    BY <1>1 DEF openWallet, openCreatorWallet, mountWallet
  <1>2. CASE openSend \/ handleClose \/ resetSend
    BY <1>2 DEF openSend, handleClose, resetSend
  <1>3. CASE earnElsewhere
    BY <1>3 DEF earnElsewhere
  <1>4. CASE \E p \in 1 .. MaxEarned : setPage(p)
    BY <1>4 DEF setPage
  <1>5. CASE \E k \in Card : retryRead(k)
    BY <1>5 DEF retryRead
  <1>6. CASE \E r \in reads : serveRead(r) \/ readAnswered(r) \/ loseRead(r)
    BY <1>6 DEF serveRead, readAnswered, loseRead
  <1>7. CASE UNCHANGED walletVars
    BY <1>7 DEF walletVars
  <1> QED
    BY <1>1, <1>2, <1>3, <1>4, <1>5, <1>6, <1>7

\* A press is a new one: the next in order, with the page's key or a key of its own.
LEMMA PressIsNew ==
    ASSUME WalletTypes, Asked, Front, NEW f \in Press, NEW t \in Parcel, handleSend(f, t)
    PROVE  /\ ~Pressed(f) /\ moved[f] = "none" /\ f \notin waiting
           /\ send'[f].pc = "find" /\ send'[f].key = sendKeyRef' /\ send'[f].what = t
           /\ send'[f].visit = walletVisits
           /\ \A g \in Press \ {f} : send'[g] = send[g]
           /\ sendKeyRef' = keyFor(f, t) /\ form' = t /\ sendStage = "idle"
           /\ sendStage' = "working" /\ waiting' = waiting \cup {f}
           /\ UNCHANGED <<sendRow, moved, faulted, strayed, walletVisits>>
           /\ Front'
  <1>1. PICK n \in 0 .. MaxPresses : \A g \in Press : Pressed(g) <=> g <= n
    BY DEF Front
  <1>2. {g \in Press : send[g].pc # "idle"} = 1 .. n
    BY <1>1, WalletAssumption DEF Pressed, Press
  <1>3. Cardinality(1 .. n) = n
    BY <1>1, FS_Interval, WalletAssumption
  <1>4. f = n + 1
    BY <1>2, <1>3 DEF handleSend
  <1>5. ~Pressed(f)
    BY <1>1, <1>4
  <1>6. send' = [send EXCEPT ![f] = [pc |-> "find", key |-> sendKeyRef', what |-> t,
                                     visit |-> walletVisits]]
    BY DEF handleSend
  <1>7. /\ send'[f] = [pc |-> "find", key |-> sendKeyRef', what |-> t, visit |-> walletVisits]
        /\ \A g \in Press \ {f} : send'[g] = send[g]
    BY <1>6 DEF WalletTypes
  <1>8. moved[f] = "none" /\ f \notin waiting
    BY <1>5 DEF Asked, Pressed
  <1>9. Front'
    <2>1. \A g \in Press : send'[g].pc # "idle" <=> g <= n + 1
      BY <1>1, <1>4, <1>7, WalletAssumption DEF Pressed, Press
    <2>2. n + 1 \in 0 .. MaxPresses
      BY <1>1, <1>4, WalletAssumption DEF Press
    <2> QED
      BY <2>1, <2>2 DEF Front, Pressed
  <1>10. /\ sendKeyRef' = keyFor(f, t) /\ form' = t /\ sendStage = "idle"
         /\ sendStage' = "working" /\ waiting' = waiting \cup {f}
         /\ UNCHANGED <<sendRow, moved, faulted, strayed, walletVisits>>
    BY DEF handleSend, serverVars
  <1> QED
    BY <1>5, <1>7, <1>8, <1>9, <1>10

\* Every step is the page's, a new press, or the step of a press made before.
LEMMA StepsOfWallet ==
    ASSUME WalletTypes, Asked, [WalletNext]_walletVars
    PROVE  \/ PageMoves
           \/ \E f \in Press, t \in Parcel : handleSend(f, t)
           \/ \E f \in Press : Walks(f) /\ Tells(f) /\ RowStep(f)
  BY PageStep, PressStep DEF WalletNext, SendModal

LEMMA SendsKept ==
    ASSUME WalletTypes, Asked, Front, \A f \in Press : MovedAt(f), [WalletNext]_walletVars
    PROVE  Asked' /\ Front' /\ \A f \in Press : MovedAt(f)'
  <1>1. CASE PageMoves
    BY <1>1 DEF PageMoves, Asked, Front, MovedAt, Pressed
  <1>2. ASSUME NEW f \in Press, NEW t \in Parcel, handleSend(f, t)
        PROVE  Asked' /\ Front' /\ \A g \in Press : MovedAt(g)'
    <2>1. /\ Front' /\ moved' = moved /\ moved[f] = "none" /\ waiting' = waiting \cup {f}
          /\ send'[f].pc = "find" /\ send'[f].key = sendKeyRef' /\ send'[f].what = t
          /\ \A g \in Press \ {f} : send'[g] = send[g]
          /\ sendKeyRef' = keyFor(f, t) /\ faulted' = faulted
      BY <1>2, PressIsNew
    <2>2. sendKeyRef' \in Press
      <3>1. sendKeyRef \in 0 .. MaxPresses
        BY DEF WalletTypes
      <3> QED
        BY <2>1, <3>1, WalletAssumption DEF keyFor, Press
    <2>3. Asked'
      BY <2>1, <2>2 DEF Asked
    <2>4. ASSUME NEW g \in Press
          PROVE  MovedAt(g)'
      BY <2>1 DEF MovedAt
    <2> QED
      BY <2>1, <2>3, <2>4
  <1>3. ASSUME NEW f \in Press, Walks(f), Tells(f)
        PROVE  Asked' /\ Front' /\ \A g \in Press : MovedAt(g)'
    <2>1. waiting' \subseteq waiting
      BY <1>3 DEF Tells, told
    <2>2. Asked'
      BY <1>3, <2>1 DEF Walks, Asked
    <2>3. Front'
      BY <1>3 DEF Walks, Front, Pressed
    <2>4. ASSUME NEW g \in Press
          PROVE  MovedAt(g)'
      <3>1. CASE g = f
        BY <1>3, <3>1 DEF Walks, MovedAt, WalletTypes
      <3>2. CASE g # f
        BY <1>3, <3>2 DEF Walks, MovedAt
      <3> QED
        BY <3>1, <3>2
    <2> QED
      BY <2>2, <2>3, <2>4
  <1> QED
    BY <1>1, <1>2, <1>3, StepsOfWallet

LEMMA KeysKept ==
    ASSUME WalletTypes, Asked, Front, KeysDrawn, [WalletNext]_walletVars
    PROVE  KeysDrawn'
  <1>0. \A f \in Press : Pressed(f) => send[f].key \in Press
    BY DEF Asked, Pressed
  <1>1. CASE PageMoves
    BY <1>1 DEF PageMoves, KeysDrawn, Pressed
  <1>2. ASSUME NEW f \in Press, NEW t \in Parcel, handleSend(f, t)
        PROVE  KeysDrawn'
    <2>1. /\ ~Pressed(f) /\ send'[f].pc = "find" /\ send'[f].key = sendKeyRef' /\ send'[f].what = t
          /\ \A g \in Press \ {f} : send'[g] = send[g]
          /\ sendKeyRef' = keyFor(f, t) /\ form' = t
      BY <1>2, PressIsNew
    <2>2. \A g \in Press : Pressed(g) => g # f /\ send[g].key # f
      BY <2>1 DEF KeysDrawn
    <2>3. sendKeyRef \in 0 .. MaxPresses
      BY DEF WalletTypes
    <2>4. CASE sendKeyRef # 0 /\ form = t
      <3>1. sendKeyRef' = sendKeyRef /\ sendKeyRef \in Press /\ Pressed(sendKeyRef)
        BY <2>1, <2>3, <2>4, WalletAssumption DEF keyFor, Press, KeysDrawn
      <3>2. \A g \in Press : Pressed(g) /\ send[g].key = sendKeyRef => send[g].what = t
        BY <2>4 DEF KeysDrawn
      <3>3. \A g \in Press : send'[g].pc # "idle" <=> Pressed(g) \/ g = f
        BY <2>1 DEF Pressed
      <3>7. send'[sendKeyRef'].pc # "idle" /\ send'[sendKeyRef'].key = sendKeyRef'
        BY <2>1, <2>4, <3>1, <3>3 DEF KeysDrawn
      <3>4. \A g \in Press : send'[g].pc # "idle" =>
               send'[send'[g].key].pc # "idle" /\ send'[send'[g].key].key = send'[g].key
        BY <1>0, <2>1, <2>2, <3>1, <3>3, <3>7 DEF KeysDrawn
      <3>5. \A g \in Press : send'[g].pc # "idle" /\ send'[g].key = sendKeyRef'
               => send'[g].what = t
        BY <2>1, <3>1, <3>2, <3>3
      <3>6. \A g, h \in Press : send'[g].pc # "idle" /\ send'[h].pc # "idle"
               /\ send'[g].key = send'[h].key => send'[g].what = send'[h].what
        BY <2>1, <3>3, <3>5 DEF KeysDrawn
      <3> QED
        BY <2>1, <3>4, <3>5, <3>6, <3>7 DEF KeysDrawn, Pressed
    <2>5. CASE ~(sendKeyRef # 0 /\ form = t)
      <3>1. sendKeyRef' = f
        BY <2>1, <2>5 DEF keyFor
      <3>2. \A g \in Press : send'[g].pc # "idle" <=> Pressed(g) \/ g = f
        BY <2>1 DEF Pressed
      <3>3. \A g \in Press : send'[g].pc # "idle" =>
               send'[send'[g].key].pc # "idle" /\ send'[send'[g].key].key = send'[g].key
        BY <1>0, <2>1, <3>1, <3>2 DEF KeysDrawn
      <3>4. \A g \in Press : send'[g].pc # "idle" /\ send'[g].key = f => g = f
        BY <2>1, <2>2, <3>2
      <3>5. \A g, h \in Press : send'[g].pc # "idle" /\ send'[h].pc # "idle"
               /\ send'[g].key = send'[h].key => send'[g].what = send'[h].what
        BY <2>1, <2>2, <3>1, <3>2, <3>4 DEF KeysDrawn
      <3> QED
        BY <2>1, <3>1, <3>3, <3>4, <3>5 DEF KeysDrawn, Pressed
    <2> QED
      BY <2>4, <2>5
  <1>3. ASSUME NEW f \in Press, Walks(f), Tells(f)
        PROVE  KeysDrawn'
    <2>1. \A g \in Press : /\ send'[g].pc # "idle" <=> Pressed(g)
                           /\ send'[g].key = send[g].key /\ send'[g].what = send[g].what
      BY <1>3 DEF Walks, Pressed
    <2>2. (sendKeyRef' = sendKeyRef /\ form' = form) \/ sendKeyRef' = 0
      BY <1>3 DEF Tells, told
    <2>3. sendKeyRef # 0 => sendKeyRef \in Press
      BY WalletAssumption DEF WalletTypes, Press
    <2> QED
      BY <1>0, <2>1, <2>2, <2>3 DEF KeysDrawn, Pressed
  <1> QED
    BY <1>1, <1>2, <1>3, StepsOfWallet

LEMMA RowsKept ==
    ASSUME WalletTypes, Asked, Front, \A f \in Press : MovedAt(f), KeysDrawn, RowsHeld,
           [WalletNext]_walletVars
    PROVE  RowsHeld'
  <1>0. /\ sendRow \in [Press -> [status : {"none", "PENDING", "CONFIRMED", "FAILED"},
                                   what : Parcel \cup {Nobody}, digest : 0 .. MaxPresses]]
        /\ NoSend.status = "none" /\ NoSend.what = Nobody
    BY DEF WalletTypes, NoSend
  <1>1. CASE PageMoves
    BY <1>1 DEF PageMoves, RowsHeld, Pressed
  <1>2. ASSUME NEW f \in Press, NEW t \in Parcel, handleSend(f, t)
        PROVE  RowsHeld'
    <2>1. /\ ~Pressed(f) /\ moved[f] = "none" /\ send'[f].pc = "find"
          /\ UNCHANGED <<sendRow, moved>> /\ \A g \in Press \ {f} : send'[g] = send[g]
      BY <1>2, PressIsNew
    <2> QED
      BY <2>1 DEF RowsHeld, Pressed
  <1>3. ASSUME NEW f \in Press, Walks(f), RowStep(f)
        PROVE  RowsHeld'
    <2> DEFINE k == send[f].key
    <2>1. k \in Press /\ send[f].what \in Parcel /\ send[f].pc # "idle"
      BY <1>3 DEF Asked, Walks
    <2>2. \A g \in Press : moved[g] = "executed" => moved'[g] = "executed"
      BY <1>3 DEF Walks, MovedAt
    <2>3. \A g \in Press : /\ send'[g].key = send[g].key /\ send'[g].what = send[g].what
                           /\ Pressed(g) => send'[g].pc # "idle"
                           /\ g # f => send'[g] = send[g]
      BY <1>3 DEF Walks, Pressed
    <2>4. /\ Pressed(k) /\ send[k].key = k /\ send[k].what = send[f].what
          /\ \A g \in Press : Pressed(g) => send[g].key \in Press
      BY <2>1 DEF KeysDrawn, Pressed, Asked
    <2>5. \A q \in Press : q # k => sendRow'[q] = sendRow[q]
      BY <1>0, <1>3, <2>1 DEF RowStep
    <2>6. sendRow[k] # NoSend =>
             /\ sendRow'[k] # NoSend /\ sendRow'[k].what = sendRow[k].what
             /\ sendRow'[k].status = "CONFIRMED" =>
                   \/ sendRow[k].status = "CONFIRMED" /\ sendRow'[k].digest = sendRow[k].digest
                   \/ sendRow'[k].digest = f /\ send[f].pc = "sent"
      <3>1. CASE sendRow' = sendRow
        BY <3>1
      <3>2. CASE /\ sendRow' = [sendRow EXCEPT ![send[f].key] =
                       IF @ = NoSend
                       THEN [NoSend EXCEPT !.status = "PENDING", !.what = send[f].what] ELSE @]
        BY <1>0, <2>1, <3>2
      <3>3. CASE /\ send[f].pc = "sent"
                 /\ sendRow' = [sendRow EXCEPT ![send[f].key].status = "CONFIRMED",
                                               ![send[f].key].digest = f]
        BY <1>0, <2>1, <3>3
      <3>4. CASE sendRow' = [sendRow EXCEPT ![send[f].key].status = "FAILED"]
        BY <1>0, <2>1, <3>4
      <3> QED
        BY <1>3, <3>1, <3>2, <3>3, <3>4 DEF RowStep
    <2>7. sendRow[k] = NoSend =>
             \/ sendRow'[k] = NoSend
             \/ sendRow'[k] = [status |-> "PENDING", what |-> send[f].what, digest |-> 0]
      <3>1. sendRow[k] = NoSend => send[f].pc # "sent" /\ send[f].pc # "fail"
        BY DEF RowsHeld
      <3> QED
        BY <1>0, <1>3, <2>1, <3>1 DEF RowStep, NoSend
    <2>8. send'[f].pc \in Built => sendRow'[k] # NoSend
      <3>1. CASE send[f].pc \in Built
        BY <2>6, <3>1 DEF RowsHeld, Built
      <3>2. CASE send[f].pc = "create" /\ sendRow[k] = NoSend
        <4>1. CASE sendRow' = [sendRow EXCEPT ![send[f].key] =
                      IF @ = NoSend
                      THEN [NoSend EXCEPT !.status = "PENDING", !.what = send[f].what] ELSE @]
          <5>1. sendRow'[k] = [NoSend EXCEPT !.status = "PENDING", !.what = send[f].what]
            BY <1>0, <2>1, <3>2, <4>1
          <5>2. sendRow'[k].status = "PENDING"
            BY <5>1 DEF NoSend
          <5> QED
            BY <1>0, <5>2
        <4>2. CASE sendRow' = sendRow /\ sendRow[k].what = send[f].what
          BY <1>0, <2>1, <3>2, <4>2, WalletAssumption
        <4>3. CASE send'[f].pc \notin Built
          BY <4>3
        <4> QED
          BY <1>3, <3>2, <4>1, <4>2, <4>3 DEF RowStep, Built
      <3>3. CASE sendRow[k] # NoSend
        BY <2>6, <3>3
      <3>4. CASE sendRow[k].what = send[f].what
        BY <1>0, <2>1, <2>6, <3>4, WalletAssumption
      <3> QED
        BY <1>3, <3>1, <3>2, <3>3, <3>4 DEF RowStep, Built
    <2> HIDE DEF k
    <2>9. \A g \in Press : send'[g].pc \in Built => sendRow'[send'[g].key] # NoSend
      BY <2>3, <2>4, <2>5, <2>6, <2>8 DEF RowsHeld, Built, k, Pressed
    <2>10. \A q \in Press : sendRow'[q] # NoSend =>
              /\ send'[q].pc # "idle" /\ send'[q].key = q /\ sendRow'[q].what = send'[q].what
      BY <2>3, <2>4, <2>5, <2>6, <2>7 DEF RowsHeld
    <2>11. ASSUME NEW q \in Press, sendRow'[q].status = "CONFIRMED"
           PROVE  \E g \in Press : /\ g = sendRow'[q].digest /\ moved'[g] = "executed"
                                    /\ send'[g].key = q /\ send'[g].what = sendRow'[q].what
      <3>1. CASE sendRow[q].status = "CONFIRMED" /\ sendRow'[q].digest = sendRow[q].digest
        <4>1. sendRow'[q].what = sendRow[q].what
          BY <1>0, <2>5, <2>6, <3>1
        <4> QED
          BY <2>2, <2>3, <3>1, <4>1 DEF RowsHeld
      <3>2. CASE q = k /\ sendRow'[k].digest = f /\ send[f].pc = "sent" /\ sendRow[k] # NoSend
        <4>1. moved'[f] = "executed"
          BY <2>2, <3>2 DEF MovedAt
        <4>2. sendRow'[k].what = send[f].what
          BY <2>4, <2>6, <3>2, <2>1 DEF RowsHeld
        <4> QED
          BY <2>3, <3>2, <4>1, <4>2 DEF k
      <3> QED
        BY <1>0, <2>5, <2>6, <2>7, <2>11, <3>1, <3>2
    <2> QED
      BY <2>9, <2>10, <2>11 DEF RowsHeld, Built, Pressed
  <1> QED
    BY <1>1, <1>2, <1>3, StepsOfWallet

LEMMA ShownKept ==
    ASSUME WalletTypes, Asked, Front, \A f \in Press : MovedAt(f), Shown, [WalletNext]_walletVars
    PROVE  Shown'
  <1>1. CASE PageMoves
    BY <1>1 DEF PageMoves, Shown
  <1>2. ASSUME NEW f \in Press, NEW t \in Parcel, handleSend(f, t)
        PROVE  Shown'
    BY <1>2, PressIsNew DEF Shown
  <1>3. ASSUME NEW f \in Press, Walks(f), Tells(f)
        PROVE  Shown'
    <2>1. \A g \in Press : moved[g] = "executed" => moved'[g] = "executed"
      BY <1>3 DEF Walks, MovedAt
    <2>2. CASE told(f, "success") /\ send[f].pc = "sent"
      <3>1. moved'[f] = "executed"
        BY <2>1, <2>2 DEF MovedAt
      <3> QED
        BY <2>2, <3>1 DEF told, Shown
    <2>3. CASE sendStage' \in {"error", "working"}
      BY <2>3 DEF Shown
    <2>4. CASE UNCHANGED <<sendStage, sentBy>>
      BY <2>1, <2>4 DEF Shown
    <2> QED
      BY <1>3, <2>2, <2>3, <2>4 DEF Tells, told
  <1> QED
    BY <1>1, <1>2, <1>3, StepsOfWallet

\* One send at a time, and one payment for a key, unless a send was left running.
LEMMA WaitsKept ==
    ASSUME WalletTypes, Asked, Front, \A f \in Press : MovedAt(f), KeysDrawn,
           ~strayed => OneWaits /\ PaysOnce, [WalletNext]_walletVars, ~strayed'
    PROVE  OneWaits' /\ PaysOnce'
  <1>1. CASE PageMoves
    <2>1. ~strayed /\ UNCHANGED <<send, moved, waiting, faulted>>
      <3>1. strayed' = strayed \/ strayed' = (strayed \/ waiting # {})
        BY <1>1 DEF PageMoves
      <3>2. ~strayed
        BY <3>1
      <3> QED
        BY <1>1, <3>2 DEF PageMoves
    <2>2. OneWaits /\ PaysOnce
      BY <2>1
    <2>3. PaysOnce'
      BY <2>1, <2>2 DEF PaysOnce
    <2>4. CASE UNCHANGED <<sendStage, sendKeyRef, walletVisits>>
      BY <2>1, <2>2, <2>3, <2>4 DEF OneWaits, Pressed
    <2>5. CASE sendKeyRef' = 0 /\ waiting = {}
      <3>1. \A f \in Press : Pressed(f) => send[f].key # 0
        BY DEF Asked, Pressed, Press
      <3> QED
        BY <2>1, <2>2, <2>3, <2>5, <3>1 DEF OneWaits, Pressed
    <2>6. CASE sendStage = "error" /\ UNCHANGED <<sendKeyRef, walletVisits>>
      BY <2>1, <2>2, <2>3, <2>6 DEF OneWaits, Pressed
    <2> QED
      BY <1>1, <2>1, <2>4, <2>5, <2>6 DEF PageMoves
  <1>2. ASSUME NEW f \in Press, NEW t \in Parcel, handleSend(f, t)
        PROVE  OneWaits' /\ PaysOnce'
    <2>1. /\ ~Pressed(f) /\ moved[f] = "none" /\ f \notin waiting
          /\ send'[f].pc = "find" /\ send'[f].key = sendKeyRef' /\ send'[f].visit = walletVisits
          /\ \A g \in Press \ {f} : send'[g] = send[g]
          /\ sendKeyRef' = keyFor(f, t) /\ sendStage = "idle"
          /\ sendStage' = "working" /\ waiting' = waiting \cup {f}
          /\ UNCHANGED <<moved, faulted, strayed, walletVisits>>
      BY <1>2, PressIsNew
    <2>2. OneWaits /\ PaysOnce
      BY <2>1
    <2>3. waiting = {}
      BY <2>1, <2>2 DEF OneWaits
    <2>4. \A g \in Press : Pressed(g) => g # f /\ send[g].key # f
      BY <2>1 DEF KeysDrawn
    <2>5. \A g \in waiting' : /\ sendStage' = "working" /\ waiting' = {g}
                              /\ sendKeyRef' = send'[g].key /\ send'[g].visit = walletVisits'
      BY <2>1, <2>3
    <2>6. ASSUME NEW g \in Press, send'[g].pc # "idle", g \notin waiting', g \notin faulted'
          PROVE  send'[g].pc = "ended" /\ (moved'[g] = "executed" => sendKeyRef' # send'[g].key)
      <3>1. g # f /\ send'[g] = send[g] /\ Pressed(g)
        BY <2>1, <2>6 DEF Pressed
      <3>2. send[g].pc = "ended" /\ (moved[g] = "executed" => sendKeyRef # send[g].key)
        BY <2>1, <2>2, <2>3, <2>6, <3>1 DEF OneWaits
      <3> QED
        BY <2>1, <2>4, <3>1, <3>2 DEF keyFor
    <2>7. PaysOnce'
      BY <2>1, <2>2 DEF PaysOnce
    <2> QED
      BY <2>5, <2>6, <2>7 DEF OneWaits, Pressed
  <1>3. ASSUME NEW f \in Press, Walks(f), Tells(f)
        PROVE  OneWaits' /\ PaysOnce'
    <2>1. OneWaits /\ PaysOnce /\ walletVisits' = walletVisits
      BY <1>3 DEF Tells
    <2>2. /\ \A g \in Press \ {f} : send'[g] = send[g] /\ moved'[g] = moved[g]
          /\ send'[f].key = send[f].key /\ send'[f].visit = send[f].visit
          /\ send[f].pc # "idle" /\ faulted \subseteq faulted' /\ faulted' \subseteq faulted \cup {f}
      BY <1>3 DEF Walks
    <2>3. ASSUME NEW g \in waiting'
          PROVE  /\ sendStage' = "working" /\ waiting' = {g}
                 /\ sendKeyRef' = send'[g].key /\ send'[g].visit = walletVisits'
      <3>1. waiting' \subseteq waiting /\ waiting = {g} /\ g \in Press
        BY <1>3, <2>1, <2>3 DEF Tells, told, OneWaits, WalletTypes
      <3>2. waiting' = waiting /\ sendStage' = "working" /\ sendKeyRef' = sendKeyRef
        BY <1>3, <2>1, <2>3, <3>1 DEF Tells, told, OneWaits
      <3> QED
        BY <2>1, <2>2, <3>1, <3>2 DEF OneWaits
    <2>4. ASSUME NEW g \in Press, send'[g].pc # "idle", g \notin waiting', g \notin faulted'
          PROVE  send'[g].pc = "ended" /\ (moved'[g] = "executed" => sendKeyRef' # send'[g].key)
      <3>1. sendKeyRef' \in {0, sendKeyRef} /\ send'[g].key = send[g].key /\ send[g].key # 0
            /\ g \notin faulted /\ Pressed(g)
        <4>1. sendKeyRef' \in {0, sendKeyRef}
          BY <1>3 DEF Tells, told
        <4>2. Pressed(g) /\ g \notin faulted /\ send'[g].key = send[g].key
          BY <2>2, <2>4 DEF Pressed
        <4> QED
          BY <4>1, <4>2 DEF Asked, Pressed, Press
      <3>2. CASE g \notin waiting
        <4>1. send[g].pc = "ended" /\ (moved[g] = "executed" => sendKeyRef # send[g].key)
          BY <2>1, <3>1, <3>2 DEF OneWaits
        <4>2. send'[g].pc = "ended" /\ moved'[g] = moved[g]
          BY <1>3, <2>2, <2>4, <3>1, <4>1 DEF Walks, MovedAt
        <4> QED
          BY <3>1, <4>1, <4>2
      <3>3. CASE g \in waiting
        <4>1. g = f /\ waiting = {f} /\ f \in waiting /\ send[f].visit = walletVisits
          BY <1>3, <2>1, <2>4, <3>3 DEF Tells, told, OneWaits
        <4>2. CASE told(f, "error") /\ send'[f].pc = "ended" /\ send[f].pc # "sent"
          <5>1. moved'[f] # "executed"
            BY <1>3, <2>4, <3>1, <4>1, <4>2 DEF Walks, MovedAt
          <5> QED
            BY <4>1, <4>2, <5>1
        <4>3. CASE told(f, "success") /\ send'[f].pc = "ended"
          <5>1. sendKeyRef' = 0
            BY <4>1, <4>3 DEF told
          <5> QED
            BY <3>1, <4>1, <4>3, <5>1
        <4> QED
          BY <1>3, <2>4, <4>1, <4>2, <4>3 DEF Tells
      <3> QED
        BY <3>2, <3>3
    <2>5. PaysOnce'
      <3>1. CASE moved'[f] = "submitted" /\ send[f].pc = "execute" /\ faulted' = faulted
        <4>1. ASSUME NEW g \in Press \ faulted, g # f, send[g].key = send[f].key, f \notin faulted
              PROVE  moved[g] \notin {"submitted", "executed"}
          <5>1. f \in waiting /\ waiting = {f} /\ sendKeyRef = send[f].key
            BY <2>1, <2>2, <3>1, <4>1 DEF OneWaits, Pressed
          <5>2. CASE ~Pressed(g)
            BY <5>2 DEF Asked, Pressed
          <5>3. CASE Pressed(g)
            BY <2>1, <4>1, <5>1, <5>3 DEF OneWaits, MovedAt
          <5> QED
            BY <5>2, <5>3
        <4> QED
          BY <2>1, <2>2, <3>1, <4>1 DEF PaysOnce
      <3>2. CASE moved'[f] = moved[f] \/ moved[f] = "submitted"
        BY <2>1, <2>2, <3>2 DEF PaysOnce
      <3> QED
        BY <1>3, <3>1, <3>2 DEF Walks
    <2> QED
      BY <2>3, <2>4, <2>5 DEF OneWaits, Pressed
  <1> QED
    BY <1>1, <1>2, <1>3, StepsOfWallet

-----------------------------------------------------------------------------
\* The page's cards.  A step that begins no read, serves none and changes nothing a card is
\* told leaves each card as it was.
LEMMA CardRests ==
    ASSUME NEW k \in Card, Current(k), reads' = reads, card' = card, page' = page,
           k = "usdc" => coins' = coins, k # "usdc" => earned' = earned
    PROVE  Current(k)'
  <1>1. Truth(k, page)' = Truth(k, page)
    BY DEF Truth
  <1> QED
    BY <1>1 DEF Current

\* A read that begins alone is the only one of its kind, and has yet to be served; the other
\* kinds of card are as they were.
LEMMA CardIsRead ==
    ASSUME NEW k \in Card, NEW ks \in SUBSET Card, NEW p, Read(ks, p), k \in ks, k \notin passed',
           k = "ledger" => page' = p
    PROVE  Current(k)'
  <1>1. \A r \in reads : r.card # k
    BY DEF Read
  <1>2. reads' = reads \cup {[card |-> q, page |-> p, told |-> Nobody, number |-> readCount] : q \in ks}
    BY DEF Read
  <1> DEFINE new == [card |-> k, page |-> p, told |-> Nobody, number |-> readCount]
  <1>3. \A r \in reads' : r.card = k => r = new
    BY <1>1, <1>2
  <1>4. new \in reads' /\ new.card = k /\ new.page = p /\ new.told = Nobody
    BY <1>2
  <1> HIDE DEF new
  <1> QED
    BY <1>3, <1>4 DEF Current

LEMMA CardBesideRead ==
    ASSUME WalletTypes, NEW k \in Card, NEW ks \in SUBSET Card, NEW p, Read(ks, p), k \notin ks,
           Current(k), k = "ledger" => page' = page, UNCHANGED <<coins, earned>>
    PROVE  Current(k)'
  <1>1. reads' = reads \cup {[card |-> q, page |-> p, told |-> Nobody, number |-> readCount] : q \in ks}
    BY DEF Read
  <1>2. \A r \in reads' : r.card = k => r \in reads
    BY <1>1
  <1>3. reads \subseteq reads' /\ card'[k] = card[k]
    BY <1>1 DEF Read
  <1>4. Truth(k, page)' = Truth(k, page)
    BY DEF Truth, Card
  <1> QED
    BY <1>2, <1>3, <1>4 DEF Current

\* A read that is served tells the truth, and one that is answered shows it, or an error.
LEMMA CardsAnswered ==
    ASSUME WalletTypes, NEW k \in Card, Current(k), NEW r \in reads,
           serveRead(r) \/ readAnswered(r) \/ loseRead(r)
    PROVE  Current(k)'
  <1>0. Truth(k, page)' = Truth(k, page) /\ page' = page
    BY DEF serveRead, readAnswered, loseRead, serverVars, Truth
  <1>1. r.card \in Card /\ card \in [Card -> [told : Told, loading : BOOLEAN, failed : BOOLEAN]]
    BY DEF WalletTypes
  <1>2. CASE serveRead(r)
    <2> DEFINE s == [r EXCEPT !.told = Truth(r.card, r.page)]
    <2>1. reads' = (reads \ {r}) \cup {s} /\ card' = card
      BY <1>2 DEF serveRead
    <2>2. s.card = r.card /\ s.page = r.page /\ s.told = Truth(r.card, r.page)
      BY DEF WalletTypes
    <2>3. r.card = k => s.told = Truth(k, page)
      <3>1. r.card = k /\ k = "ledger" => r.page = page
        BY DEF Current
      <3> QED
        BY <2>2, <3>1 DEF Truth, Card
    <2> HIDE DEF s
    <2>4. \A q, u \in reads' : q.card = k /\ u.card = k => q = u
      BY <2>1, <2>2 DEF Current
    <2>5. \A q \in reads' : q.card = k =>
             /\ k = "ledger" => q.page = page
             /\ q.told # Nobody => q.told = Truth(k, page)
      BY <2>1, <2>2, <2>3 DEF Current
    <2>6. (\A q \in reads' : q.card # k) => card[k].failed \/ card[k].told = Truth(k, page)
      BY <2>1, <2>2 DEF Current
    <2> QED
      BY <1>0, <2>1, <2>4, <2>5, <2>6 DEF Current
  <1>3. CASE readAnswered(r)
    <2>1. /\ reads' = reads \ {r} /\ r.told # Nobody
          /\ card' = [card EXCEPT ![r.card] = [told |-> r.told, loading |-> FALSE, failed |-> FALSE]]
      BY <1>3 DEF readAnswered
    <2>2. r.card = k => card'[k].told = Truth(k, page)
      BY <1>1, <2>1 DEF Current
    <2>3. r.card # k => card'[k] = card[k]
      BY <1>1, <2>1
    <2> QED
      BY <1>0, <2>1, <2>2, <2>3 DEF Current
  <1>4. CASE loseRead(r)
    <2>1. /\ reads' = reads \ {r}
          /\ card' = [card EXCEPT ![r.card].failed = TRUE, ![r.card].loading = FALSE]
      BY <1>4 DEF loseRead
    <2>2. r.card = k => card'[k].failed
      BY <1>1, <2>1
    <2>3. r.card # k => card'[k] = card[k]
      BY <1>1, <2>1
    <2> QED
      BY <1>0, <2>1, <2>2, <2>3 DEF Current
  <1> QED
    BY <1>2, <1>3, <1>4

\* The end of a send reads the balance again.
LEMMA CardsTell ==
    ASSUME WalletTypes, NEW f \in Press, NEW outcome, told(f, outcome), NEW k \in Card \ passed',
           UNCHANGED <<coins, earned>>, k # "usdc" => Current(k)
    PROVE  Current(k)'
  <1>1. Read({"usdc"}, 0) /\ page' = page /\ {"usdc"} \in SUBSET Card
    BY DEF told, Card
  <1>2. CASE k = "usdc"
    BY <1>1, <1>2, CardIsRead
  <1>3. CASE k # "usdc"
    BY <1>1, <1>3, CardBesideRead
  <1> QED
    BY <1>2, <1>3

\* A press either leaves the cards alone, or moves funds, or ends with the balance read again.
LEMMA PressAndCards ==
    ASSUME NEW f \in Press,
           \/ signSend(f) \/ signingExpired(f) \/ findSend(f) \/ createSend(f) \/ readSend(f)
           \/ executeSend(f) \/ replySent(f) \/ sendAborted(f) \/ markSent(f)
           \/ markSendFailed(f) \/ clientGivesUp(f) \/ handlerFails(f) \/ sendReplyLost(f)
           \/ moveFunds(f)
    PROVE  /\ walletVisits' = walletVisits /\ earned' = earned
           /\ \/ UNCHANGED <<page, card, reads, passed, waiting, coins>>
              \/ UNCHANGED <<coins>> /\ \E outcome \in {"success", "error"} : told(f, outcome)
              \/ /\ UNCHANGED <<page, card, reads, waiting>>
                 /\ passed' = IF f \in waiting THEN passed ELSE passed \cup {"usdc"}
  <1> USE DEF serverVars, cardVars
  <1>1. CASE signSend(f)
    BY <1>1 DEF signSend
  <1>2. ASSUME NEW outcome \in {"success", "error"}, Ends(f, outcome)
        PROVE  /\ walletVisits' = walletVisits
               /\ UNCHANGED <<page, card, reads, passed, waiting>> \/ told(f, outcome)
    BY <1>2 DEF Ends
  <1>3. ASSUME NEW place, Moves(f, place)
        PROVE  UNCHANGED <<page, card, reads, passed, waiting, walletVisits>>
    BY <1>3 DEF Moves
  <1>4. CASE signingExpired(f)
    BY <1>2, <1>4 DEF signingExpired
  <1>5. CASE findSend(f)
    BY <1>2, <1>3, <1>5 DEF findSend
  <1>6. CASE createSend(f)
    BY <1>3, <1>6 DEF createSend
  <1>7. CASE readSend(f)
    BY <1>2, <1>3, <1>7 DEF readSend
  <1>8. CASE executeSend(f) \/ replySent(f) \/ sendAborted(f)
    BY <1>3, <1>8 DEF executeSend, replySent, sendAborted
  <1>9. CASE markSent(f) \/ markSendFailed(f)
    BY <1>2, <1>9 DEF markSent, markSendFailed
  <1>10. CASE clientGivesUp(f)
    BY <1>10 DEF clientGivesUp
  <1>11. CASE handlerFails(f)
    BY <1>2, <1>11 DEF handlerFails
  <1>12. CASE sendReplyLost(f)
    BY <1>12 DEF sendReplyLost
  <1>13. CASE moveFunds(f)
    BY <1>13 DEF moveFunds
  <1> QED
    BY <1>1, <1>4, <1>5, <1>6, <1>7, <1>8, <1>9, <1>10, <1>11, <1>12, <1>13

LEMMA CardsKept ==
    ASSUME WalletTypes, CardsCurrent, [WalletNext]_walletVars
    PROVE  CardsCurrent'
  <1> SUFFICES ASSUME walletVisits' > 0, NEW k \in Card, k \in onPage', k \notin passed',
                      k = "usdc" => waiting' = {}
               PROVE  Current(k)'
    BY DEF CardsCurrent, onPage, Card
  <1>0. /\ onPage = IF page = 0 THEN {"usdc"} ELSE Card
        /\ onPage' = IF page' = 0 THEN {"usdc"} ELSE Card
    BY DEF onPage
  <1>a. walletVisits > 0 /\ k \in onPage /\ k \notin passed /\ (k = "usdc" => waiting = {})
           => Current(k)
    BY DEF CardsCurrent
  <1>1. CASE UNCHANGED walletVars
    BY <1>0, <1>1, <1>a, CardRests DEF walletVars, cardVars, serverVars
  <1>2. CASE openWallet
    <2>1. Read(Card, 1) /\ page' = 1
      BY <1>2 DEF openWallet, mountWallet
    <2> QED
      BY <2>1, CardIsRead
  <1>3. CASE openCreatorWallet
    <2>1. Read({"usdc"}, 0) /\ page' = 0
      BY <1>3 DEF openCreatorWallet, mountWallet
    <2>2. k = "usdc"
      BY <1>0, <2>1
    <2> QED
      BY <2>1, <2>2, CardIsRead
  <1>4. CASE openSend \/ handleClose \/ resetSend
    <2>1. UNCHANGED <<page, card, reads, passed, waiting, coins, earned, walletVisits>>
      BY <1>4 DEF openSend, handleClose, resetSend, cardVars, serverVars
    <2> QED
      BY <1>0, <1>a, <2>1, CardRests
  <1>5. ASSUME NEW f \in Press, NEW t \in Parcel, handleSend(f, t)
        PROVE  Current(k)'
    <2>1. UNCHANGED <<page, card, reads, passed, coins, earned, walletVisits>>
          /\ waiting' = waiting \cup {f}
      BY <1>5 DEF handleSend, cardVars, serverVars
    <2>2. k # "usdc"
      BY <2>1
    <2> QED
      BY <1>0, <1>a, <2>1, <2>2, CardRests
  <1>6. CASE earnElsewhere
    <2>1. /\ UNCHANGED <<page, card, reads, waiting, coins, walletVisits>>
          /\ passed' = passed \cup {"ink", "ledger"}
      BY <1>6 DEF earnElsewhere
    <2>2. k = "usdc" /\ k \notin passed
      BY <2>1 DEF Card
    <2> QED
      BY <1>0, <1>a, <2>1, <2>2, CardRests
  <1>7. ASSUME NEW p \in 1 .. MaxEarned, setPage(p)
        PROVE  Current(k)'
    <2>1. /\ Read({"ledger"}, p) /\ page' = p /\ page' # 0 /\ "ledger" \in onPage
          /\ UNCHANGED <<waiting, coins, earned, walletVisits>>
      BY <1>7, WalletAssumption DEF setPage, serverVars
    <2>2. page # 0
      BY <1>0, <2>1
    <2>3. CASE k = "ledger"
      BY <2>1, <2>3, CardIsRead
    <2>4. CASE k # "ledger"
      <3>1. k \notin passed
        BY <2>1, <2>4 DEF Read
      <3>2. Current(k)
        BY <1>0, <1>a, <2>1, <2>2, <3>1
      <3>3. {"ledger"} \in SUBSET Card
        BY DEF Card
      <3> QED
        BY <2>1, <2>4, <3>2, <3>3, CardBesideRead
    <2> QED
      BY <2>3, <2>4
  <1>8. ASSUME NEW q \in Card, retryRead(q)
        PROVE  Current(k)'
    <2>1. /\ Read({q}, page) /\ page' = page /\ {q} \in SUBSET Card
          /\ UNCHANGED <<waiting, coins, earned, walletVisits>>
      BY <1>8 DEF retryRead, serverVars
    <2>2. CASE k = q
      BY <2>1, <2>2, CardIsRead
    <2>3. CASE k # q
      <3>1. k \notin passed
        BY <2>1, <2>3 DEF Read
      <3>2. Current(k)
        BY <1>0, <1>a, <2>1, <3>1
      <3> QED
        BY <2>1, <2>3, <3>2, CardBesideRead
    <2> QED
      BY <2>2, <2>3
  <1>9. ASSUME NEW r \in reads, serveRead(r) \/ readAnswered(r) \/ loseRead(r)
        PROVE  Current(k)'
    <2>1. UNCHANGED <<page, passed, waiting, walletVisits>>
      BY <1>9 DEF serveRead, readAnswered, loseRead
    <2>2. Current(k)
      BY <1>0, <1>a, <2>1
    <2> QED
      BY <1>9, <2>2, CardsAnswered
  <1>10. ASSUME NEW f \in Press,
                \/ signSend(f) \/ signingExpired(f) \/ findSend(f) \/ createSend(f) \/ readSend(f)
                \/ executeSend(f) \/ replySent(f) \/ sendAborted(f) \/ markSent(f)
                \/ markSendFailed(f) \/ clientGivesUp(f) \/ handlerFails(f) \/ sendReplyLost(f)
                \/ moveFunds(f)
         PROVE  Current(k)'
    <2>0. walletVisits' = walletVisits /\ earned' = earned
      BY <1>10, PressAndCards
    <2>1. CASE UNCHANGED <<page, card, reads, passed, waiting, coins>>
      BY <1>0, <1>a, <2>0, <2>1, CardRests
    <2>2. ASSUME NEW outcome \in {"success", "error"}, told(f, outcome), UNCHANGED coins
          PROVE  Current(k)'
      <3>1. page' = page /\ Read({"usdc"}, 0)
        BY <2>2 DEF told
      <3>2. k # "usdc" => k \notin passed
        BY <3>1 DEF Read
      <3>3. k # "usdc" => Current(k)
        BY <1>0, <1>a, <2>0, <3>1, <3>2
      <3> QED
        BY <2>0, <2>2, <3>3, CardsTell
    <2>3. CASE /\ UNCHANGED <<page, card, reads, waiting>>
               /\ passed' = IF f \in waiting THEN passed ELSE passed \cup {"usdc"}
      <3>1. k # "usdc"
        BY <2>3
      <3>2. k \notin passed
        BY <2>3
      <3> QED
        BY <1>0, <1>a, <2>0, <2>3, <3>1, <3>2, CardRests
    <2> QED
      BY <1>10, <2>1, <2>2, <2>3, PressAndCards
  <1> QED
    BY <1>1, <1>2, <1>3, <1>4, <1>5, <1>6, <1>7, <1>8, <1>9, <1>10 DEF WalletNext, SendModal

-----------------------------------------------------------------------------
LEMMA InitHoldsWallet == WalletInit => WalletInv
  <1> SUFFICES ASSUME WalletInit PROVE WalletInv
    OBVIOUS
  <1>0. 0 \in 0 .. MaxPresses
    BY WalletAssumption
  <1>1. WalletTypes
    BY <1>0, WalletAssumption DEF WalletInit, WalletTypes, Told, SendPlace, NoSend
  <1>2. Asked /\ Shown /\ (\A f \in Press : MovedAt(f)) /\ KeysDrawn /\ CardsCurrent
    BY DEF WalletInit, Asked, Shown, MovedAt, KeysDrawn, CardsCurrent, Pressed
  <1>3. RowsHeld
    BY DEF WalletInit, RowsHeld, NoSend
  <1>4. Front
    <2>1. \A f \in Press : Pressed(f) <=> f <= 0
      BY WalletAssumption DEF WalletInit, Pressed, Press
    <2> QED
      BY <1>0, <2>1 DEF Front
  <1>5. OneWaits /\ PaysOnce
    BY DEF WalletInit, OneWaits, PaysOnce, Pressed
  <1> QED
    BY <1>1, <1>2, <1>3, <1>4, <1>5 DEF WalletInv

LEMMA WalletInvKept == WalletInv /\ [WalletNext]_walletVars => WalletInv'
  <1> SUFFICES ASSUME WalletInv, [WalletNext]_walletVars PROVE WalletInv'
    OBVIOUS
  <1> USE DEF WalletInv
  <1>1. WalletTypes'
    BY WalletTypesKept
  <1>2. Asked' /\ Front' /\ \A f \in Press : MovedAt(f)'
    BY SendsKept
  <1>3. KeysDrawn' /\ RowsHeld' /\ Shown'
    BY KeysKept, RowsKept, ShownKept
  <1>4. ~strayed' => OneWaits' /\ PaysOnce'
    BY WaitsKept
  <1>5. CardsCurrent'
    BY CardsKept
  <1> QED
    BY <1>1, <1>2, <1>3, <1>4, <1>5

LEMMA WalletInvIsSound == WalletInv => WalletSound
  <1> SUFFICES ASSUME WalletInv PROVE WalletSound
    OBVIOUS
  <1>1. SentMeansPaid
    BY DEF WalletInv, SentMeansPaid, Shown, RowsHeld
  <1>2. OneKeyPaysOnce
    BY DEF WalletInv, OneKeyPaysOnce, PaysOnce
  <1>3. CardsTold
    BY DEF WalletInv, CardsTold, CardsCurrent, Current
  <1> QED
    BY <1>1, <1>2, <1>3 DEF WalletSound

\* The wallet pages are sound: "sent" is shown and CONFIRMED is recorded only for transfers
\* that were executed, one idempotency key pays once unless a fault or a send left running
\* came between, and a card that was not overtaken shows what the server would tell.
THEOREM TheWalletIsSound == WalletSpec => []WalletSound
  <1>1. WalletInit => WalletInv
    BY InitHoldsWallet
  <1>2. WalletInv /\ [WalletNext]_walletVars => WalletInv'
    BY WalletInvKept
  <1>3. WalletInv => WalletSound
    BY WalletInvIsSound
  <1> QED
    BY <1>1, <1>2, <1>3, PTL DEF WalletSpec
=============================================================================
