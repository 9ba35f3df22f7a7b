------------------------------- MODULE Payments -------------------------------
(***************************************************************************)
(* USDC tips: the reader's tip page and payment store, which build, sign   *)
(* and confirm with a client time-out, and PaymentService                  *)
(* (buildTipTransaction, confirmTip) over Postgres and Sui.  The wallet    *)
(* page's sends (buildSendTransaction, submitSend) take the same steps on  *)
(* a table of their own.                                                   *)
(*                                                                         *)
(* An attempt is one press of the button: a build request and, if it is    *)
(* answered, a confirm request.  Every await of the two handlers is a      *)
(* step; a handler runs on when the client has given up on it.  The bytes  *)
(* of a transfer name the attempt they were built for: every build takes   *)
(* the sender's coins anew.  The stage is the store's and the key is the   *)
(* page's: a tip left running when the page is opened anew still writes    *)
(* the stage.                                                              *)
(***************************************************************************)
EXTENDS Integers, FiniteSets

CONSTANTS
    Attempt,     \* presses of the button, each used once
    Key,         \* idempotency keys the page may draw
    Transfer,    \* what may be asked for: a recipient and an amount
    AmountOf,    \* the amount of each transfer, in MIN_TIP_USDC
    Payable,     \* transfers whose recipient can be paid
    InitialUsdc, \* the sender's balance at the start
    None         \* no attempt, key or transfer

ASSUME PaymentAssumption ==
    /\ None \notin Attempt \cup Key \cup Transfer
    /\ AmountOf \in [Transfer -> Nat]
    /\ Payable \subseteq Transfer
    /\ InitialUsdc \in Nat

VARIABLES
    \* --- the reader's page ---
    stage,       \* the store's stage: "building" and "signing" are one
    txDigest,    \* the store's digest, named by its attempt
    keyRef,      \* idempotencyKeyRef
    asked,       \* the transfer in the form, while it has a key
    timedOut,    \* attempts the client gave up on
    left,        \* attempts that were running when the page was opened anew
    \* --- Postgres ---
    payment,     \* TipTransaction rows, by idempotencyKey
    \* --- Sui ---
    usdc,        \* the sender's USDC
    tx,          \* fate of the transfer built for each attempt
    \* --- the server ---
    pc,          \* where each attempt's request stands
    req          \* its arguments and local variables

pageVars  == <<stage, txDigest, keyRef, asked, timedOut, left>>
chainVars == <<usdc, tx>>
vars      == <<pageVars, payment, chainVars, pc, req>>

-----------------------------------------------------------------------------
MIN_TIP_USDC == 1

NoRow    == [status |-> "none", transfer |-> None, digest |-> None]
NoLocals == [key |-> None, transfer |-> None, existing |-> FALSE]

\* "built" waits for the client's signature; the others are the server's.
Ended   == {"done", "refused", "error", "failed", "crashed"}
Working == {"find", "balance", "create", "read", "execute", "await", "confirm", "fail"}

Init ==
    /\ stage = "idle"
    /\ txDigest = None
    /\ keyRef = None
    /\ asked = None
    /\ timedOut = {}
    /\ left = {}
    /\ payment = [k \in Key |-> NoRow]
    /\ usdc = InitialUsdc
    /\ tx = [a \in Attempt |-> "none"]
    /\ pc = [a \in Attempt |-> "idle"]
    /\ req = [a \in Attempt |-> NoLocals]

Submitting == stage \in {"building", "confirming"}

\* Attempts whose flow runs on in the store.
Flowing == {a \in Attempt : pc[a] \in Working \cup {"built"} /\ a \notin timedOut}

\* The flow of attempt a, if it still runs, ends; the page it was started from takes a
\* fresh key after a success.
Show(a, outcome) ==
    /\ stage' = IF a \in timedOut THEN stage ELSE outcome
    /\ txDigest' = IF outcome = "success" /\ a \notin timedOut THEN a ELSE txDigest
    /\ IF outcome = "success" /\ a \notin timedOut \cup left
       THEN keyRef' = None /\ asked' = None
       ELSE UNCHANGED <<keyRef, asked>>
    /\ UNCHANGED <<timedOut, left>>

-----------------------------------------------------------------------------
(***************************************************************************)
(* The page and the store.                                                 *)
(***************************************************************************)

\* The page is opened anew, without a key, and resets the store; flows that were running
\* run on.
openPage ==
    /\ stage' = "idle" /\ txDigest' = None
    /\ keyRef' = None /\ asked' = None
    /\ left' = left \cup Flowing
    /\ UNCHANGED <<timedOut, payment, chainVars, pc, req>>

\* (mutant) The key is kept when something else is asked for.
changeAmount_keepsKey ==
    /\ keyRef # None
    /\ asked' \in Transfer
    /\ UNCHANGED <<stage, txDigest, keyRef, timedOut, left, payment, chainVars, pc, req>>

\* Another amount is entered, or a preset pressed, which a running flow does not prevent:
\* the key is cleared.  What is asked for instead is chosen when it is submitted.
changeAmount ==
    /\ keyRef # None
    /\ keyRef' = None /\ asked' = None
    /\ UNCHANGED <<stage, txDigest, timedOut, left, payment, chainVars, pc, req>>

\* The button is pressed: again for what was asked, with the key it has, or with a fresh
\* key for something else.
handleSubmit(a) ==
    /\ ~Submitting /\ pc[a] = "idle"
    /\ \/ keyRef # None /\ UNCHANGED <<keyRef, asked>>
       \/ /\ keyRef = None
          /\ keyRef' \in {k \in Key : \A b \in Attempt : req[b].key # k}
          /\ asked' \in Transfer
    /\ stage' = "building"
    /\ txDigest' = None
    /\ pc' = [pc EXCEPT ![a] = "find"]
    /\ req' = [req EXCEPT ![a] = [NoLocals EXCEPT !.key = keyRef', !.transfer = asked']]
    /\ UNCHANGED <<timedOut, left, payment, chainVars>>

\* The bytes have arrived and are signed: the confirm request is sent.
signAndConfirm(a) ==
    /\ pc[a] = "built" /\ a \notin timedOut
    /\ stage' = "confirming"
    /\ pc' = [pc EXCEPT ![a] = "read"]
    /\ UNCHANGED <<txDigest, keyRef, asked, timedOut, left, payment, chainVars, req>>

\* Signing fails: the zkLogin session has expired.
signingFails(a) ==
    /\ pc[a] = "built" /\ a \notin timedOut
    /\ pc' = [pc EXCEPT ![a] = "refused"]
    /\ Show(a, "error")
    /\ UNCHANGED <<payment, chainVars, req>>

\* The API client gives up on a request after 15 seconds, and shows an error.
clientTimesOut(a) ==
    /\ pc[a] \in Working /\ a \notin timedOut
    /\ stage' = "error"
    /\ timedOut' = timedOut \cup {a}
    /\ UNCHANGED <<txDigest, keyRef, asked, left, payment, chainVars, pc, req>>

-----------------------------------------------------------------------------
(***************************************************************************)
(* buildTipTransaction.                                                    *)
(***************************************************************************)

Refuse(a) ==
    /\ pc' = [pc EXCEPT ![a] = "refused"]
    /\ Show(a, "error")
    /\ UNCHANGED <<payment, chainVars, req>>

Goto(a, place) ==
    /\ pc' = [pc EXCEPT ![a] = place]
    /\ UNCHANGED <<pageVars, payment, chainVars, req>>

\* A key in use may only rebuild a transfer that is the same and pending.
findPayment(a) ==
    LET row      == payment[req[a].key]
        existing == row # NoRow
    IN  /\ pc[a] = "find"
        /\ IF \/ AmountOf[req[a].transfer] < MIN_TIP_USDC
              \/ existing /\ (row.transfer # req[a].transfer \/ row.status # "PENDING")
           THEN Refuse(a)
           ELSE /\ pc' = [pc EXCEPT ![a] = "balance"]
                /\ req' = [req EXCEPT ![a].existing = existing]
                /\ UNCHANGED <<pageVars, payment, chainVars>>

\* The parties and the sender's balance are looked up and the bytes built.
checkBalance(a) ==
    LET transfer == req[a].transfer
    IN  /\ pc[a] = "balance"
        /\ IF transfer \notin Payable \/ usdc < AmountOf[transfer]
           THEN Refuse(a)
           ELSE Goto(a, IF req[a].existing THEN "built" ELSE "create")

\* The pending row is created; if another request with the key has won the
\* unique constraint, its row is returned with these bytes.
createPayment(a) ==
    LET k == req[a].key
    IN  /\ pc[a] = "create"
        /\ payment' = [payment EXCEPT ![k] =
              IF @ = NoRow THEN [NoRow EXCEPT !.status = "PENDING",
                                              !.transfer = req[a].transfer]
                           ELSE @]
        /\ pc' = [pc EXCEPT ![a] = "built"]
        /\ UNCHANGED <<pageVars, chainVars, req>>

-----------------------------------------------------------------------------
(***************************************************************************)
(* confirmTip.                                                             *)
(***************************************************************************)

\* The row is read and must be pending.
readPayment(a) ==
    /\ pc[a] = "read"
    /\ IF payment[req[a].key].status = "PENDING" THEN Goto(a, "execute") ELSE Refuse(a)

\* executeTransaction submits the signed bytes.
executeTransaction(a) ==
    /\ pc[a] = "execute"
    /\ tx' = [tx EXCEPT ![a] = "submitted"]
    /\ pc' = [pc EXCEPT ![a] = "await"]
    /\ UNCHANGED <<pageVars, payment, usdc, req>>

\* The node refuses the bytes (a signature that is not valid), or is down.
executeRefused(a) == pc[a] = "execute" /\ Goto(a, "fail")

\* (mutant) A transaction that was executed and failed counts as a success.
replyAborted_confirmed(a) ==
    pc[a] = "await" /\ tx[a] = "aborted" /\ Goto(a, "confirm")

replySuccess(a) == pc[a] = "await" /\ tx[a] = "executed" /\ Goto(a, "confirm")
replyAborted(a) == pc[a] = "await" /\ tx[a] = "aborted" /\ Goto(a, "fail")

\* The call throws without an answer; the transfer may execute all the same.
replyLost(a) == pc[a] = "await" /\ Goto(a, "fail")

\* The row becomes CONFIRMED, whatever it is by now.
markConfirmed(a) ==
    /\ pc[a] = "confirm"
    /\ payment' = [payment EXCEPT ![req[a].key].status = "CONFIRMED",
                                  ![req[a].key].digest = a]
    /\ pc' = [pc EXCEPT ![a] = "done"]
    /\ Show(a, "success")
    /\ UNCHANGED <<chainVars, req>>

\* (mutant) The row of a failed call stays pending, to be tried again.
markFailed_keepsPending(a) ==
    /\ pc[a] = "fail"
    /\ pc' = [pc EXCEPT ![a] = "error"]
    /\ Show(a, "error")
    /\ UNCHANGED <<payment, chainVars, req>>

\* The row becomes FAILED, whatever it is by now.
markFailed(a) ==
    /\ pc[a] = "fail"
    /\ payment' = [payment EXCEPT ![req[a].key].status = "FAILED"]
    /\ pc' = [pc EXCEPT ![a] = "error"]
    /\ Show(a, "error")
    /\ UNCHANGED <<chainVars, req>>

-----------------------------------------------------------------------------
(***************************************************************************)
(* Faults, and the chain.                                                  *)
(***************************************************************************)

\* A query fails, or the node does while the transfer is built.
stepFails(a) ==
    /\ pc[a] \in Working \ {"execute", "await"}
    /\ pc' = [pc EXCEPT ![a] = "failed"]
    /\ Show(a, "error")
    /\ UNCHANGED <<payment, chainVars, req>>

Crash ==
    /\ \E a \in Attempt : pc[a] \in Working
    /\ pc' = [a \in Attempt |-> IF pc[a] \in Working THEN "crashed" ELSE pc[a]]
    /\ stage' = IF \E a \in Flowing : pc[a] \in Working THEN "error" ELSE stage
    /\ UNCHANGED <<txDigest, keyRef, asked, timedOut, left, payment, chainVars, req>>

\* send_funds moves the amount, or aborts for want of it.
sendFunds(a) ==
    LET amount == AmountOf[req[a].transfer]
    IN  /\ tx[a] = "submitted"
        /\ IF usdc >= amount
           THEN /\ usdc' = usdc - amount
                /\ tx' = [tx EXCEPT ![a] = "executed"]
           ELSE /\ tx' = [tx EXCEPT ![a] = "aborted"]
                /\ UNCHANGED usdc
        /\ UNCHANGED <<pageVars, payment, pc, req>>

\* The validators never execute it.
txRejected(a) ==
    /\ tx[a] = "submitted"
    /\ tx' = [tx EXCEPT ![a] = "rejected"]
    /\ UNCHANGED <<pageVars, payment, usdc, pc, req>>

-----------------------------------------------------------------------------
Page(a)  == handleSubmit(a) \/ signAndConfirm(a) \/ signingFails(a) \/ clientTimesOut(a)
Build(a) == findPayment(a) \/ checkBalance(a) \/ createPayment(a)
Confirm(a) ==
    \/ readPayment(a) \/ executeTransaction(a) \/ executeRefused(a)
    \/ replySuccess(a) \/ replyAborted(a) \/ replyLost(a)
    \/ markConfirmed(a) \/ markFailed(a)
Chain(a) == sendFunds(a) \/ txRejected(a)

Next ==
    \/ \E a \in Attempt : Page(a) \/ Build(a) \/ Confirm(a) \/ stepFails(a) \/ Chain(a)
    \/ openPage \/ changeAmount \/ Crash

Spec == Init /\ [][Next]_vars

-----------------------------------------------------------------------------
(***************************************************************************)
(* Properties.                                                             *)
(***************************************************************************)

\* Every variable has its type.
TypeOK ==
    /\ stage \in {"idle", "building", "confirming", "success", "error"}
    /\ txDigest \in Attempt \cup {None}
    /\ keyRef \in Key \cup {None}
    /\ asked \in Transfer \cup {None}
    /\ timedOut \subseteq Attempt /\ left \subseteq Attempt
    /\ payment \in [Key -> [status : {"none", "PENDING", "CONFIRMED", "FAILED"},
                            transfer : Transfer \cup {None},
                            digest : Attempt \cup {None}]]
    /\ usdc \in Nat
    /\ tx \in [Attempt -> {"none", "submitted", "executed", "aborted", "rejected"}]
    /\ pc \in [Attempt -> {"idle", "built"} \cup Working \cup Ended]
    /\ req \in [Attempt -> [key : Key \cup {None}, transfer : Transfer \cup {None},
                            existing : BOOLEAN]]

\* What is shown as paid was paid: a CONFIRMED row names a transfer that was
\* executed for its key and for what it says, and the page shows a success
\* only for a transfer that was executed.
ConfirmedIsPaid ==
    /\ \A k \in Key : payment[k].status = "CONFIRMED" =>
          LET a == payment[k].digest
          IN  /\ a \in Attempt
              /\ tx[a] = "executed"
              /\ req[a].key = k
              /\ req[a].transfer = payment[k].transfer
    /\ stage = "success" => tx[txDigest] = "executed"

\* No money moves behind the app's back: whatever was submitted has a row with
\* its key and its transfer, so it is in the history.
SubmittedIsOnRecord ==
    \A a \in Attempt : tx[a] # "none" =>
        payment[req[a].key].transfer = req[a].transfer

\* Paying twice for one press takes a fault: when two transfers were executed
\* for one key, the client had given up on one of them while it was under way,
\* or its handler had failed or died, unless the page was opened anew over a tip
\* that was running, whose end enables the button while another one runs.
PaidTwiceOnlyByFault ==
    \A a, b \in Attempt :
        a # b /\ tx[a] = "executed" /\ tx[b] = "executed" /\ req[a].key = req[b].key
        => \/ \E c \in {a, b} : c \in timedOut \/ pc[c] \in {"failed", "crashed"}
           \/ left # {}

\* A transfer that was submitted does not stay PENDING in the history: its row
\* is settled when its handler has ended, unless that has failed or died.
SubmittedIsSettled ==
    \A a \in Attempt :
        tx[a] # "none" /\ pc[a] \in Ended \ {"failed", "crashed"} =>
            payment[req[a].key].status \in {"CONFIRMED", "FAILED"}

\* What a CONFIRMED row, and a row of anything submitted, may be relied on for.
ConfirmedSound == TypeOK /\ ConfirmedIsPaid
SubmittedSound == SubmittedIsOnRecord /\ SubmittedIsSettled
=============================================================================
