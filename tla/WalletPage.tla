----------------------------- MODULE WalletPage -----------------------------
(***************************************************************************)
(* The wallet pages: the dialog that sends USDC, the store's stage, the    *)
(* two requests of a send on the server, and the reads the reader's page   *)
(* shows (USDC, INK and a page of the INK ledger) or the creator's (USDC). *)
(*                                                                         *)
(* A send takes the steps of a tip (module Payments) on a table of its     *)
(* own.  What differs is the dialog: it can be closed, and the page left,  *)
(* while a send runs on; the stage is the store's and the key is the       *)
(* page's, so a send that ends late speaks to whatever is open by then.    *)
(***************************************************************************)
EXTENDS Integers, FiniteSets

CONSTANTS
    MaxPresses,       \* bound: presses of the Send button, numbered
    Parcel,           \* what may be sent: a recipient and an amount
    Cost,             \* the amount of each
    FirstUsdc,        \* the sender's USDC at the start
    MaxWalletVisits,  \* bound: times the page is opened
    MaxEarned,        \* bound: INK earned, one ledger row each
    MaxReads,         \* bound: reads begun before the last turn of the ledger's page
    MaxWalletFaults,  \* bound: requests lost, handlers that fail
    Nobody            \* no parcel, and nothing told

ASSUME WalletAssumption ==
    /\ Nobody \notin Parcel /\ MaxPresses \in Nat
    /\ Cost \in [Parcel -> Nat \ {0}] /\ FirstUsdc \in Nat
    /\ MaxWalletVisits \in Nat /\ MaxEarned \in Nat /\ MaxReads \in Nat /\ MaxWalletFaults \in Nat

VARIABLES
    sendOpen,     \* the dialog is open
    sendStage,    \* store: "idle", "working", "success" or "error"
    sentBy,       \* store: sendTxDigest, named by its press (0: none)
    sendKeyRef,       \* idempotencyKeyRef, named by the press that drew it (0: none)
    form,         \* lastAttemptRef
    page,         \* LedgerSection's page (0: the creator's wallet page, which has none)
    card,         \* stores: what each read last told, and whether it failed
    reads,        \* reads in flight, with the server's answer once there is one
    send,         \* each press: where its request stands, and its arguments
    waiting,      \* presses the client still waits for
    sendRow,      \* Postgres: SendTransaction rows, by idempotencyKey
    coins, moved,  \* Sui: the sender's USDC, and the fate of each transfer
    earned,       \* INK earned
    walletVisits, readCount, walletFaults,  \* counters for the bounds
    faulted,      \* history: presses that met a fault
    strayed,      \* history: a send was left running
    passed        \* history: reads overtaken by another, or by what they tell

dialogVars == <<sendOpen, sendStage, sentBy, sendKeyRef, form>>
cardVars   == <<page, card, reads, readCount, passed>>
serverVars == <<sendRow, coins, moved, earned>>
walletVars == <<dialogVars, cardVars, send, waiting, serverVars, walletVisits,
                walletFaults, faulted, strayed>>

-----------------------------------------------------------------------------
Card    == {"usdc", "ink", "ledger"}
Serving == {"find", "create", "read", "execute", "await", "sent", "fail"}
Press   == 1 .. MaxPresses
NoSend  == [status |-> "none", what |-> Nobody, digest |-> 0]

WalletInit ==
    /\ sendOpen = FALSE /\ sendStage = "idle" /\ sentBy = 0
    /\ sendKeyRef = 0 /\ form = Nobody
    /\ page = 1 /\ reads = {}
    /\ card = [k \in Card |-> [told |-> Nobody, loading |-> FALSE, failed |-> FALSE]]
    /\ send = [f \in Press |-> [pc |-> "idle", key |-> 0, what |-> Nobody, visit |-> 0]]
    /\ waiting = {} /\ sendRow = [k \in Press |-> NoSend]
    /\ coins = FirstUsdc /\ moved = [f \in Press |-> "none"] /\ earned = 0
    /\ walletVisits = 0 /\ readCount = 0 /\ walletFaults = 0
    /\ faulted = {} /\ strayed = FALSE /\ passed = {}

\* What the server answers: getUsdcBalance (from the chain), getBalance, getLedger.
Truth(k, p) == CASE k = "usdc" -> [page |-> 0, amount |-> coins]
                 [] k = "ink"  -> [page |-> 0, amount |-> earned]
                 [] OTHER      -> [page |-> p, amount |-> earned]

\* Reads begin: a read that is alone tells what is true, one beside another of its kind may
\* be overtaken.
Read(ks, p) ==
    /\ readCount' = readCount + 1
    /\ reads' = reads \cup {[card |-> k, page |-> p, told |-> Nobody, number |-> readCount] : k \in ks}
    /\ card' = [k \in Card |-> IF k \in ks THEN [card[k] EXCEPT !.loading = TRUE, !.failed = FALSE]
                                          ELSE card[k]]
    /\ LET beside == {k \in ks : \E r \in reads : r.card = k}
       IN  passed' = (passed \ ks) \cup beside

\* A page is opened, or opened again: its refs are new, the stores' fields are not.
mountWallet(ks, p) ==
    /\ walletVisits < MaxWalletVisits /\ walletVisits' = walletVisits + 1
    /\ sendOpen' = FALSE /\ sendKeyRef' = 0 /\ form' = Nobody /\ page' = p
    /\ strayed' = (strayed \/ waiting # {})
    /\ Read(ks, p)
    /\ UNCHANGED <<sendStage, sentBy, send, waiting, serverVars, walletFaults, faulted>>

openWallet        == mountWallet(Card, 1)
openCreatorWallet == mountWallet({"usdc"}, 0)

\* The cards of the page that is open.
onPage == IF page = 0 THEN {"usdc"} ELSE Card

\* Previous and Next: within the pages of the total last told, and not while it loads.
setPage(p) ==
    /\ "ledger" \in onPage /\ card["ledger"].told # Nobody /\ ~card["ledger"].loading
    /\ p \in {page - 1, page + 1} \cap (1 .. card["ledger"].told.amount)
    /\ readCount < MaxReads /\ page' = p /\ Read({"ledger"}, p)
    /\ UNCHANGED <<dialogVars, send, waiting, serverVars, walletVisits, walletFaults, faulted, strayed>>

\* Retry, on a card that shows an error.
retryRead(k) ==
    /\ k \in onPage /\ card[k].failed /\ Read({k}, page) /\ UNCHANGED page
    /\ UNCHANGED <<dialogVars, send, waiting, serverVars, walletVisits, walletFaults, faulted, strayed>>

serveRead(r) ==
    /\ r.told = Nobody
    /\ reads' = (reads \ {r}) \cup {[r EXCEPT !.told = Truth(r.card, r.page)]}
    /\ UNCHANGED <<dialogVars, page, card, readCount, passed, send, waiting, serverVars,
                   walletVisits, walletFaults, faulted, strayed>>

readAnswered(r) ==
    /\ r.told # Nobody /\ reads' = reads \ {r}
    /\ card' = [card EXCEPT ![r.card] = [told |-> r.told, loading |-> FALSE, failed |-> FALSE]]
    /\ UNCHANGED <<dialogVars, page, readCount, passed, send, waiting, serverVars,
                   walletVisits, walletFaults, faulted, strayed>>

loseRead(r) ==
    /\ walletFaults < MaxWalletFaults /\ walletFaults' = walletFaults + 1
    /\ reads' = reads \ {r} /\ card' = [card EXCEPT ![r.card].failed = TRUE, ![r.card].loading = FALSE]
    /\ UNCHANGED <<dialogVars, page, readCount, passed, send, waiting, serverVars,
                   walletVisits, faulted, strayed>>

-----------------------------------------------------------------------------
(***************************************************************************)
(* The dialog.                                                             *)
(***************************************************************************)
openSend == /\ walletVisits > 0 /\ ~sendOpen /\ sendOpen' = TRUE
            /\ UNCHANGED <<sendStage, sentBy, sendKeyRef, form, cardVars, send, waiting, serverVars,
                           walletVisits, walletFaults, faulted, strayed>>

\* handleClose, Done included: stage, form and key are forgotten, a running send is not ended.
handleClose ==
    /\ sendOpen /\ sendOpen' = FALSE
    /\ sendStage' = "idle" /\ sentBy' = 0 /\ sendKeyRef' = 0 /\ form' = Nobody
    /\ strayed' = (strayed \/ waiting # {})
    /\ UNCHANGED <<cardVars, send, waiting, serverVars, walletVisits, walletFaults, faulted>>

\* Try again: the form is shown once more, its key kept.
resetSend == /\ sendOpen /\ sendStage = "error" /\ sendStage' = "idle" /\ sentBy' = 0
             /\ UNCHANGED <<sendOpen, sendKeyRef, form, cardVars, send, waiting, serverVars,
                            walletVisits, walletFaults, faulted, strayed>>

\* The key of an attempt: what was tried last keeps its key, anything else draws one, which
\* is named by the press.
keyFor(f, t) == IF sendKeyRef # 0 /\ form = t THEN sendKeyRef ELSE f

handleSend(f, t) ==
    /\ sendOpen /\ sendStage = "idle"
    /\ f = Cardinality({g \in Press : send[g].pc # "idle"}) + 1
    /\ sendKeyRef' = keyFor(f, t) /\ form' = t
    /\ sendStage' = "working" /\ sentBy' = 0
    /\ send' = [send EXCEPT ![f] = [pc |-> "find", key |-> sendKeyRef', what |-> t, visit |-> walletVisits]]
    /\ waiting' = waiting \cup {f}
    /\ UNCHANGED <<sendOpen, cardVars, serverVars, walletVisits, walletFaults, faulted, strayed>>

\* The dialog, the same on both pages.
SendModal == \/ openSend \/ handleClose \/ resetSend
             \/ \E f \in Press, t \in Parcel : handleSend(f, t)

\* (mutant) the balance is not read again
told_noRead(f, outcome) ==
    /\ waiting' = waiting \ {f}
    /\ sendStage' = outcome /\ sentBy' = IF outcome = "success" THEN f ELSE sentBy
    /\ LET mine == outcome = "success" /\ send[f].visit = walletVisits
       IN  sendKeyRef' = (IF mine THEN 0 ELSE sendKeyRef) /\ form' = (IF mine THEN Nobody ELSE form)
    /\ UNCHANGED <<sendOpen, cardVars>>

\* executeSend has ended: the store's stage is set whatever it is by now, the balance is read,
\* and a success forgets the key of the page it was pressed on.
told(f, outcome) ==
    /\ waiting' = waiting \ {f}
    /\ sendStage' = outcome /\ sentBy' = IF outcome = "success" THEN f ELSE sentBy
    /\ LET mine == outcome = "success" /\ send[f].visit = walletVisits
       IN  sendKeyRef' = (IF mine THEN 0 ELSE sendKeyRef) /\ form' = (IF mine THEN Nobody ELSE form)
    /\ Read({"usdc"}, 0) /\ UNCHANGED <<sendOpen, page>>

\* A handler ends; the client may no longer be waiting.
Ends(f, outcome) ==
    /\ send' = [send EXCEPT ![f].pc = "ended"]
    /\ IF f \in waiting THEN told(f, outcome) ELSE UNCHANGED <<dialogVars, cardVars, waiting>>
    /\ UNCHANGED <<walletVisits, strayed>>

Moves(f, place) ==
    /\ send' = [send EXCEPT ![f].pc = place]
    /\ UNCHANGED <<dialogVars, cardVars, waiting, walletVisits, walletFaults, faulted, strayed>>

\* The bytes have come and are signed, and the submit request goes out.
signSend(f) ==
    /\ f \in waiting /\ send[f].pc = "built"
    /\ sendStage' = "working" /\ send' = [send EXCEPT ![f].pc = "read"]
    /\ UNCHANGED <<sendOpen, sentBy, sendKeyRef, form, cardVars, waiting, serverVars, walletVisits,
                   walletFaults, faulted, strayed>>

\* The zkLogin session is gone or out of date, before the build or at the signature.
signingExpired(f) == /\ f \in waiting /\ send[f].pc \in {"find", "built"}
                     /\ Ends(f, "error") /\ UNCHANGED <<serverVars, walletFaults, faulted>>

-----------------------------------------------------------------------------
(***************************************************************************)
(* buildSendTransaction and submitSend.                                    *)
(***************************************************************************)

\* A key in use may only rebuild the same send while it is pending; the balance must do.
findSend(f) ==
    LET row  == sendRow[send[f].key]
        free == row = NoSend
    IN  /\ send[f].pc = "find"
        /\ IF (free \/ (row.what = send[f].what /\ row.status = "PENDING")) /\ coins >= Cost[send[f].what]
           THEN Moves(f, IF free THEN "create" ELSE "built")
           ELSE Ends(f, "error") /\ UNCHANGED <<walletFaults, faulted>>
        /\ UNCHANGED serverVars

\* The pending row is created, or found if another request has just created it.
createSend(f) ==
    /\ send[f].pc = "create" /\ Moves(f, "built")
    /\ sendRow' = [sendRow EXCEPT ![send[f].key] =
          IF @ = NoSend THEN [NoSend EXCEPT !.status = "PENDING", !.what = send[f].what] ELSE @]
    /\ UNCHANGED <<coins, moved, earned>>

readSend(f) ==
    /\ send[f].pc = "read"
    /\ IF sendRow[send[f].key].status = "PENDING" THEN Moves(f, "execute")
       ELSE Ends(f, "error") /\ UNCHANGED <<walletFaults, faulted>>
    /\ UNCHANGED serverVars

executeSend(f) == /\ send[f].pc = "execute" /\ Moves(f, "await")
                  /\ moved' = [moved EXCEPT ![f] = "submitted"]
                  /\ UNCHANGED <<sendRow, coins, earned>>

replySent(f)    == send[f].pc = "await" /\ moved[f] = "executed" /\ Moves(f, "sent") /\ UNCHANGED serverVars
sendAborted(f) == send[f].pc = "await" /\ moved[f] = "aborted"  /\ Moves(f, "fail") /\ UNCHANGED serverVars

markSent(f) ==
    /\ send[f].pc = "sent" /\ Ends(f, "success")
    /\ sendRow' = [sendRow EXCEPT ![send[f].key].status = "CONFIRMED", ![send[f].key].digest = f]
    /\ UNCHANGED <<coins, moved, earned, walletFaults, faulted>>

markSendFailed(f) ==
    /\ send[f].pc = "fail" /\ Ends(f, "error")
    /\ sendRow' = [sendRow EXCEPT ![send[f].key].status = "FAILED"]
    /\ UNCHANGED <<coins, moved, earned, walletFaults, faulted>>

-----------------------------------------------------------------------------
(***************************************************************************)
(* Faults, and what happens elsewhere.                                     *)
(***************************************************************************)
Fault(f) == /\ walletFaults < MaxWalletFaults /\ walletFaults' = walletFaults + 1
            /\ faulted' = faulted \cup {f}

\* The client gives up after 15 seconds, and the handler runs on.
clientGivesUp(f) == /\ f \in waiting /\ send[f].pc \in Serving
                    /\ Fault(f) /\ told(f, "error")
                    /\ UNCHANGED <<send, serverVars, walletVisits, strayed>>

\* A query fails, or the server stops: the row is left as it is.
handlerFails(f) == /\ send[f].pc \in Serving /\ Fault(f) /\ Ends(f, "error")
                   /\ UNCHANGED serverVars

\* The node's answer does not come, or it refuses the bytes.
sendReplyLost(f) == /\ send[f].pc \in {"execute", "await"} /\ Fault(f)
                /\ send' = [send EXCEPT ![f].pc = "fail"]
                /\ UNCHANGED <<dialogVars, cardVars, waiting, serverVars, walletVisits, strayed>>

\* send_funds moves the amount, or aborts for want of it.
moveFunds(f) ==
    /\ moved[f] = "submitted"
    /\ IF coins >= Cost[send[f].what]
       THEN moved' = [moved EXCEPT ![f] = "executed"] /\ coins' = coins - Cost[send[f].what]
       ELSE moved' = [moved EXCEPT ![f] = "aborted"] /\ UNCHANGED coins
    /\ passed' = IF f \in waiting THEN passed ELSE passed \cup {"usdc"}
    /\ UNCHANGED <<dialogVars, page, card, reads, readCount, send, waiting, sendRow, earned,
                   walletVisits, walletFaults, faulted, strayed>>

\* INK is earned: the balance and every page of the ledger move on.
earnElsewhere ==
    /\ earned < MaxEarned /\ earned' = earned + 1 /\ passed' = passed \cup {"ink", "ledger"}
    /\ UNCHANGED <<dialogVars, page, card, reads, readCount, send, waiting, sendRow, coins, moved,
                   walletVisits, walletFaults, faulted, strayed>>

WalletNext ==
    \/ openWallet \/ openCreatorWallet \/ SendModal \/ earnElsewhere
    \/ \E p \in 1 .. MaxEarned : setPage(p)
    \/ \E k \in Card : retryRead(k)
    \/ \E r \in reads : serveRead(r) \/ readAnswered(r) \/ loseRead(r)
    \/ \E f \in Press :
          \/ signSend(f) \/ signingExpired(f) \/ findSend(f) \/ createSend(f) \/ readSend(f)
          \/ executeSend(f) \/ replySent(f) \/ sendAborted(f) \/ markSent(f) \/ markSendFailed(f)
          \/ clientGivesUp(f) \/ handlerFails(f) \/ sendReplyLost(f) \/ moveFunds(f)

WalletSpec == WalletInit /\ [][WalletNext]_walletVars

-----------------------------------------------------------------------------
\* "Sent successfully" is only shown for a transfer that was executed, and a row that says
\* CONFIRMED names one of its own key and parcel.
SentMeansPaid ==
    /\ sendStage = "success" => moved[sentBy] = "executed"
    /\ \A k \in Press : sendRow[k].status = "CONFIRMED" =>
          LET f == sendRow[k].digest
          IN  moved[f] = "executed" /\ send[f].key = k /\ send[f].what = sendRow[k].what

\* Two transfers for one key take a fault on one of them, or a send that was left running
\* when the dialog was closed or the page left.
OneKeyPaysOnce ==
    strayed \/ \A f, g \in Press :
        f # g /\ moved[f] = "executed" /\ moved[g] = "executed" /\ send[f].key = send[g].key
        => {f, g} \cap faulted # {}

\* With nothing in flight, each card of the page that shows no error shows what the server would tell,
\* the balance after a send included, unless a read was overtaken by another or by INK
\* earned elsewhere, or a transfer was executed after its send had ended.
CardsTold ==
    reads = {} /\ waiting = {} /\ walletVisits > 0 =>
        \A k \in onPage \ passed : ~card[k].failed => card[k].told = Truth(k, page)

WalletSound == SentMeansPaid /\ OneKeyPaysOnce /\ CardsTold
=============================================================================
