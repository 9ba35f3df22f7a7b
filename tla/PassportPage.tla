---------------------------- MODULE PassportPage ----------------------------
(***************************************************************************)
(* The passport page and its store in one tab: the copy of the Postgres    *)
(* row it shows, the level bar it draws from it, the snapshots it exports  *)
(* and the "Anchor stats on-chain" button.  What a sync and a snapshot do  *)
(* on the server is in PassportSync; here each is one step of the server,  *)
(* seen by its last answer.                                                *)
(***************************************************************************)
EXTENDS Integers, FiniteSets

CONSTANTS
    Totals,             \* totals of INK the reader goes through
    MaxPassportVisits,  \* bound: times the page, or the dashboard, is opened
    MaxExports,         \* bound: snapshots exported, here or elsewhere
    MaxAnchors,         \* bound: syncs
    MaxPassportFaults,  \* bound: requests that fail or whose answer is lost
    Unfetched           \* no copy of the row yet

ASSUME PassportPageAssumption ==
    /\ Totals \subseteq Nat /\ 0 \in Totals
    /\ MaxPassportVisits \in Nat /\ MaxExports \in Nat /\ MaxAnchors \in Nat
    /\ MaxPassportFaults \in Nat

VARIABLES
    kept,         \* Postgres: the Passport row (blob and synced are numbered, 0: none)
    copy,        \* store: passport
    passportLoading, passportError,  \* store: isLoading, error
    fetches,      \* fetchPassport in flight, with the row once the server has answered
    snapshot,     \* store: the blob of the snapshot answered last (0: none)
    exporting,    \* store, isSnapshoting: "no", "asked" or "stored"
    syncing,      \* store, syncStage: "idle", "working", "executed", "success" or "error"
    passportVisits, passportFaults,  \* counters for the bounds
    changed,        \* history: the row has changed since it was last read
    fetchesCrossed,    \* history: two fetches were in flight at once
    elsewhere     \* history: the last snapshot was not answered to this tab

copyVars     == <<copy, passportLoading, passportError, fetches>>
passportVars == <<kept, copyVars, snapshot, exporting, syncing, passportVisits,
                  passportFaults, changed, fetchesCrossed, elsewhere>>

-----------------------------------------------------------------------------
(***************************************************************************)
(* The level bar, drawn twice from the same row: by the page, in per cent, *)
(* and by the image of the passport, in pixels of 472.                     *)
(***************************************************************************)
Thresholds == <<0, 500, 2000, 6000, 15000, 40000>>
Least(m, n) == IF m < n THEN m ELSE n

\* Math.round(n / d), of numbers that are not negative.
rounded(n, d) == (2 * n + d) \div (2 * d)

\* levelProgress: how much of the way to the next level is done.
levelProgress(level, ink) ==
    IF level = 6 THEN 100
    ELSE Least(100, rounded(100 * (ink - Thresholds[level]),
                            Thresholds[level + 1] - Thresholds[level]))

\* The bar of the image: its length, and the INK it says is missing.
imageBar(level, ink) ==
    LET span == Thresholds[level + 1] - Thresholds[level]
        into == ink - Thresholds[level]
    IN  IF level = 6 THEN [fill |-> 472, missing |-> 0]
        ELSE [fill    |-> IF into < 0 THEN 0 ELSE rounded(472 * Least(into, span), span),
              missing |-> IF ink < Thresholds[level + 1] THEN Thresholds[level + 1] - ink ELSE 0]

-----------------------------------------------------------------------------
PassportInit ==
    /\ kept = [ink |-> 0, blob |-> 0, synced |-> 0]
    /\ copy = Unfetched /\ passportLoading = FALSE /\ passportError = FALSE
    /\ fetches = {} /\ snapshot = 0 /\ exporting = "no" /\ syncing = "idle"
    /\ passportVisits = 0 /\ passportFaults = 0
    /\ changed = FALSE /\ fetchesCrossed = FALSE /\ elsewhere = FALSE

\* fetchPassport, begun.
fetchPassport(n) ==
    /\ passportLoading' = TRUE /\ passportError' = FALSE
    /\ fetches' = fetches \cup {[number |-> n, row |-> Unfetched]}
    /\ fetchesCrossed' = (fetches # {})

\* The passport page or the dashboard is opened.
openPassport ==
    /\ passportVisits < MaxPassportVisits /\ passportVisits' = passportVisits + 1
    /\ fetchPassport(passportVisits)
    /\ UNCHANGED <<kept, copy, snapshot, exporting, syncing, passportFaults, changed, elsewhere>>

\* The skeleton is shown until there is a copy, whatever has failed; then the error, and
\* then the passport.
onShow == copy # Unfetched /\ ~passportLoading /\ ~passportError

retryPassport ==
    /\ passportError /\ ~passportLoading /\ copy # Unfetched
    /\ passportVisits < MaxPassportVisits /\ passportVisits' = passportVisits + 1
    /\ fetchPassport(passportVisits)
    /\ UNCHANGED <<kept, copy, snapshot, exporting, syncing, passportFaults, changed, elsewhere>>

\* findByUserId reads the row.
findByUserId(f) ==
    /\ f.row = Unfetched
    /\ fetches' = (fetches \ {f}) \cup {[f EXCEPT !.row = kept]}
    /\ changed' = FALSE
    /\ UNCHANGED <<kept, copy, passportLoading, passportError, snapshot, exporting, syncing,
                   passportVisits, passportFaults, fetchesCrossed, elsewhere>>

passportFetched(f) ==
    /\ f.row # Unfetched /\ fetches' = fetches \ {f}
    /\ copy' = f.row /\ passportLoading' = FALSE
    /\ UNCHANGED <<kept, passportError, snapshot, exporting, syncing, passportVisits,
                   passportFaults, changed, fetchesCrossed, elsewhere>>

PassportFault == passportFaults < MaxPassportFaults /\ passportFaults' = passportFaults + 1

fetchLost(f) ==
    /\ PassportFault /\ fetches' = fetches \ {f}
    /\ passportError' = TRUE /\ passportLoading' = FALSE
    /\ UNCHANGED <<kept, copy, snapshot, exporting, syncing, passportVisits, changed, fetchesCrossed,
                   elsewhere>>

\* INK is earned by reading.
inkEarned ==
    /\ \E n \in Totals : n > kept.ink /\ kept' = [kept EXCEPT !.ink = n]
    /\ changed' = TRUE
    /\ UNCHANGED <<copyVars, snapshot, exporting, syncing, passportVisits, passportFaults,
                   fetchesCrossed, elsewhere>>

-----------------------------------------------------------------------------
\* SnapshotSection names the snapshot exported last in this tab, or else the row's.
named == IF snapshot # 0 THEN snapshot ELSE copy.blob

\* The Export button, while no export runs.
exportSnapshot ==
    /\ onShow /\ exporting = "no" /\ exporting' = "asked"
    /\ UNCHANGED <<kept, copyVars, snapshot, syncing, passportVisits, passportFaults, changed,
                   fetchesCrossed, elsewhere>>

\* takeSnapshot has uploaded the history and stored the id of its blob.
takeSnapshot ==
    /\ exporting = "asked" /\ exporting' = "stored" /\ kept.blob < MaxExports
    /\ kept' = [kept EXCEPT !.blob = @ + 1] /\ changed' = TRUE /\ elsewhere' = FALSE
    /\ UNCHANGED <<copyVars, snapshot, syncing, passportVisits, passportFaults, fetchesCrossed>>

\* Another tab's export, under way beside this one's or not.
snapshotElsewhere ==
    /\ kept.blob < MaxExports /\ exporting # "stored"
    /\ kept' = [kept EXCEPT !.blob = @ + 1] /\ changed' = TRUE /\ elsewhere' = TRUE
    /\ UNCHANGED <<copyVars, snapshot, exporting, syncing, passportVisits, passportFaults, fetchesCrossed>>

snapshotTaken ==
    /\ exporting = "stored" /\ exporting' = "no" /\ snapshot' = kept.blob
    /\ UNCHANGED <<kept, copyVars, syncing, passportVisits, passportFaults, changed, fetchesCrossed, elsewhere>>

\* The export fails, or its answer is lost: the snapshot shown stays.
snapshotLost ==
    /\ PassportFault /\ exporting # "no" /\ exporting' = "no"
    /\ elsewhere' = (elsewhere \/ exporting = "stored")
    /\ UNCHANGED <<kept, copyVars, snapshot, syncing, passportVisits, changed, fetchesCrossed>>

-----------------------------------------------------------------------------
\* The button is there until a sync has succeeded, and not while one runs.
anchorStats ==
    /\ onShow /\ syncing \in {"idle", "error"} /\ kept.synced < MaxAnchors
    /\ syncing' = "working"
    /\ UNCHANGED <<kept, copyVars, snapshot, exporting, passportVisits, passportFaults, changed,
                   fetchesCrossed, elsewhere>>

\* submitSyncTransaction has executed it and stamped lastSyncedAt.
anchored ==
    /\ syncing = "working" /\ syncing' = "executed"
    /\ kept' = [kept EXCEPT !.synced = @ + 1] /\ changed' = TRUE
    /\ UNCHANGED <<copyVars, snapshot, exporting, passportVisits, passportFaults, fetchesCrossed, elsewhere>>

\* The stage says success, and the passport is fetched again.
syncSucceeded ==
    /\ syncing = "executed" /\ syncing' = "success"
    /\ fetchPassport(MaxPassportVisits + kept.synced)
    /\ UNCHANGED <<kept, copy, snapshot, exporting, passportVisits, passportFaults, changed, elsewhere>>

syncFailed ==
    /\ PassportFault /\ syncing \in {"working", "executed"} /\ syncing' = "error"
    /\ UNCHANGED <<kept, copyVars, snapshot, exporting, passportVisits, changed, fetchesCrossed, elsewhere>>

PassportNext ==
    \/ openPassport \/ retryPassport \/ inkEarned
    \/ exportSnapshot \/ takeSnapshot \/ snapshotElsewhere \/ snapshotTaken \/ snapshotLost
    \/ anchorStats \/ anchored \/ syncSucceeded \/ syncFailed
    \/ \E f \in fetches : findByUserId(f) \/ passportFetched(f) \/ fetchLost(f)

PassportSpec == PassportInit /\ [][PassportNext]_passportVars

-----------------------------------------------------------------------------
\* The bar is between empty and full for every level Postgres may keep beside a total (it
\* never raises the one the passport was minted with), the page and the image draw it to
\* the same length, up to half a per cent and half a pixel, and both say together that
\* nothing is missing.
BarSound ==
    \A level \in 1 .. 6 :
        kept.ink >= Thresholds[level] =>
            LET pct == levelProgress(level, kept.ink)
                bar == imageBar(level, kept.ink)
            IN  /\ pct \in 0 .. 100
                /\ 472 * pct - 100 * bar.fill \in -286 .. 286
                /\ bar.missing = 0 => pct = 100

\* A copy that was fetched shows the row, unless the row has changed since, or a fetch was
\* overtaken by another; and a page that says the stats are anchored shows that sync.
CopyTold ==
    fetches = {} /\ copy # Unfetched /\ ~passportError /\ ~fetchesCrossed =>
        /\ ~changed => copy = kept
        /\ syncing = "success" => copy.synced = kept.synced

\* The snapshot the page names is always one that was stored; and one exported here is the
\* one Postgres names, unless another tab's, or one whose answer was lost, came after it.
SnapshotTold ==
    /\ copy # Unfetched => named <= kept.blob
    /\ snapshot # 0 /\ exporting # "stored" /\ ~elsewhere => snapshot = kept.blob

PassportShown == BarSound /\ CopyTold /\ SnapshotTold
=============================================================================
