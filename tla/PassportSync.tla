---------------------------- MODULE PassportSync ----------------------------
(***************************************************************************)
(* A reader's passport between Postgres, Sui and Walrus: the passport      *)
(* store's syncOnChain with PassportService.buildSyncTransaction and       *)
(* submitSyncTransaction, GasService's sponsored transactions and          *)
(* passport::update_stats_attested; and takeSnapshot.                      *)
(*                                                                         *)
(* A sync is one click on "Anchor stats on-chain" in some tab; every await *)
(* of the store and of the two handlers is a step of its own.              *)
(***************************************************************************)
EXTENDS Integers, FiniteSets, FiniteSetsExt

CONSTANTS
    Tab,          \* browser tabs the reader is signed in with
    Job,          \* invocations of syncOnChain and of takeSnapshot
    InitialInk,   \* the INK the reader has earned before the start
    Earning,      \* the INK one milestone mints
    MaxEpoch,     \* last epoch the zkLogin signature is good for
    MaxChanges,   \* bound: totals the reader's stats go through
    MaxOthers,    \* bound: sponsored transactions of other readers
    Faults        \* which of "rpc" and "net" may happen

ASSUME PassportAssumption ==
    /\ InitialInk \in Nat /\ Earning \in Nat
    /\ MaxEpoch \in Nat /\ MaxChanges \in Nat /\ MaxOthers \in Nat
    /\ Faults \subseteq {"rpc", "net"}

VARIABLES
    \* --- Postgres ---
    stats,         \* the totals of the Passport row
    level,         \* Passport.level
    lastSyncedAt,  \* the sync that set it last
    blobId,        \* Passport.identityBlobId: the snapshot it names
    \* --- Sui and Walrus ---
    chain,         \* the ArktionPassport object, with its version
    gasVersion,    \* version of the treasury's coins
    epoch,         \* Sui's epoch
    blobs,         \* snapshots stored on Walrus
    \* --- the tabs and the server ---
    stage,         \* syncStage of each tab
    pc, req,       \* each job's place and local variables
    \* --- history ---
    past,          \* every value stats has had
    executed       \* syncs that changed the object

postgres == <<stats, level, lastSyncedAt, blobId>>
sui      == <<chain, gasVersion, epoch>>
vars     == <<postgres, sui, blobs, stage, pc, req, past, executed>>

-----------------------------------------------------------------------------

\* passport::calculate_level.
calculate_level(ink) ==
    1 + Cardinality({t \in {500, 2000, 6000, 15000, 40000} : ink >= t})

\* InkService.calculateLevel: its thresholds, scanned until one is not reached.
LEVEL_THRESHOLDS == <<0, 500, 2000, 6000, 15000, 40000>>
calculateLevel(ink) ==
    Max({i \in 1 .. 6 : i = 1 \/ \A j \in 2 .. i : ink >= LEVEL_THRESHOLDS[j]})

NoStats == [ink |-> 0, chapters |-> 0]
NoJob   == [tab |-> "none", stats |-> NoStats, records |-> 0, gas |-> 0,
            version |-> 0, readVersion |-> 0, readBlob |-> "none"]

Busy  == {"building", "signing", "submitting"}
Ended == {"done", "failed"}

Init ==
    /\ stats = [ink |-> InitialInk, chapters |-> 0]
    /\ level = 1
    /\ lastSyncedAt = "none"
    /\ blobId = "none"
    /\ chain = [stats |-> NoStats, level |-> 1, version |-> 1]
    /\ gasVersion = 1
    /\ epoch = MaxEpoch
    /\ blobs = {}
    /\ stage = [t \in Tab |-> "idle"]
    /\ pc = [j \in Job |-> "idle"]
    /\ req = [j \in Job |-> NoJob]
    /\ past = {NoStats, stats}
    /\ executed = {}

\* The job moves on; its tab shows st.
Move(j, place, st, locals) ==
    /\ pc' = [pc EXCEPT ![j] = place]
    /\ req' = [req EXCEPT ![j] = locals]
    /\ stage' = [t \in Tab |-> IF t = locals.tab THEN st ELSE stage[t]]

Step(j, place, locals) ==
    Move(j, place, IF locals.tab \in Tab THEN stage[locals.tab] ELSE "idle", locals)

-----------------------------------------------------------------------------
(***************************************************************************)
(* What happens around the passport.                                       *)
(***************************************************************************)
\* A milestone mints INK; a completed series counts its chapters, in a statement
\* of its own.  series_completed travels like chapters, and so does series_tracked, which
\* falls, too, when a record is deleted: what goes back with it is not followed here.
statsChange ==
    /\ Cardinality(past) < MaxChanges + 2
    /\ stats' \in {[stats EXCEPT !.ink = @ + Earning],
                   [stats EXCEPT !.chapters = @ + 1]}
    /\ past' = past \cup {stats'}
    /\ UNCHANGED <<level, lastSyncedAt, blobId, sui, blobs, stage, pc, req, executed>>

\* Another reader's sponsored transaction spends from the treasury's coins.
sponsorOther ==
    /\ gasVersion <= MaxOthers
    /\ gasVersion' = gasVersion + 1
    /\ UNCHANGED <<postgres, chain, epoch, blobs, stage, pc, req, past, executed>>

epochAdvances ==
    /\ epoch = MaxEpoch
    /\ epoch' = epoch + 1
    /\ UNCHANGED <<postgres, chain, gasVersion, blobs, stage, pc, req, past, executed>>

-----------------------------------------------------------------------------
(***************************************************************************)
(* syncOnChain: build.                                                     *)
(***************************************************************************)

\* The button is disabled while this tab is syncing.
syncOnChain(s, t) ==
    /\ pc[s] = "idle" /\ stage[t] \notin Busy
    /\ Move(s, "epoch", "building", [NoJob EXCEPT !.tab = t])
    /\ UNCHANGED <<postgres, sui, blobs, past, executed>>

checkEpoch(s) ==
    /\ pc[s] = "epoch"
    /\ IF epoch > MaxEpoch THEN Move(s, "failed", "error", req[s])
                           ELSE Step(s, "row", req[s])
    /\ UNCHANGED <<postgres, sui, blobs, past, executed>>

\* buildSyncTransaction reads the totals and the admin key signs them.
readRow(s) ==
    /\ pc[s] = "row"
    /\ Step(s, "coins", [req[s] EXCEPT !.stats = stats, !.readVersion = chain.version])
    /\ UNCHANGED <<postgres, sui, blobs, past, executed>>

\* (mutant) The INK of the call is read again, after the other totals.
listCoins_inkAgain(s) ==
    /\ pc[s] = "coins"
    /\ Step(s, "build", [req[s] EXCEPT !.gas = gasVersion, !.stats.ink = stats.ink])
    /\ UNCHANGED <<postgres, sui, blobs, past, executed>>

\* Gas is paid with every coin of the treasury, at the version it has now.
listCoins(s) ==
    /\ pc[s] = "coins"
    /\ Step(s, "build", [req[s] EXCEPT !.gas = gasVersion])
    /\ UNCHANGED <<postgres, sui, blobs, past, executed>>

\* The passport is an owned input: tx.build fixes its version.
buildBytes(s) ==
    /\ pc[s] = "build"
    /\ Move(s, "sign", "signing", [req[s] EXCEPT !.version = chain.version])
    /\ UNCHANGED <<postgres, sui, blobs, past, executed>>

signWithZkLogin(s) ==
    /\ pc[s] = "sign"
    /\ Move(s, "submit", "submitting", req[s])
    /\ UNCHANGED <<postgres, sui, blobs, past, executed>>

-----------------------------------------------------------------------------
(***************************************************************************)
(* syncOnChain: submit.                                                    *)
(***************************************************************************)

\* Sui takes the bytes while their inputs are current and the signature is good.
accepted(s) ==
    /\ req[s].version = chain.version
    /\ req[s].gas = gasVersion
    /\ epoch <= MaxEpoch

\* (mutant) No E_STALE_UPDATE.
stale_never(s) == FALSE

stale(s) == req[s].stats.ink < chain.stats.ink

\* submitSponsoredTx and update_stats_attested; the answer may not arrive.
executeSponsored(s) ==
    /\ pc[s] = "submit" /\ accepted(s) /\ ~stale(s)
    /\ chain' = [stats |-> req[s].stats, level |-> calculate_level(req[s].stats.ink),
                 version |-> chain.version + 1]
    /\ gasVersion' = gasVersion + 1
    /\ executed' = executed \cup {s}
    /\ \/ Step(s, "record", req[s])
       \/ "rpc" \in Faults /\ Move(s, "failed", "error", req[s])
    /\ UNCHANGED <<postgres, epoch, blobs, past>>

\* E_STALE_UPDATE: the transaction fails, its inputs get a new version, and
\* submitSponsoredTx throws.
abortStale(s) ==
    /\ pc[s] = "submit" /\ accepted(s) /\ stale(s)
    /\ chain' = [chain EXCEPT !.version = @ + 1]
    /\ gasVersion' = gasVersion + 1
    /\ Move(s, "failed", "error", req[s])
    /\ UNCHANGED <<postgres, epoch, blobs, past, executed>>

\* (mutant) The store does not catch the error.
refuse_uncaught(s) ==
    /\ pc[s] = "submit" /\ ~accepted(s)
    /\ Step(s, "failed", req[s])
    /\ UNCHANGED <<postgres, sui, blobs, past, executed>>

\* Sui refuses bytes whose inputs have moved on, or whose signature expired.
refuse(s) ==
    /\ pc[s] = "submit" /\ ~accepted(s)
    /\ Move(s, "failed", "error", req[s])
    /\ UNCHANGED <<postgres, sui, blobs, past, executed>>

\* lastSyncedAt, and the answer to the tab, which may get lost.
recordSync(s) ==
    /\ pc[s] = "record"
    /\ lastSyncedAt' = s
    /\ \/ Move(s, "done", "success", req[s])
       \/ "net" \in Faults /\ Move(s, "failed", "error", req[s])
    /\ UNCHANGED <<stats, level, blobId, sui, blobs, past, executed>>

-----------------------------------------------------------------------------
(***************************************************************************)
(* takeSnapshot.                                                           *)
(***************************************************************************)
readPassport(n) ==
    /\ pc[n] = "idle"
    /\ Step(n, "records", [NoJob EXCEPT !.stats = stats, !.readBlob = blobId])
    /\ UNCHANGED <<postgres, sui, blobs, past, executed>>

\* The library is read after the row: its completed chapters.
readRecords(n) ==
    /\ pc[n] = "records"
    /\ Step(n, "upload", [req[n] EXCEPT !.records = stats.chapters])
    /\ UNCHANGED <<postgres, sui, blobs, past, executed>>

\* The publisher stores the blob; its answer may get lost.
upload(n) ==
    /\ pc[n] = "upload"
    /\ blobs' = blobs \cup {n}
    /\ \/ Step(n, "store", req[n])
       \/ "net" \in Faults /\ Step(n, "failed", req[n])
    /\ UNCHANGED <<postgres, sui, past, executed>>

uploadFails(n) ==
    /\ "net" \in Faults
    /\ pc[n] = "upload"
    /\ Step(n, "failed", req[n])
    /\ UNCHANGED <<postgres, sui, blobs, past, executed>>

storeBlobId(n) ==
    /\ pc[n] = "store"
    /\ blobId' = n
    /\ Step(n, "done", req[n])
    /\ UNCHANGED <<stats, level, lastSyncedAt, sui, blobs, past, executed>>

-----------------------------------------------------------------------------
\* A request of the sync fails, at any await, before it reaches Sui.
syncFails(s) ==
    /\ Faults # {}
    /\ pc[s] \in {"epoch", "row", "coins", "build", "sign", "submit"}
    /\ Move(s, "failed", "error", req[s])
    /\ UNCHANGED <<postgres, sui, blobs, past, executed>>

SyncStep(s) ==
    \/ checkEpoch(s) \/ readRow(s) \/ listCoins(s) \/ buildBytes(s) \/ signWithZkLogin(s)
    \/ executeSponsored(s) \/ abortStale(s) \/ refuse(s) \/ recordSync(s) \/ syncFails(s)

SnapshotStep(n) ==
    \/ readPassport(n) \/ readRecords(n) \/ upload(n) \/ uploadFails(n) \/ storeBlobId(n)

Next ==
    \/ statsChange \/ sponsorOther \/ epochAdvances
    \/ \E j \in Job : SyncStep(j) \/ SnapshotStep(j) \/ \E t \in Tab : syncOnChain(j, t)

\* Every await of a sync ends, with an answer or an error.
Fairness == \A s \in Job : WF_vars(SyncStep(s))

Spec == Init /\ [][Next]_vars /\ Fairness

-----------------------------------------------------------------------------
(***************************************************************************)
(* Properties.                                                             *)
(***************************************************************************)
Stats == [ink : Nat, chapters : Nat]

\* Every variable has its type.
TypeOK ==
    /\ stats \in Stats /\ past \subseteq Stats
    /\ level \in 1 .. 6
    /\ lastSyncedAt \in Job \cup {"none"} /\ executed \subseteq Job
    /\ blobId \in Job \cup {"none"} /\ blobs \subseteq Job
    /\ chain \in [stats : Stats, level : 1 .. 6, version : Nat]
    /\ gasVersion \in Nat /\ epoch \in Nat
    /\ stage \in [Tab -> Busy \cup {"idle", "success", "error"}]
    /\ pc \in [Job -> Ended \cup {"idle", "epoch", "row", "coins", "build", "sign", "submit",
                                  "record", "records", "upload", "store"}]

\* The INK and the level on chain do not fall in this step.
InkStands == chain'.stats.ink >= chain.stats.ink /\ chain'.level >= chain.level

\* "Lifetime INK is monotonic" (update_stats_attested): no order in which built
\* transactions are submitted takes INK, or a level, off the passport.
InkNeverFalls == [][InkStands]_vars

\* The passport cannot show totals that were never true: what is on chain is one
\* row that Postgres held at one moment, not a mixture of several.
AttestedTotals == chain.stats \in past

\* The two programs that compute a level agree, on and around every threshold.
LevelsAgree ==
    /\ chain.level = calculateLevel(chain.stats.ink)
    /\ \A i \in 2 .. 6, d \in {-1, 0, 1} :
          calculate_level(LEVEL_THRESHOLDS[i] + d) = calculateLevel(LEVEL_THRESHOLDS[i] + d)

\* Chapters on chain move back in this step, or the snapshot named in Postgres
\* gets older, only if another sync executed between the reading of the row and
\* the building of the bytes, or another snapshot was stored in the meantime.
FallsBackInARace ==
    /\ chain'.stats.chapters < chain.stats.chapters =>
          \E s \in Job : /\ pc[s] = "submit" /\ pc'[s] # "submit"
                         /\ req[s].readVersion < req[s].version
    /\ blobId' # blobId /\ blobId # "none" =>
          \/ req[blobId'].stats.chapters >= req[blobId].stats.chapters
          \/ req[blobId'].readBlob # blobId

\* In no behaviour does the passport or its snapshot go back without such a race.
BackOnlyInARace == [][FallsBackInARace]_vars

\* lastSyncedAt and the "success" of a tab both mean that the passport was
\* changed on chain, whichever submissions failed or got lost.
SyncedIsOnChain ==
    /\ lastSyncedAt # "none" => lastSyncedAt \in executed
    /\ \A t \in Tab : stage[t] = "success" => \E s \in executed : req[s].tab = t

\* The snapshot Postgres names is on Walrus, and its library is no older than
\* the totals beside it.
SnapshotSound ==
    blobId # "none" => blobId \in blobs /\ req[blobId].stats.chapters <= req[blobId].records

\* What the passport, Postgres and Walrus say of the reader in every state.
PassportSound == TypeOK /\ AttestedTotals /\ LevelsAgree /\ SyncedIsOnChain /\ SnapshotSound

\* What no step takes back.
NothingFallsBack == InkNeverFalls /\ BackOnlyInARace

\* A tab does not sync for ever: whatever fails, the button comes back.
SyncEnds == \A t \in Tab : stage[t] \in Busy ~> stage[t] \notin Busy
=============================================================================
