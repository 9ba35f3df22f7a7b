------------------------------ MODULE Catalogue ------------------------------
(***************************************************************************)
(* The chapter cache: ChapterService.getChapters, its background           *)
(* syncFromSource over the MangaDex adapter, and getPages, for one series  *)
(* of the source.                                                          *)
(*                                                                         *)
(* A request and the synchronisation it starts run side by side: the       *)
(* request waits for it only when nothing is cached yet.  Every await is a *)
(* step of its own.  What a creator publishes is in Publishing.            *)
(***************************************************************************)
EXTENDS Integers, FiniteSets

CONSTANTS
    Language,    \* languages readers ask for
    ChapterNumber, \* chapter numbers
    Id,          \* chapter ids of the source
    Job,         \* requests
    None,        \* no chapter, no value
    Listed,      \* what the source lists at the start
    MaxChanges,  \* bound: times the source changes its listing
    MaxForced,   \* bound: times the cache expires or is bypassed
    Faults       \* which of "source", "db", "net" and "crash" may happen

ASSUME CatalogueAssumption ==
    /\ ChapterNumber \subseteq Nat /\ MaxChanges \in Nat /\ MaxForced \in Nat
    /\ None \notin Id \cup ChapterNumber
    /\ Listed \in [Language -> [ChapterNumber -> Id \cup {None}]]
    /\ Faults \subseteq {"source", "db", "net", "crash"}

VARIABLES
    upstream,         \* the source's listing
    changes, forced,  \* how often it changed, and the cache was bypassed
    chapter,          \* the chapters table; at is the age of the listing
    chaptersSyncedAt, \* is Series.chaptersSyncedAt younger than 6 hours?
    pc, req,          \* each job's place and local variables
    sync,             \* the place of the synchronisation it has started
    answer,           \* the chapters a request answered with
    synced,           \* history: the listings that were stored to the end
    places,           \* history: where the source has ever listed an id
    faulty,           \* history: has a service failed, or the server died?
    overlapped        \* history: has a sync run beside another, or a page fetch?

source        == <<upstream, changes, places>>
catalogueVars == <<source, forced, chapter, chaptersSyncedAt, pc, req, sync, answer,
                   synced, faulty, overlapped>>

-----------------------------------------------------------------------------
NoRow == [id |-> None, pages |-> None, at |-> 0]
NoJob == [language |-> None, number |-> None, id |-> None, listed |-> {}, todo |-> {},
          at |-> 0, fresh |-> FALSE, stored |-> {}]

Row(id, at) == [id |-> id, pages |-> id, at |-> at]

CatalogueInit ==
    /\ upstream = Listed
    /\ \E cached \in SUBSET Language :
          chapter = [l \in Language |-> [n \in ChapterNumber |->
                        IF l \in cached /\ Listed[l][n] # None THEN Row(Listed[l][n], 0)
                                                               ELSE NoRow]]
    /\ places = {<<Listed[l][n], l, n>> : l \in Language, n \in ChapterNumber}
    /\ chaptersSyncedAt = FALSE
    /\ pc = [j \in Job |-> "idle"]
    /\ req = [j \in Job |-> NoJob]
    /\ sync = [j \in Job |-> "none"]
    /\ answer = [j \in Job |-> {}]
    /\ changes = 0 /\ forced = 0
    /\ synced = {} /\ faulty = FALSE /\ overlapped = FALSE

cachedNumbers(l) == {n \in ChapterNumber : chapter[l][n].id # None}

Syncing  == {j \in Job : sync[j] \in {"list", "rows", "stamp"}}
Fetching == {j \in Job : pc[j] = "at-home"}

Goto(j, place) == pc' = [pc EXCEPT ![j] = place]

-----------------------------------------------------------------------------
(***************************************************************************)
(* The source, and the clock.                                              *)
(***************************************************************************)
\* A group releases, replaces, renumbers or withdraws a chapter: id is listed at
\* number n and nowhere else.  (One page of the feed holds a series here.)
sourceChanges(l, n, id) ==
    /\ changes < MaxChanges /\ upstream[l][n] # id
    /\ id # None => \A k \in Language \ {l}, m \in ChapterNumber : <<id, k, m>> \notin places
    /\ upstream' = [upstream EXCEPT ![l] =
          [m \in ChapterNumber |-> IF m = n THEN id ELSE IF @[m] = id THEN None ELSE @[m]]]
    /\ changes' = changes + 1
    /\ places' = places \cup {<<id, l, n>>}
    /\ UNCHANGED <<forced, chapter, chaptersSyncedAt, pc, req, sync, answer, synced, faulty,
                   overlapped>>

ttlPasses ==
    /\ chaptersSyncedAt /\ forced < MaxForced
    /\ chaptersSyncedAt' = FALSE
    /\ forced' = forced + 1
    /\ UNCHANGED <<source, chapter, pc, req, sync, answer, synced, faulty, overlapped>>

-----------------------------------------------------------------------------
(***************************************************************************)
(* getChapters.                                                            *)
(***************************************************************************)

\* Reads the series; a fresh cache is served unless force says otherwise.
getChapters(j, l, force) ==
    /\ pc[j] = "idle"
    /\ force => chaptersSyncedAt /\ forced < MaxForced
    /\ forced' = IF force THEN forced + 1 ELSE forced
    /\ req' = [req EXCEPT ![j] = [NoJob EXCEPT !.language = l,
                                  !.fresh = chaptersSyncedAt /\ ~force, !.stored = synced]]
    /\ Goto(j, IF req'[j].fresh THEN "serve" ELSE "count")
    /\ UNCHANGED <<source, chapter, chaptersSyncedAt, sync, answer, synced, faulty, overlapped>>

\* (mutant) The request never waits for the sync it starts.
countCached_neverWaits(j) ==
    /\ pc[j] = "count"
    /\ sync' = [sync EXCEPT ![j] = "list"]
    /\ Goto(j, "serve")
    /\ overlapped' = (overlapped \/ Syncing \cup Fetching # {})
    /\ UNCHANGED <<source, forced, chapter, chaptersSyncedAt, req, answer, synced, faulty>>

\* Starts the sync, and waits for it when there is nothing to serve.
countCached(j) ==
    /\ pc[j] = "count"
    /\ sync' = [sync EXCEPT ![j] = "list"]
    /\ Goto(j, IF cachedNumbers(req[j].language) = {} THEN "wait" ELSE "serve")
    /\ overlapped' = (overlapped \/ Syncing \cup Fetching # {})
    /\ UNCHANGED <<source, forced, chapter, chaptersSyncedAt, req, answer, synced, faulty>>

\* The sync is over, with success or with a warning in the log.
awaited(j) ==
    /\ pc[j] = "wait" /\ sync[j] = "ended"
    /\ Goto(j, "serve")
    /\ UNCHANGED <<source, forced, chapter, chaptersSyncedAt, req, sync, answer, synced, faulty,
                   overlapped>>

serve(j) ==
    /\ pc[j] = "serve"
    /\ answer' = [answer EXCEPT ![j] = cachedNumbers(req[j].language)]
    /\ Goto(j, "served")
    /\ UNCHANGED <<source, forced, chapter, chaptersSyncedAt, req, sync, synced, faulty, overlapped>>

-----------------------------------------------------------------------------
(***************************************************************************)
(* syncFromSource.                                                         *)
(***************************************************************************)

\* listChapters: one entry per number, in ascending order.
listChapters(j) ==
    LET l == req[j].language
        entries == {n \in ChapterNumber : upstream[l][n] # None}
    IN  /\ sync[j] = "list"
        /\ req' = [req EXCEPT ![j].listed = {<<n, upstream[l][n]>> : n \in entries},
                              ![j].todo = entries, ![j].at = changes]
        /\ sync' = [sync EXCEPT ![j] = IF entries = {} THEN "stamp" ELSE "rows"]
        /\ UNCHANGED <<source, forced, chapter, chaptersSyncedAt, pc, answer, synced, faulty,
                       overlapped>>

idOf(j, n) == (CHOOSE e \in req[j].listed : e[1] = n)[2]

\* The loop is at number n: the upserts go up.
AtRow(j, n) == sync[j] = "rows" /\ n \in req[j].todo /\ \A m \in req[j].todo : n <= m

\* The loop goes on with the next number, or stamps the series.
NextRow(j, n) ==
    LET todo == req[j].todo \ {n}
    IN  /\ req' = [req EXCEPT ![j].todo = todo]
        /\ sync' = [sync EXCEPT ![j] = IF todo = {} THEN "stamp" ELSE "rows"]

\* Chapter.externalId is unique.
idTaken(l, n, id) ==
    \E k \in Language, m \in ChapterNumber : <<k, m>> # <<l, n>> /\ chapter[k][m].id = id

\* One upsert; an id that another row has makes it fail, and the row is skipped.
upsertChapter(j, n) ==
    LET l == req[j].language
    IN  /\ AtRow(j, n)
        /\ IF idTaken(l, n, idOf(j, n)) THEN UNCHANGED chapter
           ELSE chapter' = [chapter EXCEPT ![l][n] = Row(idOf(j, n), req[j].at)]
        /\ NextRow(j, n)
        /\ UNCHANGED <<source, forced, chaptersSyncedAt, pc, answer, synced, faulty, overlapped>>

\* A row that fails for any other reason is skipped as well.
upsertFails(j, n) ==
    /\ "db" \in Faults /\ AtRow(j, n)
    /\ NextRow(j, n)
    /\ faulty' = TRUE
    /\ UNCHANGED <<source, forced, chapter, chaptersSyncedAt, pc, answer, synced, overlapped>>

\* chaptersSyncedAt: of the series, whatever the language.
stampSeries(j) ==
    /\ sync[j] = "stamp"
    /\ chaptersSyncedAt' = TRUE
    /\ synced' = synced \cup {[language |-> req[j].language, listed |-> req[j].listed]}
    /\ sync' = [sync EXCEPT ![j] = "ended"]
    /\ UNCHANGED <<source, forced, chapter, pc, req, answer, faulty, overlapped>>

\* The source answers with an error or not in time; the request has caught it.
syncFails(j) ==
    /\ "source" \in Faults /\ sync[j] \in {"list", "stamp"}
    /\ sync' = [sync EXCEPT ![j] = "ended"]
    /\ faulty' = TRUE
    /\ UNCHANGED <<source, forced, chapter, chaptersSyncedAt, pc, req, answer, synced, overlapped>>

-----------------------------------------------------------------------------
(***************************************************************************)
(* getPages.                                                               *)
(***************************************************************************)
getPages(j, l, n) ==
    /\ pc[j] = "idle" /\ n \in cachedNumbers(l)
    /\ req' = [req EXCEPT ![j] = [NoJob EXCEPT !.language = l, !.number = n,
                                               !.id = chapter[l][n].id]]
    /\ Goto(j, "at-home")
    /\ overlapped' = (overlapped \/ Syncing # {})
    /\ UNCHANGED <<source, forced, chapter, chaptersSyncedAt, sync, answer, synced, faulty>>

\* (mutant) The count goes to the number's row in every language.
storePageCount_allLanguages(j) ==
    /\ pc[j] = "at-home"
    /\ chapter' = [l \in Language |-> [chapter[l] EXCEPT
                      ![req[j].number].pages = IF @ = None THEN None ELSE req[j].id]]
    /\ Goto(j, "served")
    /\ UNCHANGED <<source, forced, chaptersSyncedAt, req, sync, answer, synced, faulty, overlapped>>

\* The urls come from the source; a page count that differs is stored in the row,
\* which may hold another chapter by now.
storePageCount(j) ==
    /\ pc[j] = "at-home"
    /\ \/ UNCHANGED chapter
       \/ chapter' = [chapter EXCEPT ![req[j].language][req[j].number].pages = req[j].id]
    /\ Goto(j, "served")
    /\ UNCHANGED <<source, forced, chaptersSyncedAt, req, sync, answer, synced, faulty, overlapped>>

\* The server dies: its requests fail, and syncs nobody waits for are gone too.
crash ==
    /\ "crash" \in Faults
    /\ pc' = [j \in Job |-> IF pc[j] \in {"count", "wait", "serve", "at-home"} THEN "failed" ELSE pc[j]]
    /\ sync' = [j \in Job |-> IF j \in Syncing THEN "ended" ELSE sync[j]]
    /\ sync' # sync \/ pc' # pc
    /\ faulty' = TRUE
    /\ UNCHANGED <<source, forced, chapter, chaptersSyncedAt, req, answer, synced, overlapped>>

CatalogueStep(j) ==
    \/ countCached(j) \/ awaited(j) \/ serve(j)
    \/ listChapters(j) \/ stampSeries(j) \/ syncFails(j) \/ storePageCount(j)
    \/ \E n \in ChapterNumber : upsertChapter(j, n) \/ upsertFails(j, n)

CatalogueNext ==
    \/ \E l \in Language, n \in ChapterNumber, id \in Id \cup {None} : sourceChanges(l, n, id)
    \/ ttlPasses \/ crash
    \/ \E j \in Job : CatalogueStep(j)
    \/ \E j \in Job, l \in Language :
          \/ \E force \in BOOLEAN : getChapters(j, l, force)
          \/ \E n \in ChapterNumber : getPages(j, l, n)

-----------------------------------------------------------------------------
(***************************************************************************)
(* Properties.                                                             *)
(***************************************************************************)
\* Every variable has its type.
CatalogueTypeOK ==
    /\ upstream \in [Language -> [ChapterNumber -> Id \cup {None}]]
    /\ chapter \in [Language -> [ChapterNumber -> [id : Id \cup {None}, pages : Id \cup {None}, at : 0 .. MaxChanges]]]
    /\ sync \in [Job -> {"none", "list", "rows", "stamp", "ended"}]
    /\ answer \in [Job -> SUBSET ChapterNumber]

\* The source has listed an id at more than one number.
renumbered(id) == \E p, q \in places : p[1] = id /\ q[1] = id /\ p # q

\* A finished sync has stored all that it listed, whatever ran beside it; what no row has
\* is a chapter the source had under another number.
SyncStoresAll ==
    ~faulty => \A s \in synced : \A e \in s.listed :
                  e[1] \in cachedNumbers(s.language) \/ renumbered(e[2])

\* An answer is empty only when there was nothing to list: in the sync the request waited
\* for or, the cache being fresh, in the syncs of its language so far.  (The stamp is the
\* series', so there may have been none: only other languages were synced.)
EmptyMeansNone ==
    ~faulty => \A j \in Job : pc[j] = "served" /\ req[j].number = None /\ answer[j] = {} =>
        LET listings == IF req[j].fresh
                        THEN {s.listed : s \in {r \in req[j].stored : r.language = req[j].language}}
                        ELSE {req[j].listed}
        IN  \A e \in UNION listings : renumbered(e[2])

CacheServesSource == CatalogueTypeOK /\ SyncStoresAll /\ EmptyMeansNone

\* As long as no two syncs, nor a sync and a page fetch, overlap, a row never
\* goes back to an older listing, nor shows the page count of another chapter.
RowsMoveForward ==
    [][~overlapped' => \A l \in Language, n \in ChapterNumber :
          /\ chapter'[l][n].at >= chapter[l][n].at
          /\ chapter'[l][n].pages = chapter'[l][n].id]_catalogueVars
=============================================================================
