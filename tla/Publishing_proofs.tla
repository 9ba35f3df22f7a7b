-------------------------- MODULE Publishing_proofs --------------------------
(***************************************************************************)
(* Proofs about the chapter cache, the creator's studio beside it and the  *)
(* studio's writing assistant, for any number of requests, visits and      *)
(* faults.  The cache's invariant ties each row and each sync to what the  *)
(* source has ever listed; the studio's ties a tab's copies of a status to *)
(* the visits that are open; the assistant's ties its messages to the      *)
(* question that is pending.                                               *)
(***************************************************************************)
EXTENDS Integers, Publishing, AiAssistant, FiniteSetTheorems, SequenceTheorems,
        WellFoundedInduction, TLAPS

-----------------------------------------------------------------------------
(***************************************************************************)
(* The chapter cache, with the studio beside it.                           *)
(***************************************************************************)
Listing      == [language : Language, listed : SUBSET (ChapterNumber \X Id)]
CacheRequest == [language : Language \cup {None}, number : ChapterNumber \cup {None},
                 id : Id \cup {None}, listed : SUBSET (ChapterNumber \X Id),
                 todo : SUBSET ChapterNumber, at : 0 .. MaxChanges, fresh : BOOLEAN,
                 stored : SUBSET Listing]

Place == {"idle", "count", "wait", "serve", "served", "at-home", "failed"}
         \cup {"load", "editor", "create", "promote", "push", "pushed", "loadList", "form", "save", "left"}

CacheTypes ==
    /\ CatalogueTypeOK /\ changes \in 0 .. MaxChanges /\ synced \subseteq Listing
    /\ pc \in [Job -> Place] /\ req \in [Job -> CacheRequest]
    /\ faulty \in BOOLEAN /\ overlapped \in BOOLEAN

\* A request that started a sync reads chapters, and is past the count; one that found the
\* cache fresh starts none.
JobPlaced(j) ==
    /\ sync[j] # "none" => /\ pc[j] \in {"wait", "serve", "served", "failed"}
                           /\ ~req[j].fresh /\ req[j].number = None
    /\ pc[j] \in {"count", "wait", "serve"} \/ sync[j] # "none" =>
          req[j].language \in Language /\ req[j].number = None
    /\ pc[j] = "at-home" => req[j].language \in Language /\ req[j].number \in ChapterNumber
    /\ pc[j] = "count" => sync[j] = "none" /\ ~req[j].fresh
    /\ pc[j] \in {"wait", "serve", "served"} /\ req[j].number = None =>
          (sync[j] = "none" <=> req[j].fresh)

JobsPlaced == \A j \in Job : JobPlaced(j)

\* What is upstream, in a row or in a listing, the source has listed there; a listing has
\* one entry per number.
ListedBySource ==
    /\ \A l \in Language, n \in ChapterNumber :
          /\ upstream[l][n] # None => <<upstream[l][n], l, n>> \in places
          /\ chapter[l][n].id # None => <<chapter[l][n].id, l, n>> \in places
    /\ \A j \in Job :
          /\ \A e \in req[j].listed : <<e[2], req[j].language, e[1]>> \in places
          /\ \A e, f \in req[j].listed : e[1] = f[1] => e = f
          /\ \A n \in req[j].todo : \E e \in req[j].listed : e[1] = n

\* An entry is in the cache, or is a chapter renumbered.
Held(l, e) == e[1] \in cachedNumbers(l) \/ renumbered(e[2])

\* A sync holds all that it is through with; an empty answer came after the sync ended.
SyncsHold ==
    ~faulty =>
        /\ \A j \in Job : sync[j] \in {"rows", "stamp", "ended"} =>
              /\ sync[j] # "rows" => req[j].todo = {}
              /\ \A e \in req[j].listed : e[1] \in req[j].todo \/ Held(req[j].language, e)
        /\ \A j \in Job : req[j].stored \subseteq synced
        /\ \A j \in Job : pc[j] = "serve" /\ ~req[j].fresh =>
              sync[j] = "ended" \/ cachedNumbers(req[j].language) # {}
        /\ \A j \in Job : pc[j] = "served" /\ req[j].number = None /\ answer[j] = {} /\ ~req[j].fresh =>
              sync[j] = "ended"

\* EmptyMeansNone of one request.
EmptyIsRight(j) ==
    /\ ~req[j].fresh => \A e \in req[j].listed : renumbered(e[2])
    /\ req[j].fresh => \A s \in req[j].stored :
          s.language = req[j].language => \A e \in s.listed : renumbered(e[2])

AnswersHold ==
    ~faulty => \A j \in Job :
        pc[j] = "served" /\ req[j].number = None /\ answer[j] = {} => EmptyIsRight(j)

\* No row is younger than the source; a lone sync is the youngest writer, and a page count
\* is of the row it was fetched for.
RowsInStep ==
    /\ \A j \in Job : req[j].at <= changes
    /\ \A l \in Language, n \in ChapterNumber : chapter[l][n].at <= changes
    /\ ~overlapped =>
        /\ \A l \in Language, n \in ChapterNumber : chapter[l][n].pages = chapter[l][n].id
        /\ \A j, k \in Syncing : j = k
        /\ Syncing = {} \/ Fetching = {}
        /\ \A j \in Job : sync[j] = "rows" =>
              \A l \in Language, n \in ChapterNumber : chapter[l][n].at <= req[j].at
        /\ \A j \in Fetching : chapter[req[j].language][req[j].number].id = req[j].id

CacheInv == /\ CacheTypes /\ JobsPlaced /\ ListedBySource
            /\ SyncsHold /\ SyncStoresAll /\ AnswersHold /\ RowsInStep

\* What RowsMoveForward says of a step.
RowsGoForward ==
    ~overlapped' => \A l \in Language, n \in ChapterNumber :
        /\ chapter'[l][n].at >= chapter[l][n].at
        /\ chapter'[l][n].pages = chapter'[l][n].id

CacheKept == CacheInv' /\ RowsGoForward

LEMMA EmptySplits == AnswersHold <=> EmptyMeansNone
  <1>1. ASSUME NEW j \in Job
        PROVE  LET listings == IF req[j].fresh
                        THEN {s.listed : s \in {r \in req[j].stored : r.language = req[j].language}}
                        ELSE {req[j].listed}
               IN  EmptyIsRight(j) <=> \A e \in UNION listings : renumbered(e[2])
    <2>1. CASE req[j].fresh
      BY <2>1, Zenon DEF EmptyIsRight
    <2>2. CASE ~req[j].fresh
      BY <2>2, Zenon DEF EmptyIsRight
    <2> QED
      BY <2>1, <2>2
  <1> QED
    BY <1>1, Zenon DEF AnswersHold, EmptyMeansNone

\* What is held stays held while no row goes and no place is forgotten.
LEMMA CacheGrows ==
    ASSUME places \subseteq places',
           \A l \in Language, n \in ChapterNumber : chapter[l][n].id # None => chapter'[l][n].id # None
    PROVE  /\ \A l \in Language : cachedNumbers(l) \subseteq cachedNumbers(l)'
           /\ \A id : renumbered(id) => renumbered(id)'
           /\ \A l \in Language : \A e : Held(l, e) => Held(l, e)'
  BY DEF cachedNumbers, renumbered, Held

LEMMA CacheStart == CatalogueInit => CacheInv
  <1> SUFFICES ASSUME CatalogueInit PROVE CacheInv
    OBVIOUS
  <1> USE CatalogueAssumption
  <1>0. /\ \A l \in Language, n \in ChapterNumber :
              chapter[l][n] = NoRow \/ (chapter[l][n] = Row(Listed[l][n], 0) /\ Listed[l][n] # None)
        /\ chapter \in [Language -> [ChapterNumber -> [id : Id \cup {None}, pages : Id \cup {None}, at : 0 .. MaxChanges]]]
    <2>1. PICK cached \in SUBSET Language :
              chapter = [l \in Language |-> [n \in ChapterNumber |->
                            IF l \in cached /\ Listed[l][n] # None THEN Row(Listed[l][n], 0)
                                                                   ELSE NoRow]]
      BY DEF CatalogueInit
    <2> QED
      BY <2>1 DEF NoRow, Row
  <1>1. CacheTypes
    <2>1. CatalogueTypeOK
      BY <1>0 DEF CatalogueInit, CatalogueTypeOK
    <2>2. NoJob \in CacheRequest
      BY DEF NoJob, CacheRequest
    <2>3. pc \in [Job -> Place]
      BY DEF CatalogueInit, Place
    <2>5. req \in [Job -> CacheRequest]
      BY <2>2 DEF CatalogueInit
    <2>4. changes \in 0 .. MaxChanges /\ synced \subseteq Listing
      BY DEF CatalogueInit
    <2> QED
      BY <2>1, <2>3, <2>4, <2>5 DEF CatalogueInit, CacheTypes
  <1>2. JobsPlaced
    BY DEF CatalogueInit, JobsPlaced, JobPlaced
  <1>3. ListedBySource
    BY <1>0 DEF CatalogueInit, ListedBySource, NoRow, Row, NoJob
  <1>4. SyncsHold /\ SyncStoresAll /\ AnswersHold
    BY DEF CatalogueInit, SyncsHold, SyncStoresAll, AnswersHold, NoJob
  <1>5. RowsInStep
    <2>1. Syncing = {} /\ Fetching = {}
      BY DEF CatalogueInit, Syncing, Fetching
    <2> QED
      BY <1>0, <2>1 DEF CatalogueInit, RowsInStep, NoRow, Row, NoJob
  <1> QED
    BY <1>1, <1>2, <1>3, <1>4, <1>5 DEF CacheInv

\* Steps of visits, of the clock and of a dying server change no row, listing or request.
LEMMA CacheAtRest ==
    ASSUME CacheInv, UNCHANGED <<source, chapter, req, answer, synced, overlapped>>,
           pc' \in [Job -> Place], faulty' \in BOOLEAN, faulty => faulty',
           \/ /\ sync' = sync
              /\ \A k \in Job : pc'[k] # pc[k] =>
                    pc[k] \notin {"count", "wait", "serve", "served", "at-home", "failed"} /\
                    pc'[k] \notin {"count", "wait", "serve", "served", "at-home", "failed"}
           \/ /\ faulty'
              /\ \A k \in Job : /\ sync'[k] = sync[k] \/ (k \in Syncing /\ sync'[k] = "ended")
                                /\ pc'[k] \in {pc[k], "failed"}
              /\ sync' \in [Job -> {"none", "list", "rows", "stamp", "ended"}]
    PROVE  CacheKept
  <1>1. CacheTypes'
    BY DEF CacheInv, CacheTypes, CatalogueTypeOK, source
  <1>2. JobsPlaced'
    BY DEF CacheInv, CacheTypes, CatalogueTypeOK, JobsPlaced, JobPlaced, Place, Syncing
  <1>3. ListedBySource'
    BY DEF CacheInv, ListedBySource, source
  <1>4. /\ \A l \in Language : cachedNumbers(l)' = cachedNumbers(l)
        /\ \A id : renumbered(id)' = renumbered(id)
    BY DEF cachedNumbers, renumbered, source
  <1>5. SyncsHold' /\ SyncStoresAll' /\ AnswersHold'
    <2>1. CASE faulty'
      BY <2>1 DEF SyncsHold, SyncStoresAll, AnswersHold
    <2>2. CASE ~faulty'
      <3>1. sync' = sync /\ \A k \in Job : pc'[k] \in {"serve", "served"} => pc'[k] = pc[k]
        BY <2>2
      <3>2. SyncsHold'
        BY <1>4, <2>2, <3>1 DEF CacheInv, SyncsHold, Held, JobsPlaced, JobPlaced
      <3>3. SyncStoresAll'
        BY <1>4, <2>2 DEF CacheInv, CacheTypes, Listing, SyncStoresAll
      <3>4. AnswersHold'
        BY <1>4, <2>2, <3>1 DEF CacheInv, AnswersHold, EmptyIsRight
      <3> QED
        BY <3>2, <3>3, <3>4
    <2> QED
      BY <2>1, <2>2 DEF CacheInv, CacheTypes
  <1>6. Syncing' \subseteq Syncing /\ Fetching' \subseteq Fetching /\ \A j \in Job : sync'[j] = "rows" => sync[j] = "rows"
    BY DEF Syncing, Fetching
  <1>7. RowsInStep'
    BY <1>6 DEF CacheInv, RowsInStep, source
  <1>8. RowsGoForward
    BY DEF CacheInv, CacheTypes, CatalogueTypeOK, RowsInStep, RowsGoForward
  <1> QED
    BY <1>1, <1>2, <1>3, <1>5, <1>7, <1>8 DEF CacheInv, CacheKept

LEMMA CrashKeepsCache == ASSUME CacheInv, crash PROVE CacheKept
  <1>1. /\ pc' \in [Job -> Place] /\ sync' \in [Job -> {"none", "list", "rows", "stamp", "ended"}]
        /\ \A k \in Job : /\ sync'[k] = sync[k] \/ (k \in Syncing /\ sync'[k] = "ended")
                          /\ pc'[k] \in {pc[k], "failed"}
    BY DEF crash, CacheInv, CacheTypes, CatalogueTypeOK, Place
  <1> QED
    BY <1>1, CacheAtRest DEF crash, CacheInv, CacheTypes

LEMMA SourceKeepsCache ==
    ASSUME CacheInv, NEW l \in Language, NEW n \in ChapterNumber, NEW id \in Id \cup {None},
           sourceChanges(l, n, id)
    PROVE  CacheKept
  <1> USE CatalogueAssumption DEF sourceChanges
  <1>0. /\ changes \in Nat /\ changes' = changes + 1 /\ changes < MaxChanges
        /\ upstream' \in [Language -> [ChapterNumber -> Id \cup {None}]]
        /\ \A k \in Language, m \in ChapterNumber :
              upstream'[k][m] \in {None, upstream[k][m]} \/ (k = l /\ m = n /\ upstream'[k][m] = id)
    BY DEF CacheInv, CacheTypes, CatalogueTypeOK
  <1>1. CacheTypes'
    BY <1>0 DEF CacheInv, CacheTypes, CatalogueTypeOK
  <1>2. JobsPlaced'
    BY DEF CacheInv, JobsPlaced, JobPlaced
  <1>3. ListedBySource'
    <2>1. places \subseteq places' /\ <<id, l, n>> \in places'
      OBVIOUS
    <2>2. ASSUME NEW k \in Language, NEW m \in ChapterNumber, upstream'[k][m] # None
          PROVE  <<upstream'[k][m], k, m>> \in places'
      <3>1. CASE k = l /\ m = n /\ upstream'[k][m] = id
        BY <2>1, <3>1
      <3>2. CASE upstream'[k][m] = upstream[k][m]
        <4>1. <<upstream[k][m], k, m>> \in places
          BY <2>2, <3>2 DEF CacheInv, ListedBySource
        <4> QED
          BY <2>1, <3>2, <4>1, Zenon
      <3> QED
        BY <1>0, <2>2, <3>1, <3>2
    <2> QED
      BY <2>1, <2>2 DEF CacheInv, ListedBySource
  <1>4. /\ \A k \in Language : cachedNumbers(k)' = cachedNumbers(k)
        /\ \A i : renumbered(i) => renumbered(i)'
    BY DEF cachedNumbers, renumbered
  <1>5. SyncsHold'
    BY <1>4 DEF CacheInv, JobsPlaced, JobPlaced, SyncsHold, Held
  <1>6. SyncStoresAll'
    BY <1>4 DEF CacheInv, CacheTypes, Listing, SyncStoresAll
  <1>7. AnswersHold'
    BY <1>4 DEF CacheInv, AnswersHold, EmptyIsRight
  <1>8. RowsInStep' /\ RowsGoForward
    BY <1>0 DEF CacheInv, CacheTypes, CatalogueTypeOK, CacheRequest, RowsInStep, RowsGoForward, Syncing, Fetching
  <1> QED
    BY <1>1, <1>2, <1>3, <1>5, <1>6, <1>7, <1>8 DEF CacheInv, CacheKept

\* What a step of one job's request, which leaves the rows and the source alone, has to say.
LEMMA RequestKeepsCache ==
    ASSUME CacheInv, NEW j \in Job, UNCHANGED <<source, chapter, synced, faulty>>,
           overlapped => overlapped', overlapped' \in BOOLEAN,
           pc' \in [Job -> Place], req' \in [Job -> CacheRequest], answer' \in [Job -> SUBSET ChapterNumber],
           sync' \in [Job -> {"none", "list", "rows", "stamp", "ended"}],
           \A k \in Job \ {j} : /\ pc'[k] = pc[k] /\ req'[k] = req[k]
                                /\ sync'[k] = sync[k] /\ answer'[k] = answer[k],
           JobPlaced(j)',
           \A e \in req'[j].listed : <<e[2], req'[j].language, e[1]>> \in places,
           \A e, f \in req'[j].listed : e[1] = f[1] => e = f,
           \A n \in req'[j].todo : \E e \in req'[j].listed : e[1] = n,
           ~faulty =>
              /\ sync'[j] \in {"rows", "stamp", "ended"} =>
                    /\ sync'[j] # "rows" => req'[j].todo = {}
                    /\ \A e \in req'[j].listed : e[1] \in req'[j].todo \/ Held(req'[j].language, e)
              /\ req'[j].stored \subseteq synced
              /\ pc'[j] = "serve" /\ ~req'[j].fresh =>
                    sync'[j] = "ended" \/ cachedNumbers(req'[j].language) # {}
              /\ pc'[j] = "served" /\ req'[j].number = None /\ answer'[j] = {} =>
                    /\ ~req'[j].fresh => sync'[j] = "ended"
                    /\ EmptyIsRight(j)',
           req'[j].at <= changes,
           sync'[j] = "rows" => (sync[j] = "rows" /\ req'[j].at = req[j].at) \/ req'[j].at = changes,
           ~overlapped' => /\ sync[j] \notin {"list", "rows", "stamp"} /\ sync'[j] \in {"list", "rows", "stamp"} =>
                                 Syncing \cup Fetching = {}
                           /\ pc'[j] = "at-home" /\ pc[j] # "at-home" => Syncing = {},
           pc'[j] = "at-home" => chapter[req'[j].language][req'[j].number].id = req'[j].id /\ pc[j] # "at-home"
                                   /\ sync'[j] = sync[j]
    PROVE  CacheKept
  <1>1. CacheTypes'
    BY DEF CacheInv, CacheTypes, CatalogueTypeOK, source
  <1>2. JobsPlaced'
    <2>1. ASSUME NEW k \in Job, k # j PROVE JobPlaced(k)'
      BY <2>1 DEF CacheInv, JobsPlaced, JobPlaced
    <2> QED
      BY <2>1 DEF JobsPlaced
  <1>3. ListedBySource'
    BY DEF CacheInv, ListedBySource, source
  <1>4. /\ \A l \in Language : cachedNumbers(l)' = cachedNumbers(l)
        /\ \A id : renumbered(id)' = renumbered(id)
        /\ \A l \in Language : \A e : Held(l, e)' = Held(l, e)
    BY DEF cachedNumbers, renumbered, Held, source
  <1>5. SyncsHold'
    <2>1. \A k \in Job \ {j} : sync'[k] # "none" => req'[k].language \in Language
      BY DEF CacheInv, JobsPlaced, JobPlaced
    <2>2. \A k \in Job \ {j} : pc'[k] = "serve" => req'[k].language \in Language
      BY DEF CacheInv, JobsPlaced, JobPlaced
    <2>3. sync'[j] # "none" \/ pc'[j] = "serve" => req'[j].language \in Language
      BY DEF JobsPlaced, JobPlaced
    <2>4. ASSUME ~faulty, NEW k \in Job, sync'[k] \in {"rows", "stamp", "ended"}
          PROVE  /\ sync'[k] # "rows" => req'[k].todo = {}
                 /\ \A e \in req'[k].listed : e[1] \in req'[k].todo \/ Held(req'[k].language, e)
      BY <1>4, <2>1, <2>3, <2>4 DEF CacheInv, SyncsHold
    <2>5. ASSUME ~faulty, NEW k \in Job
          PROVE  /\ req'[k].stored \subseteq synced
                 /\ pc'[k] = "serve" /\ ~req'[k].fresh =>
                       sync'[k] = "ended" \/ cachedNumbers(req'[k].language) # {}
                 /\ pc'[k] = "served" /\ req'[k].number = None /\ answer'[k] = {} /\ ~req'[k].fresh =>
                       sync'[k] = "ended"
      <3>1. CASE k = j
        BY <2>5, <3>1
      <3>2. CASE k # j
        <4>1. /\ pc'[k] = pc[k] /\ req'[k] = req[k] /\ sync'[k] = sync[k] /\ answer'[k] = answer[k]
          BY <3>2
        <4> QED
          BY <2>5, <4>1 DEF CacheInv, SyncsHold
      <3> QED
        BY <3>1, <3>2
    <2>6. \A k \in Job : sync'[k] # "none" \/ pc'[k] = "serve" => req'[k].language \in Language
      BY <2>1, <2>2, <2>3
    <2> QED
      BY <1>4, <2>4, <2>5, <2>6 DEF SyncsHold
  <1>6. SyncStoresAll'
    BY <1>4 DEF CacheInv, CacheTypes, Listing, SyncStoresAll
  <1>7. AnswersHold'
    BY <1>4 DEF CacheInv, AnswersHold, EmptyIsRight
  <1>8. RowsInStep'
    <2>1. \A k \in Job : req'[k].at <= changes
      BY DEF CacheInv, RowsInStep
    <2>2. \A l \in Language, n \in ChapterNumber : chapter'[l][n].at <= changes
      BY DEF CacheInv, RowsInStep
    <2>3. ASSUME ~overlapped'
          PROVE  /\ \A k, m \in Syncing' : k = m
                 /\ Syncing' = {} \/ Fetching' = {}
      <3>1. /\ Syncing' \subseteq Syncing \cup {j}
            /\ Fetching' \subseteq Fetching \cup {j}
            /\ j \in Fetching' => j \notin Fetching /\ (j \in Syncing' <=> j \in Syncing)
        BY DEF Syncing, Fetching
      <3>2. /\ j \in Syncing' \ Syncing => Syncing \cup Fetching = {}
            /\ j \in Fetching' => Syncing = {}
        BY <2>3, <3>1 DEF Syncing, Fetching
      <3>3. (\A k, m \in Syncing : k = m) /\ (Syncing = {} \/ Fetching = {})
        BY <2>3 DEF CacheInv, RowsInStep
      <3> QED
        BY <3>1, <3>2, <3>3
    <2>4. ASSUME ~overlapped', NEW k \in Job, sync'[k] = "rows", NEW l \in Language, NEW n \in ChapterNumber
          PROVE  chapter'[l][n].at <= req'[k].at
      BY <2>2, <2>4 DEF CacheInv, RowsInStep
    <2>5. ASSUME ~overlapped', NEW k \in Fetching'
          PROVE  chapter'[req'[k].language][req'[k].number].id = req'[k].id
      BY <2>5 DEF CacheInv, RowsInStep, Fetching
    <2>6. ~overlapped' => \A l \in Language, n \in ChapterNumber : chapter'[l][n].pages = chapter'[l][n].id
      BY DEF CacheInv, RowsInStep
    <2> QED
      BY <2>1, <2>2, <2>3, <2>4, <2>5, <2>6 DEF RowsInStep, source
  <1>9. RowsGoForward
    BY DEF CacheInv, CacheTypes, CatalogueTypeOK, RowsInStep, RowsGoForward
  <1> QED
    BY <1>1, <1>2, <1>3, <1>5, <1>6, <1>7, <1>8, <1>9 DEF CacheInv, CacheKept

LEMMA SyncFailsKeepsCache == ASSUME CacheInv, NEW j \in Job, syncFails(j) PROVE CacheKept
  <1>1. /\ pc' \in [Job -> Place] /\ sync' \in [Job -> {"none", "list", "rows", "stamp", "ended"}]
        /\ \A k \in Job : /\ sync'[k] = sync[k] \/ (k \in Syncing /\ sync'[k] = "ended")
                          /\ pc'[k] \in {pc[k], "failed"}
    BY DEF syncFails, CacheInv, CacheTypes, CatalogueTypeOK, Syncing
  <1> QED
    BY <1>1, CacheAtRest DEF syncFails, CacheInv, CacheTypes

LEMMA CountKeepsCache == ASSUME CacheInv, NEW j \in Job, countCached(j) PROVE CacheKept
  <1> DEFINE l == req[j].language
             next == IF cachedNumbers(l) = {} THEN "wait" ELSE "serve"
  <1>1. /\ pc[j] = "count" /\ sync' = [sync EXCEPT ![j] = "list"] /\ pc' = [pc EXCEPT ![j] = next]
        /\ overlapped' = (overlapped \/ Syncing \cup Fetching # {})
        /\ UNCHANGED <<source, chapter, req, answer, synced, faulty>>
    BY DEF countCached, Goto
  <1>2. /\ pc \in [Job -> Place] /\ req \in [Job -> CacheRequest] /\ answer \in [Job -> SUBSET ChapterNumber]
        /\ sync \in [Job -> {"none", "list", "rows", "stamp", "ended"}] /\ overlapped \in BOOLEAN
    BY DEF CacheInv, CacheTypes, CatalogueTypeOK
  <1>3. /\ pc' \in [Job -> Place] /\ sync' \in [Job -> {"none", "list", "rows", "stamp", "ended"}]
        /\ pc'[j] = next /\ sync'[j] = "list"
        /\ \A k \in Job \ {j} : pc'[k] = pc[k] /\ sync'[k] = sync[k]
    BY <1>1, <1>2 DEF Place
  <1>6. next = "wait" \/ (next = "serve" /\ cachedNumbers(l) # {})
    OBVIOUS
  <1> HIDE DEF next
  <1>4. JobPlaced(j)'
    <2>1. l \in Language /\ req[j].number = None /\ ~req[j].fresh
      BY <1>1 DEF CacheInv, JobsPlaced, JobPlaced
    <2>2. pc'[j] \in {"wait", "serve"} /\ sync'[j] = "list" /\ req' = req
      BY <1>1, <1>3, <1>6
    <2> QED
      BY <2>1, <2>2 DEF JobPlaced
  <1>5. /\ \A e \in req[j].listed : <<e[2], req[j].language, e[1]>> \in places
        /\ \A e, f \in req[j].listed : e[1] = f[1] => e = f
        /\ \A n \in req[j].todo : \E e \in req[j].listed : e[1] = n
        /\ ~faulty => req[j].stored \subseteq synced
        /\ req[j].at <= changes
    BY DEF CacheInv, ListedBySource, SyncsHold, RowsInStep
  <1> QED
    BY <1>1, <1>2, <1>3, <1>4, <1>5, <1>6, RequestKeepsCache

LEMMA AwaitedKeepsCache == ASSUME CacheInv, NEW j \in Job, awaited(j) PROVE CacheKept
  <1>1. /\ pc[j] = "wait" /\ sync[j] = "ended" /\ pc' = [pc EXCEPT ![j] = "serve"]
        /\ UNCHANGED <<source, chapter, req, sync, answer, synced, faulty, overlapped>>
    BY DEF awaited, Goto
  <1>2. /\ pc \in [Job -> Place] /\ req \in [Job -> CacheRequest] /\ answer \in [Job -> SUBSET ChapterNumber]
        /\ sync \in [Job -> {"none", "list", "rows", "stamp", "ended"}] /\ overlapped \in BOOLEAN
    BY DEF CacheInv, CacheTypes, CatalogueTypeOK
  <1>3. /\ pc' \in [Job -> Place] /\ pc'[j] = "serve"
        /\ \A k \in Job \ {j} : pc'[k] = pc[k]
    BY <1>1, <1>2 DEF Place
  <1>4. JobPlaced(j)'
    BY <1>1, <1>3 DEF CacheInv, JobsPlaced, JobPlaced
  <1>5. /\ \A e \in req[j].listed : <<e[2], req[j].language, e[1]>> \in places
        /\ \A e, f \in req[j].listed : e[1] = f[1] => e = f
        /\ \A n \in req[j].todo : \E e \in req[j].listed : e[1] = n
        /\ ~faulty => req[j].stored \subseteq synced
        /\ ~faulty => /\ req[j].todo = {}
                      /\ \A e \in req[j].listed : e[1] \in req[j].todo \/ Held(req[j].language, e)
        /\ req[j].at <= changes
    BY <1>1 DEF CacheInv, ListedBySource, SyncsHold, RowsInStep
  <1> QED
    BY <1>1, <1>2, <1>3, <1>4, <1>5, RequestKeepsCache

LEMMA ServeKeepsCache == ASSUME CacheInv, NEW j \in Job, serve(j) PROVE CacheKept
  <1> DEFINE l == req[j].language
  <1>1. /\ pc[j] = "serve" /\ answer' = [answer EXCEPT ![j] = cachedNumbers(l)]
        /\ pc' = [pc EXCEPT ![j] = "served"]
        /\ UNCHANGED <<source, chapter, req, sync, synced, faulty, overlapped>>
    BY DEF serve, Goto
  <1>2. /\ pc \in [Job -> Place] /\ req \in [Job -> CacheRequest] /\ answer \in [Job -> SUBSET ChapterNumber]
        /\ sync \in [Job -> {"none", "list", "rows", "stamp", "ended"}] /\ overlapped \in BOOLEAN
    BY DEF CacheInv, CacheTypes, CatalogueTypeOK
  <1>3. /\ pc' \in [Job -> Place] /\ pc'[j] = "served"
        /\ answer' \in [Job -> SUBSET ChapterNumber] /\ answer'[j] = cachedNumbers(l)
        /\ \A k \in Job \ {j} : pc'[k] = pc[k] /\ answer'[k] = answer[k]
    BY <1>1, <1>2 DEF Place, cachedNumbers
  <1>4. JobPlaced(j)'
    BY <1>1, <1>3 DEF CacheInv, JobsPlaced, JobPlaced
  <1>5. /\ \A e \in req[j].listed : <<e[2], req[j].language, e[1]>> \in places
        /\ \A e, f \in req[j].listed : e[1] = f[1] => e = f
        /\ \A n \in req[j].todo : \E e \in req[j].listed : e[1] = n
        /\ ~faulty => req[j].stored \subseteq synced
        /\ ~faulty /\ sync[j] \in {"rows", "stamp", "ended"} =>
              /\ sync[j] # "rows" => req[j].todo = {}
              /\ \A e \in req[j].listed : e[1] \in req[j].todo \/ Held(req[j].language, e)
        /\ req[j].at <= changes
        /\ sync[j] = "none" <=> req[j].fresh
    BY <1>1 DEF CacheInv, ListedBySource, SyncsHold, RowsInStep, JobsPlaced, JobPlaced
  <1>6. ASSUME ~faulty, cachedNumbers(l) = {}
        PROVE  (~req[j].fresh => sync[j] = "ended") /\ EmptyIsRight(j)
    <2>1. ~req[j].fresh => sync[j] = "ended"
      BY <1>1, <1>6 DEF CacheInv, SyncsHold
    <2>2. ~req[j].fresh => \A e \in req[j].listed : renumbered(e[2])
      BY <1>5, <1>6, <2>1 DEF Held
    <2>3. req[j].fresh => \A s \in req[j].stored :
              s.language = l => \A e \in s.listed : renumbered(e[2])
      BY <1>5, <1>6 DEF CacheInv, SyncStoresAll
    <2> QED
      BY <2>1, <2>2, <2>3 DEF EmptyIsRight
  <1>7. EmptyIsRight(j)' <=> EmptyIsRight(j)
    BY <1>1 DEF EmptyIsRight, renumbered, source
  <1> QED
    BY <1>1, <1>2, <1>3, <1>4, <1>5, <1>6, <1>7, RequestKeepsCache

LEMMA ListKeepsCache == ASSUME CacheInv, NEW j \in Job, listChapters(j) PROVE CacheKept
  <1> DEFINE l == req[j].language
             given == {n \in ChapterNumber : upstream[l][n] # None}
             found == {<<n, upstream[l][n]>> : n \in given}
             next == IF given = {} THEN "stamp" ELSE "rows"
  <1>1. /\ sync[j] = "list" /\ sync' = [sync EXCEPT ![j] = next]
        /\ req' = [req EXCEPT ![j].listed = found, ![j].todo = given, ![j].at = changes]
        /\ UNCHANGED <<source, chapter, pc, answer, synced, faulty, overlapped>>
    BY DEF listChapters
  <1>2. /\ pc \in [Job -> Place] /\ req \in [Job -> CacheRequest] /\ answer \in [Job -> SUBSET ChapterNumber]
        /\ sync \in [Job -> {"none", "list", "rows", "stamp", "ended"}] /\ overlapped \in BOOLEAN
        /\ changes \in 0 .. MaxChanges /\ upstream \in [Language -> [ChapterNumber -> Id \cup {None}]]
    BY DEF CacheInv, CacheTypes, CatalogueTypeOK
  <1>3. /\ pc[j] \in {"wait", "serve", "served", "failed"} /\ ~req[j].fresh /\ req[j].number = None
        /\ l \in Language /\ JobPlaced(j)
    BY <1>1 DEF CacheInv, JobsPlaced, JobPlaced
  <1>4. /\ next \in {"stamp", "rows"} /\ (next = "stamp" => given = {})
        /\ found \subseteq ChapterNumber \X Id /\ given \subseteq ChapterNumber
        /\ \A e \in found : <<e[2], l, e[1]>> \in places
        /\ \A e, f \in found : e[1] = f[1] => e = f
        /\ \A n \in given : \E e \in found : e[1] = n
        /\ \A e \in found : e[1] \in given
    <2>1. next \in {"stamp", "rows"} /\ (next = "stamp" => given = {})
      OBVIOUS
    <2>2. /\ found \subseteq ChapterNumber \X Id /\ given \subseteq ChapterNumber
          /\ \A e, f \in found : e[1] = f[1] => e = f
          /\ \A e \in found : e[1] \in given
      BY <1>2, <1>3
    <2>3. \A e \in found : <<e[2], l, e[1]>> \in places
      <3>1. ASSUME NEW n \in given PROVE <<upstream[l][n], l, n>> \in places
        BY <1>3 DEF CacheInv, ListedBySource
      <3> QED
        BY <3>1
    <2>4. ASSUME NEW n \in given PROVE \E e \in found : e[1] = n
      <3>1. <<n, upstream[l][n]>> \in found
        OBVIOUS
      <3> QED
        BY <3>1
    <2> QED
      BY <2>1, <2>2, <2>3, <2>4
  <1> HIDE DEF next, found, given
  <1>5. /\ sync' \in [Job -> {"none", "list", "rows", "stamp", "ended"}] /\ sync'[j] = next
        /\ \A k \in Job \ {j} : sync'[k] = sync[k] /\ req'[k] = req[k]
        /\ req'[j] = [req[j] EXCEPT !.listed = found, !.todo = given, !.at = changes]
    BY <1>1, <1>2, <1>4
  <1>6. /\ req'[j] \in CacheRequest /\ req'[j].listed = found /\ req'[j].todo = given /\ req'[j].at = changes
        /\ req'[j].language = l /\ req'[j].fresh = req[j].fresh /\ req'[j].number = req[j].number
        /\ req'[j].stored = req[j].stored /\ req'[j].id = req[j].id
    <2>1. req[j] \in CacheRequest
      BY <1>2
    <2>2. /\ found \subseteq ChapterNumber \X Id /\ given \subseteq ChapterNumber
          /\ changes \in 0 .. MaxChanges
      BY <1>2, <1>4
    <2>3. req'[j] = [req[j] EXCEPT !.listed = found, !.todo = given, !.at = changes]
      BY <1>5
    <2> QED
      BY <2>1, <2>2, <2>3 DEF CacheRequest
  <1>7. req' \in [Job -> CacheRequest]
    BY <1>1, <1>2, <1>5, <1>6
  <1>8. JobPlaced(j)'
    BY <1>1, <1>3, <1>4, <1>5, <1>6 DEF JobPlaced
  <1>9. ~faulty => /\ req[j].stored \subseteq synced
                   /\ pc[j] = "serve" => cachedNumbers(l) # {}
                   /\ ~(pc[j] = "served" /\ answer[j] = {})
    BY <1>1, <1>3 DEF CacheInv, SyncsHold
  <1>10. changes <= changes
    BY <1>2, CatalogueAssumption
  <1>11. ~faulty =>
              /\ sync'[j] \in {"rows", "stamp", "ended"} =>
                    /\ sync'[j] # "rows" => req'[j].todo = {}
                    /\ \A e \in req'[j].listed : e[1] \in req'[j].todo \/ Held(req'[j].language, e)
              /\ req'[j].stored \subseteq synced
              /\ pc'[j] = "serve" /\ ~req'[j].fresh =>
                    sync'[j] = "ended" \/ cachedNumbers(req'[j].language) # {}
              /\ ~(pc'[j] = "served" /\ answer'[j] = {})
    BY <1>1, <1>4, <1>5, <1>6, <1>9
  <1>12. /\ UNCHANGED <<source, chapter, synced, faulty>> /\ pc' = pc /\ answer' = answer /\ overlapped' = overlapped
         /\ pc'[j] # "at-home" /\ sync[j] = "list"
    BY <1>1, <1>3
  <1>13. /\ \A e \in req'[j].listed : <<e[2], req'[j].language, e[1]>> \in places
         /\ \A e, f \in req'[j].listed : e[1] = f[1] => e = f
         /\ \A n \in req'[j].todo : \E e \in req'[j].listed : e[1] = n
    BY <1>4, <1>6
  <1> HIDE DEF l
  <1> QED
    BY <1>2, <1>5, <1>6, <1>7, <1>8, <1>10, <1>11, <1>12, <1>13, RequestKeepsCache

LEMMA GetChaptersKeepsCache ==
    ASSUME CacheInv, NEW j \in Job, NEW l \in Language, NEW force \in BOOLEAN, getChapters(j, l, force)
    PROVE  CacheKept
  <1> DEFINE fresh == chaptersSyncedAt /\ ~force
             r == [NoJob EXCEPT !.language = l, !.fresh = fresh, !.stored = synced]
             next == IF fresh THEN "serve" ELSE "count"
  <1>1. /\ pc \in [Job -> Place] /\ req \in [Job -> CacheRequest] /\ answer \in [Job -> SUBSET ChapterNumber]
        /\ sync \in [Job -> {"none", "list", "rows", "stamp", "ended"}] /\ overlapped \in BOOLEAN
        /\ changes \in 0 .. MaxChanges /\ synced \subseteq Listing
    BY DEF CacheInv, CacheTypes, CatalogueTypeOK
  <1>2. /\ pc[j] = "idle" /\ req' = [req EXCEPT ![j] = r]
        /\ UNCHANGED <<source, chapter, sync, answer, synced, faulty, overlapped>>
    BY DEF getChapters
  <1>3. /\ r.language = l /\ r.number = None /\ r.listed = {} /\ r.todo = {} /\ r.at = 0
        /\ r.fresh = fresh /\ r.stored = synced /\ r \in CacheRequest
    <2>1. NoJob \in CacheRequest
      BY CatalogueAssumption DEF NoJob, CacheRequest
    <2>2. fresh \in BOOLEAN
      OBVIOUS
    <2> HIDE DEF fresh
    <2>3. r \in CacheRequest
      BY <1>1, <2>1, <2>2 DEF CacheRequest
    <2>4. /\ r.language = l /\ r.number = None /\ r.listed = {} /\ r.todo = {} /\ r.at = 0
          /\ r.fresh = fresh /\ r.stored = synced
      BY DEF NoJob
    <2> QED
      BY <2>3, <2>4
  <1> HIDE DEF r
  <1>4. /\ req' \in [Job -> CacheRequest] /\ req'[j] = r
        /\ \A k \in Job \ {j} : req'[k] = req[k]
    BY <1>1, <1>2, <1>3
  <1>5. pc' = [pc EXCEPT ![j] = next] /\ next \in {"serve", "count"} /\ (next = "serve" <=> fresh)
    BY <1>3, <1>4 DEF getChapters, Goto
  <1> HIDE DEF next, fresh
  <1>6. /\ pc' \in [Job -> Place] /\ pc'[j] = next /\ \A k \in Job \ {j} : pc'[k] = pc[k]
    BY <1>1, <1>5 DEF Place
  <1>7. sync[j] = "none" /\ sync' = sync
    BY <1>2 DEF CacheInv, JobsPlaced, JobPlaced
  <1>8. JobPlaced(j)'
    BY <1>3, <1>4, <1>5, <1>6, <1>7 DEF JobPlaced
  <1>9. r.at <= changes
    BY <1>1, <1>3, CatalogueAssumption
  <1> QED
    BY <1>1, <1>2, <1>3, <1>4, <1>5, <1>6, <1>7, <1>8, <1>9, RequestKeepsCache

LEMMA GetPagesKeepsCache ==
    ASSUME CacheInv, NEW j \in Job, NEW l \in Language, NEW n \in ChapterNumber, getPages(j, l, n)
    PROVE  CacheKept
  <1> DEFINE r == [NoJob EXCEPT !.language = l, !.number = n, !.id = chapter[l][n].id]
  <1>1. /\ pc \in [Job -> Place] /\ req \in [Job -> CacheRequest] /\ answer \in [Job -> SUBSET ChapterNumber]
        /\ sync \in [Job -> {"none", "list", "rows", "stamp", "ended"}] /\ overlapped \in BOOLEAN
        /\ changes \in 0 .. MaxChanges /\ chapter[l][n].id \in Id \cup {None}
    BY DEF CacheInv, CacheTypes, CatalogueTypeOK
  <1>2. /\ pc[j] = "idle" /\ req' = [req EXCEPT ![j] = r] /\ pc' = [pc EXCEPT ![j] = "at-home"]
        /\ overlapped' = (overlapped \/ Syncing # {})
        /\ UNCHANGED <<source, chapter, sync, answer, synced, faulty>>
    BY DEF getPages, Goto
  <1>3. /\ r.language = l /\ r.number = n /\ r.listed = {} /\ r.todo = {} /\ r.at = 0
        /\ r.id = chapter[l][n].id /\ ~r.fresh /\ r.stored = {} /\ r \in CacheRequest
    <2>1. NoJob \in CacheRequest
      BY CatalogueAssumption DEF NoJob, CacheRequest
    <2>2. r \in CacheRequest
      BY <1>1, <2>1 DEF CacheRequest
    <2>3. /\ r.language = l /\ r.number = n /\ r.listed = {} /\ r.todo = {} /\ r.at = 0
          /\ r.id = chapter[l][n].id /\ ~r.fresh /\ r.stored = {}
      BY DEF NoJob
    <2> QED
      BY <2>2, <2>3
  <1> HIDE DEF r
  <1>4. /\ req' \in [Job -> CacheRequest] /\ req'[j] = r /\ pc' \in [Job -> Place] /\ pc'[j] = "at-home"
        /\ \A k \in Job \ {j} : req'[k] = req[k] /\ pc'[k] = pc[k]
    BY <1>1, <1>2, <1>3 DEF Place
  <1>5. sync[j] = "none" /\ sync' = sync
    BY <1>2 DEF CacheInv, JobsPlaced, JobPlaced
  <1>6. JobPlaced(j)'
    BY <1>3, <1>4, <1>5 DEF JobPlaced
  <1>7. r.at <= changes
    BY <1>1, <1>3, CatalogueAssumption
  <1> QED
    BY <1>1, <1>2, <1>3, <1>4, <1>5, <1>6, <1>7, RequestKeepsCache

\* A sync at a number leaves it behind.
LEMMA RowDone ==
    ASSUME CacheInv, NEW j \in Job, NEW n, AtRow(j, n), NextRow(j, n)
    PROVE  /\ req' \in [Job -> CacheRequest] /\ req'[j].todo = req[j].todo \ {n}
           /\ req'[j].listed = req[j].listed /\ req'[j].language = req[j].language
           /\ req'[j].at = req[j].at /\ req'[j].fresh = req[j].fresh /\ req'[j].stored = req[j].stored
           /\ req'[j].number = req[j].number /\ req'[j].id = req[j].id
           /\ \A k \in Job \ {j} : req'[k] = req[k] /\ sync'[k] = sync[k]
           /\ sync' \in [Job -> {"none", "list", "rows", "stamp", "ended"}]
           /\ sync'[j] \in {"rows", "stamp"} /\ (sync'[j] = "stamp" => req'[j].todo = {})
  <1> DEFINE todo == req[j].todo \ {n}
  <1>1. req \in [Job -> CacheRequest] /\ sync \in [Job -> {"none", "list", "rows", "stamp", "ended"}]
    BY DEF CacheInv, CacheTypes, CatalogueTypeOK
  <1>2. req[j] \in CacheRequest
    BY <1>1
  <1>3. req' = [req EXCEPT ![j].todo = todo] /\ sync' = [sync EXCEPT ![j] = IF todo = {} THEN "stamp" ELSE "rows"]
    BY DEF NextRow
  <1>4. todo \in SUBSET ChapterNumber
    BY <1>2 DEF CacheRequest
  <1> HIDE DEF todo
  <1>5. req' \in [Job -> CacheRequest] /\ req'[j] = [req[j] EXCEPT !.todo = todo]
    BY <1>1, <1>2, <1>3, <1>4 DEF CacheRequest
  <1>6. /\ req'[j].todo = todo
        /\ req'[j].listed = req[j].listed /\ req'[j].language = req[j].language
        /\ req'[j].at = req[j].at /\ req'[j].fresh = req[j].fresh /\ req'[j].stored = req[j].stored
        /\ req'[j].number = req[j].number /\ req'[j].id = req[j].id
    BY <1>2, <1>5 DEF CacheRequest
  <1>7. \A k \in Job \ {j} : req'[k] = req[k] /\ sync'[k] = sync[k]
    BY <1>1, <1>3
  <1>8. /\ sync' \in [Job -> {"none", "list", "rows", "stamp", "ended"}]
        /\ sync'[j] \in {"rows", "stamp"} /\ (sync'[j] = "stamp" => todo = {})
    BY <1>1, <1>3
  <1> QED
    BY <1>5, <1>6, <1>7, <1>8 DEF todo

\* The entry of a number that a sync has yet to store.
LEMMA EntryOf ==
    ASSUME CacheInv, NEW j \in Job, NEW n, AtRow(j, n)
    PROVE  /\ n \in ChapterNumber /\ req[j].language \in Language /\ idOf(j, n) \in Id
           /\ <<idOf(j, n), req[j].language, n>> \in places
           /\ \A e \in req[j].listed : e[1] = n => e[2] = idOf(j, n)
  <1> DEFINE chosen == CHOOSE e \in req[j].listed : e[1] = n
  <1>1. req[j] \in CacheRequest /\ n \in req[j].todo /\ sync[j] = "rows"
    BY DEF AtRow, CacheInv, CacheTypes
  <1>2. \E e \in req[j].listed : e[1] = n
    BY <1>1 DEF CacheInv, ListedBySource
  <1>3. chosen \in req[j].listed /\ chosen[1] = n
    BY <1>2, Zenon
  <1>4. idOf(j, n) = chosen[2]
    BY DEF idOf
  <1> HIDE DEF chosen
  <1>5. chosen \in ChapterNumber \X Id /\ n \in ChapterNumber
    BY <1>1, <1>3 DEF CacheRequest
  <1>6. <<chosen[2], req[j].language, chosen[1]>> \in places
    BY <1>3 DEF CacheInv, ListedBySource
  <1>7. \A e \in req[j].listed : e[1] = n => e = chosen
    BY <1>3 DEF CacheInv, ListedBySource
  <1>8. req[j].language \in Language
    BY <1>1 DEF CacheInv, JobsPlaced, JobPlaced
  <1> QED
    BY <1>3, <1>4, <1>5, <1>6, <1>7, <1>8

\* The row is written or skipped; without a fault, what was skipped is renumbered.
LEMMA RowKeepsCache ==
    ASSUME CacheInv, NEW j \in Job, NEW n, AtRow(j, n), NextRow(j, n),
           UNCHANGED <<source, pc, answer, synced, overlapped>>,
           \/ chapter' = chapter
           \/ chapter' = [chapter EXCEPT ![req[j].language][n] = Row(idOf(j, n), req[j].at)],
           faulty' \in BOOLEAN, faulty => faulty',
           ~faulty' => \A e \in req[j].listed : e[1] = n => Held(req[j].language, e)'
    PROVE  CacheKept
  <1> DEFINE l == req[j].language
             row == Row(idOf(j, n), req[j].at)
  <1>1. /\ n \in ChapterNumber /\ l \in Language /\ idOf(j, n) \in Id /\ <<idOf(j, n), l, n>> \in places
        /\ sync[j] = "rows" /\ req[j] \in CacheRequest
    BY EntryOf DEF AtRow, CacheInv, CacheTypes
  <1>2. row.id = idOf(j, n) /\ row.pages = idOf(j, n) /\ row.at = req[j].at
    BY DEF Row
  <1>3. row \in [id : Id \cup {None}, pages : Id \cup {None}, at : 0 .. MaxChanges]
    BY <1>1 DEF Row, CacheRequest
  <1> HIDE DEF row
  <1>4. chapter \in [Language -> [ChapterNumber -> [id : Id \cup {None}, pages : Id \cup {None}, at : 0 .. MaxChanges]]]
    BY DEF CacheInv, CacheTypes, CatalogueTypeOK
  <1>5. /\ chapter' \in [Language -> [ChapterNumber -> [id : Id \cup {None}, pages : Id \cup {None}, at : 0 .. MaxChanges]]]
        /\ \A k \in Language, m \in ChapterNumber :
              chapter'[k][m] = chapter[k][m] \/ (k = l /\ m = n /\ chapter'[k][m] = row)
    <2>1. CASE chapter' = chapter
      BY <1>4, <2>1
    <2>2. CASE chapter' = [chapter EXCEPT ![l][n] = row]
      BY <1>1, <1>3, <1>4, <2>2
    <2> QED
      BY <2>1, <2>2 DEF row
  <1>6. CacheTypes'
    BY <1>5, RowDone DEF CacheInv, CacheTypes, CatalogueTypeOK, source
  <1>7. JobsPlaced'
    <2>1. ASSUME NEW k \in Job, k # j PROVE JobPlaced(k)'
      BY <2>1, RowDone DEF CacheInv, JobsPlaced, JobPlaced
    <2>2. JobPlaced(j)'
      BY <1>1, RowDone DEF CacheInv, JobsPlaced, JobPlaced
    <2> QED
      BY <2>1, <2>2 DEF JobsPlaced
  <1>8. ListedBySource'
    <2>1. \A k \in Language, m \in ChapterNumber :
              chapter'[k][m].id # None => <<chapter'[k][m].id, k, m>> \in places
      <3>1. ASSUME NEW k \in Language, NEW m \in ChapterNumber, chapter'[k][m].id # None
            PROVE  <<chapter'[k][m].id, k, m>> \in places
        <4>1. CASE chapter'[k][m] = chapter[k][m]
          BY <3>1, <4>1 DEF CacheInv, ListedBySource
        <4>2. CASE k = l /\ m = n /\ chapter'[k][m] = row
          BY <1>1, <1>2, <4>2
        <4> QED
          BY <1>5, <4>1, <4>2
      <3> QED
        BY <3>1
    <2>2. ASSUME NEW k \in Job
          PROVE  /\ \A e \in req'[k].listed : <<e[2], req'[k].language, e[1]>> \in places
                 /\ \A e, f \in req'[k].listed : e[1] = f[1] => e = f
                 /\ \A m \in req'[k].todo : \E e \in req'[k].listed : e[1] = m
      BY RowDone DEF CacheInv, ListedBySource
    <2> QED
      BY <2>1, <2>2 DEF CacheInv, ListedBySource, source
  <1>9. /\ \A k \in Language : cachedNumbers(k) \subseteq cachedNumbers(k)'
        /\ \A id : renumbered(id) => renumbered(id)'
        /\ \A k \in Language : \A e : Held(k, e) => Held(k, e)'
    <2>1. \A k \in Language, m \in ChapterNumber : chapter[k][m].id # None => chapter'[k][m].id # None
      BY <1>1, <1>2, <1>5, CatalogueAssumption
    <2> QED
      BY <2>1, CacheGrows DEF source
  <1>10. SyncsHold'
    <2>1. ASSUME ~faulty', NEW k \in Job, k # j
          PROVE  /\ sync'[k] \in {"rows", "stamp", "ended"} =>
                       /\ sync'[k] # "rows" => req'[k].todo = {}
                       /\ \A e \in req'[k].listed : e[1] \in req'[k].todo \/ Held(req[k].language, e)'
                 /\ pc'[k] = "serve" /\ ~req'[k].fresh =>
                       sync'[k] = "ended" \/ \E m \in ChapterNumber : m \in cachedNumbers(req[k].language)'
      <3>1. /\ req'[k] = req[k] /\ sync'[k] = sync[k] /\ pc' = pc /\ ~faulty
            /\ sync[k] # "none" \/ pc[k] = "serve" => req[k].language \in Language
        BY <2>1, RowDone DEF CacheInv, JobsPlaced, JobPlaced
      <3> QED
        BY <1>9, <3>1 DEF CacheInv, SyncsHold, cachedNumbers
    <2>7. req'[j].language = l
      BY RowDone
    <2>2. ASSUME ~faulty', NEW e \in req[j].listed
          PROVE  e[1] \in req[j].todo \ {n} \/ Held(l, e)'
      <3>1. e[1] \in req[j].todo \/ Held(l, e)
        BY <1>1, <2>2 DEF CacheInv, SyncsHold
      <3>2. Held(l, e) => Held(l, e)'
        BY <1>1, <1>9, <2>7
      <3>3. e[1] = n => Held(l, e)'
        BY <2>2
      <3> QED
        BY <3>1, <3>2, <3>3
    <2>3. ASSUME ~faulty'
          PROVE  pc[j] = "serve" /\ ~req[j].fresh => \E m \in ChapterNumber : m \in cachedNumbers(l)'
      <3>1. pc[j] = "serve" /\ ~req[j].fresh => cachedNumbers(l) # {}
        BY <1>1, <2>3 DEF CacheInv, SyncsHold
      <3>2. cachedNumbers(l) \subseteq cachedNumbers(l)' /\ cachedNumbers(l) \subseteq ChapterNumber
        BY <1>1, <1>9, <2>7 DEF cachedNumbers
      <3> QED
        BY <3>1, <3>2
    <2>4. ~faulty' => \A k \in Job : req'[k].stored \subseteq synced
      BY RowDone DEF CacheInv, SyncsHold
    <2>5. ~faulty' => \A k \in Job :
              pc[k] = "served" /\ req'[k].number = None /\ answer[k] = {} /\ ~req'[k].fresh => sync'[k] = "ended"
      BY <1>1, RowDone DEF CacheInv, SyncsHold
    <2>6. \A k \in Job : req'[k].language = req[k].language
      BY RowDone
    <2> QED
      BY <2>1, <2>2, <2>3, <2>4, <2>5, <2>6, RowDone DEF SyncsHold
  <1>11. SyncStoresAll'
    BY <1>9 DEF CacheInv, CacheTypes, Listing, SyncStoresAll, Held
  <1>12. AnswersHold'
    BY <1>9, RowDone DEF CacheInv, AnswersHold, EmptyIsRight
  <1>13. RowsInStep' /\ RowsGoForward
    <2>0. /\ req[j].at <= changes /\ req[j].at \in Nat /\ changes \in Nat
      BY <1>1, CatalogueAssumption DEF CacheInv, RowsInStep, CacheTypes, CacheRequest
    <2>8. \A k \in Language, m \in ChapterNumber : chapter[k][m].at \in Nat /\ chapter'[k][m].at \in Nat
      BY <1>4, <1>5, CatalogueAssumption
    <2>1. /\ req[j].at <= changes /\ req[j].at \in Nat /\ changes \in Nat
          /\ \A k \in Language, m \in ChapterNumber : chapter[k][m].at \in Nat /\ chapter'[k][m].at \in Nat
      BY <2>0, <2>8
    <2>2. /\ \A k \in Job : req'[k].at <= changes
          /\ \A k \in Language, m \in ChapterNumber : chapter'[k][m].at <= changes
      <3>1. \A k \in Job : req'[k].at = req[k].at
        BY RowDone
      <3>2. \A k \in Language, m \in ChapterNumber : chapter[k][m].at <= changes
        BY DEF CacheInv, RowsInStep
      <3>3. \A k \in Language, m \in ChapterNumber : chapter'[k][m].at \in {chapter[k][m].at, req[j].at}
        BY <1>2, <1>5
      <3> QED
        BY <2>1, <3>1, <3>2, <3>3 DEF CacheInv, RowsInStep
    <2>3. Syncing' \subseteq Syncing /\ Fetching' = Fetching /\ j \in Syncing
      BY <1>1, RowDone DEF Syncing, Fetching
    <2>4. ASSUME ~overlapped
          PROVE  /\ Syncing = {j} /\ Fetching = {}
                 /\ \A k \in Language, m \in ChapterNumber :
                       /\ chapter'[k][m].pages = chapter'[k][m].id
                       /\ chapter'[k][m].at >= chapter[k][m].at /\ chapter'[k][m].at <= req[j].at
      <3>1. Syncing = {j} /\ Fetching = {}
        BY <2>3, <2>4 DEF CacheInv, RowsInStep
      <3>2. \A k \in Language, m \in ChapterNumber :
                /\ chapter[k][m].at <= req[j].at
                /\ chapter[k][m].pages = chapter[k][m].id
        BY <1>1, <2>4 DEF CacheInv, RowsInStep
      <3> QED
        BY <1>2, <1>5, <2>1, <3>1, <3>2
    <2>5. RowsGoForward
      BY <2>4 DEF RowsGoForward
    <2>6. ~overlapped => \A k \in Job : sync'[k] = "rows" => k = j /\ req'[k].at = req[j].at
      BY <2>3, <2>4, RowDone DEF Syncing
    <2>7. RowsInStep'
      BY <2>2, <2>3, <2>4, <2>6 DEF RowsInStep, source
    <2> QED
      BY <2>5, <2>7
  <1> QED
    BY <1>6, <1>7, <1>8, <1>10, <1>11, <1>12, <1>13 DEF CacheInv, CacheKept

LEMMA UpsertKeepsCache ==
    ASSUME CacheInv, NEW j \in Job, NEW n \in ChapterNumber, upsertChapter(j, n)
    PROVE  CacheKept
  <1> DEFINE l == req[j].language
             id == idOf(j, n)
  <1>1. /\ AtRow(j, n) /\ NextRow(j, n)
        /\ UNCHANGED <<source, pc, answer, synced, faulty, overlapped>>
        /\ IF idTaken(l, n, id) THEN chapter' = chapter
                                ELSE chapter' = [chapter EXCEPT ![l][n] = Row(id, req[j].at)]
    BY DEF upsertChapter
  <1>2. /\ l \in Language /\ id \in Id /\ id # None /\ <<id, l, n>> \in places
        /\ \A e \in req[j].listed : e[1] = n => e[2] = id
        /\ req'[j].language = l
    BY <1>1, EntryOf, RowDone, CatalogueAssumption
  <1> HIDE DEF id
  <1>3. CASE idTaken(l, n, id)
    <2>1. PICK k \in Language, m \in ChapterNumber : <<k, m>> # <<l, n>> /\ chapter[k][m].id = id
      BY <1>3 DEF idTaken
    <2>2. <<id, k, m>> \in places
      BY <1>2, <2>1 DEF CacheInv, ListedBySource
    <2>3. \E p, q \in places' : p[1] = id /\ q[1] = id /\ p # q
      <3>1. places' = places
        BY <1>1 DEF source
      <3>2. <<id, k, m>> # <<id, l, n>> /\ <<id, k, m>>[1] = id /\ <<id, l, n>>[1] = id
        BY <2>1
      <3> QED
        BY <1>2, <2>2, <3>1, <3>2, Zenon
    <2>4. \A e \in req[j].listed : e[1] = n => Held(req[j].language, e)'
      BY <1>2, <2>3 DEF Held, renumbered
    <2> QED
      BY <1>1, <1>3, <2>4, RowKeepsCache DEF CacheInv, CacheTypes
  <1>4. CASE ~idTaken(l, n, id)
    <2>1. chapter' = [chapter EXCEPT ![l][n] = Row(id, req[j].at)]
      BY <1>1, <1>4
    <2>2. chapter'[l][n].id = id
      BY <1>2, <2>1 DEF Row, CacheInv, CacheTypes, CatalogueTypeOK
    <2>3. n \in cachedNumbers(req[j].language)'
      BY <1>2, <2>2 DEF cachedNumbers
    <2>4. \A e \in req[j].listed : e[1] = n => Held(req[j].language, e)'
      BY <2>3 DEF Held
    <2> QED
      BY <1>1, <2>1, <2>4, RowKeepsCache DEF CacheInv, CacheTypes, id
  <1> QED
    BY <1>3, <1>4

LEMMA UpsertFailsKeepsCache ==
    ASSUME CacheInv, NEW j \in Job, NEW n \in ChapterNumber, upsertFails(j, n)
    PROVE  CacheKept
  BY RowKeepsCache DEF upsertFails

\* The listing that is stamped is held to the end.
LEMMA StampKeepsCache == ASSUME CacheInv, NEW j \in Job, stampSeries(j) PROVE CacheKept
  <1> DEFINE l == req[j].language
             stamped == [language |-> l, listed |-> req[j].listed]
  <1>1. /\ sync[j] = "stamp" /\ sync' = [sync EXCEPT ![j] = "ended"] /\ synced' = synced \cup {stamped}
        /\ UNCHANGED <<source, chapter, pc, req, answer, faulty, overlapped>>
    BY DEF stampSeries
  <1>2. /\ sync \in [Job -> {"none", "list", "rows", "stamp", "ended"}]
        /\ req[j] \in CacheRequest /\ l \in Language /\ synced \subseteq Listing
    BY <1>1 DEF CacheInv, CacheTypes, CatalogueTypeOK, JobsPlaced, JobPlaced
  <1>3. stamped \in Listing /\ stamped.language = l /\ stamped.listed = req[j].listed
    BY <1>2 DEF Listing, CacheRequest
  <1>4. ~faulty => \A e \in stamped.listed : Held(l, e)
    BY <1>1, <1>3 DEF CacheInv, SyncsHold
  <1> HIDE DEF stamped
  <1>5. /\ sync' \in [Job -> {"none", "list", "rows", "stamp", "ended"}] /\ sync'[j] = "ended"
        /\ \A k \in Job \ {j} : sync'[k] = sync[k]
    BY <1>1, <1>2
  <1>6. CacheTypes'
    BY <1>1, <1>2, <1>3, <1>5 DEF CacheInv, CacheTypes, CatalogueTypeOK, source
  <1>7. JobsPlaced'
    BY <1>1, <1>5 DEF CacheInv, JobsPlaced, JobPlaced
  <1>8. ListedBySource'
    BY <1>1 DEF CacheInv, ListedBySource, source
  <1>9. /\ \A k \in Language : cachedNumbers(k)' = cachedNumbers(k)
        /\ \A id : renumbered(id)' = renumbered(id)
    BY <1>1 DEF cachedNumbers, renumbered, source
  <1>10. SyncsHold'
    <2>1. ASSUME ~faulty, NEW k \in Job, sync'[k] \in {"rows", "stamp", "ended"}
          PROVE  /\ sync'[k] # "rows" => req[k].todo = {}
                 /\ \A e \in req[k].listed : e[1] \in req[k].todo \/ Held(req[k].language, e)'
      <3>1. sync[k] \in {"rows", "stamp", "ended"} /\ (sync'[k] # "rows" => sync[k] # "rows")
        BY <1>1, <1>5, <2>1
      <3>2. req[k].language \in Language /\ req' = req
        BY <1>1, <3>1 DEF CacheInv, JobsPlaced, JobPlaced
      <3> QED
        BY <1>9, <2>1, <3>1, <3>2 DEF CacheInv, SyncsHold, Held
    <2>2. ASSUME ~faulty, NEW k \in Job
          PROVE  /\ req[k].stored \subseteq synced'
                 /\ pc[k] = "serve" /\ ~req[k].fresh =>
                       sync'[k] = "ended" \/ cachedNumbers(req[k].language)' # {}
                 /\ pc[k] = "served" /\ req[k].number = None /\ answer[k] = {} /\ ~req[k].fresh =>
                       sync'[k] = "ended"
      <3>1. pc[k] = "serve" => req[k].language \in Language
        BY DEF CacheInv, JobsPlaced, JobPlaced
      <3>2. (sync[k] = "ended" => sync'[k] = "ended") /\ synced \subseteq synced' /\ req' = req
        BY <1>1, <1>5
      <3> QED
        BY <1>9, <2>2, <3>1, <3>2 DEF CacheInv, SyncsHold
    <2> QED
      BY <1>1, <2>1, <2>2 DEF SyncsHold
  <1>11. SyncStoresAll'
    BY <1>1, <1>2, <1>3, <1>4, <1>9 DEF CacheInv, Listing, SyncStoresAll, Held
  <1>12. AnswersHold'
    BY <1>1, <1>9 DEF CacheInv, AnswersHold, EmptyIsRight
  <1>13. Syncing' \subseteq Syncing /\ Fetching' = Fetching /\ \A k \in Job : sync'[k] = "rows" => sync[k] = "rows"
    BY <1>1, <1>5 DEF Syncing, Fetching
  <1>14. RowsInStep'
    BY <1>1, <1>13 DEF CacheInv, RowsInStep, source
  <1>15. RowsGoForward
    BY <1>1 DEF CacheInv, CacheTypes, CatalogueTypeOK, RowsInStep, RowsGoForward
  <1> QED
    BY <1>6, <1>7, <1>8, <1>10, <1>11, <1>12, <1>14, <1>15 DEF CacheInv, CacheKept

\* A page count changes neither what is cached nor how old it is.
LEMMA PagesKeepCache == ASSUME CacheInv, NEW j \in Job, storePageCount(j) PROVE CacheKept
  <1> DEFINE l == req[j].language
             n == req[j].number
  <1>1. /\ pc[j] = "at-home" /\ pc' = [pc EXCEPT ![j] = "served"]
        /\ chapter' = chapter \/ chapter' = [chapter EXCEPT ![l][n].pages = req[j].id]
        /\ UNCHANGED <<source, req, sync, answer, synced, faulty, overlapped>>
    BY DEF storePageCount, Goto
  <1>2. /\ pc \in [Job -> Place] /\ req[j] \in CacheRequest /\ l \in Language /\ n \in ChapterNumber
        /\ chapter \in [Language -> [ChapterNumber -> [id : Id \cup {None}, pages : Id \cup {None}, at : 0 .. MaxChanges]]]
    BY <1>1 DEF CacheInv, CacheTypes, CatalogueTypeOK, JobsPlaced, JobPlaced
  <1>3. /\ pc' \in [Job -> Place] /\ pc'[j] = "served" /\ \A k \in Job \ {j} : pc'[k] = pc[k]
        /\ sync[j] = "none"
    BY <1>1, <1>2 DEF Place, CacheInv, JobsPlaced, JobPlaced
  <1>4. req[j].id \in Id \cup {None}
    BY <1>2 DEF CacheRequest
  <1>5. /\ chapter' \in [Language -> [ChapterNumber -> [id : Id \cup {None}, pages : Id \cup {None}, at : 0 .. MaxChanges]]]
        /\ \A k \in Language, m \in ChapterNumber :
              /\ chapter'[k][m].id = chapter[k][m].id /\ chapter'[k][m].at = chapter[k][m].at
              /\ \/ chapter'[k][m].pages = chapter[k][m].pages
                 \/ k = l /\ m = n /\ chapter'[k][m].pages = req[j].id
    <2>1. CASE chapter' = chapter
      BY <1>2, <2>1
    <2>2. CASE chapter' = [chapter EXCEPT ![l][n].pages = req[j].id]
      <3> DEFINE row == [chapter[l][n] EXCEPT !.pages = req[j].id]
      <3>1. chapter[l][n] \in [id : Id \cup {None}, pages : Id \cup {None}, at : 0 .. MaxChanges]
        BY <1>2
      <3>2. /\ row \in [id : Id \cup {None}, pages : Id \cup {None}, at : 0 .. MaxChanges]
            /\ row.id = chapter[l][n].id /\ row.at = chapter[l][n].at /\ row.pages = req[j].id
        BY <1>4, <3>1
      <3>3. chapter' = [chapter EXCEPT ![l] = [chapter[l] EXCEPT ![n] = row]]
        BY <2>2, Zenon
      <3> HIDE DEF row
      <3> QED
        BY <1>2, <3>2, <3>3
    <2> QED
      BY <1>1, <2>1, <2>2
  <1>6. CacheTypes'
    BY <1>1, <1>3, <1>5 DEF CacheInv, CacheTypes, CatalogueTypeOK, source
  <1>7. JobsPlaced'
    <2>1. ASSUME NEW k \in Job, k # j PROVE JobPlaced(k)'
      BY <1>1, <1>3, <2>1 DEF CacheInv, JobsPlaced, JobPlaced
    <2>2. JobPlaced(j)'
      BY <1>1, <1>2, <1>3, CatalogueAssumption DEF CacheInv, JobsPlaced, JobPlaced
    <2> QED
      BY <2>1, <2>2 DEF JobsPlaced
  <1>8. ListedBySource'
    BY <1>1, <1>5 DEF CacheInv, ListedBySource, source
  <1>9. /\ \A k \in Language : cachedNumbers(k)' = cachedNumbers(k)
        /\ \A id : renumbered(id)' = renumbered(id)
    BY <1>1, <1>5 DEF cachedNumbers, renumbered, source
  <1>10. n # None
    BY <1>2, CatalogueAssumption
  <1>11. SyncsHold'
    <2>1. \A k \in Job : pc'[k] = "serve" => pc[k] = "serve"
      BY <1>3
    <2>2. \A k \in Job : pc'[k] = "served" /\ req[k].number = None => pc[k] = "served"
      BY <1>3, <1>10
    <2>3. \A k \in Job : sync[k] # "none" \/ pc[k] = "serve" => req[k].language \in Language
      BY DEF CacheInv, JobsPlaced, JobPlaced
    <2> QED
      BY <1>1, <1>9, <2>1, <2>2, <2>3 DEF CacheInv, SyncsHold, Held
  <1>12. SyncStoresAll'
    BY <1>1, <1>9 DEF CacheInv, CacheTypes, Listing, SyncStoresAll
  <1>13. AnswersHold'
    BY <1>1, <1>3, <1>9, <1>10 DEF CacheInv, AnswersHold, EmptyIsRight
  <1>14. Syncing' = Syncing /\ Fetching' \subseteq Fetching /\ j \in Fetching
    BY <1>1, <1>3 DEF Syncing, Fetching
  <1>15. ~overlapped => \A k \in Language, m \in ChapterNumber : chapter'[k][m].pages = chapter'[k][m].id
    <2>1. ~overlapped => chapter[l][n].id = req[j].id /\ \A k \in Language, m \in ChapterNumber :
                            chapter[k][m].pages = chapter[k][m].id
      BY <1>14 DEF CacheInv, RowsInStep
    <2> QED
      BY <1>5, <2>1
  <1>16. \A k \in Language, m \in ChapterNumber : chapter'[k][m].at >= chapter[k][m].at
    BY <1>2, <1>5, CatalogueAssumption
  <1>17. RowsGoForward
    BY <1>1, <1>15, <1>16 DEF RowsGoForward
  <1>18. \A k \in Fetching' : req[k].language \in Language /\ req[k].number \in ChapterNumber
    BY <1>14 DEF CacheInv, JobsPlaced, JobPlaced, Fetching
  <1>19. RowsInStep'
    <2>1. /\ \A k \in Job : req'[k].at <= changes'
          /\ \A k \in Language, m \in ChapterNumber : chapter'[k][m].at <= changes'
      BY <1>1, <1>5 DEF CacheInv, RowsInStep, source
    <2>2. ~overlapped =>
              /\ \A k, m \in Syncing' : k = m
              /\ Syncing' = {} \/ Fetching' = {}
              /\ \A k \in Job : sync'[k] = "rows" =>
                    \A i \in Language, m \in ChapterNumber : chapter'[i][m].at <= req'[k].at
      BY <1>1, <1>5, <1>14 DEF CacheInv, RowsInStep
    <2>3. ~overlapped => \A k \in Fetching' : chapter'[req'[k].language][req'[k].number].id = req'[k].id
      <3>1. ~overlapped => \A k \in Fetching' : chapter[req[k].language][req[k].number].id = req[k].id
        BY <1>14 DEF CacheInv, RowsInStep
      <3>2. ASSUME NEW k \in Fetching'
            PROVE  chapter'[req[k].language][req[k].number].id = chapter[req[k].language][req[k].number].id
        BY <1>5, <1>18
      <3>3. req' = req
        BY <1>1
      <3> QED
        BY <3>1, <3>2, <3>3
    <2> QED
      BY <1>1, <1>15, <2>1, <2>2, <2>3 DEF RowsInStep
  <1> QED
    BY <1>6, <1>7, <1>8, <1>11, <1>12, <1>13, <1>17, <1>19 DEF CacheInv, CacheKept

LEMMA CacheNextKeeps == CacheInv /\ CatalogueNext => CacheKept
  <1> SUFFICES ASSUME CacheInv, CatalogueNext PROVE CacheKept
    OBVIOUS
  <1>1. CASE ttlPasses
    BY <1>1, CacheAtRest DEF ttlPasses, CacheInv, CacheTypes
  <1>2. ASSUME NEW j \in Job, CatalogueStep(j) PROVE CacheKept
    BY <1>2, CountKeepsCache, AwaitedKeepsCache, ServeKeepsCache, ListKeepsCache, StampKeepsCache,
       SyncFailsKeepsCache, PagesKeepCache, UpsertKeepsCache, UpsertFailsKeepsCache DEF CatalogueStep
  <1> QED
    BY <1>1, <1>2, CrashKeepsCache, SourceKeepsCache, GetChaptersKeepsCache, GetPagesKeepsCache
       DEF CatalogueNext

\* A visit's step moves between the studio's places and leaves the cache alone.
LEMMA VisitLeavesCache ==
    ASSUME CacheInv, NEW j \in Job, VisitStep(j)
    PROVE  /\ UNCHANGED cache /\ pc' \in [Job -> Place] /\ faulty' \in BOOLEAN /\ (faulty => faulty')
           /\ \A k \in Job : pc'[k] # pc[k] =>
                 pc[k] \notin {"count", "wait", "serve", "served", "at-home", "failed"} /\
                 pc'[k] \notin {"count", "wait", "serve", "served", "at-home", "failed"}
  <1> DEFINE Moves == /\ pc' \in [Job -> Place]
                      /\ \A k \in Job : pc'[k] # pc[k] =>
                            pc[k] \notin {"count", "wait", "serve", "served", "at-home", "failed"} /\
                            pc'[k] \notin {"count", "wait", "serve", "served", "at-home", "failed"}
  <1>0. pc \in [Job -> Place] /\ faulty \in BOOLEAN
    BY DEF CacheInv, CacheTypes
  <1>1. ASSUME NEW p \in Place \ {"idle", "count", "wait", "serve", "served", "at-home", "failed"},
               pc[j] \in {"idle"} \cup Pages, Goto(j, p)
        PROVE  Moves
    BY <1>0, <1>1 DEF Goto, Pages, NewPages
  <1>2. ASSUME pc' = pc PROVE Moves
    BY <1>0, <1>2
  <1> HIDE DEF Moves
  <1>3. ASSUME NEW t \in Tab, newChapterPage(j, t) \/ editSeriesPage(j, t)
        PROVE  UNCHANGED cache /\ UNCHANGED faulty /\ Moves
    <2>1. CASE newChapterPage(j, t)
      <3>1. PICK p \in {"load", "editor"} : Goto(j, p) /\ pc[j] = "idle"
        BY <2>1 DEF newChapterPage
      <3> QED
        BY <1>1, <2>1, <3>1 DEF newChapterPage, Place
    <2>2. CASE editSeriesPage(j, t)
      <3>1. PICK p \in {"form", "loadList"} : Goto(j, p) /\ pc[j] = "idle"
        BY <2>2 DEF editSeriesPage
      <3> QED
        BY <1>1, <2>2, <3>1 DEF editSeriesPage, Place
    <2> QED
      BY <1>3, <2>1, <2>2
  <1>4. CASE fetchSeriesById(j)
    <2>1. PICK p \in {"editor", "left"} : Goto(j, p) /\ pc[j] = "load"
      BY <1>4 DEF fetchSeriesById, Back
    <2> QED
      BY <1>0, <1>1, <1>4, <2>1 DEF fetchSeriesById, Place, Pages, NewPages, Moves
  <1>5. CASE handleFiles(j) \/ uploadCreatorFile(j) \/ uploadFails(j)
    BY <1>0, <1>2, <1>5 DEF handleFiles, uploadCreatorFile, uploadFails, Moves
  <1>6. CASE createChapter(j)
    <2>1. PICK p \in {"promote", "editor", "left"} : Goto(j, p) /\ pc[j] = "create"
      BY <1>6 DEF createChapter, Back
    <2> QED
      BY <1>0, <1>1, <1>6, <2>1 DEF createChapter, Place, Pages, NewPages, Moves
  <1>7. CASE promoteFromDraft(j)
    BY <1>0, <1>1, <1>7 DEF promoteFromDraft, Place, Pages, NewPages, Moves
  <1>8. CASE loadEdit(j)
    <2>1. PICK p \in {"form", "left"} : Goto(j, p) /\ pc[j] = "loadList"
      BY <1>8 DEF loadEdit, Back
    <2> QED
      BY <1>0, <1>1, <1>8, <2>1 DEF loadEdit, Place, Pages, NewPages, Moves
  <1>9. CASE updateSeries(j)
    <2>1. /\ \E p \in {"form", "left"} : Goto(j, p)
          /\ pc[j] = "save" /\ UNCHANGED cache /\ (faulty' = faulty \/ faulty' = TRUE)
      BY <1>9 DEF updateSeries, Back
    <2>2. Moves
      BY <1>1, <2>1 DEF Place, Pages, NewPages
    <2>3. UNCHANGED cache
      BY <2>1
    <2>4. faulty' \in BOOLEAN /\ (faulty => faulty')
      <3>1. CASE faulty' = faulty
        BY <1>0, <3>1, Zenon
      <3>2. CASE faulty' = TRUE
        BY <3>2
      <3> QED
        BY <2>1, <3>1, <3>2
    <2> QED
      BY <2>2, <2>3, <2>4, Zenon DEF Moves
  <1>10. CASE requestFails(j)
    <2>1. PICK p \in {"editor", "push", "form", "left"} : Goto(j, p)
      BY <1>10 DEF requestFails, Back
    <2> QED
      BY <1>1, <1>10, <2>1 DEF requestFails, Place, Pages, NewPages, Moves
  <1>11. CASE leave(j) \/ push(j)
    <2>1. PICK J \in SUBSET Job, moved \in {pc, [pc EXCEPT ![j] = "pushed"]} :
             Leaves(J, moved) /\ (moved = pc \/ pc[j] = "push")
      BY <1>11 DEF leave, push
    <2>2. pc' = [k \in Job |-> IF k \in J /\ pc[k] \in {"editor", "form"} THEN "left" ELSE moved[k]]
      BY <2>1 DEF Leaves
    <2>3. Moves
      BY <1>0, <2>1, <2>2 DEF Place, Moves
    <2> QED
      BY <1>0, <1>11, <2>3 DEF leave, push, Moves
  <1>12. ASSUME NEW n \in ChapterNumber, handleSubmit(j, n)
         PROVE  UNCHANGED cache /\ UNCHANGED faulty /\ Moves
    BY <1>0, <1>1, <1>12 DEF handleSubmit, Place, Pages, NewPages
  <1>13. ASSUME NEW st \in SeriesStatus, handleSave(j, st)
         PROVE  UNCHANGED cache /\ UNCHANGED faulty /\ Moves
    BY <1>0, <1>1, <1>13 DEF handleSave, Place, Pages
  <1> QED
    BY <1>0, <1>3, <1>4, <1>5, <1>6, <1>7, <1>8, <1>9, <1>10, <1>11, <1>12, <1>13 DEF VisitStep, Moves

LEMMA CacheInvKept == CacheInv /\ [Next]_vars => CacheKept
  <1> SUFFICES ASSUME CacheInv, [Next]_vars PROVE CacheKept
    OBVIOUS
  <1>1. CASE CatalogueNext
    BY <1>1, CacheNextKeeps
  <1>2. ASSUME NEW j \in Job, VisitStep(j) PROVE CacheKept
    BY <1>2, VisitLeavesCache, CacheAtRest DEF cache
  <1>3. ASSUME NEW t \in Tab, fetchOwnSeries(t) \/ listAnswered(t) PROVE CacheKept
    BY <1>3, CacheAtRest DEF fetchOwnSeries, listAnswered, cache, CacheInv, CacheTypes
  <1>4. CASE UNCHANGED vars
    BY <1>4, CacheAtRest DEF vars, catalogueVars, CacheInv, CacheTypes
  <1> QED
    BY <1>1, <1>2, <1>3, <1>4 DEF Next

LEMMA CacheIsInv == Spec => []CacheInv
  <1>1. Init => CacheInv
    BY CacheStart DEF Init
  <1>2. CacheInv /\ [Next]_vars => CacheInv'
    BY CacheInvKept DEF CacheKept
  <1> QED
    BY <1>1, <1>2, PTL DEF Spec

\* Readers are served what the source has listed, whatever syncs, fetches and visits run
\* beside each other.
THEOREM CacheServesAlways == Spec => []CacheServesSource
  <1>1. CacheInv => CacheServesSource
    BY EmptySplits DEF CacheInv, CacheTypes, CacheServesSource
  <1> QED
    BY <1>1, CacheIsInv, PTL

\* While no two writers of rows overlap, no row goes back.
THEOREM RowsGoOn == Spec => RowsMoveForward
  <1>1. CacheInv /\ [Next]_vars => [RowsGoForward]_catalogueVars
    BY CacheInvKept DEF CacheKept
  <1> QED
    BY <1>1, CacheIsInv, PTL DEF Spec, RowsMoveForward, RowsGoForward

-----------------------------------------------------------------------------
(***************************************************************************)
(* The studio.                                                             *)
(***************************************************************************)
PageImage == ToSet(File)
Visit == [tab : Tab \cup {None}, pages : Seq(PageImage), ready : SUBSET PageImage,
          dropped : SUBSET PageImage, number : ChapterNumber \cup {None},
          form : SeriesStatus \cup {None}, chosen : SeriesStatus \cup {None}, gone : BOOLEAN]

StudioTypes ==
    /\ seriesStatus \in SeriesStatus /\ own \in [ChapterNumber -> Seq(PageImage)]
    /\ statusById \in [Tab -> SeriesStatus \cup {None}]
    /\ ownSeries \in [Tab -> SeriesStatus \cup {None}]
    /\ ownChapters \in [Tab -> (SUBSET ChapterNumber) \cup {None}]
    /\ listing \in [Tab -> SeriesStatus \cup {None}]
    /\ visit \in [Job -> Visit] /\ draftSaved \in BOOLEAN /\ overwritten \in BOOLEAN
    /\ leftRunning \in BOOLEAN

\* Where a visit is says what its tab has loaded; a tab has one page open.
VisitPlaced(j) ==
    /\ pc[j] = "idle" => visit[j] = NoVisit
    /\ pc[j] \in Pages => visit[j].tab \in Tab
    /\ pc[j] = "create" => visit[j].number \in ChapterNumber /\ visit[j].pages # <<>>
    /\ pc[j] = "save" => visit[j].chosen \in SeriesStatus
    /\ pc[j] \in {"editor", "create", "promote"} => statusById[visit[j].tab] # None

VisitsPlaced ==
    /\ \A j \in Job : VisitPlaced(j)
    /\ \A j, k \in Job : OnPage(j) /\ OnPage(k) /\ visit[j].tab = visit[k].tab => j = k

\* Unless a page was left with a request under way, every request is that of the page shown.
NoneLeftRunning ==
    ~leftRunning => /\ \A j \in Job : pc[j] \in Pages => ~visit[j].gone
                    /\ \A t \in Tab : listing[t] # None => ~Open(t)

Selection(s) ==
    \A i, k \in DOMAIN s : i < k =>
        \E p, q \in DOMAIN File : p < q /\ s[i] = File[p] /\ s[k] = File[q]

\* The images a visit has picked are the first of File; each is on the page or was dropped.
picked(j) == Len(visit[j].pages) + Cardinality(visit[j].dropped)
PicksOf(j) ==
    /\ Selection(visit[j].pages) /\ IsFiniteSet(visit[j].dropped) /\ picked(j) <= Len(File)
    /\ \A f \in ToSet(visit[j].pages) \cup visit[j].dropped : \E p \in 1 .. picked(j) : File[p] = f
    /\ ToSet(visit[j].pages) \cap visit[j].dropped = {}
    /\ ~faulty => visit[j].dropped = {} /\ visit[j].pages = SubSeq(File, 1, Len(visit[j].pages))
PicksInOrder == \A j \in Job : PicksOf(j)

\* A copy that says public is right about that, unless a form saved "draft"; a chapter is
\* listed or about to be.
CopiesServe ==
    ~faulty /\ ~draftSaved =>
        /\ \A t \in Tab : statusById[t] \in PUBLIC_STATUSES => seriesStatus # "draft"
        /\ ownNumbers # {} => seriesStatus # "draft" \/ \E j \in Job : pc[j] = "promote"

\* A tab that nobody works beside has the status of the server, and so has the list on its way.
Lone(t) == \A j \in Job : visit[j].tab \in {None, t}
LoneTabKnows ==
    ~faulty /\ ~leftRunning => \A t \in Tab : Lone(t) =>
        /\ ownSeries[t] \in {None, seriesStatus} /\ listing[t] \in {None, seriesStatus}
        /\ \A j \in Job : pc[j] \in {"form", "save"} => visit[j].form = seriesStatus

PagesInv  == PicksInOrder /\ PagesInOrder /\ NoPageLost
StatusInv == CopiesServe /\ LoneTabKnows /\ FormsKeepStatus
StudioInv == StudioTypes /\ VisitsPlaced /\ NoneLeftRunning /\ PagesInv /\ StatusInv

\* A visit that keeps its pages keeps their order.
LEMMA PicksAtRest ==
    ASSUME NEW j, PicksOf(j), visit'[j].pages = visit[j].pages, visit'[j].dropped = visit[j].dropped,
           faulty => faulty', faulty \in BOOLEAN
    PROVE  PicksOf(j)'
  BY DEF PicksOf, picked

\* What a step of visit j has to say for the rest of the studio to follow.
LEMMA VisitKeepsStudio ==
    ASSUME StudioInv, NEW j \in Job, StudioTypes', faulty => faulty', faulty \in BOOLEAN, faulty' \in BOOLEAN,
           \A k \in Job \ {j} : visit'[k] = visit[k] /\ pc'[k] = pc[k],
           \A t \in Tab : statusById[t] # None => statusById'[t] # None,
           \/ /\ visit'[j].tab = visit[j].tab /\ (pc'[j] \in Pages => pc[j] \in Pages)
              /\ visit'[j].gone = visit[j].gone /\ leftRunning' = leftRunning
           \/ /\ visit'[j].tab \in Tab /\ ~Open(visit'[j].tab)
              /\ ~visit'[j].gone /\ leavesList(visit'[j].tab),
           listing' = listing, VisitPlaced(j)', PicksOf(j)',
           \/ own' = own
           \/ \E n \in ChapterNumber : own' = [own EXCEPT ![n] = visit[j].pages],
           CopiesServe', LoneTabKnows', FormsKeepStatus'
    PROVE  StudioInv'
  <1>1. VisitsPlaced'
    <2>1. ASSUME NEW k \in Job \ {j} PROVE VisitPlaced(k)'
      <3>1. VisitPlaced(k) /\ visit'[k] = visit[k] /\ pc'[k] = pc[k]
        BY DEF StudioInv, VisitsPlaced
      <3>2. pc[k] \in {"editor", "create", "promote"} => visit[k].tab \in Tab
        BY <3>1 DEF VisitPlaced, Pages, NewPages
      <3> QED
        BY <3>1, <3>2 DEF VisitPlaced
    <2>2. ASSUME NEW i \in Job, NEW k \in Job, OnPage(i)', OnPage(k)', visit'[i].tab = visit'[k].tab
          PROVE  i = k
      <3>1. \A l \in Job \ {j} : OnPage(l)' => OnPage(l)
        BY DEF OnPage
      <3>2. OnPage(j)' => (OnPage(j) /\ visit'[j].tab = visit[j].tab) \/ ~Open(visit'[j].tab)
        BY DEF OnPage
      <3> QED
        BY <2>2, <3>1, <3>2 DEF StudioInv, VisitsPlaced, Open
    <2> QED
      BY <2>1, <2>2 DEF VisitsPlaced
  <1>4. NoneLeftRunning'
    <2>1. \A l \in Job \ {j} : OnPage(l)' => OnPage(l)
      BY DEF OnPage
    <2>2. leftRunning \in BOOLEAN
      BY DEF StudioInv, StudioTypes
    <2>3. CASE /\ visit'[j].tab = visit[j].tab /\ (pc'[j] \in Pages => pc[j] \in Pages)
               /\ visit'[j].gone = visit[j].gone /\ leftRunning' = leftRunning
      BY <2>1, <2>3 DEF StudioInv, NoneLeftRunning, Open, OnPage
    <2>4. CASE /\ visit'[j].tab \in Tab /\ ~Open(visit'[j].tab)
               /\ ~visit'[j].gone /\ leavesList(visit'[j].tab)
      <3>1. ~leftRunning' => ~leftRunning /\ listing[visit'[j].tab] = None
        BY <2>2, <2>4 DEF leavesList
      <3> QED
        BY <2>1, <2>4, <3>1 DEF StudioInv, NoneLeftRunning, Open, OnPage
    <2> QED
      BY <2>3, <2>4
  <1>2. PicksInOrder'
    <2>1. ASSUME NEW k \in Job \ {j} PROVE PicksOf(k)'
      <3>1. PicksOf(k) /\ visit'[k] = visit[k]
        BY DEF StudioInv, PagesInv, PicksInOrder
      <3> QED
        BY <3>1, PicksAtRest
    <2> QED
      BY <2>1 DEF PicksInOrder
  <1>3. PagesInOrder' /\ NoPageLost'
    <2>1. CASE own' = own
      BY <2>1 DEF StudioInv, PagesInv, PagesInOrder, NoPageLost, ownNumbers
    <2>2. ASSUME NEW n \in ChapterNumber, own' = [own EXCEPT ![n] = visit[j].pages]
          PROVE  PagesInOrder' /\ NoPageLost'
      <3>1. PicksOf(j) /\ own \in [ChapterNumber -> Seq(PageImage)] /\ PagesInOrder /\ NoPageLost
        BY DEF StudioInv, PagesInv, PicksInOrder, StudioTypes
      <3>2. own'[n] = visit[j].pages /\ \A m \in ChapterNumber \ {n} : own'[m] = own[m]
        BY <2>2, <3>1
      <3>3. Selection(own'[n]) /\ (~faulty' => own'[n] = SubSeq(File, 1, Len(own'[n])))
        BY <3>1, <3>2 DEF PicksOf
      <3>4. PagesInOrder'
        BY <3>1, <3>2, <3>3 DEF PagesInOrder, Selection
      <3>5. NoPageLost'
        BY <3>1, <3>2, <3>3 DEF NoPageLost, ownNumbers
      <3> QED
        BY <3>4, <3>5
    <2> QED
      BY <2>1, <2>2
  <1> QED
    BY <1>1, <1>2, <1>3, <1>4 DEF StudioInv, PagesInv, StatusInv

\* A visit without images has them in order.
LEMMA NothingPicked ==
    ASSUME NEW j, visit[j].pages = <<>>, visit[j].dropped = {}
    PROVE  PicksOf(j)
  <1>1. IsFiniteSet({}) /\ Cardinality({}) = 0 /\ Len(File) \in Nat
    BY FS_EmptySet, PublishingAssumption
  <1>2. SubSeq(File, 1, 0) = <<>>
    BY PublishingAssumption
  <1>3. ToSet(<<>>) = {} /\ Len(<<>>) = 0
    BY DEF ToSet
  <1> QED
    BY <1>1, <1>2, <1>3 DEF PicksOf, picked, Selection

LEMMA StudioStarts == Init => StudioInv
  <1> SUFFICES ASSUME Init PROVE StudioInv
    OBVIOUS
  <1>1. NoVisit \in Visit
    BY DEF NoVisit, Visit
  <1>2. StudioTypes
    <2>1. ownSeries \in [Tab -> SeriesStatus \cup {None}] /\ \A t \in Tab : ownSeries[t] \in {None, "draft"}
      BY DEF Init, SeriesStatus
    <2>2. own \in [ChapterNumber -> Seq(PageImage)]
      BY DEF Init
    <2>3. visit \in [Job -> Visit]
      BY <1>1 DEF Init
    <2>4. /\ statusById \in [Tab -> SeriesStatus \cup {None}]
          /\ ownChapters \in [Tab -> (SUBSET ChapterNumber) \cup {None}]
          /\ listing \in [Tab -> SeriesStatus \cup {None}]
      <3>1. /\ statusById = [t \in Tab |-> None] /\ ownChapters = [t \in Tab |-> None]
            /\ listing = [t \in Tab |-> None]
        BY DEF Init
      <3>2. [t \in Tab |-> None] \in [Tab -> SeriesStatus \cup {None}]
        OBVIOUS
      <3>3. \A S : None \in S => [t \in Tab |-> None] \in [Tab -> S]
        OBVIOUS
      <3> QED
        BY <3>1, <3>2, <3>3
    <2>5. /\ seriesStatus \in SeriesStatus /\ draftSaved \in BOOLEAN /\ overwritten \in BOOLEAN
          /\ leftRunning \in BOOLEAN
      BY DEF Init, SeriesStatus
    <2> QED
      BY <2>1, <2>2, <2>3, <2>4, <2>5 DEF StudioTypes
  <1>3. \A j \in Job : pc[j] = "idle" /\ visit[j] = NoVisit
    BY DEF Init, CatalogueInit
  <1>4. VisitsPlaced
    BY <1>3 DEF VisitsPlaced, VisitPlaced, OnPage, Pages, NewPages
  <1>8. NoneLeftRunning
    BY <1>3 DEF Init, NoneLeftRunning, Pages, NewPages
  <1>5. PicksInOrder
    <2>1. ASSUME NEW j \in Job PROVE PicksOf(j)
      <3>1. visit[j].pages = <<>> /\ visit[j].dropped = {}
        BY <1>3 DEF NoVisit
      <3> QED
        BY <3>1, NothingPicked
    <2> QED
      BY <2>1 DEF PicksInOrder
  <1>6. PagesInOrder /\ NoPageLost
    BY DEF Init, PagesInOrder, NoPageLost, ownNumbers
  <1>7. StatusInv
    <2>1. CopiesServe
      BY PublishingAssumption DEF Init, CopiesServe, ownNumbers, PUBLIC_STATUSES
    <2>2. LoneTabKnows
      BY <1>3 DEF Init, LoneTabKnows
    <2>3. FormsKeepStatus
      BY DEF Init, FormsKeepStatus
    <2> QED
      BY <2>1, <2>2, <2>3 DEF StatusInv
  <1> QED
    BY <1>2, <1>4, <1>5, <1>6, <1>7, <1>8 DEF StudioInv, PagesInv

\* A step that changes no status, nor what a tab knows of it.
LEMMA StatusAtRest ==
    ASSUME StudioInv, UNCHANGED <<seriesStatus, statusById, ownSeries, own, listing, draftSaved, overwritten>>,
           faulty \in BOOLEAN, faulty' \in BOOLEAN, faulty => faulty',
           leftRunning' \in BOOLEAN, leftRunning => leftRunning',
           \A k \in Job : /\ visit'[k].tab = visit[k].tab \/ (visit[k].tab = None /\ pc[k] = "idle")
                          /\ pc'[k] \in {"form", "save"} =>
                                \/ visit'[k].form = visit[k].form /\ pc[k] \in {"form", "save"}
                                \/ /\ visit'[k].tab \in Tab /\ visit'[k].form # None
                                   /\ visit'[k].form = ownSeries[visit'[k].tab]
                          /\ pc[k] = "promote" => pc'[k] = "promote" \/ faulty'
    PROVE  CopiesServe' /\ LoneTabKnows' /\ FormsKeepStatus'
  <1>1. CopiesServe'
    BY DEF StudioInv, StatusInv, CopiesServe, ownNumbers
  <1>2. \A t \in Tab : Lone(t)' => Lone(t)
    BY DEF Lone
  <1>3. LoneTabKnows'
    <2>1. ASSUME ~faulty, ~leftRunning, NEW t \in Tab, Lone(t)'
          PROVE  /\ ownSeries[t] \in {None, seriesStatus} /\ listing[t] \in {None, seriesStatus}
                 /\ \A k \in Job : pc'[k] \in {"form", "save"} => visit'[k].form = seriesStatus
      <3>1. ownSeries[t] \in {None, seriesStatus} /\ listing[t] \in {None, seriesStatus}
        BY <1>2, <2>1 DEF StudioInv, StatusInv, LoneTabKnows
      <3>2. ASSUME NEW k \in Job, pc'[k] \in {"form", "save"} PROVE visit'[k].form = seriesStatus
        <4>1. CASE visit'[k].form = visit[k].form /\ pc[k] \in {"form", "save"}
          BY <1>2, <2>1, <4>1 DEF StudioInv, StatusInv, LoneTabKnows
        <4>2. CASE /\ visit'[k].tab \in Tab /\ visit'[k].form # None
                   /\ visit'[k].form = ownSeries[visit'[k].tab]
          <5>1. visit'[k].tab = t
            BY <2>1, <4>2, PublishingAssumption DEF Lone
          <5> QED
            BY <3>1, <4>2, <5>1
        <4> QED
          BY <3>2, <4>1, <4>2
      <3> QED
        BY <3>1, <3>2
    <2> QED
      BY <2>1 DEF LoneTabKnows
  <1>4. FormsKeepStatus'
    BY DEF StudioInv, StatusInv, FormsKeepStatus
  <1> QED
    BY <1>1, <1>3, <1>4

\* Types and the parts of the invariant that concern one visit.
LEMMA VisitFacts ==
    ASSUME StudioInv, CacheInv, NEW j \in Job
    PROVE  /\ VisitPlaced(j) /\ PicksOf(j) /\ visit[j] \in Visit /\ visit \in [Job -> Visit]
           /\ pc \in [Job -> Place] /\ faulty \in BOOLEAN /\ StudioTypes
  BY DEF StudioInv, VisitsPlaced, PagesInv, PicksInOrder, StudioTypes, CacheInv, CacheTypes

LEMMA FailingKeepsStudio ==
    ASSUME StudioInv, CacheInv, NEW j \in Job, requestFails(j)
    PROVE  StudioInv'
  <1>1. PICK p \in {"editor", "push", "form", "left"} :
            /\ pc' = [pc EXCEPT ![j] = p] /\ UNCHANGED pubVars
            /\ pc[j] \in Pages /\ (p = "editor" => pc[j] = "create") /\ (p = "form" => pc[j] = "save")
            /\ faulty' = TRUE
    BY DEF requestFails, Back, Goto, pubVars, Pages, NewPages
  <1>2. /\ pc'[j] = p /\ \A k \in Job \ {j} : pc'[k] = pc[k]
        /\ visit' = visit /\ own' = own /\ statusById' = statusById
        /\ UNCHANGED <<seriesStatus, statusById, ownSeries, own, listing, draftSaved, overwritten, leftRunning>>
    BY <1>1, VisitFacts DEF pubVars, copies, history
  <1>3. StudioTypes'
    BY <1>1 DEF StudioInv, StudioTypes, pubVars, copies, history
  <1>4. VisitPlaced(j)'
    BY <1>1, <1>2, VisitFacts DEF VisitPlaced, Pages, NewPages
  <1>5. PicksOf(j)'
    BY <1>1, <1>2, VisitFacts, PicksAtRest
  <1>6. CopiesServe' /\ LoneTabKnows' /\ FormsKeepStatus'
    <2>1. \A k \in Job : /\ visit'[k].tab = visit[k].tab
                         /\ pc'[k] \in {"form", "save"} =>
                                visit'[k].form = visit[k].form /\ pc[k] \in {"form", "save"}
                         /\ pc[k] = "promote" => pc'[k] = "promote" \/ faulty'
      BY <1>1, <1>2
    <2> QED
      BY <1>1, <1>2, <2>1, VisitFacts, StatusAtRest DEF StudioTypes
  <1>7. visit'[j].tab = visit[j].tab /\ (pc'[j] \in Pages => pc[j] \in Pages) /\ visit'[j].gone = visit[j].gone
    BY <1>1, <1>2
  <1>8. \A t \in Tab : statusById[t] # None => statusById'[t] # None
    BY <1>2
  <1>9. faulty \in BOOLEAN /\ faulty' \in BOOLEAN /\ (faulty => faulty')
    BY <1>1, VisitFacts
  <1> QED
    BY <1>2, <1>3, <1>4, <1>5, <1>6, <1>7, <1>8, <1>9, VisitKeepsStudio

\* Pages go, and the handlers that are awaiting an answer run on.
LEMMA LeavesKeepStudio ==
    ASSUME StudioInv, CacheInv, NEW J \in SUBSET Job, NEW moved \in [Job -> Place],
           Leaves(J, moved), \A k \in J : OnPage(k),
           \A k \in Job : moved[k] = pc[k] \/ (pc[k] = "push" /\ moved[k] = "pushed"),
           UNCHANGED <<faulty, seriesStatus, own, copies, listing, draftSaved, overwritten>>
    PROVE  StudioInv'
  <1>0. /\ \A k \in Job : VisitPlaced(k) /\ PicksOf(k) /\ visit[k] \in Visit /\ pc[k] \in Place
        /\ faulty \in BOOLEAN /\ leftRunning \in BOOLEAN
        /\ UNCHANGED <<statusById, ownSeries, ownChapters>>
    <2>1. StudioTypes /\ CacheTypes /\ \A k \in Job : VisitPlaced(k) /\ PicksOf(k)
      BY DEF StudioInv, VisitsPlaced, PagesInv, PicksInOrder, CacheInv
    <2>2. /\ \A k \in Job : visit[k] \in Visit /\ pc[k] \in Place
          /\ faulty \in BOOLEAN /\ leftRunning \in BOOLEAN
      BY <2>1 DEF StudioTypes, CacheTypes
    <2> QED
      BY <2>1, <2>2 DEF copies
  <1> DEFINE forgotten(k) == k \in J /\ pc[k] \in {"editor", "form"}
  <1>1. ASSUME NEW k \in Job
        PROVE  /\ visit'[k].tab = visit[k].tab /\ visit'[k] \in Visit
               /\ k \notin J => visit'[k] = visit[k]
               /\ k \in J => visit'[k].gone
               /\ forgotten(k) => visit'[k].pages = <<>> /\ visit'[k].dropped = {}
               /\ ~forgotten(k) => /\ visit'[k].pages = visit[k].pages /\ visit'[k].dropped = visit[k].dropped
                                   /\ visit'[k].number = visit[k].number /\ visit'[k].form = visit[k].form
                                   /\ visit'[k].chosen = visit[k].chosen
    <2>1. visit'[k] = IF k \notin J THEN visit[k]
                      ELSE IF pc[k] \in {"editor", "form"} THEN [NoVisit EXCEPT !.tab = visit[k].tab, !.gone = TRUE]
                      ELSE [visit[k] EXCEPT !.gone = TRUE]
      BY DEF Leaves
    <2>2. visit[k] \in Visit
      BY <1>0
    <2>3. CASE k \notin J
      BY <2>1, <2>2, <2>3
    <2>4. CASE forgotten(k)
      <3>1. visit'[k] = [NoVisit EXCEPT !.tab = visit[k].tab, !.gone = TRUE]
        BY <2>1, <2>4
      <3>2. visit[k].tab \in Tab \cup {None} /\ <<>> \in Seq(PageImage)
        BY <2>2 DEF Visit
      <3>3. /\ visit'[k] \in Visit /\ visit'[k].tab = visit[k].tab /\ visit'[k].gone
            /\ visit'[k].pages = <<>> /\ visit'[k].dropped = {}
        BY <3>1, <3>2 DEF Visit, NoVisit
      <3> QED
        BY <2>4, <3>3
    <2>5. CASE k \in J /\ ~forgotten(k)
      <3>1. visit'[k] = [visit[k] EXCEPT !.gone = TRUE]
        BY <2>1, <2>5
      <3>2. visit'[k] \in Visit
        BY <2>2, <3>1 DEF Visit
      <3>3. /\ visit'[k].tab = visit[k].tab /\ visit'[k].gone
            /\ visit'[k].pages = visit[k].pages /\ visit'[k].dropped = visit[k].dropped
            /\ visit'[k].number = visit[k].number /\ visit'[k].form = visit[k].form
            /\ visit'[k].chosen = visit[k].chosen
        BY <2>2, <3>1 DEF Visit
      <3> QED
        BY <2>5, <3>2, <3>3
    <2> QED
      BY <2>3, <2>4, <2>5
  <1>2. \A k \in Job : pc'[k] = IF forgotten(k) THEN "left" ELSE moved[k]
    BY DEF Leaves
  <1>3. /\ leftRunning' = (leftRunning \/ \E k \in J : ~forgotten(k))
        /\ leftRunning' \in BOOLEAN /\ (leftRunning => leftRunning')
    BY <1>0 DEF Leaves
  <1>4. \A k \in Job : OnPage(k)' => OnPage(k) /\ k \notin J
    BY <1>1, <1>2 DEF OnPage, Pages, NewPages
  <1>5. visit' \in [Job -> Visit]
    <2>1. visit' = [k \in Job |-> visit'[k]]
      BY DEF Leaves
    <2> QED
      BY <1>1, <2>1
  <1>6. StudioTypes'
    <2>1. StudioTypes
      BY DEF StudioInv
    <2>2. UNCHANGED <<seriesStatus, own, listing, draftSaved, overwritten>>
      OBVIOUS
    <2> QED
      BY <1>0, <1>3, <1>5, <2>1, <2>2 DEF StudioTypes
  <1>7. VisitsPlaced'
    <2>1. ASSUME NEW k \in Job PROVE VisitPlaced(k)'
      <3>1. k \in J => pc[k] # "idle"
        BY DEF OnPage, Pages, NewPages
      <3>2. CASE forgotten(k)
        BY <1>2, <3>2 DEF VisitPlaced, Pages, NewPages
      <3>3. CASE ~forgotten(k)
        <4>1. /\ pc'[k] = pc[k] \/ pc'[k] = "pushed"
              /\ visit'[k].tab = visit[k].tab
          BY <1>1, <1>2, <3>3
        <4> QED
          BY <1>0, <1>1, <3>1, <3>3, <4>1 DEF VisitPlaced, Pages, NewPages
      <3> QED
        BY <3>2, <3>3
    <2>2. \A i, k \in Job : OnPage(i)' /\ OnPage(k)' /\ visit'[i].tab = visit'[k].tab => i = k
      BY <1>1, <1>4 DEF StudioInv, VisitsPlaced
    <2> QED
      BY <2>1, <2>2 DEF VisitsPlaced
  <1>8. NoneLeftRunning'
    <2>1. ASSUME ~leftRunning', NEW k \in Job, pc'[k] \in Pages PROVE ~visit'[k].gone
      <3>1. ~leftRunning /\ (k \in J => forgotten(k))
        BY <1>3, <2>1
      <3>2. k \notin J /\ pc[k] \in Pages
        BY <1>2, <2>1, <3>1 DEF Pages, NewPages
      <3> QED
        BY <1>1, <3>1, <3>2 DEF StudioInv, NoneLeftRunning
    <2>2. ASSUME ~leftRunning', NEW t \in Tab, listing'[t] # None PROVE ~Open(t)'
      <3>1. ~Open(t)
        BY <1>3, <2>2 DEF StudioInv, NoneLeftRunning
      <3> QED
        BY <1>1, <1>4, <3>1 DEF Open
    <2> QED
      BY <2>1, <2>2 DEF NoneLeftRunning
  <1>9. PagesInv'
    <2>1. ASSUME NEW k \in Job PROVE PicksOf(k)'
      <3>1. CASE forgotten(k)
        <4>1. visit'[k].pages = <<>> /\ visit'[k].dropped = {}
          BY <1>1, <3>1
        <4>2. IsFiniteSet({}) /\ Cardinality({}) = 0 /\ Len(File) \in Nat /\ SubSeq(File, 1, 0) = <<>>
          BY FS_EmptySet, PublishingAssumption
        <4>3. ToSet(<<>>) = {} /\ Len(<<>>) = 0
          BY DEF ToSet
        <4> QED
          BY <4>1, <4>2, <4>3 DEF PicksOf, picked, Selection
      <3>2. CASE ~forgotten(k)
        BY <1>0, <1>1, <3>2, PicksAtRest
      <3> QED
        BY <3>1, <3>2
    <2> QED
      BY <2>1 DEF StudioInv, PagesInv, PicksInOrder, PagesInOrder, NoPageLost, ownNumbers
  <1>10. CopiesServe' /\ LoneTabKnows' /\ FormsKeepStatus'
    <2>1. ASSUME NEW k \in Job
          PROVE  /\ visit'[k].tab = visit[k].tab
                 /\ pc'[k] \in {"form", "save"} =>
                        visit'[k].form = visit[k].form /\ pc[k] \in {"form", "save"}
                 /\ pc[k] = "promote" => pc'[k] = "promote" \/ faulty'
      BY <1>1, <1>2
    <2> QED
      BY <1>0, <1>3, <2>1, StatusAtRest
  <1> QED
    BY <1>6, <1>7, <1>8, <1>9, <1>10 DEF StudioInv, StatusInv

LEMMA LeavingKeepsStudio ==
    ASSUME StudioInv, CacheInv, NEW j \in Job, leave(j) \/ push(j)
    PROVE  StudioInv'
  <1>0. pc \in [Job -> Place]
    BY VisitFacts
  <1>1. CASE leave(j)
    <2>1. Leaves({j}, pc) /\ OnPage(j)
      BY <1>1 DEF leave
    <2> QED
      BY <1>0, <1>1, <2>1, LeavesKeepStudio DEF leave
  <1>2. CASE push(j)
    <2> DEFINE J == {k \in Job \ {j} : OnPage(k) /\ pc[k] \in NewPages /\ visit[k].tab = visit[j].tab}
               moved == [pc EXCEPT ![j] = "pushed"]
    <2>1. Leaves(J, moved) /\ pc[j] = "push"
      BY <1>2 DEF push
    <2>2. moved \in [Job -> Place] /\ \A k \in Job : moved[k] = pc[k] \/ (pc[k] = "push" /\ moved[k] = "pushed")
      BY <1>0, <2>1 DEF Place
    <2>3. J \in SUBSET Job /\ \A k \in J : OnPage(k)
      OBVIOUS
    <2>4. UNCHANGED <<faulty, seriesStatus, own, copies, listing, draftSaved, overwritten>>
      BY <1>2 DEF push
    <2> HIDE DEF J, moved
    <2> QED
      BY <2>1, <2>2, <2>3, <2>4, LeavesKeepStudio
  <1> QED
    BY <1>1, <1>2

LEMMA HandlingKeepsStudio ==
    ASSUME StudioInv, CacheInv, NEW j \in Job,
           \/ uploadCreatorFile(j)
           \/ \E n \in ChapterNumber : handleSubmit(j, n)
           \/ \E st \in SeriesStatus : handleSave(j, st)
    PROVE  StudioInv'
  <1>0. visit[j] \in Visit
    BY VisitFacts
  <1> DEFINE Handled(v, p) ==
            /\ visit' = [visit EXCEPT ![j] = v] /\ pc' = [pc EXCEPT ![j] = p]
            /\ v.tab = visit[j].tab /\ v.pages = visit[j].pages /\ v.dropped = visit[j].dropped
            /\ v.form = visit[j].form /\ v.gone = visit[j].gone
            /\ \/ p = "create" /\ pc[j] = "editor" /\ v.number \in ChapterNumber /\ v.pages # <<>>
               \/ p = "save" /\ pc[j] = "form" /\ v.chosen \in SeriesStatus
               \/ p = "editor" /\ pc[j] = "editor"
            /\ UNCHANGED <<faulty, seriesStatus, statusById, ownSeries, ownChapters, own, listing, draftSaved, overwritten, leftRunning>>
  <1>1. PICK v \in Visit, p \in Place : Handled(v, p)
    <2>1. ASSUME NEW n \in ChapterNumber, handleSubmit(j, n) PROVE \E v \in Visit, p \in Place : Handled(v, p)
      <3> DEFINE w == [visit[j] EXCEPT !.number = n]
      <3>1. visit' = [visit EXCEPT ![j] = w]
        BY <2>1 DEF handleSubmit
      <3>2. /\ w \in Visit /\ w.tab = visit[j].tab /\ w.pages = visit[j].pages /\ w.dropped = visit[j].dropped
            /\ w.form = visit[j].form /\ w.gone = visit[j].gone /\ w.number = n
        BY <1>0 DEF Visit
      <3> HIDE DEF w
      <3>9. "create" \in Place /\ Handled(w, "create")
        BY <2>1, <3>1, <3>2 DEF handleSubmit, Goto, copies, history, Place
      <3> QED
        BY <3>2, <3>9
    <2>2. ASSUME NEW st \in SeriesStatus, handleSave(j, st) PROVE \E v \in Visit, p \in Place : Handled(v, p)
      <3> DEFINE w == [visit[j] EXCEPT !.chosen = st]
      <3>1. visit' = [visit EXCEPT ![j] = w]
        BY <2>2 DEF handleSave
      <3>2. /\ w \in Visit /\ w.tab = visit[j].tab /\ w.pages = visit[j].pages /\ w.dropped = visit[j].dropped
            /\ w.form = visit[j].form /\ w.gone = visit[j].gone /\ w.chosen = st
        BY <1>0 DEF Visit
      <3> HIDE DEF w
      <3>9. "save" \in Place /\ Handled(w, "save")
        BY <2>2, <3>1, <3>2 DEF handleSave, Goto, copies, history, Place
      <3> QED
        BY <3>2, <3>9
    <2>3. CASE uploadCreatorFile(j)
      <3>1. PICK f \in ToSet(visit[j].pages) : visit' = [visit EXCEPT ![j].ready = @ \cup {f}]
        BY <2>3 DEF uploadCreatorFile
      <3> DEFINE w == [visit[j] EXCEPT !.ready = @ \cup {f}]
      <3>2. visit' = [visit EXCEPT ![j] = w]
        BY <3>1
      <3>3. f \in PageImage
        BY <1>0 DEF Visit, ToSet
      <3>4. /\ w \in Visit /\ w.tab = visit[j].tab /\ w.pages = visit[j].pages /\ w.dropped = visit[j].dropped
            /\ w.form = visit[j].form /\ w.gone = visit[j].gone
        BY <1>0, <3>3 DEF Visit
      <3>5. pc' = pc /\ pc[j] = "editor" /\ pc \in [Job -> Place]
        BY <2>3, VisitFacts DEF uploadCreatorFile
      <3>6. pc' = [pc EXCEPT ![j] = "editor"]
        BY <3>5
      <3> HIDE DEF w
      <3>9. "editor" \in Place /\ Handled(w, "editor")
        BY <2>3, <3>2, <3>4, <3>5, <3>6 DEF uploadCreatorFile, copies, history, Place
      <3> QED
        BY <3>2, <3>4, <3>9
    <2> QED
      BY <2>1, <2>2, <2>3
  <1>2. /\ visit' \in [Job -> Visit] /\ visit'[j] = v /\ pc'[j] = p
        /\ \A k \in Job \ {j} : visit'[k] = visit[k] /\ pc'[k] = pc[k]
    BY <1>1, VisitFacts
  <1>3. StudioTypes'
    BY <1>1, <1>2 DEF StudioInv, StudioTypes
  <1>4. VisitPlaced(j)'
    BY <1>1, <1>2, VisitFacts DEF VisitPlaced, Pages, NewPages
  <1>5. PicksOf(j)'
    BY <1>1, <1>2, VisitFacts, PicksAtRest
  <1>6. CopiesServe' /\ LoneTabKnows' /\ FormsKeepStatus'
    <2>1. \A k \in Job : /\ visit'[k].tab = visit[k].tab
                         /\ pc'[k] \in {"form", "save"} =>
                                visit'[k].form = visit[k].form /\ pc[k] \in {"form", "save"}
                         /\ pc[k] = "promote" => pc'[k] = "promote" \/ faulty'
      BY <1>1, <1>2
    <2> QED
      BY <1>1, <2>1, VisitFacts, StatusAtRest DEF StudioTypes
  <1> QED
    BY <1>1, <1>2, <1>3, <1>4, <1>5, <1>6, VisitFacts, VisitKeepsStudio DEF Pages, NewPages

LEMMA RemoveAtElements ==
    ASSUME NEW S, NEW s \in Seq(S), NEW i \in DOMAIN s
    PROVE  /\ RemoveAt(s, i) \in Seq(S) /\ Len(RemoveAt(s, i)) = Len(s) - 1
           /\ \A k \in 1 .. Len(s) - 1 : RemoveAt(s, i)[k] = IF k < i THEN s[k] ELSE s[k + 1]
  <1> DEFINE a == SubSeq(s, 1, i - 1)
             b == SubSeq(s, i + 1, Len(s))
  <1>1. Len(s) \in Nat /\ i \in 1 .. Len(s)
    OBVIOUS
  <1>2. a \in Seq(S) /\ Len(a) = i - 1 /\ \A k \in 1 .. i - 1 : a[k] = s[k]
    BY <1>1
  <1>3. b \in Seq(S) /\ Len(b) = Len(s) - i /\ \A k \in 1 .. Len(s) - i : b[k] = s[i + k]
    BY <1>1
  <1>4. RemoveAt(s, i) = a \o b
    BY DEF RemoveAt
  <1> HIDE DEF a, b
  <1>5. a \o b \in Seq(S) /\ Len(a \o b) = Len(s) - 1
    BY <1>1, <1>2, <1>3
  <1>6. ASSUME NEW k \in 1 .. Len(s) - 1 PROVE (a \o b)[k] = IF k < i THEN s[k] ELSE s[k + 1]
    <2>1. CASE k < i
      BY <1>1, <1>2, <1>3, <2>1
    <2>2. CASE ~(k < i)
      <3>1. (a \o b)[k] = b[k - (i - 1)]
        BY <1>1, <1>2, <1>3, <2>2
      <3>2. k - (i - 1) \in 1 .. Len(s) - i /\ i + (k - (i - 1)) = k + 1
        BY <1>1, <2>2
      <3> QED
        BY <1>3, <2>2, <3>1, <3>2
    <2> QED
      BY <2>1, <2>2
  <1> QED
    BY <1>4, <1>5, <1>6

\* A page in order is on a page once.
LEMMA SelectionDistinct ==
    ASSUME NEW s \in Seq(PageImage), Selection(s), NEW i \in DOMAIN s, NEW k \in DOMAIN s, s[i] = s[k]
    PROVE  i = k
  BY PublishingAssumption DEF Selection

LEMMA AppendedElements ==
    ASSUME NEW S, NEW s \in Seq(S), NEW x \in S
    PROVE  ToSet(Append(s, x)) = ToSet(s) \cup {x} /\ Len(Append(s, x)) = Len(s) + 1
  <1> DEFINE t == Append(s, x)
  <1>1. Len(s) \in Nat /\ DOMAIN s = 1 .. Len(s)
    OBVIOUS
  <1>2. Len(t) = Len(s) + 1 /\ DOMAIN t = 1 .. Len(s) + 1
    BY <1>1
  <1>3. t[Len(s) + 1] = x /\ \A k \in 1 .. Len(s) : t[k] = s[k]
    BY <1>1
  <1> HIDE DEF t
  <1>4. \A k : k \in DOMAIN t <=> k \in DOMAIN s \/ k = Len(s) + 1
    BY <1>1, <1>2
  <1>5. ASSUME NEW f, f \in ToSet(t) PROVE f \in ToSet(s) \cup {x}
    <2>1. PICK k \in DOMAIN t : f = t[k]
      BY <1>5 DEF ToSet
    <2> QED
      BY <1>1, <1>3, <1>4, <2>1 DEF ToSet
  <1>6. ASSUME NEW f, f \in ToSet(s) \cup {x} PROVE f \in ToSet(t)
    <2>1. CASE f = x
      BY <1>3, <1>4, <2>1 DEF ToSet
    <2>2. CASE f \in ToSet(s)
      <3>1. PICK k \in DOMAIN s : f = s[k]
        BY <2>2 DEF ToSet
      <3> QED
        BY <1>1, <1>3, <1>4, <3>1 DEF ToSet
    <2> QED
      BY <1>6, <2>1, <2>2
  <1> QED
    BY <1>2, <1>5, <1>6 DEF t

LEMMA SelectionGrows ==
    ASSUME NEW s \in Seq(PageImage), Selection(s), NEW n \in Nat, n < Len(File),
           \A f \in ToSet(s) : \E p \in 1 .. n : File[p] = f
    PROVE  Selection(Append(s, File[n + 1]))
  <1> DEFINE t == Append(s, File[n + 1])
  <1>1. Len(s) \in Nat /\ Len(File) \in Nat /\ DOMAIN File = 1 .. Len(File) /\ DOMAIN s = 1 .. Len(s)
    BY PublishingAssumption
  <1>2. DOMAIN t = 1 .. Len(s) + 1 /\ t[Len(s) + 1] = File[n + 1] /\ \A k \in 1 .. Len(s) : t[k] = s[k]
    BY <1>1
  <1> HIDE DEF t
  <1>3. ASSUME NEW i \in DOMAIN t, NEW k \in DOMAIN t, i < k
        PROVE  \E p, q \in DOMAIN File : p < q /\ t[i] = File[p] /\ t[k] = File[q]
    <2>1. CASE k \in 1 .. Len(s)
      BY <1>1, <1>2, <1>3, <2>1 DEF Selection
    <2>2. CASE k = Len(s) + 1
      <3>1. i \in 1 .. Len(s) /\ t[i] = s[i] /\ s[i] \in ToSet(s)
        BY <1>1, <1>2, <1>3, <2>2 DEF ToSet
      <3>2. PICK p \in 1 .. n : File[p] = s[i]
        BY <3>1
      <3>3. p \in DOMAIN File /\ n + 1 \in DOMAIN File /\ p < n + 1
        BY <1>1
      <3> QED
        BY <1>2, <2>2, <3>1, <3>2, <3>3
    <2> QED
      BY <1>1, <1>2, <2>1, <2>2
  <1> QED
    BY <1>3 DEF Selection, t

LEMMA SelectionShrinks ==
    ASSUME NEW s \in Seq(PageImage), Selection(s), NEW i \in DOMAIN s
    PROVE  /\ Selection(RemoveAt(s, i))
           /\ \A f : f \in ToSet(RemoveAt(s, i)) <=> f \in ToSet(s) /\ f # s[i]
  <1> DEFINE t == RemoveAt(s, i)
             up(k) == IF k < i THEN k ELSE k + 1
  <1>1. Len(s) \in Nat /\ DOMAIN s = 1 .. Len(s) /\ i \in 1 .. Len(s)
    OBVIOUS
  <1>2. t \in Seq(PageImage) /\ Len(t) = Len(s) - 1 /\ \A k \in 1 .. Len(s) - 1 : t[k] = s[up(k)]
    BY <1>1, RemoveAtElements
  <1>3. DOMAIN t = 1 .. Len(s) - 1
    BY <1>2
  <1> HIDE DEF t
  <1>4. \A k \in DOMAIN t : t[k] = s[up(k)] /\ up(k) \in DOMAIN s /\ up(k) # i
    BY <1>1, <1>2, <1>3
  <1>5. \A k, m \in DOMAIN t : k < m => up(k) < up(m)
    BY <1>1, <1>3
  <1>6. Selection(t)
    <2> HIDE DEF up
    <2> QED
      BY <1>4, <1>5 DEF Selection
  <1>7. ASSUME NEW f, f \in ToSet(t) PROVE f \in ToSet(s) /\ f # s[i]
    <2>1. PICK k \in DOMAIN t : f = t[k]
      BY <1>7 DEF ToSet
    <2>2. f = s[up(k)] /\ up(k) \in DOMAIN s /\ up(k) # i
      BY <1>4, <2>1
    <2> HIDE DEF up
    <2> QED
      BY <2>2, SelectionDistinct DEF ToSet
  <1>8. ASSUME NEW f, f \in ToSet(s), f # s[i] PROVE f \in ToSet(t)
    <2>1. PICK m \in DOMAIN s : f = s[m]
      BY <1>8 DEF ToSet
    <2>2. m # i
      BY <1>8, <2>1
    <2> DEFINE k == IF m < i THEN m ELSE m - 1
    <2>3. k \in DOMAIN t /\ up(k) = m
      BY <1>1, <1>3, <2>2
    <2> HIDE DEF k, up
    <2> QED
      BY <1>4, <2>1, <2>3 DEF ToSet
  <1> QED
    BY <1>6, <1>7, <1>8 DEF t

\* What every step of a visit that changes its pages alone has in common.
LEMMA PageStepKeepsStudio ==
    ASSUME StudioInv, CacheInv, NEW j \in Job, NEW v \in Visit,
           visit' = [visit EXCEPT ![j] = v], pc' = pc, pc[j] = "editor",
           v.tab = visit[j].tab, v.gone = visit[j].gone, faulty => faulty', faulty' \in BOOLEAN, PicksOf(j)',
           UNCHANGED <<seriesStatus, own, copies, listing, saves, history>>
    PROVE  StudioInv'
  <1>0. \A k \in Job : visit[k] \in Visit /\ pc'[k] = pc[k]
    BY VisitFacts
  <1>1. visit' \in [Job -> Visit] /\ visit'[j] = v /\ \A k \in Job \ {j} : visit'[k] = visit[k]
    BY VisitFacts
  <1>2. UNCHANGED <<seriesStatus, statusById, ownSeries, ownChapters, own, listing, draftSaved, overwritten, leftRunning>>
    BY DEF copies, history
  <1>3. StudioTypes'
    BY <1>1, <1>2, VisitFacts DEF StudioTypes
  <1>4. VisitPlaced(j)'
    BY <1>0, <1>1, <1>2, VisitFacts DEF VisitPlaced, Pages, NewPages
  <1>5. CopiesServe' /\ LoneTabKnows' /\ FormsKeepStatus'
    <2>1. \A k \in Job : /\ visit'[k].tab = visit[k].tab
                         /\ pc'[k] \in {"form", "save"} =>
                                visit'[k].form = visit[k].form /\ pc[k] \in {"form", "save"}
                         /\ pc[k] = "promote" => pc'[k] = "promote" \/ faulty'
      BY <1>0, <1>1
    <2> QED
      BY <1>2, <2>1, VisitFacts, StatusAtRest DEF StudioTypes
  <1>6. visit'[j].tab = visit[j].tab /\ (pc'[j] \in Pages => pc[j] \in Pages) /\ visit'[j].gone = visit[j].gone
    BY <1>1
  <1>7. \A t \in Tab : statusById[t] # None => statusById'[t] # None
    BY <1>2
  <1>8. own' = own /\ faulty \in BOOLEAN /\ leftRunning' = leftRunning /\ listing' = listing
    BY <1>2, VisitFacts
  <1> QED
    BY <1>0, <1>1, <1>3, <1>4, <1>5, <1>6, <1>7, <1>8, VisitKeepsStudio

LEMMA PickingKeepsStudio ==
    ASSUME StudioInv, CacheInv, NEW j \in Job, handleFiles(j)
    PROVE  StudioInv'
  <1> DEFINE s == visit[j].pages
             d == visit[j].dropped
             n == picked(j)
             v == [visit[j] EXCEPT !.pages = Append(@, File[n + 1])]
  <1>1. visit[j] \in Visit /\ PicksOf(j)
    BY VisitFacts
  <1>2. s \in Seq(PageImage) /\ d \subseteq PageImage /\ IsFiniteSet(d) /\ Len(File) \in Nat
    BY <1>1, PublishingAssumption DEF Visit, PicksOf
  <1>3. Len(s) \in Nat /\ Cardinality(d) \in Nat /\ n = Len(s) + Cardinality(d) /\ n < Len(File)
    BY <1>2, FS_CardinalityType DEF picked, handleFiles
  <1>4. n \in Nat /\ n + 1 \in DOMAIN File /\ File[n + 1] \in PageImage
    BY <1>3, <1>2, PublishingAssumption DEF PageImage, ToSet
  <1>5. visit' = [visit EXCEPT ![j] = v]
    BY DEF handleFiles, picked
  <1>6. visit'[j] = v
    BY <1>5, VisitFacts
  <1>7. v \in Visit /\ v.tab = visit[j].tab /\ v.gone = visit[j].gone /\ v.pages = Append(s, File[n + 1]) /\ v.dropped = d
    <2>1. Append(s, File[n + 1]) \in Seq(PageImage)
      BY <1>2, <1>4
    <2> DEFINE w == Append(s, File[n + 1])
    <2>2. v = [visit[j] EXCEPT !.pages = w]
      OBVIOUS
    <2>3. w \in Seq(PageImage)
      BY <2>1
    <2> HIDE DEF w, s, n, v
    <2>4. v \in Visit /\ v.tab = visit[j].tab /\ v.gone = visit[j].gone /\ v.pages = w /\ v.dropped = visit[j].dropped
      BY <1>1, <2>2, <2>3 DEF Visit
    <2> QED
      BY <2>4 DEF w, n, s
  <1>8. ToSet(v.pages) = ToSet(s) \cup {File[n + 1]} /\ Len(v.pages) = Len(s) + 1
    BY <1>2, <1>4, <1>7, AppendedElements
  <1>9. picked(j)' = n + 1
    BY <1>3, <1>6, <1>7, <1>8 DEF picked
  <1>10. PicksOf(j)'
    <2>1. \A f \in ToSet(s) \cup d : \E p \in 1 .. n : File[p] = f
      BY <1>1 DEF PicksOf
    <2>2. Selection(visit'[j].pages)
      BY <1>1, <1>2, <1>3, <1>4, <1>6, <1>7, <2>1, SelectionGrows DEF PicksOf
    <2>3. \A f \in ToSet(visit'[j].pages) \cup visit'[j].dropped : \E p \in 1 .. n + 1 : File[p] = f
      <3>1. ASSUME NEW f \in ToSet(s) \cup d PROVE \E p \in 1 .. n + 1 : File[p] = f
        <4>1. PICK p \in 1 .. n : File[p] = f
          BY <2>1
        <4>2. p \in 1 .. n + 1
          BY <1>4
        <4> QED
          BY <4>1, <4>2
      <3>2. n + 1 \in 1 .. n + 1
        BY <1>4
      <3> QED
        BY <1>6, <1>7, <1>8, <3>1, <3>2
    <2>4. File[n + 1] \notin d
      <3>1. ASSUME File[n + 1] \in d PROVE FALSE
        <4>1. PICK p \in 1 .. n : File[p] = File[n + 1]
          BY <2>1, <3>1
        <4>2. p \in DOMAIN File /\ p # n + 1
          BY <1>3, <1>4, <1>2, PublishingAssumption
        <4> QED
          BY <1>4, <4>1, <4>2, PublishingAssumption
      <3> QED
        BY <3>1
    <2>5. ToSet(visit'[j].pages) \cap visit'[j].dropped = {}
      BY <1>1, <1>6, <1>7, <1>8, <2>4 DEF PicksOf
    <2>6. ASSUME ~faulty PROVE v.dropped = {} /\ v.pages = SubSeq(File, 1, Len(v.pages))
      <3>1. d = {} /\ s = SubSeq(File, 1, Len(s))
        BY <1>1, <2>6 DEF PicksOf
      <3>2. n = Len(s)
        BY <1>3, <3>1, FS_EmptySet
      <3>3. Append(SubSeq(File, 1, n), File[n + 1]) = SubSeq(File, 1, n + 1)
        BY <1>2, <1>3, <1>4, PublishingAssumption
      <3> QED
        BY <1>7, <1>8, <3>1, <3>2, <3>3
    <2>7. faulty' = faulty /\ IsFiniteSet(visit'[j].dropped) /\ picked(j)' <= Len(File)
      BY <1>2, <1>3, <1>4, <1>6, <1>7, <1>9 DEF handleFiles
    <2> HIDE DEF s, d, n, v
    <2> QED
      BY <1>6, <1>9, <2>2, <2>3, <2>5, <2>6, <2>7 DEF PicksOf
  <1>11. /\ pc' = pc /\ pc[j] = "editor" /\ faulty' = faulty /\ faulty \in BOOLEAN
         /\ UNCHANGED <<seriesStatus, own, copies, listing, saves, history>>
    BY VisitFacts DEF handleFiles
  <1> HIDE DEF s, d, n, v
  <1> QED
    BY <1>5, <1>7, <1>10, <1>11, PageStepKeepsStudio

LEMMA DroppingKeepsStudio ==
    ASSUME StudioInv, CacheInv, NEW j \in Job, uploadFails(j)
    PROVE  StudioInv'
  <1>0. PICK i \in DOMAIN visit[j].pages :
            visit' = [visit EXCEPT ![j].pages = RemoveAt(@, i), ![j].dropped = @ \cup {visit[j].pages[i]}]
    BY DEF uploadFails
  <1> DEFINE s == visit[j].pages
             d == visit[j].dropped
             n == picked(j)
             v == [visit[j] EXCEPT !.pages = RemoveAt(@, i), !.dropped = @ \cup {s[i]}]
  <1>1. visit[j] \in Visit /\ PicksOf(j) /\ visit \in [Job -> Visit]
    BY VisitFacts
  <1>2. s \in Seq(PageImage) /\ d \subseteq PageImage /\ IsFiniteSet(d)
    BY <1>1 DEF Visit, PicksOf
  <1>3. Len(s) \in Nat /\ Cardinality(d) \in Nat /\ n = Len(s) + Cardinality(d) /\ i \in 1 .. Len(s)
    BY <1>2, FS_CardinalityType DEF picked
  <1>4. s[i] \in PageImage /\ s[i] \in ToSet(s)
    BY <1>2 DEF ToSet
  <1>5. RemoveAt(s, i) \in Seq(PageImage) /\ Len(RemoveAt(s, i)) = Len(s) - 1
    BY <1>2, RemoveAtElements
  <1>6. visit' = [visit EXCEPT ![j] = v]
    BY <1>0, <1>1
  <1>7. visit'[j] = v
    BY <1>1, <1>6
  <1>8. v \in Visit /\ v.tab = visit[j].tab /\ v.gone = visit[j].gone /\ v.pages = RemoveAt(s, i) /\ v.dropped = d \cup {s[i]}
    BY <1>1, <1>2, <1>4, <1>5 DEF Visit
  <1>9. s[i] \notin d
    BY <1>1, <1>4 DEF PicksOf
  <1>10. IsFiniteSet(d \cup {s[i]}) /\ Cardinality(d \cup {s[i]}) = Cardinality(d) + 1
    BY <1>2, <1>9, FS_AddElement
  <1>11. picked(j)' = n
    BY <1>3, <1>5, <1>7, <1>8, <1>10 DEF picked
  <1>12. Selection(RemoveAt(s, i)) /\ \A f : f \in ToSet(RemoveAt(s, i)) <=> f \in ToSet(s) /\ f # s[i]
    BY <1>1, <1>2, SelectionShrinks DEF PicksOf
  <1>13. pc' = pc /\ pc[j] = "editor" /\ UNCHANGED <<seriesStatus, own, copies, listing, saves, history>>
    BY DEF uploadFails
  <1>14. faulty'
    BY DEF uploadFails
  <1>15. faulty' \in BOOLEAN
    BY DEF uploadFails
  <1>16. PicksOf(j)'
    <2>1. /\ \A f \in ToSet(s) \cup d : \E p \in 1 .. n : File[p] = f
          /\ ToSet(s) \cap d = {} /\ n <= Len(File)
      BY <1>1 DEF PicksOf
    <2> HIDE DEF s, d, n, v
    <2>2. \A f \in ToSet(v.pages) \cup v.dropped : \E p \in 1 .. n : File[p] = f
      BY <1>4, <1>8, <1>12, <2>1
    <2>3. ToSet(v.pages) \cap v.dropped = {}
      BY <1>8, <1>12, <2>1
    <2>4. Selection(v.pages) /\ IsFiniteSet(v.dropped)
      BY <1>8, <1>10, <1>12
    <2> QED
      BY <1>7, <1>11, <1>14, <2>1, <2>2, <2>3, <2>4 DEF PicksOf
  <1> HIDE DEF s, d, n, v
  <1> QED
    BY <1>6, <1>8, <1>13, <1>14, <1>15, <1>16, PageStepKeepsStudio

LEMMA OpeningKeepsStudio ==
    ASSUME StudioInv, CacheInv, NEW j \in Job, NEW t \in Tab, newChapterPage(j, t) \/ editSeriesPage(j, t)
    PROVE  StudioInv'
  <1>0. /\ visit[j] = NoVisit /\ pc[j] = "idle" /\ ~Open(t) /\ visit[j].tab = None /\ ~visit[j].gone
        /\ ownSeries[t] \in SeriesStatus \cup {None}
    <2>1. pc[j] = "idle" /\ ~Open(t)
      BY DEF newChapterPage, editSeriesPage
    <2>2. visit[j] = NoVisit
      BY <2>1, VisitFacts DEF VisitPlaced
    <2>3. NoVisit.tab = None /\ ~NoVisit.gone
      BY DEF NoVisit
    <2>4. ownSeries[t] \in SeriesStatus \cup {None}
      BY VisitFacts DEF StudioTypes
    <2> QED
      BY <2>1, <2>2, <2>3, <2>4
  <1>1. PICK v \in Visit, p \in {"load", "editor", "form", "loadList"} :
            /\ visit' = [visit EXCEPT ![j] = v] /\ pc' = [pc EXCEPT ![j] = p]
            /\ v.tab = t /\ ~v.gone /\ v.pages = visit[j].pages /\ v.dropped = visit[j].dropped
            /\ p = "editor" => statusById[t] # None
            /\ p = "form" => v.form = ownSeries[t] /\ ownSeries[t] # None
            /\ UNCHANGED <<faulty, seriesStatus, own, copies, draftSaved, overwritten, listing>>
    <2>1. CASE newChapterPage(j, t)
      <3> DEFINE v == [visit[j] EXCEPT !.tab = t]
                 p == IF statusById[t] = None THEN "load" ELSE "editor"
      <3>1. visit' = [visit EXCEPT ![j] = v] /\ pc' = [pc EXCEPT ![j] = p]
        BY <2>1 DEF newChapterPage, Goto
      <3>2. v \in Visit /\ v.tab = t /\ ~v.gone /\ v.pages = visit[j].pages /\ v.dropped = visit[j].dropped
        BY <1>0, VisitFacts DEF Visit
      <3> QED
        BY <2>1, <3>1, <3>2 DEF newChapterPage
    <2>2. CASE editSeriesPage(j, t)
      <3> DEFINE v == [visit[j] EXCEPT !.tab = t, !.form = ownSeries[t]]
                 p == IF Loaded(t) THEN "form" ELSE "loadList"
      <3>1. visit' = [visit EXCEPT ![j] = v] /\ pc' = [pc EXCEPT ![j] = p]
        BY <2>2, VisitFacts DEF editSeriesPage, Goto
      <3>2. /\ v \in Visit /\ v.tab = t /\ ~v.gone /\ v.pages = visit[j].pages /\ v.dropped = visit[j].dropped
            /\ v.form = ownSeries[t]
        BY <1>0, VisitFacts DEF Visit
      <3>3. p = "form" => ownSeries[t] # None
        BY DEF Loaded
      <3> QED
        BY <2>2, <3>1, <3>2, <3>3 DEF editSeriesPage
    <2> QED
      BY <2>1, <2>2
  <1>2. /\ visit' \in [Job -> Visit] /\ visit'[j] = v /\ pc'[j] = p
        /\ \A k \in Job \ {j} : visit'[k] = visit[k] /\ pc'[k] = pc[k]
    BY <1>1, VisitFacts
  <1>3. UNCHANGED <<seriesStatus, statusById, ownSeries, ownChapters, own, draftSaved, overwritten, listing>>
    BY <1>1 DEF copies
  <1>11. /\ leavesList(t) /\ leftRunning \in BOOLEAN
         /\ leftRunning' \in BOOLEAN /\ (leftRunning => leftRunning')
    <2>1. leavesList(t)
      BY DEF newChapterPage, editSeriesPage
    <2> QED
      BY <2>1, VisitFacts DEF StudioTypes, leavesList
  <1>4. StudioTypes'
    BY <1>2, <1>3, <1>11, VisitFacts DEF StudioTypes
  <1>5. VisitPlaced(j)'
    BY <1>1, <1>2, <1>3 DEF VisitPlaced, Pages, NewPages
  <1>6. PicksOf(j)'
    BY <1>1, <1>2, VisitFacts, PicksAtRest
  <1>7. CopiesServe' /\ LoneTabKnows' /\ FormsKeepStatus'
    <2>1. ASSUME NEW k \in Job
          PROVE  /\ visit'[k].tab = visit[k].tab \/ (visit[k].tab = None /\ pc[k] = "idle")
                 /\ pc'[k] \in {"form", "save"} =>
                       \/ visit'[k].form = visit[k].form /\ pc[k] \in {"form", "save"}
                       \/ /\ visit'[k].tab \in Tab /\ visit'[k].form # None
                          /\ visit'[k].form = ownSeries[visit'[k].tab]
                 /\ pc[k] = "promote" => pc'[k] = "promote" \/ faulty'
      <3>1. CASE k # j
        BY <1>2, <3>1
      <3>2. CASE k = j
        BY <1>0, <1>1, <1>2, <3>2
      <3> QED
        BY <3>1, <3>2
    <2>2. faulty' = faulty /\ faulty \in BOOLEAN
      BY <1>1, VisitFacts
    <2> QED
      BY <1>3, <1>11, <2>1, <2>2, StatusAtRest
  <1>8. visit'[j].tab \in Tab /\ ~Open(visit'[j].tab) /\ ~visit'[j].gone /\ leavesList(visit'[j].tab)
    BY <1>0, <1>1, <1>2, <1>11
  <1>9. faulty' = faulty /\ faulty \in BOOLEAN
    BY <1>1, VisitFacts
  <1>10. own' = own /\ statusById' = statusById /\ listing' = listing
    BY <1>3
  <1> QED
    BY <1>2, <1>4, <1>5, <1>6, <1>7, <1>8, <1>9, <1>10, VisitKeepsStudio

LEMMA FetchingKeepsStudio ==
    ASSUME StudioInv, CacheInv, NEW j \in Job, fetchSeriesById(j)
    PROVE  StudioInv'
  <1> DEFINE t == visit[j].tab
  <1>1. /\ pc[j] = "load" /\ t \in Tab /\ pc'[j] \in {"editor", "left"} /\ \A k \in Job \ {j} : pc'[k] = pc[k]
        /\ visit' = visit /\ own' = own /\ faulty' = faulty /\ faulty \in BOOLEAN
        /\ UNCHANGED <<seriesStatus, ownSeries, ownChapters, draftSaved, overwritten, listing, leftRunning>>
    BY VisitFacts DEF fetchSeriesById, Back, Goto, VisitPlaced, Pages, NewPages, history
  <1>2. /\ statusById' = [statusById EXCEPT ![t] = seriesStatus] /\ statusById \in [Tab -> SeriesStatus \cup {None}]
        /\ seriesStatus \in SeriesStatus
    BY VisitFacts DEF fetchSeriesById, StudioTypes
  <1>3. /\ statusById' \in [Tab -> SeriesStatus \cup {None}] /\ statusById'[t] = seriesStatus
        /\ \A u \in Tab \ {t} : statusById'[u] = statusById[u]
    BY <1>1, <1>2
  <1>4. seriesStatus # None
    BY <1>2, PublishingAssumption DEF SeriesStatus, PUBLIC_STATUSES
  <1>5. StudioTypes'
    BY <1>1, <1>3, VisitFacts DEF StudioTypes
  <1>6. VisitPlaced(j)'
    BY <1>1, <1>3, <1>4, VisitFacts DEF VisitPlaced
  <1>7. PicksOf(j)'
    BY <1>1, VisitFacts, PicksAtRest
  <1>8. CopiesServe'
    <2>1. seriesStatus \in PUBLIC_STATUSES => seriesStatus # "draft"
      BY DEF PUBLIC_STATUSES
    <2>2. \A k \in Job : pc[k] = "promote" => pc'[k] = "promote"
      BY <1>1
    <2>3. ownNumbers' = ownNumbers
      BY <1>1 DEF ownNumbers
    <2> HIDE DEF t
    <2> QED
      BY <1>1, <1>3, <2>1, <2>2, <2>3 DEF StudioInv, StatusInv, CopiesServe
  <1>9. LoneTabKnows'
    <2>1. \A u \in Tab : Lone(u)' <=> Lone(u)
      BY <1>1 DEF Lone
    <2>2. \A k \in Job : pc'[k] \in {"form", "save"} => pc[k] \in {"form", "save"}
      BY <1>1
    <2> QED
      BY <1>1, <2>1, <2>2 DEF StudioInv, StatusInv, LoneTabKnows
  <1>10. FormsKeepStatus'
    BY <1>1 DEF StudioInv, StatusInv, FormsKeepStatus
  <1>11. \A u \in Tab : statusById[u] # None => statusById'[u] # None
    BY <1>3, <1>4
  <1>12. visit'[j].tab = visit[j].tab /\ visit'[j].gone = visit[j].gone /\ pc[j] \in Pages
    BY <1>1 DEF Pages, NewPages
  <1> QED
    BY <1>1, <1>5, <1>6, <1>7, <1>8, <1>9, <1>10, <1>11, <1>12, VisitKeepsStudio

LEMMA CreatingKeepsStudio ==
    ASSUME StudioInv, CacheInv, NEW j \in Job, createChapter(j)
    PROVE  StudioInv'
  <1> DEFINE n == visit[j].number
             s == visit[j].pages
  <1>1. /\ pc[j] = "create" /\ n \in ChapterNumber /\ s \in Seq(PageImage) /\ s # <<>>
        /\ own \in [ChapterNumber -> Seq(PageImage)] /\ faulty \in BOOLEAN
    BY VisitFacts DEF createChapter, VisitPlaced, Visit, StudioTypes
  <1>2. /\ visit' = visit
        /\ UNCHANGED <<seriesStatus, statusById, ownSeries, ownChapters, draftSaved, overwritten, listing, leftRunning>>
    BY DEF createChapter, copies, history
  <1>3. own' = IF own[n] = <<>> THEN [own EXCEPT ![n] = s] ELSE own
    BY <1>1 DEF createChapter
  <1>4. own' \in [ChapterNumber -> Seq(PageImage)]
    BY <1>1, <1>3
  <1>5. PICK p \in {"promote", "editor", "left"} :
            /\ pc' = [pc EXCEPT ![j] = p]
            /\ (faulty => faulty') /\ faulty' \in BOOLEAN
            /\ ~faulty' => (p = "promote" <=> own[n] = <<>>)
    <2>1. CASE (IF own[n] = <<>> THEN Goto(j, "promote") ELSE Back(j, "editor")) /\ UNCHANGED faulty
      BY <1>1, <2>1 DEF Back, Goto
    <2>2. CASE Back(j, "editor") /\ faulty' = TRUE
      <3>1. faulty' /\ faulty' \in BOOLEAN
        BY <2>2
      <3>2. PICK q \in {"editor", "left"} : pc' = [pc EXCEPT ![j] = q]
        BY <2>2 DEF Back, Goto
      <3> QED
        BY <3>1, <3>2
    <2> QED
      BY <2>1, <2>2 DEF createChapter
  <1>6. pc'[j] = p /\ \A k \in Job \ {j} : pc'[k] = pc[k]
    BY <1>5, VisitFacts
  <1>7. StudioTypes'
    BY <1>2, <1>4, VisitFacts DEF StudioTypes
  <1>8. VisitPlaced(j)'
    BY <1>1, <1>2, <1>6, VisitFacts DEF VisitPlaced, Pages, NewPages
  <1>9. PicksOf(j)'
    BY <1>2, <1>5, <1>1, VisitFacts, PicksAtRest
  <1>10. CopiesServe'
    <2>1. CASE p = "promote"
      BY <1>2, <1>6, <1>5, <2>1 DEF StudioInv, StatusInv, CopiesServe
    <2>2. ASSUME p # "promote", ~faulty', ~draftSaved
          PROVE  ownNumbers' # {} => seriesStatus # "draft" \/ \E k \in Job : pc'[k] = "promote"
      <3>1. own[n] # <<>> /\ own' = own
        BY <1>3, <1>5, <2>2
      <3>2. ownNumbers' = ownNumbers
        BY <3>1 DEF ownNumbers
      <3>3. \A k \in Job : pc[k] = "promote" => pc'[k] = "promote"
        BY <1>1, <1>6
      <3>4. ~faulty
        BY <1>5, <2>2
      <3> QED
        BY <2>2, <3>2, <3>3, <3>4 DEF StudioInv, StatusInv, CopiesServe
    <2> HIDE DEF n, s
    <2> QED
      BY <1>2, <1>5, <2>1, <2>2 DEF StudioInv, StatusInv, CopiesServe
  <1>11. LoneTabKnows'
    <2>1. \A u \in Tab : Lone(u)' <=> Lone(u)
      BY <1>2 DEF Lone
    <2>2. \A k \in Job : pc'[k] \in {"form", "save"} => pc[k] \in {"form", "save"}
      BY <1>6
    <2> QED
      BY <1>2, <1>5, <2>1, <2>2 DEF StudioInv, StatusInv, LoneTabKnows
  <1>12. FormsKeepStatus'
    BY <1>2, <1>5 DEF StudioInv, StatusInv, FormsKeepStatus
  <1>13. \A u \in Tab : statusById[u] # None => statusById'[u] # None
    BY <1>2
  <1>14. visit'[j].tab = visit[j].tab /\ visit'[j].gone = visit[j].gone /\ pc[j] \in Pages
    BY <1>1, <1>2 DEF Pages, NewPages
  <1>15. own' = own \/ \E m \in ChapterNumber : own' = [own EXCEPT ![m] = visit[j].pages]
    BY <1>1, <1>3
  <1> HIDE DEF n, s
  <1> QED
    BY <1>1, <1>2, <1>5, <1>6, <1>7, <1>8, <1>9, <1>10, <1>11, <1>12, <1>13, <1>14, <1>15, VisitKeepsStudio

\* A tab nobody works beside is the tab of the visit that works; if no page was left with a
\* request running, its only page is that visit's, and no list is on its way.
LEMMA LoneVisit ==
    ASSUME StudioInv, CacheInv, NEW j \in Job, pc[j] \in Pages
    PROVE  /\ \A u \in Tab : Lone(u) => u = visit[j].tab
           /\ ~leftRunning => /\ \A k \in Job : Lone(visit[j].tab) /\ pc[k] \in Pages => k = j
                              /\ listing[visit[j].tab] = None
  <1>1. visit[j].tab \in Tab
    BY VisitFacts DEF VisitPlaced
  <1>2. ASSUME NEW u \in Tab, Lone(u) PROVE u = visit[j].tab
    BY <1>1, <1>2, PublishingAssumption DEF Lone
  <1>3. ASSUME ~leftRunning, NEW k \in Job, Lone(visit[j].tab), pc[k] \in Pages PROVE k = j
    <2>1. visit[k].tab \in Tab
      BY <1>3, VisitFacts DEF VisitPlaced
    <2>2. visit[k].tab = visit[j].tab
      BY <1>3, <2>1, PublishingAssumption DEF Lone
    <2>3. OnPage(j) /\ OnPage(k)
      BY <1>3 DEF StudioInv, NoneLeftRunning, OnPage
    <2> QED
      BY <2>2, <2>3 DEF StudioInv, VisitsPlaced
  <1>4. ASSUME ~leftRunning PROVE listing[visit[j].tab] = None
    BY <1>1, <1>4 DEF StudioInv, NoneLeftRunning, OnPage, Open
  <1> QED
    BY <1>2, <1>3, <1>4

LEMMA PromotingKeepsStudio ==
    ASSUME StudioInv, CacheInv, NEW j \in Job, promoteFromDraft(j)
    PROVE  StudioInv'
  <1> DEFINE t == visit[j].tab
  <1>1. /\ pc[j] = "promote" /\ t \in Tab /\ pc'[j] = "push" /\ \A k \in Job \ {j} : pc'[k] = pc[k]
        /\ visit' = visit /\ own' = own /\ faulty' = faulty /\ faulty \in BOOLEAN
        /\ statusById[t] # None /\ UNCHANGED <<statusById, ownChapters, draftSaved, overwritten, listing, leftRunning>>
    BY VisitFacts DEF promoteFromDraft, Goto, VisitPlaced, Pages, NewPages, history
  <1>2. /\ statusById \in [Tab -> SeriesStatus \cup {None}] /\ ownSeries \in [Tab -> SeriesStatus \cup {None}]
        /\ seriesStatus \in SeriesStatus
    BY VisitFacts DEF StudioTypes
  <1>3. CASE statusById[t] # "draft" /\ UNCHANGED <<seriesStatus, ownSeries>>
    <2>1. statusById[t] \in PUBLIC_STATUSES
      BY <1>1, <1>2, <1>3 DEF SeriesStatus
    <2>2. ~faulty /\ ~draftSaved => seriesStatus # "draft"
      BY <1>1, <2>1 DEF StudioInv, StatusInv, CopiesServe
    <2>3. StudioTypes'
      BY <1>1, <1>3, VisitFacts DEF StudioTypes
    <2>4. VisitPlaced(j)' /\ PicksOf(j)'
      <3>1. PicksOf(j)'
        BY <1>1, VisitFacts, PicksAtRest
      <3> QED
        BY <1>1, <3>1 DEF VisitPlaced, Pages, NewPages
    <2>5. CopiesServe'
      BY <1>1, <1>3, <2>2 DEF StudioInv, StatusInv, CopiesServe
    <2>6. LoneTabKnows'
      <3>1. \A u \in Tab : Lone(u)' <=> Lone(u)
        BY <1>1 DEF Lone
      <3>2. \A k \in Job : pc'[k] \in {"form", "save"} => pc[k] \in {"form", "save"}
        BY <1>1
      <3> QED
        BY <1>1, <1>3, <3>1, <3>2 DEF StudioInv, StatusInv, LoneTabKnows
    <2>7. FormsKeepStatus'
      BY <1>1 DEF StudioInv, StatusInv, FormsKeepStatus
    <2>8. visit'[j].tab = visit[j].tab /\ visit'[j].gone = visit[j].gone /\ pc[j] \in Pages
      BY <1>1 DEF Pages, NewPages
    <2>9. \A u \in Tab : statusById[u] # None => statusById'[u] # None
      BY <1>1
    <2> QED
      BY <1>1, <2>3, <2>4, <2>5, <2>6, <2>7, <2>8, <2>9, VisitKeepsStudio
  <1>4. CASE /\ seriesStatus' = "ongoing"
             /\ ownSeries' = [ownSeries EXCEPT ![t] = IF @ = None THEN @ ELSE "ongoing"]
    <2>1. /\ ownSeries' \in [Tab -> SeriesStatus \cup {None}] /\ ownSeries'[t] \in {None, "ongoing"}
          /\ seriesStatus' \in SeriesStatus
      BY <1>1, <1>2, <1>4 DEF SeriesStatus, PUBLIC_STATUSES
    <2>2. StudioTypes'
      BY <1>1, <2>1, VisitFacts DEF StudioTypes
    <2>3. VisitPlaced(j)' /\ PicksOf(j)'
      <3>1. PicksOf(j)'
        BY <1>1, VisitFacts, PicksAtRest
      <3> QED
        BY <1>1, <3>1 DEF VisitPlaced, Pages, NewPages
    <2>4. CopiesServe'
      BY <1>4 DEF CopiesServe
    <2>5. ASSUME NEW u \in Tab, Lone(u)' PROVE u = t
      BY <1>1, <2>5, PublishingAssumption DEF Lone
    <2>6. ASSUME NEW k \in Job, Lone(t), ~leftRunning, pc'[k] \in {"form", "save"} PROVE FALSE
      <3>1. k # j /\ pc[k] \in Pages /\ pc[j] \in Pages
        BY <1>1, <2>6 DEF Pages, NewPages
      <3> QED
        BY <2>6, <3>1, LoneVisit
    <2>7. ~leftRunning => listing[t] = None
      BY <1>1, LoneVisit DEF Pages, NewPages
    <2>8. LoneTabKnows'
      <3>1. ASSUME NEW u \in Tab, Lone(u)', ~leftRunning
            PROVE  /\ ownSeries'[u] \in {None, "ongoing"} /\ listing[u] = None
                   /\ \A k \in Job : pc'[k] \notin {"form", "save"}
        <4>1. u = t
          BY <2>5, <3>1
        <4>2. Lone(t)
          BY <1>1, <3>1, <4>1 DEF Lone
        <4> QED
          BY <2>1, <2>6, <2>7, <3>1, <4>1, <4>2
      <3> HIDE DEF t
      <3> QED
        BY <1>1, <1>4, <3>1 DEF LoneTabKnows
    <2>9. FormsKeepStatus'
      BY <1>1 DEF StudioInv, StatusInv, FormsKeepStatus
    <2>10. visit'[j].tab = visit[j].tab /\ visit'[j].gone = visit[j].gone /\ pc[j] \in Pages
      BY <1>1 DEF Pages, NewPages
    <2>11. \A u \in Tab : statusById[u] # None => statusById'[u] # None
      BY <1>1
    <2> QED
      BY <1>1, <2>2, <2>3, <2>4, <2>8, <2>9, <2>10, <2>11, VisitKeepsStudio
  <1> QED
    BY <1>3, <1>4 DEF promoteFromDraft

LEMMA LoadingKeepsStudio ==
    ASSUME StudioInv, CacheInv, NEW j \in Job, loadEdit(j)
    PROVE  StudioInv'
  <1> DEFINE t == visit[j].tab
             st == IF ownSeries[t] = None THEN seriesStatus ELSE ownSeries[t]
             v == [visit[j] EXCEPT !.form = st]
  <1>1. /\ pc[j] = "loadList" /\ t \in Tab /\ pc'[j] \in {"form", "left"} /\ \A k \in Job \ {j} : pc'[k] = pc[k]
        /\ own' = own /\ faulty' = faulty /\ faulty \in BOOLEAN
        /\ UNCHANGED <<seriesStatus, statusById, draftSaved, overwritten, listing, leftRunning>>
    BY VisitFacts DEF loadEdit, Back, Goto, VisitPlaced, Pages, NewPages, history
  <1>2. /\ seriesStatus \in SeriesStatus /\ ownSeries \in [Tab -> SeriesStatus \cup {None}]
        /\ ownChapters \in [Tab -> (SUBSET ChapterNumber) \cup {None}] /\ visit \in [Job -> Visit]
    BY VisitFacts DEF StudioTypes
  <1>3. ownSeries' = [ownSeries EXCEPT ![t] = st] /\ st \in SeriesStatus
    BY <1>1, <1>2 DEF loadEdit
  <1>4. ownSeries' \in [Tab -> SeriesStatus \cup {None}] /\ ownSeries'[t] = st
    BY <1>1, <1>2, <1>3
  <1>5. visit' = [visit EXCEPT ![j] = v]
    BY <1>4, <1>2 DEF loadEdit
  <1>6. v \in Visit /\ v.tab = t /\ v.gone = visit[j].gone /\ v.pages = visit[j].pages /\ v.dropped = visit[j].dropped /\ v.form = st
    BY <1>2, <1>3 DEF Visit
  <1>7. visit' \in [Job -> Visit] /\ visit'[j] = v /\ \A k \in Job \ {j} : visit'[k] = visit[k]
    BY <1>2, <1>5, <1>6
  <1>8. ownChapters' \in [Tab -> (SUBSET ChapterNumber) \cup {None}]
    <2>1. ownNumbers \in SUBSET ChapterNumber
      BY DEF ownNumbers
    <2>2. ownChapters' = [ownChapters EXCEPT ![t] = IF @ = None THEN ownNumbers ELSE @]
      BY DEF loadEdit
    <2> QED
      BY <1>1, <1>2, <2>1, <2>2
  <1> HIDE DEF v
  <1>9. StudioTypes'
    BY <1>1, <1>4, <1>7, <1>8, VisitFacts DEF StudioTypes
  <1>10. VisitPlaced(j)'
    BY <1>1, <1>6, <1>7 DEF VisitPlaced
  <1>11. PicksOf(j)'
    BY <1>1, <1>6, <1>7, VisitFacts, PicksAtRest
  <1>12. CopiesServe'
    <2>1. \A k \in Job : pc[k] = "promote" => pc'[k] = "promote"
      BY <1>1
    <2>2. ownNumbers' = ownNumbers
      BY <1>1 DEF ownNumbers
    <2> QED
      BY <1>1, <2>1, <2>2 DEF StudioInv, StatusInv, CopiesServe
  <1>13. LoneTabKnows'
    <2>1. \A k \in Job : visit'[k].tab = visit[k].tab
      BY <1>6, <1>7
    <2>2. ASSUME ~faulty, ~leftRunning, NEW u \in Tab, Lone(u)'
          PROVE  /\ ownSeries'[u] \in {None, seriesStatus} /\ listing[u] = None
                 /\ \A k \in Job : pc'[k] \in {"form", "save"} => visit'[k].form = seriesStatus
      <3>1. Lone(u) /\ u = t /\ listing[t] = None
        BY <1>1, <2>1, <2>2, LoneVisit DEF Lone, Pages
      <3>2. st = seriesStatus
        BY <1>1, <2>2, <3>1 DEF StudioInv, StatusInv, LoneTabKnows
      <3>3. \A k \in Job : pc[k] \in {"form", "save"} => visit[k].form = seriesStatus
        BY <1>1, <2>2, <3>1 DEF StudioInv, StatusInv, LoneTabKnows
      <3> HIDE DEF t, st
      <3> QED
        BY <1>1, <1>4, <1>6, <1>7, <3>1, <3>2, <3>3
    <2> QED
      BY <1>1, <2>2 DEF LoneTabKnows
  <1>14. FormsKeepStatus'
    <2>1. \A k \in Job : visit'[k].tab = visit[k].tab
      BY <1>6, <1>7
    <2> QED
      BY <1>1, <2>1 DEF StudioInv, StatusInv, FormsKeepStatus
  <1>15. visit'[j].tab = visit[j].tab /\ visit'[j].gone = visit[j].gone /\ pc[j] \in Pages
    BY <1>1, <1>6, <1>7 DEF Pages, NewPages
  <1>16. \A u \in Tab : statusById[u] # None => statusById'[u] # None
    BY <1>1
  <1> HIDE DEF t, st
  <1> QED
    BY <1>1, <1>7, <1>9, <1>10, <1>11, <1>12, <1>13, <1>14, <1>15, <1>16, VisitKeepsStudio

LEMMA SavingKeepsStudio ==
    ASSUME StudioInv, CacheInv, NEW j \in Job, updateSeries(j)
    PROVE  StudioInv'
  <1> DEFINE t == visit[j].tab
             st == visit[j].chosen
  <1>1. /\ pc[j] = "save" /\ t \in Tab /\ pc'[j] \in {"form", "left"} /\ \A k \in Job \ {j} : pc'[k] = pc[k]
        /\ own' = own /\ faulty \in BOOLEAN /\ st \in SeriesStatus
        /\ UNCHANGED <<statusById, ownChapters, listing, leftRunning>>
    <2>1. Back(j, "form") /\ UNCHANGED <<statusById, ownChapters, own, listing, leftRunning>> /\ pc[j] = "save"
      BY DEF updateSeries
    <2> QED
      BY <2>1, VisitFacts DEF Back, Goto, VisitPlaced, Pages, NewPages
  <1>2. visit'[j].tab = t /\ visit'[j].gone = visit[j].gone /\ pc[j] \in Pages /\ \A u \in Tab : statusById[u] # None => statusById'[u] # None
    <2>1. visit' = visit \/ visit' = [visit EXCEPT ![j].form = st]
      BY DEF updateSeries
    <2> QED
      BY <1>1, <2>1, VisitFacts DEF Pages, NewPages, Visit
  <1>3. CASE UNCHANGED <<seriesStatus, ownSeries, visit, draftSaved, overwritten, faulty>>
    <2>1. StudioTypes'
      BY <1>1, <1>3, VisitFacts DEF StudioTypes
    <2>2. VisitPlaced(j)'
      BY <1>1, <1>3 DEF VisitPlaced
    <2>3. PicksOf(j)'
      BY <1>1, <1>3, VisitFacts, PicksAtRest
    <2>4. CopiesServe' /\ LoneTabKnows' /\ FormsKeepStatus'
      <3>1. ASSUME NEW k \in Job
            PROVE  /\ visit'[k].tab = visit[k].tab
                   /\ pc'[k] \in {"form", "save"} =>
                          visit'[k].form = visit[k].form /\ pc[k] \in {"form", "save"}
                   /\ pc[k] = "promote" => pc'[k] = "promote" \/ faulty'
        BY <1>1, <1>3
      <3> QED
        BY <1>1, <1>3, <3>1, VisitFacts, StatusAtRest DEF StudioTypes
    <2> QED
      BY <1>1, <1>2, <1>3, <2>1, <2>2, <2>3, <2>4, VisitKeepsStudio
  <1>4. CASE ~UNCHANGED <<seriesStatus, ownSeries, visit, draftSaved, overwritten, faulty>>
    <2> DEFINE v == [visit[j] EXCEPT !.form = st]
    <2>1. /\ seriesStatus' = st
          /\ draftSaved' = (draftSaved \/ st = "draft")
          /\ overwritten' = (overwritten \/ (st = visit[j].form /\ seriesStatus # st))
          /\ \/ /\ ownSeries' = [ownSeries EXCEPT ![t] = st]
                /\ visit' = [visit EXCEPT ![j].form = st]
                /\ UNCHANGED faulty
             \/ /\ faulty' = TRUE /\ UNCHANGED <<ownSeries, visit>>
      BY <1>4 DEF updateSeries
    <2>2. v \in Visit /\ v.tab = t /\ v.gone = visit[j].gone /\ v.pages = visit[j].pages /\ v.dropped = visit[j].dropped /\ v.form = st
      BY <1>1, VisitFacts DEF Visit
    <2>3. /\ visit' \in [Job -> Visit] /\ \A k \in Job \ {j} : visit'[k] = visit[k]
          /\ visit'[j].pages = visit[j].pages /\ visit'[j].dropped = visit[j].dropped
          /\ ownSeries' \in [Tab -> SeriesStatus \cup {None}]
      <3>1. CASE ownSeries' = [ownSeries EXCEPT ![t] = st] /\ visit' = [visit EXCEPT ![j] = v]
        <4> HIDE DEF v
        <4> QED
          BY <1>1, <2>2, <3>1, VisitFacts DEF StudioTypes
      <3>2. CASE UNCHANGED <<ownSeries, visit>>
        BY <3>2, VisitFacts DEF StudioTypes
      <3> QED
        BY <2>1, <3>1, <3>2
    <2>4. faulty' \in BOOLEAN /\ (faulty => faulty')
      <3>1. CASE UNCHANGED faulty
        BY <1>1, <3>1
      <3>2. CASE faulty' = TRUE
        BY <3>2
      <3> QED
        BY <2>1, <3>1, <3>2
    <2>5. ~faulty' => /\ ownSeries' = [ownSeries EXCEPT ![t] = st]
                      /\ visit' = [visit EXCEPT ![j] = v] /\ ~faulty
      <3>1. CASE faulty' = TRUE
        BY <3>1
      <3> QED
        BY <2>1, <3>1
    <2>6. draftSaved' \in BOOLEAN /\ (~draftSaved' => st # "draft")
      BY <2>1
    <2>7. overwritten' \in BOOLEAN /\ (overwritten' => overwritten \/ (st = visit[j].form /\ seriesStatus # st))
      BY <2>1
    <2>8. StudioTypes'
      BY <1>1, <2>1, <2>3, <2>6, <2>7, VisitFacts DEF StudioTypes
    <2>9. VisitPlaced(j)'
      BY <1>1, <1>2 DEF VisitPlaced
    <2>10. PicksOf(j)'
      BY <1>1, <2>3, <2>4, VisitFacts, PicksAtRest
    <2>11. CopiesServe'
      BY <2>1, <2>6 DEF CopiesServe
    <2>12. \A k \in Job : visit'[k].tab = visit[k].tab
      BY <1>2, <2>3
    <2>13. LoneTabKnows'
      <3>1. ASSUME ~faulty', ~leftRunning, NEW u \in Tab, Lone(u)'
            PROVE  /\ ownSeries'[u] = st /\ listing[u] = None
                   /\ \A k \in Job : pc'[k] \in {"form", "save"} => visit'[k].form = st
        <4>1. Lone(u) /\ u = t /\ listing[t] = None
          BY <1>2, <2>12, <3>1, LoneVisit DEF Lone
        <4>2. ownSeries'[u] = st
          BY <1>1, <2>5, <3>1, <4>1, VisitFacts DEF StudioTypes
        <4>3. visit'[j].form = st
          BY <2>2, <2>5, <3>1, VisitFacts
        <4>4. ASSUME NEW k \in Job, pc'[k] \in {"form", "save"} PROVE k = j
          <5>1. pc[k] \in Pages
            BY <1>1, <1>2, <4>4 DEF Pages, NewPages
          <5> QED
            BY <1>2, <3>1, <4>1, <5>1, LoneVisit
        <4> QED
          BY <4>1, <4>2, <4>3, <4>4
      <3> QED
        BY <1>1, <2>1, <3>1 DEF LoneTabKnows
    <2>14. FormsKeepStatus'
      <3>1. ASSUME overwritten, ~faulty' PROVE FormsKeepStatus'
        BY <1>1, <2>4, <2>12, <3>1 DEF StudioInv, StatusInv, FormsKeepStatus
      <3>2. ASSUME st = visit[j].form, seriesStatus # st, ~faulty', ~leftRunning PROVE FormsKeepStatus'
        <4>1. ~Lone(t)
          BY <1>1, <2>4, <3>2 DEF StudioInv, StatusInv, LoneTabKnows
        <4>2. PICK k \in Job : visit[k].tab \notin {None, t}
          BY <4>1 DEF Lone
        <4> QED
          BY <1>1, <2>12, <4>2, PublishingAssumption DEF FormsKeepStatus
      <3> QED
        BY <1>1, <2>7, <3>1, <3>2 DEF FormsKeepStatus
    <2>15. visit'[j].tab = visit[j].tab /\ visit'[j].gone = visit[j].gone /\ (pc'[j] \in Pages => pc[j] \in Pages)
      BY <1>2
    <2> HIDE DEF v, t, st
    <2> QED
      BY <1>1, <1>2, <2>15, <2>3, <2>4, <2>8, <2>9, <2>10, <2>11, <2>13, <2>14, VisitKeepsStudio
  <1> QED
    BY <1>3, <1>4

\* The list is fetched, or comes.
LEMMA ListKeepsStudio ==
    ASSUME StudioInv, CacheInv, NEW t \in Tab, fetchOwnSeries(t) \/ listAnswered(t)
    PROVE  StudioInv'
  <1>1. /\ pc' = pc /\ visit' = visit /\ own' = own
        /\ UNCHANGED <<faulty, seriesStatus, statusById, ownChapters, draftSaved, overwritten, leftRunning>>
    BY DEF fetchOwnSeries, listAnswered, copies, history
  <1>2. /\ ownSeries \in [Tab -> SeriesStatus \cup {None}] /\ seriesStatus \in SeriesStatus
        /\ listing \in [Tab -> SeriesStatus \cup {None}]
    BY DEF StudioInv, StudioTypes
  <1>3. /\ listing' \in [Tab -> SeriesStatus \cup {None}] /\ ownSeries' \in [Tab -> SeriesStatus \cup {None}]
        /\ \A u \in Tab : /\ listing'[u] \in {None, listing[u], seriesStatus}
                          /\ listing'[u] # None => listing[u] # None \/ ~Open(u)
                          /\ ownSeries'[u] \in {ownSeries[u], listing[u]}
    <2>1. CASE fetchOwnSeries(t)
      BY <1>2, <2>1 DEF fetchOwnSeries, copies
    <2>2. CASE listAnswered(t)
      BY <1>2, <2>2 DEF listAnswered
    <2> QED
      BY <2>1, <2>2
  <1>4. StudioTypes'
    BY <1>1, <1>3 DEF StudioInv, StudioTypes
  <1>5. VisitsPlaced' /\ NoneLeftRunning'
    <2>1. \A k \in Job : VisitPlaced(k) => VisitPlaced(k)'
      BY <1>1 DEF VisitPlaced
    <2>2. \A k \in Job : OnPage(k)' <=> OnPage(k)
      BY <1>1 DEF OnPage
    <2>3. \A u \in Tab : Open(u)' <=> Open(u)
      BY <1>1, <2>2 DEF Open
    <2> QED
      BY <1>1, <1>3, <2>1, <2>2, <2>3 DEF StudioInv, VisitsPlaced, NoneLeftRunning
  <1>6. PagesInv'
    <2>1. \A k \in Job : PicksOf(k) => PicksOf(k)'
      BY <1>1 DEF PicksOf, picked
    <2>2. PicksInOrder'
      BY <2>1 DEF StudioInv, PagesInv, PicksInOrder
    <2> QED
      BY <1>1, <2>2 DEF StudioInv, PagesInv, PagesInOrder, NoPageLost, ownNumbers
  <1>7. CopiesServe'
    BY <1>1 DEF StudioInv, StatusInv, CopiesServe, ownNumbers
  <1>8. LoneTabKnows'
    <2>1. \A u \in Tab : Lone(u)' <=> Lone(u)
      BY <1>1 DEF Lone
    <2> QED
      BY <1>1, <1>3, <2>1 DEF StudioInv, StatusInv, LoneTabKnows
  <1>9. FormsKeepStatus'
    BY <1>1 DEF StudioInv, StatusInv, FormsKeepStatus
  <1> QED
    BY <1>4, <1>5, <1>6, <1>7, <1>8, <1>9 DEF StudioInv, StatusInv

\* The cache moves no visit on; it may take a page nobody has opened yet for a request.
LEMMA CacheMovesNoVisit ==
    ASSUME CacheInv, CatalogueNext
    PROVE  /\ \A k \in Job : pc'[k] = pc[k] \/ (pc[k] \notin Pages /\ pc'[k] \notin Pages \cup {"idle"})
           /\ faulty => faulty'
  <1>0. pc \in [Job -> Place] /\ faulty \in BOOLEAN
    BY DEF CacheInv, CacheTypes
  <1>1. ASSUME NEW l \in Language, NEW n \in ChapterNumber, NEW id \in Id \cup {None}, sourceChanges(l, n, id)
        PROVE  UNCHANGED <<pc, faulty>>
    BY <1>1 DEF sourceChanges
  <1>2. ASSUME ttlPasses PROVE UNCHANGED <<pc, faulty>>
    BY <1>2 DEF ttlPasses
  <1>3. ASSUME crash
        PROVE  faulty' /\ \A k \in Job : pc'[k] = pc[k] \/ (pc[k] \notin Pages /\ pc'[k] \notin Pages \cup {"idle"})
    <2>1. pc' = [j \in Job |-> IF pc[j] \in {"count", "wait", "serve", "at-home"} THEN "failed" ELSE pc[j]]
      BY <1>3 DEF crash
    <2>2. faulty'
      BY <1>3 DEF crash
    <2> QED
      BY <2>1, <2>2 DEF Pages, NewPages
  <1>4. ASSUME NEW j \in Job, CatalogueStep(j)
        PROVE  /\ \A k \in Job : pc'[k] = pc[k] \/ (pc[k] \notin Pages /\ pc'[k] \notin Pages \cup {"idle"})
               /\ faulty => faulty'
    <2>1. CASE countCached(j) \/ awaited(j) \/ serve(j) \/ storePageCount(j)
      <3>1. faulty' = faulty
        BY <2>1 DEF countCached, awaited, serve, storePageCount
      <3>2. PICK p \in {"wait", "serve", "served"} : pc' = [pc EXCEPT ![j] = p]
        BY <2>1 DEF countCached, awaited, serve, storePageCount, Goto
      <3>3. pc[j] \in {"count", "wait", "serve", "at-home"}
        BY <2>1 DEF countCached, awaited, serve, storePageCount
      <3> QED
        BY <1>0, <3>1, <3>2, <3>3 DEF Pages, NewPages
    <2>2. CASE listChapters(j) \/ stampSeries(j) \/ \E n \in ChapterNumber : upsertChapter(j, n)
      <3>1. pc' = pc /\ faulty' = faulty
        BY <2>2 DEF listChapters, stampSeries, upsertChapter
      <3> QED
        BY <3>1
    <2>3. CASE syncFails(j) \/ \E n \in ChapterNumber : upsertFails(j, n)
      <3>1. pc' = pc
        BY <2>3 DEF syncFails, upsertFails
      <3>2. faulty'
        BY <2>3 DEF syncFails, upsertFails
      <3> QED
        BY <3>1, <3>2
    <2> QED
      BY <1>4, <2>1, <2>2, <2>3 DEF CatalogueStep
  <1>5. ASSUME NEW j \in Job, NEW l \in Language,
               (\E force \in BOOLEAN : getChapters(j, l, force)) \/ (\E n \in ChapterNumber : getPages(j, l, n))
        PROVE  /\ \A k \in Job : pc'[k] = pc[k] \/ (pc[k] \notin Pages /\ pc'[k] \notin Pages \cup {"idle"})
               /\ faulty' = faulty
    <2>1. PICK p \in {"count", "serve", "at-home"} : pc' = [pc EXCEPT ![j] = p]
      BY <1>5 DEF getChapters, getPages, Goto
    <2>2. pc[j] = "idle" /\ faulty' = faulty
      BY <1>5 DEF getChapters, getPages
    <2> QED
      BY <1>0, <2>1, <2>2 DEF Pages, NewPages
  <1> QED
    BY <1>1, <1>2, <1>3, <1>4, <1>5 DEF CatalogueNext

LEMMA CacheKeepsStudio ==
    ASSUME StudioInv, CacheInv, CacheInv',
           \A k \in Job : pc'[k] = pc[k] \/ (pc[k] \notin Pages /\ pc'[k] \notin Pages \cup {"idle"}),
           faulty => faulty', UNCHANGED pubVars
    PROVE  StudioInv'
  <1>1. /\ visit' = visit /\ own' = own
        /\ UNCHANGED <<seriesStatus, statusById, ownSeries, ownChapters, own, draftSaved, overwritten, listing, leftRunning>>
    BY DEF pubVars, copies, history
  <1>2. faulty \in BOOLEAN /\ faulty' \in BOOLEAN
    BY DEF CacheInv, CacheTypes
  <1>3. StudioTypes'
    BY <1>1 DEF StudioInv, StudioTypes
  <1>7. \A k \in Job : pc'[k] \in Pages <=> pc[k] \in Pages
    BY DEF Pages, NewPages
  <1>8. NoneLeftRunning'
    BY <1>1, <1>7 DEF StudioInv, NoneLeftRunning, OnPage, Open
  <1>4. VisitsPlaced'
    <2>1. ASSUME NEW k \in Job PROVE VisitPlaced(k)'
      <3>1. VisitPlaced(k)
        BY DEF StudioInv, VisitsPlaced
      <3>2. CASE pc'[k] = pc[k]
        BY <1>1, <3>1, <3>2 DEF VisitPlaced
      <3>3. CASE pc'[k] \notin Pages \cup {"idle"}
        BY <1>1, <3>3 DEF VisitPlaced, Pages, NewPages
      <3> QED
        BY <3>2, <3>3
    <2> QED
      BY <1>1, <1>7, <2>1 DEF StudioInv, VisitsPlaced, OnPage
  <1>5. PagesInv'
    <2>1. \A k \in Job : PicksOf(k)'
      BY <1>1, <1>2, PicksAtRest DEF StudioInv, PagesInv, PicksInOrder
    <2> QED
      BY <1>1, <2>1 DEF StudioInv, PagesInv, PicksInOrder, PagesInOrder, NoPageLost, ownNumbers
  <1>6. CopiesServe' /\ LoneTabKnows' /\ FormsKeepStatus'
    <2>1. ASSUME NEW k \in Job
          PROVE  /\ visit'[k].tab = visit[k].tab
                 /\ pc'[k] \in {"form", "save"} =>
                       visit'[k].form = visit[k].form /\ pc[k] \in {"form", "save"}
                 /\ pc[k] = "promote" => pc'[k] = "promote" \/ faulty'
      BY <1>1 DEF Pages, NewPages
    <2> QED
      BY <1>1, <1>2, <2>1, StatusAtRest DEF StudioInv, StudioTypes
  <1> QED
    BY <1>3, <1>4, <1>5, <1>6, <1>8 DEF StudioInv, StatusInv

LEMMA VisitStepKeepsStudio ==
    ASSUME StudioInv, CacheInv, NEW j \in Job, VisitStep(j)
    PROVE  StudioInv'
  <1>1. CASE fetchSeriesById(j)
    BY <1>1, FetchingKeepsStudio
  <1>2. CASE handleFiles(j)
    BY <1>2, PickingKeepsStudio
  <1>3. CASE uploadFails(j)
    BY <1>3, DroppingKeepsStudio
  <1>4. CASE createChapter(j)
    BY <1>4, CreatingKeepsStudio
  <1>5. CASE promoteFromDraft(j)
    BY <1>5, PromotingKeepsStudio
  <1>6. CASE loadEdit(j)
    BY <1>6, LoadingKeepsStudio
  <1>7. CASE updateSeries(j)
    BY <1>7, SavingKeepsStudio
  <1>8. CASE requestFails(j)
    BY <1>8, FailingKeepsStudio
  <1>11. CASE leave(j) \/ push(j)
    BY <1>11, LeavingKeepsStudio
  <1>9. CASE \/ uploadCreatorFile(j)
             \/ \E n \in ChapterNumber : handleSubmit(j, n)
             \/ \E st \in SeriesStatus : handleSave(j, st)
    BY <1>9, HandlingKeepsStudio
  <1>10. ASSUME NEW t \in Tab, newChapterPage(j, t) \/ editSeriesPage(j, t) PROVE StudioInv'
    BY <1>10, OpeningKeepsStudio
  <1> QED
    BY <1>1, <1>2, <1>3, <1>4, <1>5, <1>6, <1>7, <1>8, <1>9, <1>10, <1>11 DEF VisitStep

LEMMA StudioInvKept == CacheInv /\ StudioInv /\ [Next]_vars => StudioInv'
  <1> SUFFICES ASSUME CacheInv, StudioInv, [Next]_vars PROVE StudioInv'
    OBVIOUS
  <1>0. CacheInv'
    BY CacheInvKept DEF CacheKept
  <1>1. CASE CatalogueNext /\ UNCHANGED pubVars
    BY <1>0, <1>1, CacheMovesNoVisit, CacheKeepsStudio
  <1>2. ASSUME NEW j \in Job, VisitStep(j) PROVE StudioInv'
    BY <1>2, VisitStepKeepsStudio
  <1>3. ASSUME NEW t \in Tab, fetchOwnSeries(t) \/ listAnswered(t) PROVE StudioInv'
    BY <1>3, ListKeepsStudio
  <1>4. CASE UNCHANGED vars
    <2>1. pc' = pc /\ faulty' = faulty /\ UNCHANGED pubVars
      BY <1>4 DEF vars, catalogueVars
    <2> QED
      BY <1>0, <2>1, CacheKeepsStudio
  <1> QED
    BY <1>1, <1>2, <1>3, <1>4 DEF Next

LEMMA StudioIsInv == Spec => []StudioInv
  <1>1. Init => StudioInv
    BY StudioStarts
  <1>2. CacheInv /\ StudioInv /\ [Next]_vars => StudioInv'
    BY StudioInvKept
  <1> QED
    BY <1>1, <1>2, CacheIsInv, PTL DEF Spec

\* Readers are served the source's chapters and the creator's: the cache serves its source
\* (CacheServesAlways); a chapter's pages are in order and none is missing; a series with a
\* chapter is listed, and a form nobody touched takes no status back.
THEOREM CatalogueIsSound == Spec => []CatalogueSound
  <1>1. CacheInv /\ StudioInv => ChapterIsOut
    <2> SUFFICES ASSUME CacheInv, StudioInv PROVE ChapterIsOut
      OBVIOUS
    <2>1. TypeOK
      BY DEF CacheInv, CacheTypes, StudioInv, StudioTypes, TypeOK, PageImage
    <2>2. PublishedIsListed
      BY DEF StudioInv, StatusInv, CopiesServe, PublishedIsListed, listed
    <2> QED
      BY <2>1, <2>2 DEF StudioInv, PagesInv, StatusInv, ChapterIsOut
  <1> QED
    BY <1>1, CacheIsInv, StudioIsInv, CacheServesAlways, PTL DEF CatalogueSound

-----------------------------------------------------------------------------
(***************************************************************************)
(* The writing assistant.                                                  *)
(***************************************************************************)
Message   == [role : {"user", "assistant"}, number : Nat, fit : BOOLEAN]
Questions == {r \in calls : r.kind = "chat"}

\* Every answer follows its question, and every question but the last has its answer; the
\* last is the one pending, unless the chat was emptied since.
Paired(ms) ==
    /\ \A i \in 2..Len(ms) : ms[i].role = "assistant" => ms[i - 1] = Question(ms[i].number)
    /\ \A i \in 1..Len(ms) : ms[i].role = "user" /\ i < Len(ms) => ms[i + 1].role = "assistant"

AiInv ==
    /\ messages \in Seq(Message) /\ questions \in Nat
    /\ \A r \in calls : r.number \in Nat
    /\ Paired(messages)
    /\ loading \in BOOLEAN
    /\ loading => \E r \in calls :
          /\ Questions = {r}
          /\ messages = <<>> \/ messages[Len(messages)] = Question(r.number)
    /\ ~loading => Questions = {} /\ (messages = <<>> \/ messages[Len(messages)].role = "assistant")

LEMMA EmptyPaired == Paired(<<>>) /\ <<>> \in Seq(Message)
  <1>1. Len(<<>>) = 0
    OBVIOUS
  <1>2. 2..Len(<<>>) = {} /\ 1..Len(<<>>) = {}
    BY <1>1
  <1> QED
    BY <1>2 DEF Paired

LEMMA AiShows == ASSUME AiInv PROVE AiSound
  <1> USE DEF AiInv
  <1>1. Cardinality(Questions) = IF loading THEN 1 ELSE 0
    BY FS_Singleton, FS_EmptySet
  <1>2. \A i \in 1..Len(messages) : messages[i].role = "user" =>
          \/ i < Len(messages) /\ messages[i + 1].role = "assistant"
          \/ i = Len(messages) /\ loading
    <2> SUFFICES ASSUME NEW i \in 1..Len(messages), messages[i].role = "user", ~(i < Len(messages))
                 PROVE  i = Len(messages) /\ loading
      BY DEF Paired
    <2>1. i = Len(messages) /\ messages # <<>>
      OBVIOUS
    <2> QED
      BY <2>1
  <1> QED
    BY <1>1, <1>2 DEF AiSound, Questions, Paired

LEMMA AiStarts == AiInit => AiInv
  <1> SUFFICES ASSUME AiInit PROVE AiInv
    OBVIOUS
  <1>1. messages = <<>> /\ ~loading /\ loading \in BOOLEAN /\ questions \in Nat /\ calls = {} /\ Questions = {}
    BY DEF AiInit, Questions
  <1> QED
    BY <1>1, EmptyPaired DEF AiInv

\* What the chat does not see: the chat stays or is emptied, and only suggestions come and
\* go.
LEMMA ChatRests ==
    ASSUME AiInv, messages' \in {messages, <<>>}, loading' = loading, questions' \in Nat,
           Questions' = Questions, \A r \in calls' : r.number \in Nat
    PROVE  AiInv'
  <1> USE DEF AiInv
  <1>1. messages' \in Seq(Message) /\ Paired(messages)'
    BY EmptyPaired DEF Paired
  <1>2. loading => \E r \in calls' :
          Questions' = {r} /\ (messages' = <<>> \/ messages'[Len(messages')] = Question(r.number))
    BY DEF Questions
  <1> QED
    BY <1>1, <1>2

LEMMA QuestionAsked == ASSUME AiInv, sendMessage PROVE AiInv'
  <1> USE DEF AiInv
  <1> DEFINE q == Question(questions')
             r == [kind |-> "chat", story |-> chatOf, number |-> questions',
                   fits |-> \A i \in DOMAIN messages : messages[i].fit]
  <1>1. ~loading /\ loading' = TRUE /\ questions' \in Nat /\ messages' = Append(messages, q)
    BY DEF sendMessage, mayAsk
  <1>2. calls' = calls \cup {r} /\ r.kind = "chat" /\ r.number = questions'
    BY DEF sendMessage
  <1>3. q \in Message /\ q.role = "user" /\ q = Question(r.number)
    BY <1>1 DEF Question, Message
  <1> HIDE DEF q, r
  <1>4. Questions' = {r}
    BY <1>1, <1>2 DEF Questions
  <1>5. Paired(messages)'
    <2>1. \A i \in 1..Len(messages) : messages'[i] = messages[i]
      BY <1>1
    <2>2. Len(messages') = Len(messages) + 1 /\ messages'[Len(messages')] = q
      BY <1>1
    <2>3. \A i \in 2..Len(messages') : messages'[i].role = "assistant" => messages'[i - 1] = Question(messages'[i].number)
      <3> SUFFICES ASSUME NEW i \in 2..Len(messages'), messages'[i].role = "assistant"
                   PROVE  messages'[i - 1] = Question(messages'[i].number)
        OBVIOUS
      <3>1. i # Len(messages')
        BY <1>3, <2>2
      <3>2. i \in 2..Len(messages) /\ i - 1 \in 1..Len(messages)
        BY <2>2, <3>1
      <3> QED
        BY <2>1, <3>2 DEF Paired
    <2>4. \A i \in 1..Len(messages') : messages'[i].role = "user" /\ i < Len(messages') => messages'[i + 1].role = "assistant"
      <3> SUFFICES ASSUME NEW i \in 1..Len(messages'), messages'[i].role = "user", i < Len(messages')
                   PROVE  messages'[i + 1].role = "assistant"
        OBVIOUS
      <3>1. i \in 1..Len(messages) /\ messages[i].role = "user"
        BY <2>1, <2>2
      <3>2. i # Len(messages)
        BY <1>1, <3>1
      <3>3. i + 1 \in 1..Len(messages)
        BY <3>1, <3>2
      <3> QED
        BY <2>1, <3>1, <3>2, <3>3 DEF Paired
    <2> QED
      BY <2>3, <2>4 DEF Paired
  <1>6. messages' \in Seq(Message) /\ messages'[Len(messages')] = q
    BY <1>1, <1>3
  <1>7. r \in calls' /\ \A c \in calls' : c.number \in Nat
    BY <1>1, <1>2
  <1> QED
    BY <1>1, <1>3, <1>4, <1>5, <1>6, <1>7

\* The chat's answer, or its failure: the pending question is the last message.
LEMMA ChatAnswered ==
    ASSUME AiInv, NEW r \in calls, NEW fit \in BOOLEAN, chatAnswered(r, fit) PROVE AiInv'
  <1> USE DEF AiInv
  <1> DEFINE a == Answer(r.number, fit)
  <1>1. /\ r.kind = "chat" /\ calls' = calls \ {r} /\ messages' = Append(messages, a)
        /\ loading' = FALSE /\ questions' = questions
    BY DEF chatAnswered, Concluded
  <1>2. a \in Message /\ a.role = "assistant" /\ a.number = r.number
    BY DEF Answer, Message
  <1> HIDE DEF a
  <1>3. Questions = {r} /\ (messages = <<>> \/ messages[Len(messages)] = Question(r.number))
    BY <1>1 DEF Questions
  <1>4. Questions' = {}
    BY <1>1, <1>3 DEF Questions
  <1>5. Paired(messages)'
    <2>1. \A i \in 1..Len(messages) : messages'[i] = messages[i]
      BY <1>1
    <2>2. Len(messages') = Len(messages) + 1 /\ messages'[Len(messages')] = a
      BY <1>1
    <2>3. \A i \in 2..Len(messages') : messages'[i].role = "assistant" => messages'[i - 1] = Question(messages'[i].number)
      <3> SUFFICES ASSUME NEW i \in 2..Len(messages'), messages'[i].role = "assistant"
                   PROVE  messages'[i - 1] = Question(messages'[i].number)
        OBVIOUS
      <3>1. CASE i = Len(messages')
        <4>1. messages # <<>> /\ i - 1 = Len(messages) /\ i - 1 \in 1..Len(messages)
          BY <2>2, <3>1
        <4> QED
          BY <1>2, <1>3, <2>1, <2>2, <3>1, <4>1
      <3>2. CASE i # Len(messages')
        <4>1. i \in 2..Len(messages) /\ i - 1 \in 1..Len(messages)
          BY <2>2, <3>2
        <4> QED
          BY <2>1, <4>1 DEF Paired
      <3> QED
        BY <3>1, <3>2
    <2>4. \A i \in 1..Len(messages') : messages'[i].role = "user" /\ i < Len(messages') => messages'[i + 1].role = "assistant"
      <3> SUFFICES ASSUME NEW i \in 1..Len(messages'), messages'[i].role = "user", i < Len(messages')
                   PROVE  messages'[i + 1].role = "assistant"
        OBVIOUS
      <3>1. i \in 1..Len(messages) /\ messages[i].role = "user"
        BY <2>1, <2>2
      <3>2. CASE i = Len(messages)
        BY <1>2, <2>2, <3>2
      <3>3. CASE i # Len(messages)
        <4>1. i + 1 \in 1..Len(messages) /\ i < Len(messages)
          BY <3>1, <3>3
        <4> QED
          BY <2>1, <3>1, <4>1 DEF Paired
      <3> QED
        BY <3>2, <3>3
    <2> QED
      BY <2>3, <2>4 DEF Paired
  <1>6. messages' \in Seq(Message) /\ messages'[Len(messages')].role = "assistant"
    BY <1>1, <1>2
  <1> QED
    BY <1>1, <1>4, <1>5, <1>6

LEMMA ChatFailed == ASSUME AiInv, NEW r \in calls, chatFailed(r) PROVE AiInv'
  <1> USE DEF AiInv
  <1>1. /\ r.kind = "chat" /\ calls' = calls \ {r} /\ messages' = takenBack(messages)
        /\ loading' = FALSE /\ questions' = questions
    BY DEF chatFailed, Concluded
  <1>2. Questions = {r} /\ (messages = <<>> \/ messages[Len(messages)] = Question(r.number))
    BY <1>1 DEF Questions
  <1>3. Questions' = {}
    BY <1>1, <1>2 DEF Questions
  <1>4. CASE messages = <<>>
    <2>1. messages' = <<>>
      BY <1>1, <1>4 DEF takenBack
    <2> QED
      BY <1>1, <1>3, <2>1, EmptyPaired
  <1>5. CASE messages # <<>>
    <2> DEFINE n == Len(messages) - 1
    <2>0. n \in Nat /\ messages' = SubSeq(messages, 1, n)
      BY <1>1, <1>5 DEF takenBack
    <2>1. /\ messages' \in Seq(Message) /\ Len(messages') = Len(messages) - 1
          /\ \A i \in 1..Len(messages') : messages'[i] = messages[i]
      <3>1. \A i \in 1..n : messages[i] \in Message
        BY <2>0
      <3>2. /\ SubSeq(messages, 1, n) \in Seq(Message)
            /\ Len(SubSeq(messages, 1, n)) = IF 1 <= n THEN n - 1 + 1 ELSE 0
            /\ \A i \in 1..n - 1 + 1 : SubSeq(messages, 1, n)[i] = messages[1 + i - 1]
        BY <2>0, <3>1, SubSeqProperties
      <3>3. Len(messages') = n
        <4>1. (IF 1 <= n THEN n - 1 + 1 ELSE 0) = n
          <5> HIDE DEF n
          <5> QED
            BY <2>0
        <4> QED
          BY <2>0, <3>2, <4>1
      <3> QED
        BY <2>0, <3>2, <3>3
    <2>2. Paired(messages)'
      <3>1. ASSUME NEW i \in 2..Len(messages')
            PROVE  /\ messages'[i] = messages[i] /\ messages'[i - 1] = messages[i - 1]
                   /\ i \in 2..Len(messages)
        BY <2>1
      <3>2. ASSUME NEW i \in 1..Len(messages'), i < Len(messages')
            PROVE  /\ messages'[i] = messages[i] /\ messages'[i + 1] = messages[i + 1]
                   /\ i \in 1..Len(messages) /\ i < Len(messages)
        <4>1. i + 1 \in 1..Len(messages') /\ Len(messages') \in Nat
          BY <2>1, <3>2
        <4> QED
          BY <2>1, <3>2, <4>1
      <3> QED
        BY <3>1, <3>2 DEF Paired
    <2>3. messages' # <<>> => messages'[Len(messages')].role = "assistant"
      <3> SUFFICES ASSUME messages' # <<>> PROVE messages'[Len(messages')].role = "assistant"
        OBVIOUS
      <3> DEFINE i == Len(messages')
      <3>1. i \in 1..Len(messages) /\ i < Len(messages) /\ i + 1 = Len(messages) /\ messages'[i] = messages[i]
        BY <2>1
      <3>2. messages[i + 1].role = "user"
        BY <1>2, <1>5, <3>1 DEF Question
      <3>3. messages[i].role \in {"user", "assistant"}
        <4>1. messages[i] \in Message
          BY <3>1
        <4> QED
          BY <4>1 DEF Message
      <3> QED
        BY <3>1, <3>2, <3>3 DEF Paired
    <2> QED
      BY <1>1, <1>3, <2>1, <2>2, <2>3
  <1> QED
    BY <1>4, <1>5

\* Suggestions come and go beside the chat.
LEMMA SuggestionAsked ==
    ASSUME AiInv, generateSuggestion PROVE AiInv'
  <1>1. /\ questions' \in Nat /\ messages' = messages /\ loading' = loading
        /\ Questions' = Questions
        /\ \A r \in calls' : r.number \in Nat
    BY DEF AiInv, generateSuggestion, Questions, chat
  <1> QED
    BY <1>1, ChatRests

LEMMA SuggestionEnds ==
    ASSUME AiInv, NEW r \in calls, suggestionAnswered(r) \/ suggestionFailed(r) PROVE AiInv'
  <1>1. /\ questions' \in Nat /\ messages' = messages /\ loading' = loading
        /\ Questions' = Questions
        /\ \A q \in calls' : q.number \in Nat
    BY DEF AiInv, suggestionAnswered, suggestionFailed, Concluded, Questions
  <1> QED
    BY <1>1, ChatRests

\* The pages and the panel.
LEMMA PanelMoves ==
    ASSUME AiInv,
           \/ \E s \in Story, p \in {"edit", "new"} : openPage(p, s)
           \/ togglePanel \/ setAutoMode \/ openChat \/ closeChat \/ selectModel
           \/ \E t \in {"chat", "suggest", "models"} : setTab(t)
           \/ \E d \in {"few", "some", "long"} : write(d)
           \/ acceptSuggestion \/ rejectSuggestion \/ UNCHANGED aiVars
    PROVE  AiInv'
  <1>1. /\ questions' = questions /\ messages' \in {messages, <<>>} /\ loading' = loading
        /\ calls' = calls
    BY DEF openPage, togglePanel, setAutoMode, openChat, closeChat, selectModel, setTab, write,
          acceptSuggestion, rejectSuggestion, initSession, chat, advice, aiCount, aiVars
  <1>2. questions' \in Nat /\ Questions' = Questions /\ \A r \in calls' : r.number \in Nat
    BY <1>1 DEF AiInv, Questions
  <1> QED
    BY <1>1, <1>2, ChatRests

LEMMA AiStep == ASSUME AiInv, [AiNext]_aiVars PROVE AiInv'
  <1>1. CASE autoSuggest
    <2>1. CASE draft # "few"
      BY <1>1, <2>1, SuggestionAsked DEF autoSuggest
    <2>2. CASE draft = "few"
      <3>1. /\ questions' \in Nat /\ messages' = messages /\ loading' = loading
            /\ Questions' = Questions /\ \A r \in calls' : r.number \in Nat
        BY <1>1, <2>2 DEF autoSuggest, chat, aiCount, AiInv, Questions
      <3> QED
        BY <3>1, ChatRests
    <2> QED
      BY <2>1, <2>2
  <1>2. CASE suggest
    BY <1>2, SuggestionAsked DEF suggest
  <1>3. CASE sendMessage
    BY <1>3, QuestionAsked
  <1>4. CASE \E r \in calls : (\E fit \in BOOLEAN : chatAnswered(r, fit)) \/ suggestionAnswered(r)
    BY <1>4, ChatAnswered, SuggestionEnds
  <1>5. CASE \E r \in calls : refused(r) \/ failed(r)
    BY <1>5, ChatFailed, SuggestionEnds DEF refused, failed
  <1>6. CASE \/ \E s \in Story, p \in {"edit", "new"} : openPage(p, s)
             \/ togglePanel \/ setAutoMode \/ openChat \/ closeChat \/ selectModel
             \/ \E t \in {"chat", "suggest", "models"} : setTab(t)
             \/ \E d \in {"few", "some", "long"} : write(d)
             \/ acceptSuggestion \/ rejectSuggestion \/ UNCHANGED aiVars
    BY <1>6, PanelMoves
  <1> QED
    BY <1>1, <1>2, <1>3, <1>4, <1>5, <1>6 DEF AiNext

\* The chat waits exactly while its one question is pending, and every question and answer
\* stay paired, for any pages, series and number of questions (AiAssistant, stores/ai.store.ts).
THEOREM TheChatIsPaired == AiSpec => []AiSound
  <1>1. AiInv /\ [AiNext]_aiVars => AiInv'
    BY AiStep
  <1>2. AiInv => AiSound
    BY AiShows
  <1> QED
    BY <1>1, <1>2, AiStarts, PTL DEF AiSpec
=============================================================================
