----------------------------- MODULE Publishing -----------------------------
(***************************************************************************)
(* A creator's own series: the new-chapter page (handleFiles, handleSubmit,*)
(* promoteFromDraft), the edit page and the creator's store over           *)
(* CreatorService, beside the chapter cache of Catalogue.                  *)
(*                                                                         *)
(* A job is a visit to one of the two pages in some tab.  A tab keeps      *)
(* three copies of the server's state, each refreshed by its own rules:    *)
(* the public store's byId, the creator's list, and the chapters known.    *)
(* A page that is left takes its state with it, but not the handler that   *)
(* is awaiting an answer: that one runs on beside the next page.           *)
(***************************************************************************)
EXTENDS Catalogue, Sequences, SequencesExt

CONSTANTS
    Tab,      \* browser tabs
    File,     \* page images the creator has, in reading order
    MaxSaves  \* bound: saves of the edit form

\* Every image picked is a page of its own (crypto.randomUUID).
ASSUME PublishingAssumption ==
    /\ File \in Seq(STRING) /\ \A p, q \in DOMAIN File : File[p] = File[q] => p = q
    /\ MaxSaves \in Nat
    /\ None \notin Tab \cup {"draft", "ongoing", "completed"}

VARIABLES
    seriesStatus, \* Series.status
    own,          \* the pages of each chapter of the series
    statusById,   \* series store: the status in a tab's byId, never refreshed
    ownSeries,    \* creator store: the status in the tab's list
    ownChapters,  \* creator store: the chapters in the tab, never refreshed
    listing,      \* the status in the list a tab is fetching
    visit,        \* each visit's tab and local state
    saves,        \* how often the edit form was saved
    draftSaved, overwritten, \* history: a form saved "draft"; a form whose status
                             \* nobody had touched changed the status
    leftRunning   \* history: a page was left with a request under way

copies  == <<statusById, ownSeries, ownChapters>>
history == <<draftSaved, overwritten, leftRunning>>
pubVars == <<seriesStatus, own, copies, listing, visit, saves, history>>
vars    == <<catalogueVars, pubVars>>
\* What a visit's step leaves alone, besides what it names.
cache   == <<source, forced, chapter, chaptersSyncedAt, req, sync, answer, synced, overlapped>>

-----------------------------------------------------------------------------
PUBLIC_STATUSES == {"ongoing", "completed"}
SeriesStatus    == PUBLIC_STATUSES \cup {"draft"}

NoVisit == [tab |-> None, pages |-> <<>>, ready |-> {}, dropped |-> {}, number |-> None,
            form |-> None, chosen |-> None, gone |-> FALSE]

\* createSeries has just been answered: a draft without chapters, first in the
\* list of the tab that made it (and in no other).
Init ==
    /\ CatalogueInit
    /\ seriesStatus = "draft"
    /\ own = [n \in ChapterNumber |-> <<>>]
    /\ statusById = [t \in Tab |-> None]
    /\ \E t \in Tab : ownSeries = [u \in Tab |-> IF u = t THEN "draft" ELSE None]
    /\ ownChapters = [t \in Tab |-> None]
    /\ listing = [t \in Tab |-> None]
    /\ visit = [j \in Job |-> NoVisit]
    /\ saves = 0 /\ draftSaved = FALSE /\ overwritten = FALSE /\ leftRunning = FALSE

ownNumbers == {n \in ChapterNumber : own[n] # <<>>}
NewPages   == {"load", "editor", "create", "promote", "push"}
Pages      == NewPages \cup {"loadList", "form", "save"}

\* A visit whose page is in its tab, or has been left while a handler runs.
OnPage(j)  == pc[j] \in Pages /\ ~visit[j].gone
Open(t)    == \E j \in Job : OnPage(j) /\ visit[j].tab = t

\* A handler is done: its page is at this place, if it is there at all.
Back(j, place) == Goto(j, IF visit[j].gone THEN "left" ELSE place)

\* A tab that opens a page leaves the one it is fetching the list for.
leavesList(t) == leftRunning' = (leftRunning \/ listing[t] # None)

-----------------------------------------------------------------------------
(***************************************************************************)
(* The new-chapter page.                                                   *)
(***************************************************************************)

\* One page at a time in a tab; the series is fetched unless byId has it.
newChapterPage(j, t) ==
    /\ pc[j] = "idle" /\ ~Open(t)
    /\ visit' = [visit EXCEPT ![j].tab = t]
    /\ Goto(j, IF statusById[t] = None THEN "load" ELSE "editor")
    /\ leavesList(t)
    /\ UNCHANGED <<cache, faulty, seriesStatus, own, copies, listing, saves, draftSaved, overwritten>>

fetchSeriesById(j) ==
    /\ pc[j] = "load"
    /\ statusById' = [statusById EXCEPT ![visit[j].tab] = seriesStatus]
    /\ Back(j, "editor")
    /\ UNCHANGED <<cache, faulty, seriesStatus, own, ownSeries, ownChapters, listing, visit, saves,
                   history>>

\* The creator picks images, in order; each is shown at once and uploaded on its
\* own, beside the others.
handleFiles(j) ==
    /\ pc[j] = "editor" /\ Len(visit[j].pages) + Cardinality(visit[j].dropped) < Len(File)
    /\ LET f == File[Len(visit[j].pages) + Cardinality(visit[j].dropped) + 1]
       IN  visit' = [visit EXCEPT ![j].pages = Append(@, f)]
    /\ UNCHANGED <<cache, faulty, pc, seriesStatus, own, copies, listing, saves, history>>

uploadCreatorFile(j) ==
    /\ pc[j] = "editor"
    /\ \E f \in ToSet(visit[j].pages) \ visit[j].ready :
          visit' = [visit EXCEPT ![j].ready = @ \cup {f}]
    /\ UNCHANGED <<cache, faulty, pc, seriesStatus, own, copies, listing, saves, history>>

\* A failed upload takes its page away without a word, as removePage does.
uploadFails(j) ==
    /\ "net" \in Faults /\ pc[j] = "editor"
    /\ \E i \in DOMAIN visit[j].pages :
          /\ visit[j].pages[i] \notin visit[j].ready
          /\ visit' = [visit EXCEPT ![j].pages = RemoveAt(@, i),
                                    ![j].dropped = @ \cup {visit[j].pages[i]}]
    /\ faulty' = TRUE
    /\ UNCHANGED <<cache, pc, seriesStatus, own, copies, listing, saves, history>>

\* Every page must have its url.  (A novel's text is its only page.)
handleSubmit(j, n) ==
    /\ pc[j] = "editor" /\ visit[j].pages # <<>>
    /\ ToSet(visit[j].pages) \subseteq visit[j].ready
    /\ visit' = [visit EXCEPT ![j].number = n]
    /\ Goto(j, "create")
    /\ UNCHANGED <<cache, faulty, seriesStatus, own, copies, listing, saves, history>>

\* createChapter: the owner and the format are read, and the chapter is inserted
\* with its pages, unless its number is taken (409, shown on the page).
createChapter(j) ==
    LET n == visit[j].number
    IN  /\ pc[j] = "create"
        /\ own' = [own EXCEPT ![n] = IF @ = <<>> THEN visit[j].pages ELSE @]
        /\ \/ /\ IF own[n] = <<>> THEN Goto(j, "promote") ELSE Back(j, "editor")
              /\ UNCHANGED faulty
           \/ /\ "net" \in Faults   \* the answer gets lost
              /\ Back(j, "editor") /\ faulty' = TRUE
        /\ UNCHANGED <<cache, seriesStatus, copies, listing, visit, saves, history>>

\* Only if the copy says draft; byId keeps saying so.  updateSeries counts the
\* chapters (there is one, and none is ever removed) and writes the status.
promoteFromDraft(j) ==
    /\ pc[j] = "promote"
    /\ LET t == visit[j].tab
       IN  IF statusById[t] # "draft" THEN UNCHANGED <<seriesStatus, ownSeries>>
           ELSE /\ seriesStatus' = "ongoing"
                /\ ownSeries' = [ownSeries EXCEPT ![t] = IF @ = None THEN @ ELSE "ongoing"]
    /\ Goto(j, "push")
    /\ UNCHANGED <<cache, faulty, own, statusById, ownChapters, listing, visit, saves, history>>

\* The pages of these visits go; what is awaiting an answer runs on.
Leaves(J, moved) ==
    /\ pc' = [k \in Job |-> IF k \in J /\ pc[k] \in {"editor", "form"} THEN "left" ELSE moved[k]]
    /\ visit' = [k \in Job |-> IF k \notin J THEN visit[k]
                               ELSE IF pc[k] \in {"editor", "form"} THEN [NoVisit EXCEPT !.tab = visit[k].tab, !.gone = TRUE]
                               ELSE [visit[k] EXCEPT !.gone = TRUE]]
    /\ leftRunning' = (leftRunning \/ \E k \in J : pc[k] \notin {"editor", "form"})

\* router.push: the tab goes to the edit page (a visit of its own), also when its
\* creator is at another chapter by now; an edit page that is open stays.
push(j) ==
    /\ pc[j] = "push"
    /\ Leaves({k \in Job \ {j} : OnPage(k) /\ pc[k] \in NewPages /\ visit[k].tab = visit[j].tab},
              [pc EXCEPT ![j] = "pushed"])
    /\ UNCHANGED <<cache, faulty, seriesStatus, own, copies, listing, saves, draftSaved, overwritten>>

-----------------------------------------------------------------------------
(***************************************************************************)
(* The edit page.                                                          *)
(***************************************************************************)

\* The tab has what the edit page shows.
Loaded(t) == ownSeries[t] # None /\ ownChapters[t] # None

\* The list and the chapters are fetched only if the tab has none.
editSeriesPage(j, t) ==
    /\ pc[j] = "idle" /\ ~Open(t)
    /\ visit' = [visit EXCEPT ![j].tab = t, ![j].form = ownSeries[t]]
    /\ Goto(j, IF Loaded(t) THEN "form" ELSE "loadList")
    /\ leavesList(t)
    /\ UNCHANGED <<cache, faulty, seriesStatus, own, copies, listing, saves, draftSaved, overwritten>>

\* fetchOwnSeries and fetchChapters; the form is filled once, from the list.
loadEdit(j) ==
    LET t == visit[j].tab
    IN  /\ pc[j] = "loadList"
        /\ ownSeries' = [ownSeries EXCEPT ![t] = IF @ = None THEN seriesStatus ELSE @]
        /\ ownChapters' = [ownChapters EXCEPT ![t] = IF @ = None THEN ownNumbers ELSE @]
        /\ visit' = [visit EXCEPT ![j].form = ownSeries'[t]]
        /\ Back(j, "form")
        /\ UNCHANGED <<cache, faulty, seriesStatus, own, statusById, listing, saves, history>>

\* The creator edits the title only (st is the form's), or chooses a status; the
\* page refuses a public one while the chapters it knows are none.
handleSave(j, st) ==
    /\ pc[j] = "form" /\ saves < MaxSaves
    /\ st \in PUBLIC_STATUSES => ownChapters[visit[j].tab] # {}
    /\ saves' = saves + 1
    /\ visit' = [visit EXCEPT ![j].chosen = st]
    /\ Goto(j, "save")
    /\ UNCHANGED <<cache, faulty, seriesStatus, own, copies, listing, history>>

\* updateSeries: the whole form is written, the status with it.
updateSeries(j) ==
    LET st == visit[j].chosen
        t  == visit[j].tab
        ok == st \in PUBLIC_STATUSES => ownNumbers # {}
    IN  /\ pc[j] = "save"
        /\ Back(j, "form")
        /\ IF ~ok THEN UNCHANGED <<seriesStatus, ownSeries, visit, draftSaved, overwritten, faulty>>
           ELSE /\ seriesStatus' = st
                /\ draftSaved' = (draftSaved \/ st = "draft")
                /\ overwritten' = (overwritten \/ (st = visit[j].form /\ seriesStatus # st))
                /\ \/ /\ ownSeries' = [ownSeries EXCEPT ![t] = st]
                      /\ visit' = [visit EXCEPT ![j].form = st]
                      /\ UNCHANGED faulty
                   \/ /\ "net" \in Faults   \* the answer gets lost
                      /\ faulty' = TRUE /\ UNCHANGED <<ownSeries, visit>>
        /\ UNCHANGED <<cache, own, statusById, ownChapters, listing, saves, leftRunning>>

\* Publish, studio and dashboard fetch the list (again, if the tab has one).
fetchOwnSeries(t) ==
    /\ ~Open(t) /\ listing[t] = None /\ ownSeries[t] # seriesStatus
    /\ listing' = [listing EXCEPT ![t] = seriesStatus]
    /\ UNCHANGED <<cache, faulty, pc, seriesStatus, own, copies, visit, saves, history>>

\* The list comes, to whatever page the tab shows by then, or fails.
listAnswered(t) ==
    /\ listing[t] # None
    /\ listing' = [listing EXCEPT ![t] = None]
    /\ \/ ownSeries' = [ownSeries EXCEPT ![t] = listing[t]]
       \/ "net" \in Faults /\ UNCHANGED ownSeries
    /\ UNCHANGED <<cache, faulty, pc, seriesStatus, own, statusById, ownChapters, visit, saves, history>>

-----------------------------------------------------------------------------
\* A request of a page fails before the server sees it: the editor and the form
\* show the error, promoteFromDraft swallows it.
requestFails(j) ==
    /\ "net" \in Faults
    /\ \/ pc[j] = "create" /\ Back(j, "editor")
       \/ pc[j] = "promote" /\ Goto(j, "push")
       \/ pc[j] = "save" /\ Back(j, "form")
    /\ faulty' = TRUE
    /\ UNCHANGED <<cache, seriesStatus, own, copies, listing, visit, saves, history>>

\* The creator goes to another page.
leave(j) ==
    /\ OnPage(j)
    /\ Leaves({j}, pc)
    /\ UNCHANGED <<cache, faulty, seriesStatus, own, copies, listing, saves, draftSaved, overwritten>>

VisitStep(j) ==
    \/ fetchSeriesById(j) \/ handleFiles(j) \/ uploadCreatorFile(j) \/ uploadFails(j)
    \/ createChapter(j) \/ promoteFromDraft(j) \/ push(j) \/ loadEdit(j) \/ updateSeries(j)
    \/ requestFails(j) \/ leave(j)
    \/ \E n \in ChapterNumber : handleSubmit(j, n)
    \/ \E st \in SeriesStatus : handleSave(j, st)
    \/ \E t \in Tab : newChapterPage(j, t) \/ editSeriesPage(j, t)

Next ==
    \/ CatalogueNext /\ UNCHANGED pubVars
    \/ \E j \in Job : VisitStep(j)
    \/ \E t \in Tab : fetchOwnSeries(t) \/ listAnswered(t)

Spec == Init /\ [][Next]_vars

-----------------------------------------------------------------------------
(***************************************************************************)
(* Properties.                                                             *)
(***************************************************************************)
\* Every variable has its type.
TypeOK ==
    /\ CatalogueTypeOK
    /\ seriesStatus \in SeriesStatus
    /\ own \in [ChapterNumber -> Seq(ToSet(File))]
    /\ statusById \in [Tab -> SeriesStatus \cup {None}]
    /\ ownSeries \in [Tab -> SeriesStatus \cup {None}]
    /\ ownChapters \in [Tab -> (SUBSET ChapterNumber) \cup {None}]
    /\ listing \in [Tab -> SeriesStatus \cup {None}]

\* Is the series on the explore page?  (SeriesService.findAll)
listed == seriesStatus # "draft" /\ ownNumbers # {}

\* A chapter's pages are in the order the creator has them, whichever uploads failed.
PagesInOrder ==
    \A n \in ChapterNumber : \A i, k \in DOMAIN own[n] :
        i < k => \E p, q \in DOMAIN File : p < q /\ own[n][i] = File[p] /\ own[n][k] = File[q]

\* Unless something failed, none is missing between the first and the last.
NoPageLost == ~faulty => \A n \in ownNumbers : own[n] = SubSeq(File, 1, Len(own[n]))

\* A series with a chapter is listed once no handler is about to promote it - whatever old
\* copies the pages went by, and whether they are still there - unless a request failed or
\* got lost, or a form saved "draft".
PublishedIsListed ==
    ~faulty /\ ~draftSaved /\ ownNumbers # {} /\ (\A j \in Job : pc[j] # "promote") => listed

\* A form whose status nobody touched takes it back only to a state that another tab, an
\* answer that got lost, or a page left with its request running has changed behind it: the
\* back button of the new-chapter page leads to the form while the chapter is published.
FormsKeepStatus ==
    overwritten => \/ faulty \/ leftRunning
                   \/ \E j, k \in Job : /\ visit[j].tab # visit[k].tab
                                        /\ None \notin {visit[j].tab, visit[k].tab}

ChapterIsOut == TypeOK /\ PagesInOrder /\ NoPageLost /\ PublishedIsListed /\ FormsKeepStatus

\* What readers are served: the source's chapters, and the creator's.
CatalogueSound == CacheServesSource /\ ChapterIsOut
=============================================================================
