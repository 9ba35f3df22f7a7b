----------------------------- MODULE ReaderPage -----------------------------
(***************************************************************************)
(* The chapter reader and the series page, over the series store: what is  *)
(* on the screen, and the progress the reader page reports by itself when  *)
(* the marker after the last page comes into view.                         *)
(*                                                                         *)
(* The store is one for both pages and survives navigation.  Its fetches   *)
(* are never cancelled and do not check, when an answer comes, what the    *)
(* page asks for by then: answers may come in any order.  The catalogue    *)
(* does not change here (Publishing and Catalogue are about that).         *)
(***************************************************************************)
EXTENDS Naturals, Sequences, FiniteSets

CONSTANTS
    Series, Chapter,
    SeriesOf,        \* [Chapter -> Series]
    Number,          \* [Chapter -> Nat]: chapterNumber
    Novel, Finished, \* series whose chapters are texts; series with status "completed"
    MaxVisits,       \* bound: navigations
    MaxReaderFaults, \* bound: requests that fail
    NoPage

ASSUME ReaderAssumption ==
    /\ SeriesOf \in [Chapter -> Series] /\ Number \in [Chapter -> Nat]
    /\ Novel \subseteq Series /\ Finished \subseteq Series
    /\ MaxVisits \in Nat /\ MaxReaderFaults \in Nat
    /\ NoPage \notin Series \cup Chapter /\ Series \cap Chapter = {}

VARIABLES
    route,     \* the series of the URL, and the chapter (NoPage on the series page)
    pages,     \* store: whose pages are in pages[], with pagesLoading and pagesError
    list,      \* store: whose chapters are in chapters[]
    byId,      \* store: the series known
    detail,    \* store: current, detailLoading and detailError
    text,      \* NovelReader: "none" (not mounted), "loading", "error" or a chapter
    recorded,  \* progressRecorded
    asked,     \* requests in flight of each kind, in the order they were sent
    progress,  \* history: the upserts sent, with what was on the screen
    outdated,  \* history: an answer came for a page left behind
    overtaken, \* history: an answer came before that of an older request of its kind
    visits, readerFaults   \* counters for the bounds

Kind == {"pages", "chapters", "series", "text"}

readerVars == <<route, pages, list, byId, detail, text, recorded, asked, progress,
                outdated, overtaken, visits, readerFaults>>

-----------------------------------------------------------------------------
onReader == route.chapter # NoPage
chaptersOf(s) == {c \in Chapter : SeriesOf[c] = s}

\* The marker is watched once the page has a user, its chapter (found by id in the
\* store's list) and pages; whether a novel's text has arrived is not asked.
currentChapter == onReader /\ SeriesOf[route.chapter] = list
contentReady   == ~pages.loading /\ ~pages.error /\ pages.of # NoPage
isNovel        == route.series \in byId \cap Novel
\* Next in the list sorted by chapterNumber, and previous.
after(c)  == {d \in chaptersOf(list) : Number[d] > Number[c]}
before(c) == {d \in chaptersOf(list) : Number[d] < Number[c]}
nextChapter == {d \in after(route.chapter) : \A e \in after(route.chapter) : Number[d] <= Number[e]}
prevChapter == {d \in before(route.chapter) : \A e \in before(route.chapter) : Number[d] >= Number[e]}

ReaderInit ==
    /\ route = [series |-> NoPage, chapter |-> NoPage]
    /\ pages = [of |-> NoPage, loading |-> FALSE, error |-> FALSE]
    /\ list = NoPage /\ byId = {}
    /\ detail = [of |-> NoPage, loading |-> FALSE, error |-> FALSE]
    /\ text = "none" /\ recorded = FALSE /\ asked = [k \in Kind |-> <<>>] /\ progress = {}
    /\ outdated = FALSE /\ overtaken = FALSE /\ visits = 0 /\ readerFaults = 0

\* One more request of kind k, for x, beside those of q.
Ask(q, k, x) == [q EXCEPT ![k] = Append(@, x)]
\* NovelReader unmounts when pages are loading: its own request is forgotten.
Unmounted(q) == [q EXCEPT !["text"] = <<>>]
Loading      == [of |-> NoPage, loading |-> TRUE, error |-> FALSE]

\* fetchPages and fetchChapters, and fetchSeriesById for a series not known yet: the
\* latter empties the list of chapters.  q is what is in flight already.
readerEffect(s, c, known, q) ==
    /\ recorded' = FALSE
    /\ pages' = Loading /\ text' = "none"
    /\ LET fetching == Ask(Ask(Unmounted(q), "pages", c), "chapters", s)
       IN  IF s \in known THEN asked' = fetching /\ UNCHANGED list
                          ELSE asked' = Ask(fetching, "series", s) /\ list' = NoPage

\* A chapter is opened: from the series page any chapter of the list it shows, from
\* the reader the previous or the next one.
openChapter(c) ==
    /\ visits < MaxVisits /\ visits' = visits + 1
    /\ route.series # NoPage
    /\ IF onReader THEN currentChapter /\ c \in nextChapter \cup prevChapter
                   ELSE ~detail.loading /\ detail.of # NoPage /\ c \in chaptersOf(list)
    /\ route' = [route EXCEPT !.chapter = c]
    /\ readerEffect(route.series, c, byId, asked)
    /\ detail' = IF route.series \in byId THEN detail ELSE Loading
    /\ UNCHANGED <<byId, progress, outdated, overtaken, readerFaults>>

\* The series page is opened, from the reader's bar, a card of another page or a search.
openSeries(s) ==
    /\ visits < MaxVisits /\ visits' = visits + 1
    /\ onReader \/ route.series # s
    /\ route' = [series |-> s, chapter |-> NoPage]
    /\ list' = NoPage /\ detail' = Loading
    /\ asked' = Ask(Ask(Unmounted(asked), "series", s), "chapters", s)
    /\ text' = "none" /\ recorded' = FALSE
    /\ UNCHANGED <<pages, byId, progress, outdated, overtaken, readerFaults>>

-----------------------------------------------------------------------------
\* The answer of the i-th request of kind k leaves the wire; older ones may remain.
Without(k, i) == [asked EXCEPT ![k] = SubSeq(@, 1, i - 1) \o SubSeq(@, i + 1, Len(@))]
overtakes(k, i) == \E j \in 1..(i - 1) : asked[k][j] # asked[k][i]
Taken(k, i) == /\ overtaken' = (overtaken \/ overtakes(k, i))
               /\ outdated' = (outdated \/ asked[k][i] \notin {route.series, route.chapter})
               /\ UNCHANGED <<route, progress, visits, readerFaults>>

\* fetchPages: a novel's text is fetched as soon as the page shows its contentUrl; a
\* NovelReader that is there already fetches again when the contentUrl changes.  An error
\* of another request stays.
pagesAnswered(i) ==
    LET c       == asked["pages"][i]
        mounted == onReader /\ isNovel /\ ~pages.error
        again   == text # "none" /\ pages.of = c
        waiting == Without("pages", i)
    IN  /\ Taken("pages", i)
        /\ pages' = [of |-> c, loading |-> FALSE, error |-> pages.error]
        /\ IF mounted /\ ~again THEN text' = "loading" /\ asked' = Ask(waiting, "text", c)
                                ELSE text' = text /\ asked' = waiting
        /\ UNCHANGED <<list, byId, detail, recorded>>

\* fetchChapters: the list is replaced, whatever series the page shows.
chaptersAnswered(i) ==
    /\ Taken("chapters", i)
    /\ list' = asked["chapters"][i] /\ asked' = Without("chapters", i)
    /\ UNCHANGED <<pages, byId, detail, text, recorded>>

\* fetchSeriesById: byId changes, and the effect of the reader page runs again.
seriesAnswered(i) ==
    LET s     == asked["series"][i]
        found == [of |-> s, loading |-> FALSE, error |-> FALSE]
    IN  /\ Taken("series", i)
        /\ byId' = byId \cup {s}
        /\ IF onReader
           THEN /\ readerEffect(route.series, route.chapter, byId', Without("series", i))
                /\ detail' = IF route.series \in byId' THEN found ELSE Loading
           ELSE /\ detail' = [found EXCEPT !.error = detail.error]
                /\ asked' = Without("series", i)
                /\ UNCHANGED <<list, pages, text, recorded>>

\* NovelReader: the text that comes last is shown, whichever was asked for last.
textAnswered(i) ==
    /\ Taken("text", i)
    /\ text' = asked["text"][i] /\ asked' = Without("text", i)
    /\ UNCHANGED <<pages, list, byId, detail, recorded>>

\* A request fails: each of the four sets its own error and no data.
requestFailed(k, i) ==
    /\ readerFaults < MaxReaderFaults /\ readerFaults' = readerFaults + 1
    /\ asked' = IF k = "pages" THEN Unmounted(Without(k, i)) ELSE Without(k, i)
    /\ pages'  = IF k = "pages"  THEN [pages EXCEPT !.loading = FALSE, !.error = TRUE] ELSE pages
    /\ detail' = IF k = "series" THEN [detail EXCEPT !.loading = FALSE, !.error = TRUE] ELSE detail
    /\ text'   = CASE k = "text" -> "error"
                   [] k = "pages" -> "none"
                   [] OTHER -> text
    /\ UNCHANGED <<route, list, byId, recorded, progress, outdated, overtaken, visits>>

\* The Retry button of a chapter that could not be loaded.
retry ==
    /\ onReader /\ pages.error /\ ~pages.loading
    /\ pages' = Loading /\ asked' = Ask(Unmounted(asked), "pages", route.chapter)
    /\ UNCHANGED <<route, list, byId, detail, text, recorded, progress, outdated, overtaken, visits, readerFaults>>

\* (mutant) completion goes by the position in the list alone
status_byPosition == IF nextChapter = {} THEN "completed" ELSE "reading"

\* The last chapter of a finished series completes it; any other is progress.
status == IF nextChapter = {} /\ route.series \in byId \cap Finished
          THEN "completed" ELSE "reading"

\* The marker comes into view: progress is reported, once until the effect runs again;
\* a failed upsert is swallowed.
markerSeen ==
    /\ currentChapter /\ contentReady /\ ~recorded
    /\ recorded' = TRUE
    /\ progress' = progress \cup {[series |-> route.series, chapter |-> route.chapter,
                                   status |-> status, late |-> outdated, pages |-> pages.of,
                                   text |-> IF isNovel THEN text ELSE "none"]}
    /\ UNCHANGED <<route, pages, list, byId, detail, text, asked, outdated, overtaken, visits, readerFaults>>

ReaderNext ==
    \/ \E c \in Chapter : openChapter(c)
    \/ \E s \in Series : openSeries(s)
    \/ retry \/ markerSeen
    \/ \E i \in DOMAIN asked["pages"]    : pagesAnswered(i)
    \/ \E i \in DOMAIN asked["chapters"] : chaptersAnswered(i)
    \/ \E i \in DOMAIN asked["series"]   : seriesAnswered(i)
    \/ \E i \in DOMAIN asked["text"]     : textAnswered(i)
    \/ \E k \in Kind : \E i \in DOMAIN asked[k] : requestFailed(k, i)

ReaderSpec == ReaderInit /\ [][ReaderNext]_readerVars

-----------------------------------------------------------------------------
lastOf(s) == {c \in chaptersOf(s) : \A d \in chaptersOf(s) : Number[d] <= Number[c]}

\* "completed", which pays INK and mints a badge, is reported for no other chapter than
\* the last one of a finished series, whatever arrives late on whichever page, unless a
\* list that came late was followed to a chapter of another series.
CompletedIsLast ==
    \A p \in progress : p.status = "completed" =>
        /\ p.series \in Finished
        /\ p.chapter \in lastOf(p.series) \/ (p.late /\ SeriesOf[p.chapter] # p.series)

\* With nothing in flight, nothing failed and nothing overtaken, a page shows what its
\* URL names: the series' list, the chapter's pages, and a novel's own text.
QuietPageIsRight ==
    ((\A k \in Kind : asked[k] = <<>>) /\ ~overtaken /\ readerFaults = 0 /\ route.series # NoPage) =>
        /\ list = route.series /\ route.series \in byId
        /\ ~pages.loading \/ ~onReader
        /\ onReader => /\ pages.of = route.chapter
                       /\ text = IF isNovel THEN route.chapter ELSE "none"
        /\ ~onReader => ~detail.loading /\ detail.of = route.series
=============================================================================
