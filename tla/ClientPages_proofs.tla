------------------------- MODULE ClientPages_proofs -------------------------
(***************************************************************************)
(* Proofs about the pages that show the server's rows, each alone and all  *)
(* together, and about the sync behind the passport page, for any number   *)
(* of visits, requests, tabs and faults.                                   *)
(*                                                                         *)
(* Answers come in any order, so what a page shows is tied to the server's *)
(* by what each request in flight has read or will do: that is what the    *)
(* inductive invariant of each page says.  For the passport's sync, the    *)
(* chapters in Postgres never fall (History; series tracked, which fall    *)
(* with a deletion, are no part of it), so a sync's are no older than      *)
(* the chain it saw unless the object has got a new version since          *)
(* (SyncFits); a snapshot counts at least what the one it read of counted  *)
(* (SnapFits).  On chain INK is guarded by the contract, and both programs *)
(* compute one and the same, monotone, level.                              *)
(***************************************************************************)
EXTENDS Integers, ClientPages, PassportSync, FiniteSetTheorems, SequenceTheorems,
        WellFoundedInduction, TLAPS

-----------------------------------------------------------------------------
(***************************************************************************)
(* The reader page.                                                        *)
(***************************************************************************)
\* A nonempty set of numbers has a least one.
LEMMA LeastNumber ==
    ASSUME NEW T \in SUBSET Nat, T # {} PROVE \E x \in T : \A y \in T : x <= y
  <1>1. PICK x \in T : \A y \in T : <<y, x>> \notin OpToRel(<, Nat)
    BY NatLessThanWellFounded, WFMin
  <1>2. \A y \in T : ~(y < x)
    BY <1>1 DEF OpToRel
  <1> QED
    BY <1>2

\* Unless a late answer was followed, the reader is on a chapter of its series, and the
\* list is the one of the series in the URL or of none.
ReaderInv ==
    /\ route.series \in Series \cup {NoPage} /\ route.chapter \in Chapter \cup {NoPage}
    /\ onReader /\ SeriesOf[route.chapter] # route.series => outdated
    /\ list = route.series \/ list \notin Series \/ outdated
    /\ outdated \in BOOLEAN
    /\ CompletedIsLast

LEMMA ReaderStarts == ReaderInit => ReaderInv
  <1> SUFFICES ASSUME ReaderInit PROVE ReaderInv
    OBVIOUS
  <1>1. /\ route = [series |-> NoPage, chapter |-> NoPage] /\ list = NoPage
        /\ outdated = FALSE /\ progress = {}
    BY DEF ReaderInit
  <1>2. route.series = NoPage /\ route.chapter = NoPage
    BY <1>1
  <1> QED
    BY <1>1, <1>2 DEF ReaderInv, onReader, CompletedIsLast

\* The chapter before and the one after are of the list.
LEMMA NeighboursOfList ==
    ASSUME NEW c \in nextChapter \cup prevChapter PROVE c \in Chapter /\ SeriesOf[c] = list
  BY DEF nextChapter, prevChapter, after, before, chaptersOf

LEMMA Navigates ==
    ASSUME ReaderInv, (\E c \in Chapter : openChapter(c)) \/ (\E s \in Series : openSeries(s))
    PROVE  ReaderInv'
  <1> USE DEF ReaderInv
  <1>1. ASSUME NEW c \in Chapter, openChapter(c) PROVE ReaderInv'
    <2>1. SeriesOf[c] = list /\ SeriesOf[c] \in Series
      BY <1>1, NeighboursOfList, ReaderAssumption DEF openChapter, chaptersOf
    <2>2. /\ route' = [route EXCEPT !.chapter = c] /\ list' \in {list, NoPage}
          /\ UNCHANGED <<outdated, progress>>
      BY <1>1 DEF openChapter, readerEffect
    <2>3. CompletedIsLast'
      BY <2>2 DEF CompletedIsLast
    <2>4. route'.series = route.series /\ route'.chapter = c
      BY <2>2
    <2> QED
      BY <2>1, <2>2, <2>3, <2>4, ReaderAssumption DEF onReader
  <1>2. ASSUME NEW s \in Series, openSeries(s) PROVE ReaderInv'
    <2>1. route' = [series |-> s, chapter |-> NoPage] /\ list' = NoPage /\ UNCHANGED <<outdated, progress>>
      BY <1>2 DEF openSeries
    <2>2. CompletedIsLast'
      BY <2>1 DEF CompletedIsLast
    <2> QED
      BY <2>1, <2>2, ReaderAssumption DEF onReader
  <1> QED
    BY <1>1, <1>2

\* An answer: the list is that of the URL's series, or it came late.
LEMMA AnswerTaken ==
    ASSUME ReaderInv, NEW i, NEW k,
           \/ pagesAnswered(i) \/ chaptersAnswered(i) \/ seriesAnswered(i)
           \/ textAnswered(i) \/ requestFailed(k, i)
    PROVE  ReaderInv'
  <1> USE DEF ReaderInv
  <1>1. /\ route' = route /\ progress' = progress /\ outdated' \in BOOLEAN /\ (outdated => outdated')
        /\ \/ list' \in {list, NoPage}
           \/ list' \in {route.series, route.chapter}
           \/ outdated'
    BY DEF pagesAnswered, chaptersAnswered, seriesAnswered, textAnswered, requestFailed, Taken,
           readerEffect
  <1>2. CompletedIsLast'
    BY <1>1 DEF CompletedIsLast
  <1>3. route.chapter \notin Series /\ NoPage \notin Series
    BY ReaderAssumption
  <1> QED
    BY <1>1, <1>2, <1>3 DEF onReader

\* The marker: a chapter with none after it in the list of its series is the last of them.
LEMMA MarkerReports == ASSUME ReaderInv, markerSeen PROVE ReaderInv'
  <1> USE DEF ReaderInv
  <1> DEFINE c == route.chapter
             new == [series |-> route.series, chapter |-> c, status |-> status, late |-> outdated,
                     pages |-> pages.of, text |-> IF isNovel THEN text ELSE "none"]
  <1>1. /\ progress' = progress \cup {new} /\ UNCHANGED <<route, list, outdated>>
        /\ onReader /\ SeriesOf[c] = list /\ c \in Chapter
    BY DEF markerSeen, currentChapter, onReader
  <1>2. new.status = status /\ new.series = route.series /\ new.chapter = c /\ new.late = outdated
    OBVIOUS
  <1> HIDE DEF new
  <1>3. ASSUME status = "completed"
        PROVE  route.series \in Finished /\ (c \in lastOf(route.series) \/ (outdated /\ SeriesOf[c] # route.series))
    <2>1. nextChapter = {} /\ route.series \in Finished
      BY <1>3 DEF status
    <2>2. after(c) = {}
      <3> SUFFICES ASSUME after(c) # {} PROVE FALSE
        OBVIOUS
      <3> DEFINE T == {Number[d] : d \in after(c)}
      <3>1. T \in SUBSET Nat /\ T # {}
        BY ReaderAssumption DEF after, chaptersOf
      <3>2. PICK x \in T : \A y \in T : x <= y
        BY <3>1, LeastNumber
      <3>3. PICK d \in after(c) : x = Number[d]
        BY <3>2
      <3>4. \A e \in after(c) : Number[d] <= Number[e]
        BY <3>2, <3>3
      <3> QED
        BY <2>1, <3>3, <3>4 DEF nextChapter
    <2>3. \A d \in chaptersOf(list) : Number[d] <= Number[c]
      BY <1>1, <2>2, ReaderAssumption DEF after, chaptersOf
    <2>4. c \in lastOf(list)
      BY <1>1, <2>3 DEF lastOf, chaptersOf
    <2> QED
      BY <1>1, <2>1, <2>4
  <1>4. CompletedIsLast'
    BY <1>1, <1>2, <1>3 DEF CompletedIsLast
  <1> QED
    BY <1>1, <1>4 DEF onReader

LEMMA ReaderStep == ASSUME ReaderInv, [ReaderNext]_readerVars PROVE ReaderInv'
  <1>1. CASE (\E c \in Chapter : openChapter(c)) \/ (\E s \in Series : openSeries(s))
    BY <1>1, Navigates
  <1>2. CASE \E i, k : \/ pagesAnswered(i) \/ chaptersAnswered(i) \/ seriesAnswered(i)
                      \/ textAnswered(i) \/ requestFailed(k, i)
    BY <1>2, AnswerTaken
  <1>3. CASE markerSeen
    BY <1>3, MarkerReports
  <1>4. CASE retry \/ UNCHANGED readerVars
    BY <1>4 DEF retry, readerVars, ReaderInv, onReader, CompletedIsLast
  <1> QED
    BY <1>1, <1>2, <1>3, <1>4 DEF ReaderNext

\* "completed" is reported of no chapter but the last of a finished series, for any
\* catalogue, however the answers come, but of a chapter of another series that a late list
\* led to (ReaderPage, the chapter reader's page.tsx).
THEOREM OnlyTheLastCompletes == ReaderSpec => []CompletedIsLast
  <1>1. ReaderInv /\ [ReaderNext]_readerVars => ReaderInv'
    BY ReaderStep
  <1>2. ReaderInv => CompletedIsLast
    BY DEF ReaderInv
  <1> QED
    BY <1>1, <1>2, ReaderStarts, PTL DEF ReaderSpec

-----------------------------------------------------------------------------
\* What a quiet page rests on.  The last request of a kind decides what is shown, as long
\* as no answer overtook an older one; so the page shows what its URL names, or its last
\* request is for that.
LastIs(q, x) == q # <<>> /\ q[Len(q)] = x
Among(q, x)  == \E j \in 1..Len(q) : q[j] = x

Item == Series \cup Chapter \cup {NoPage}

ListExpected == \/ LastIs(asked["chapters"], route.series)
                \/ asked["chapters"] = <<>> /\ list = route.series
KnownOrAsked == route.series \in byId \/ Among(asked["series"], route.series)
DetailExpected == ~onReader => \/ LastIs(asked["series"], route.series)
                               \/ asked["series"] = <<>> /\ ~detail.loading /\ detail.of = route.series
PagesExpected == onReader => \/ LastIs(asked["pages"], route.chapter)
                             \/ asked["pages"] = <<>> /\ ~pages.loading /\ pages.of = route.chapter
\* A novel's text is that of the pages shown; without pages of a novel there is none.
TextExpected ==
    IF onReader /\ isNovel /\ ~pages.loading
    THEN LastIs(asked["text"], pages.of) \/ (asked["text"] = <<>> /\ text = pages.of)
    ELSE asked["text"] = <<>> /\ text = "none"

Expected == ListExpected /\ KnownOrAsked /\ DetailExpected /\ PagesExpected /\ TextExpected

Undisturbed == ~overtaken /\ readerFaults = 0 /\ route.series # NoPage

PageInv ==
    /\ asked \in [Kind -> Seq(Item)] /\ readerFaults \in Nat
    /\ readerFaults = 0 => ~pages.error
    /\ Undisturbed => Expected

LEMMA Appended ==
    ASSUME NEW S, NEW q \in Seq(S), NEW x \in S
    PROVE  Append(q, x) \in Seq(S) /\ LastIs(Append(q, x), x) /\ Among(Append(q, x), x)
  <1>1. /\ Append(q, x) \in Seq(S) /\ Len(Append(q, x)) = Len(q) + 1
        /\ Append(q, x)[Len(q) + 1] = x /\ Len(q) \in Nat
    OBVIOUS
  <1>2. Append(q, x) # <<>>
    BY <1>1
  <1> QED
    BY <1>1, <1>2 DEF LastIs, Among

\* An answer leaves the queue: when it overtook none, the last request stays the last or
\* it was the answered one.
LEMMA Removed ==
    ASSUME NEW S, NEW q \in Seq(S), NEW i \in 1..Len(q)
    PROVE  LET r == SubSeq(q, 1, i - 1) \o SubSeq(q, i + 1, Len(q))
           IN  /\ r \in Seq(S)
               /\ \A y : Among(q, y) /\ y # q[i] => Among(r, y)
               /\ \A x : (\A j \in 1..(i - 1) : q[j] = q[i]) /\ LastIs(q, x)
                         => LastIs(r, x) \/ (r = <<>> /\ q[i] = x)
  <1> DEFINE n == Len(q)
             a == SubSeq(q, 1, i - 1)
             b == SubSeq(q, i + 1, n)
             r == a \o b
  <1>1. n \in Nat /\ i \in Nat /\ 1 <= i /\ i <= n
    OBVIOUS
  <1>2. /\ a \in Seq(S) /\ Len(a) = i - 1 /\ \A j \in 1..(i - 1) : a[j] = q[j]
        /\ b \in Seq(S) /\ Len(b) = n - i /\ \A j \in 1..(n - i) : b[j] = q[i + j]
    BY <1>1
  <1> HIDE DEF a, b
  <1>3. /\ r \in Seq(S) /\ Len(r) = n - 1
        /\ \A j \in 1..(i - 1) : r[j] = q[j]
        /\ \A j \in i..(n - 1) : r[j] = q[j + 1]
    <2>1. r \in Seq(S) /\ Len(r) = n - 1
      <3>1. r \in Seq(S) /\ Len(r) = Len(a) + Len(b)
        BY <1>2, ConcatProperties
      <3> QED
        BY <1>1, <1>2, <3>1
    <2>2. \A j \in 1..(i - 1) : r[j] = q[j]
      BY <1>1, <1>2
    <2>3. ASSUME NEW j \in i..(n - 1) PROVE r[j] = q[j + 1]
      <3>1. r[j] = b[j - (i - 1)] /\ j - (i - 1) \in 1..(n - i)
        BY <1>1, <1>2
      <3> QED
        BY <1>1, <1>2, <3>1
    <2> QED
      BY <2>1, <2>2, <2>3
  <1> HIDE DEF r
  <1>4. ASSUME NEW y, Among(q, y), y # q[i] PROVE Among(r, y)
    <2>1. PICK j \in 1..n : q[j] = y
      BY <1>4 DEF Among
    <2>2. CASE j < i
      BY <1>1, <1>3, <2>1, <2>2 DEF Among
    <2>3. CASE j > i
      <3>1. j - 1 \in i..(n - 1) /\ j - 1 \in 1..Len(r)
        BY <1>1, <1>3, <2>3
      <3>2. r[j - 1] = y
        BY <1>1, <1>3, <2>1, <3>1
      <3> QED
        BY <3>1, <3>2 DEF Among
    <2> QED
      BY <1>1, <1>4, <2>1, <2>2, <2>3
  <1>5. ASSUME NEW x, \A j \in 1..(i - 1) : q[j] = q[i], LastIs(q, x)
        PROVE  LastIs(r, x) \/ (r = <<>> /\ q[i] = x)
    <2>1. q[n] = x
      BY <1>5 DEF LastIs
    <2>2. CASE n = 1
      BY <1>1, <1>3, <2>1, <2>2
    <2>3. CASE n > 1 /\ i < n
      <3>1. r[n - 1] = q[n]
        BY <1>1, <1>3, <2>3
      <3> QED
        BY <1>1, <1>3, <2>1, <2>3, <3>1 DEF LastIs
    <2>4. CASE n > 1 /\ i = n
      <3>1. r[n - 1] = q[n - 1] /\ q[n - 1] = q[n]
        BY <1>1, <1>3, <1>5, <2>4
      <3> QED
        BY <1>1, <1>3, <2>1, <2>4, <3>1 DEF LastIs
    <2> QED
      BY <1>1, <2>2, <2>3, <2>4
  <1> QED
    BY <1>3, <1>4, <1>5 DEF a, b, r

\* One more request: it is the last of its kind, the other kinds stay.
LEMMA AskedFor ==
    ASSUME NEW q \in [Kind -> Seq(Item)], NEW k \in Kind, NEW x \in Item
    PROVE  /\ Ask(q, k, x) \in [Kind -> Seq(Item)]
           /\ LastIs(Ask(q, k, x)[k], x) /\ Among(Ask(q, k, x)[k], x)
           /\ \A l \in Kind \ {k} : Ask(q, k, x)[l] = q[l]
  <1>1. /\ Append(q[k], x) \in Seq(Item)
        /\ LastIs(Append(q[k], x), x) /\ Among(Append(q[k], x), x)
    BY Appended
  <1> QED
    BY <1>1 DEF Ask

\* The answer of a request that overtook none.
LEMMA AnswerLeaves ==
    ASSUME asked \in [Kind -> Seq(Item)], NEW k \in Kind, NEW i \in DOMAIN asked[k]
    PROVE  /\ Without(k, i) \in [Kind -> Seq(Item)] /\ asked[k][i] \in Item
           /\ \A l \in Kind \ {k} : Without(k, i)[l] = asked[l]
           /\ \A y : Among(asked[k], y) /\ y # asked[k][i] => Among(Without(k, i)[k], y)
           /\ \A x : ~overtakes(k, i) /\ LastIs(asked[k], x)
                     => LastIs(Without(k, i)[k], x) \/ (Without(k, i)[k] = <<>> /\ asked[k][i] = x)
  <1> DEFINE q == asked[k]
             r == SubSeq(q, 1, i - 1) \o SubSeq(q, i + 1, Len(q))
  <1>1. q \in Seq(Item) /\ i \in 1..Len(q) /\ q[i] \in Item
    OBVIOUS
  <1>2. /\ r \in Seq(Item)
        /\ \A y : Among(q, y) /\ y # q[i] => Among(r, y)
        /\ \A x : (\A j \in 1..(i - 1) : q[j] = q[i]) /\ LastIs(q, x)
                  => LastIs(r, x) \/ (r = <<>> /\ q[i] = x)
    BY <1>1, Removed
  <1>3. Without(k, i) = [asked EXCEPT ![k] = r]
    BY DEF Without
  <1> HIDE DEF r
  <1>4. Without(k, i)[k] = r /\ \A l \in Kind \ {k} : Without(k, i)[l] = asked[l]
    BY <1>3
  <1>5. Without(k, i) \in [Kind -> Seq(Item)]
    BY <1>2, <1>3
  <1>6. ~overtakes(k, i) => \A j \in 1..(i - 1) : q[j] = q[i]
    BY DEF overtakes
  <1> QED
    BY <1>1, <1>2, <1>4, <1>5, <1>6

\* The effect of the reader page asks for what its URL names and forgets the text.
LEMMA EffectAsks ==
    ASSUME NEW s \in Item, NEW c \in Item, NEW heard, NEW q \in [Kind -> Seq(Item)],
           readerEffect(s, c, heard, q)
    PROVE  /\ asked' \in [Kind -> Seq(Item)]
           /\ LastIs(asked'["pages"], c) /\ LastIs(asked'["chapters"], s) /\ asked'["text"] = <<>>
           /\ s \notin heard => Among(asked'["series"], s)
           /\ pages' = Loading /\ text' = "none"
  <1> USE DEF Kind
  <1> DEFINE u == Unmounted(q)
             f == Ask(u, "pages", c)
             g == Ask(f, "chapters", s)
  <1>1. u \in [Kind -> Seq(Item)] /\ u["text"] = <<>>
    <2>1. <<>> \in Seq(Item)
      OBVIOUS
    <2> QED
      BY <2>1 DEF Unmounted
  <1> HIDE DEF u
  <1>2. f \in [Kind -> Seq(Item)] /\ LastIs(f["pages"], c) /\ f["text"] = <<>>
    BY <1>1, AskedFor
  <1> HIDE DEF f
  <1>3. /\ g \in [Kind -> Seq(Item)] /\ LastIs(g["pages"], c) /\ LastIs(g["chapters"], s)
        /\ g["text"] = <<>>
    <2>1. /\ g \in [Kind -> Seq(Item)] /\ LastIs(g["chapters"], s)
          /\ \A l \in Kind \ {"chapters"} : g[l] = f[l]
      BY <1>2, AskedFor
    <2> QED
      BY <1>2, <2>1
  <1> HIDE DEF g
  <1>4. pages' = Loading /\ text' = "none"
        /\ asked' = IF s \in heard THEN g ELSE Ask(g, "series", s)
    BY DEF readerEffect, u, f, g
  <1>5. CASE s \in heard
    BY <1>3, <1>4, <1>5
  <1>6. CASE s \notin heard
    <2> DEFINE h == Ask(g, "series", s)
    <2>1. /\ h \in [Kind -> Seq(Item)] /\ Among(h["series"], s)
          /\ \A l \in Kind \ {"series"} : h[l] = g[l]
      BY <1>3, AskedFor
    <2>2. asked' = h
      BY <1>4, <1>6
    <2> QED
      BY <1>3, <1>4, <2>1, <2>2
  <1> QED
    BY <1>5, <1>6

LEMMA PageStarts == ReaderInit => PageInv
  <1> SUFFICES ASSUME ReaderInit PROVE PageInv
    OBVIOUS
  <1>1. <<>> \in Seq(Item)
    OBVIOUS
  <1>2. /\ route = [series |-> NoPage, chapter |-> NoPage] /\ asked = [k \in Kind |-> <<>>]
        /\ pages = [of |-> NoPage, loading |-> FALSE, error |-> FALSE] /\ readerFaults = 0
    BY DEF ReaderInit
  <1>3. asked \in [Kind -> Seq(Item)] /\ ~pages.error /\ route.series = NoPage
    BY <1>1, <1>2
  <1> QED
    BY <1>2, <1>3 DEF PageInv, Undisturbed

\* A chapter is opened: everything it shows is asked for.
LEMMA ChapterOpened ==
    ASSUME ReaderInv, PageInv, NEW c \in Chapter, openChapter(c) PROVE PageInv'
  <1> DEFINE s == route.series
  <1>1. /\ route' = [route EXCEPT !.chapter = c] /\ s # NoPage /\ s \in Item /\ c \in Item
        /\ asked \in [Kind -> Seq(Item)] /\ readerEffect(s, c, byId, asked)
        /\ UNCHANGED <<byId, overtaken, readerFaults>>
    BY DEF openChapter, ReaderInv, PageInv, Item
  <1>2. route'.series = s /\ route'.chapter = c /\ c # NoPage
    BY <1>1, ReaderAssumption
  <1>3. /\ asked' \in [Kind -> Seq(Item)]
        /\ LastIs(asked'["pages"], c) /\ LastIs(asked'["chapters"], s) /\ asked'["text"] = <<>>
        /\ s \notin byId => Among(asked'["series"], s)
        /\ pages' = Loading /\ text' = "none"
    BY <1>1, EffectAsks
  <1>4. pages'.loading /\ ~pages'.error
    BY <1>3 DEF Loading
  <1>5. Expected'
    BY <1>1, <1>2, <1>3, <1>4
       DEF Expected, ListExpected, KnownOrAsked, DetailExpected, PagesExpected, TextExpected, onReader
  <1> QED
    BY <1>1, <1>3, <1>4, <1>5 DEF PageInv

\* The series page is opened: its series and its list are asked for.
LEMMA SeriesOpened == ASSUME PageInv, NEW s \in Series, openSeries(s) PROVE PageInv'
  <1> USE DEF Kind
  <1> DEFINE u == Unmounted(asked)
             f == Ask(u, "series", s)
  <1>1. /\ route' = [series |-> s, chapter |-> NoPage] /\ asked' = Ask(f, "chapters", s)
        /\ text' = "none" /\ UNCHANGED <<pages, readerFaults>>
        /\ asked \in [Kind -> Seq(Item)] /\ s \in Item
    BY DEF openSeries, PageInv, Item
  <1>2. u \in [Kind -> Seq(Item)] /\ u["text"] = <<>>
    <2>1. <<>> \in Seq(Item)
      OBVIOUS
    <2> QED
      BY <1>1, <2>1 DEF Unmounted
  <1> HIDE DEF u
  <1>3. /\ f \in [Kind -> Seq(Item)] /\ f["text"] = <<>>
        /\ LastIs(f["series"], s) /\ Among(f["series"], s)
    <2>1. /\ f \in [Kind -> Seq(Item)] /\ LastIs(f["series"], s) /\ Among(f["series"], s)
          /\ \A l \in Kind \ {"series"} : f[l] = u[l]
      BY <1>1, <1>2, AskedFor
    <2> QED
      BY <1>2, <2>1
  <1> HIDE DEF f
  <1>4. /\ asked' \in [Kind -> Seq(Item)] /\ asked'["text"] = <<>> /\ LastIs(asked'["chapters"], s)
        /\ LastIs(asked'["series"], s) /\ Among(asked'["series"], s)
    <2> DEFINE g == Ask(f, "chapters", s)
    <2>1. /\ g \in [Kind -> Seq(Item)] /\ LastIs(g["chapters"], s)
          /\ \A l \in Kind \ {"chapters"} : g[l] = f[l]
      BY <1>1, <1>3, AskedFor
    <2>2. asked' = g
      BY <1>1
    <2> QED
      BY <1>3, <2>1, <2>2
  <1>5. route'.series = s /\ route'.chapter = NoPage
    BY <1>1
  <1>6. Expected'
    BY <1>1, <1>4, <1>5
       DEF Expected, ListExpected, KnownOrAsked, DetailExpected, PagesExpected, TextExpected, onReader
  <1> QED
    BY <1>1, <1>4, <1>6 DEF PageInv

\* What every answer keeps, and the invariant it may use: it overtook none.
LEMMA AnswerTakes ==
    ASSUME PageInv, NEW k \in Kind, NEW i \in DOMAIN asked[k], Taken(k, i), Undisturbed'
    PROVE  Undisturbed /\ Expected /\ ~overtakes(k, i) /\ route' = route
  BY DEF Taken, Undisturbed, PageInv

LEMMA PagesCome ==
    ASSUME PageInv, NEW i \in DOMAIN asked["pages"], pagesAnswered(i) PROVE PageInv'
  <1> USE DEF Kind
  <1> DEFINE c == asked["pages"][i]
             mounted == onReader /\ isNovel /\ ~pages.error
             again == text # "none" /\ pages.of = c
             w == Without("pages", i)
  <1>1. /\ Taken("pages", i) /\ UNCHANGED <<list, byId, detail, route, readerFaults>>
        /\ pages' = [of |-> c, loading |-> FALSE, error |-> pages.error]
        /\ IF mounted /\ ~again THEN text' = "loading" /\ asked' = Ask(w, "text", c)
                                ELSE text' = text /\ asked' = w
    BY DEF pagesAnswered, Taken
  <1>2. /\ w \in [Kind -> Seq(Item)] /\ c \in Item
        /\ \A l \in Kind \ {"pages"} : w[l] = asked[l]
        /\ \A x : ~overtakes("pages", i) /\ LastIs(asked["pages"], x)
                     => LastIs(w["pages"], x) \/ (w["pages"] = <<>> /\ c = x)
    BY AnswerLeaves DEF PageInv
  <1>3. /\ Ask(w, "text", c) \in [Kind -> Seq(Item)] /\ LastIs(Ask(w, "text", c)["text"], c)
        /\ \A l \in Kind \ {"text"} : Ask(w, "text", c)[l] = w[l]
    BY <1>2, AskedFor
  <1>4. ~pages'.loading /\ pages'.error = pages.error /\ pages'.of = c
    BY <1>1
  <1> HIDE DEF c, w
  <1>5. /\ asked' \in [Kind -> Seq(Item)]
        /\ asked'["pages"] = w["pages"] /\ asked'["chapters"] = asked["chapters"]
        /\ asked'["series"] = asked["series"]
        /\ IF mounted /\ ~again THEN LastIs(asked'["text"], c) /\ text' = "loading"
                                ELSE asked'["text"] = asked["text"] /\ text' = text
    BY <1>1, <1>2, <1>3
  <1>6. ASSUME Undisturbed' PROVE Expected'
    <2>1. Expected /\ ~overtakes("pages", i) /\ route' = route /\ ~pages.error
      BY <1>1, <1>6, AnswerTakes DEF c, PageInv, Undisturbed
    <2>2. ListExpected' /\ KnownOrAsked' /\ DetailExpected'
      BY <1>1, <1>5, <2>1 DEF Expected, ListExpected, KnownOrAsked, DetailExpected, onReader
    <2>3. PagesExpected'
      <3> SUFFICES ASSUME onReader'
                   PROVE  LastIs(asked'["pages"], route.chapter)
                            \/ (asked'["pages"] = <<>> /\ c = route.chapter)
        BY <1>4, <2>1 DEF PagesExpected
      <3>1. onReader
        BY <2>1 DEF onReader
      <3>2. LastIs(asked["pages"], route.chapter) \/ asked["pages"] = <<>>
        BY <2>1, <3>1 DEF Expected, PagesExpected
      <3>3. asked["pages"] # <<>>
        OBVIOUS
      <3> QED
        BY <1>2, <1>5, <2>1, <3>2, <3>3
    <2>4. TextExpected'
      <3>1. onReader' = onReader /\ isNovel' = isNovel
        BY <1>1, <2>1 DEF onReader, isNovel
      <3>2. CASE mounted /\ ~again
        BY <1>4, <1>5, <3>1, <3>2 DEF TextExpected
      <3>3. CASE mounted /\ again
        <4>1. ~pages.loading /\ pages.of = c
          BY <2>1, <3>3 DEF Expected, TextExpected
        <4> QED
          BY <1>4, <1>5, <2>1, <3>1, <3>3, <4>1 DEF Expected, TextExpected
      <3>4. CASE ~mounted
        BY <1>4, <1>5, <2>1, <3>1, <3>4 DEF Expected, TextExpected
      <3> QED
        BY <3>2, <3>3, <3>4
    <2> QED
      BY <2>2, <2>3, <2>4 DEF Expected
  <1> QED
    BY <1>1, <1>4, <1>5, <1>6 DEF PageInv

LEMMA ListComes ==
    ASSUME PageInv, NEW i \in DOMAIN asked["chapters"], chaptersAnswered(i) PROVE PageInv'
  <1> USE DEF Kind
  <1> DEFINE s == asked["chapters"][i]
             w == Without("chapters", i)
  <1>1. /\ Taken("chapters", i) /\ UNCHANGED <<pages, byId, detail, text, route, readerFaults>>
        /\ list' = s /\ asked' = w
    BY DEF chaptersAnswered, Taken
  <1>2. /\ w \in [Kind -> Seq(Item)]
        /\ \A l \in Kind \ {"chapters"} : w[l] = asked[l]
        /\ \A x : ~overtakes("chapters", i) /\ LastIs(asked["chapters"], x)
                     => LastIs(w["chapters"], x) \/ (w["chapters"] = <<>> /\ s = x)
    BY AnswerLeaves DEF PageInv
  <1>3. asked["chapters"] # <<>>
    OBVIOUS
  <1> HIDE DEF s, w
  <1>4. ASSUME Undisturbed' PROVE Expected'
    <2>1. Expected /\ ~overtakes("chapters", i) /\ route' = route
      BY <1>1, <1>4, AnswerTakes
    <2>2. ListExpected'
      BY <1>1, <1>2, <1>3, <2>1 DEF Expected, ListExpected
    <2>3. KnownOrAsked' /\ DetailExpected' /\ PagesExpected'
      BY <1>1, <1>2, <2>1 DEF Expected, KnownOrAsked, DetailExpected, PagesExpected, onReader
    <2>4. TextExpected'
      <3>1. onReader' = onReader /\ isNovel' = isNovel
        BY <1>1, <2>1 DEF onReader, isNovel
      <3> QED
        BY <1>1, <1>2, <2>1, <3>1 DEF Expected, TextExpected
    <2> QED
      BY <2>2, <2>3, <2>4 DEF Expected
  <1> QED
    BY <1>1, <1>2, <1>4 DEF PageInv

\* A series becomes known; on the reader page everything is asked for again.
LEMMA SeriesComes ==
    ASSUME ReaderInv, PageInv, NEW i \in DOMAIN asked["series"], seriesAnswered(i) PROVE PageInv'
  <1> USE DEF Kind
  <1> DEFINE s == asked["series"][i]
             w == Without("series", i)
  <1>1. /\ Taken("series", i) /\ UNCHANGED <<route, readerFaults>> /\ byId' = byId \cup {s}
    BY DEF seriesAnswered, Taken
  <1>2. /\ w \in [Kind -> Seq(Item)]
        /\ \A l \in Kind \ {"series"} : w[l] = asked[l]
        /\ \A y : Among(asked["series"], y) /\ y # s => Among(w["series"], y)
        /\ \A x : ~overtakes("series", i) /\ LastIs(asked["series"], x)
                     => LastIs(w["series"], x) \/ (w["series"] = <<>> /\ s = x)
    BY AnswerLeaves DEF PageInv
  <1>3. asked["series"] # <<>>
    OBVIOUS
  <1>4. CASE onReader
    <2>1. readerEffect(route.series, route.chapter, byId', w)
      BY <1>4 DEF seriesAnswered
    <2>2. route.series \in Item /\ route.chapter \in Item
      BY DEF ReaderInv, Item
    <2>3. /\ asked' \in [Kind -> Seq(Item)]
          /\ LastIs(asked'["pages"], route.chapter) /\ LastIs(asked'["chapters"], route.series)
          /\ asked'["text"] = <<>>
          /\ route.series \notin byId' => Among(asked'["series"], route.series)
          /\ pages' = Loading /\ text' = "none"
      BY <1>2, <2>1, <2>2, EffectAsks
    <2>4. pages'.loading /\ ~pages'.error
      BY <2>3 DEF Loading
    <2>5. Expected'
      BY <1>1, <1>4, <2>3, <2>4
         DEF Expected, ListExpected, KnownOrAsked, DetailExpected, PagesExpected, TextExpected, onReader
    <2> QED
      BY <1>1, <2>3, <2>4, <2>5 DEF PageInv
  <1>5. CASE ~onReader
    <2>1. /\ detail' = [of |-> s, loading |-> FALSE, error |-> detail.error]
          /\ asked' = w /\ UNCHANGED <<list, pages, text>>
      BY <1>5 DEF seriesAnswered
    <2>2. ~detail'.loading /\ detail'.of = s
      BY <2>1
    <2> HIDE DEF s, w
    <2>3. ASSUME Undisturbed' PROVE Expected'
      <3>1. Expected /\ ~overtakes("series", i) /\ route' = route /\ ~onReader'
        BY <1>1, <1>5, <2>3, AnswerTakes DEF onReader
      <3>2. ListExpected'
        BY <1>2, <2>1, <3>1 DEF Expected, ListExpected
      <3>3. KnownOrAsked'
        BY <1>1, <1>2, <2>1, <3>1 DEF Expected, KnownOrAsked
      <3>4. DetailExpected'
        BY <1>2, <1>3, <1>5, <2>1, <2>2, <3>1 DEF Expected, DetailExpected
      <3>5. PagesExpected' /\ TextExpected'
        BY <1>2, <1>5, <2>1, <3>1 DEF Expected, PagesExpected, TextExpected
      <3> QED
        BY <3>2, <3>3, <3>4, <3>5 DEF Expected
    <2> QED
      BY <1>1, <1>2, <2>1, <2>3 DEF PageInv
  <1> QED
    BY <1>4, <1>5

LEMMA TextComes ==
    ASSUME PageInv, NEW i \in DOMAIN asked["text"], textAnswered(i) PROVE PageInv'
  <1> USE DEF Kind
  <1> DEFINE c == asked["text"][i]
             w == Without("text", i)
  <1>1. /\ Taken("text", i) /\ UNCHANGED <<pages, list, byId, detail, route, readerFaults>>
        /\ text' = c /\ asked' = w
    BY DEF textAnswered, Taken
  <1>2. /\ w \in [Kind -> Seq(Item)]
        /\ \A l \in Kind \ {"text"} : w[l] = asked[l]
        /\ \A x : ~overtakes("text", i) /\ LastIs(asked["text"], x)
                     => LastIs(w["text"], x) \/ (w["text"] = <<>> /\ c = x)
    BY AnswerLeaves DEF PageInv
  <1>3. asked["text"] # <<>>
    OBVIOUS
  <1> HIDE DEF c, w
  <1>4. ASSUME Undisturbed' PROVE Expected'
    <2>1. Expected /\ ~overtakes("text", i) /\ route' = route
      BY <1>1, <1>4, AnswerTakes
    <2>2. ListExpected' /\ KnownOrAsked' /\ DetailExpected' /\ PagesExpected'
      BY <1>1, <1>2, <2>1
         DEF Expected, ListExpected, KnownOrAsked, DetailExpected, PagesExpected, onReader
    <2>3. onReader' = onReader /\ isNovel' = isNovel
      BY <1>1, <2>1 DEF onReader, isNovel
    <2>4. onReader /\ isNovel /\ ~pages.loading /\ LastIs(asked["text"], pages.of)
      BY <1>3, <2>1 DEF Expected, TextExpected
    <2>5. TextExpected'
      BY <1>1, <1>2, <2>1, <2>3, <2>4 DEF TextExpected
    <2> QED
      BY <2>2, <2>5 DEF Expected
  <1> QED
    BY <1>1, <1>2, <1>4 DEF PageInv

\* A page on which something failed promises nothing.
LEMMA FailureExcuses ==
    ASSUME PageInv, NEW k \in Kind, NEW i \in DOMAIN asked[k], requestFailed(k, i) PROVE PageInv'
  <1> DEFINE w == Without(k, i)
  <1>1. w \in [Kind -> Seq(Item)] /\ readerFaults' \in Nat /\ readerFaults' # 0
        /\ asked' = (IF k = "pages" THEN Unmounted(w) ELSE w)
    BY AnswerLeaves DEF requestFailed, PageInv
  <1> HIDE DEF w
  <1>2. asked' \in [Kind -> Seq(Item)]
    <2>1. <<>> \in Seq(Item)
      OBVIOUS
    <2> QED
      BY <1>1, <2>1 DEF Unmounted
  <1> QED
    BY <1>1, <1>2 DEF PageInv, Undisturbed

LEMMA RetryExcused == ASSUME ReaderInv, PageInv, retry PROVE PageInv'
  <1> USE DEF Kind
  <1> DEFINE u == Unmounted(asked)
  <1>1. u \in [Kind -> Seq(Item)] /\ route.chapter \in Item
    <2>1. <<>> \in Seq(Item)
      OBVIOUS
    <2> QED
      BY <2>1 DEF Unmounted, PageInv, ReaderInv, Item
  <1> HIDE DEF u
  <1>2. asked' = Ask(u, "pages", route.chapter) /\ UNCHANGED readerFaults /\ readerFaults # 0
    BY DEF retry, PageInv, u
  <1>3. asked' \in [Kind -> Seq(Item)]
    BY <1>1, <1>2, AskedFor
  <1> QED
    BY <1>2, <1>3 DEF PageInv, Undisturbed

LEMMA PageStep == ASSUME ReaderInv, PageInv, [ReaderNext]_readerVars PROVE PageInv'
  <1>1. CASE markerSeen \/ UNCHANGED readerVars
    <2>1. UNCHANGED <<route, pages, list, byId, detail, text, asked, overtaken, readerFaults>>
      BY <1>1 DEF markerSeen, readerVars
    <2> QED
      BY <2>1 DEF PageInv, Undisturbed, Expected, ListExpected, KnownOrAsked, DetailExpected,
                  PagesExpected, TextExpected, onReader, isNovel
  <1> QED
    BY <1>1, ChapterOpened, SeriesOpened, PagesCome, ListComes, SeriesComes, TextComes,
       FailureExcuses, RetryExcused DEF ReaderNext

\* With nothing in flight, nothing failed and nothing overtaken, the reader page and the
\* series page show what their URL names, for any catalogue and number of visits (ReaderPage,
\* stores/series.store.ts and the pages' effects).
THEOREM QuietPagesAreRight == ReaderSpec => []QuietPageIsRight
  <1>1. PageInv => QuietPageIsRight
    <2> SUFFICES ASSUME PageInv, \A k \in Kind : asked[k] = <<>>, Undisturbed PROVE
                   /\ list = route.series /\ route.series \in byId
                   /\ ~pages.loading \/ ~onReader
                   /\ onReader => /\ pages.of = route.chapter
                                  /\ text = IF isNovel THEN route.chapter ELSE "none"
                   /\ ~onReader => ~detail.loading /\ detail.of = route.series
      BY DEF QuietPageIsRight, Undisturbed
    <2>1. Expected /\ \A k \in Kind : Len(asked[k]) = 0
      BY DEF PageInv
    <2>2. \A k \in Kind : \A x : ~LastIs(asked[k], x) /\ ~Among(asked[k], x)
      BY <2>1 DEF LastIs, Among
    <2> QED
      BY <2>1, <2>2 DEF Kind, Expected, ListExpected, KnownOrAsked, DetailExpected,
                        PagesExpected, TextExpected
  <1>2. ReaderInv /\ PageInv /\ [ReaderNext]_readerVars => (ReaderInv /\ PageInv)'
    BY ReaderStep, PageStep
  <1> QED
    BY <1>1, <1>2, ReaderStarts, PageStarts, PTL DEF ReaderSpec

-----------------------------------------------------------------------------
(***************************************************************************)
(* The journal.                                                            *)
(***************************************************************************)
IsAscending(q) == \A i, j \in DOMAIN q : i < j => q[i] < q[j]

\* Counting from below puts the numbers of a finite set in order.
LEMMA AscendingExists ==
    ASSUME NEW S \in SUBSET Nat, IsFiniteSet(S)
    PROVE  \E q \in [1..Cardinality(S) -> S] : IsAscending(q)
  <1> DEFINE n == Cardinality(S)
             below(e) == {d \in S : d <= e}
             rank == [e \in S |-> Cardinality(below(e))]
  <1>1. n \in Nat
    BY FS_CardinalityType
  <1>2. ASSUME NEW e \in S PROVE rank[e] \in 1..n
    <2>1. below(e) \in SUBSET S /\ e \in below(e)
      OBVIOUS
    <2>2. IsFiniteSet(below(e)) /\ Cardinality(below(e)) <= n
      BY <2>1, FS_Subset
    <2>3. Cardinality(below(e)) \in Nat /\ Cardinality(below(e)) # 0
      BY <2>1, <2>2, FS_CardinalityType, FS_EmptySet
    <2> QED
      BY <1>1, <2>2, <2>3
  <1>3. ASSUME NEW e \in S, NEW f \in S, e < f PROVE rank[e] < rank[f]
    <2>1. below(e) \in SUBSET below(f) /\ f \in below(f) /\ f \notin below(e)
          /\ below(f) \in SUBSET S
      <3>1. \A d \in S : d \in Nat
        OBVIOUS
      <3>2. e \in Nat /\ f \in Nat
        BY <3>1
      <3>3. ASSUME NEW d \in S, d <= e PROVE d <= f
        <4>1. d \in Nat
          BY <3>1
        <4> QED
          BY <1>3, <3>2, <3>3, <4>1
      <3>4. f <= f /\ ~(f <= e)
        BY <1>3, <3>2
      <3> QED
        BY <3>3, <3>4
    <2>2. IsFiniteSet(below(f))
      BY <2>1, FS_Subset
    <2>3. Cardinality(below(e)) <= Cardinality(below(f))
          /\ (Cardinality(below(f)) = Cardinality(below(e)) => below(f) = below(e))
      BY <2>1, <2>2, FS_Subset
    <2>4. Cardinality(below(e)) # Cardinality(below(f))
      BY <2>1, <2>3
    <2>5. rank[e] = Cardinality(below(e)) /\ rank[f] = Cardinality(below(f))
      OBVIOUS
    <2> QED
      BY <1>2, <2>3, <2>4, <2>5
  <1> HIDE DEF rank
  <1>4. rank \in Injection(S, 1..n)
    <2>1. rank \in [S -> 1..n]
      BY <1>2 DEF rank
    <2>2. \A e, f \in S : rank[e] = rank[f] => e = f
      BY <1>2, <1>3
    <2> QED
      BY <2>1, <2>2 DEF Injection, IsInjective
  <1>5. IsFiniteSet(1..n) /\ Cardinality(1..n) = n
    BY <1>1, FS_Interval
  <1>6. rank \in Surjection(S, 1..n)
    BY <1>4, <1>5, FS_Injection
  <1>7. \A i \in 1..n : \E e \in S : rank[e] = i
    BY <1>6 DEF Surjection
  <1> DEFINE q == [i \in 1..n |-> CHOOSE e \in S : rank[e] = i]
  <1>8. \A i \in 1..n : q[i] \in S /\ rank[q[i]] = i
    BY <1>7
  <1>9. q \in [1..n -> S]
    BY <1>8
  <1>10. ASSUME NEW i \in DOMAIN q, NEW j \in DOMAIN q, i < j PROVE q[i] < q[j]
    <2>1. i \in 1..n /\ j \in 1..n
      OBVIOUS
    <2> HIDE DEF q
    <2>2. q[i] \in S /\ q[j] \in S /\ rank[q[i]] = i /\ rank[q[j]] = j
      BY <1>8, <2>1
    <2>3. i \in Nat /\ j \in Nat
      BY <1>1, <2>1
    <2>4. q[i] \in Nat /\ q[j] \in Nat
      BY <2>2
    <2> QED
      BY <1>3, <1>10, <2>2, <2>3, <2>4
  <1> QED
    BY <1>9, <1>10 DEF IsAscending

\* What is in order has no number twice, so it has them all.
LEMMA AscendingIsOnto ==
    ASSUME NEW S \in SUBSET Nat, IsFiniteSet(S), NEW q \in [1..Cardinality(S) -> S], IsAscending(q)
    PROVE  \A e \in S : \E i \in 1..Cardinality(S) : q[i] = e
  <1> DEFINE n == Cardinality(S)
  <1>1. n \in Nat
    BY FS_CardinalityType
  <1>2. IsFiniteSet(1..n) /\ Cardinality(1..n) = n
    BY <1>1, FS_Interval
  <1>3. ASSUME NEW i \in 1..n, NEW j \in 1..n, q[i] = q[j] PROVE i = j
    <2>1. i \in Nat /\ j \in Nat
      BY <1>1
    <2>3. q[i] \in S /\ q[j] \in S
      OBVIOUS
    <2>4. q[i] \in Nat /\ q[j] \in Nat
      BY <2>3
    <2>2. (i < j => q[i] < q[j]) /\ (j < i => q[j] < q[i])
      BY DEF IsAscending
    <2> QED
      BY <1>3, <2>1, <2>2, <2>4
  <1>4. q \in Injection(1..n, S)
    BY <1>3 DEF Injection, IsInjective
  <1>5. q \in Surjection(1..n, S)
    BY <1>2, <1>4, FS_Injection
  <1> QED
    BY <1>5 DEF Surjection

\* Up to where they first differ, the one cannot have the smaller number.
LEMMA NoneSmaller ==
    ASSUME NEW n \in Nat, NEW S \in SUBSET Nat, NEW p \in [1..n -> S], NEW q \in [1..n -> S],
           IsAscending(p), IsAscending(q), \A e \in S : \E i \in 1..n : q[i] = e,
           NEW k \in 1..n, \A j \in 1..n : j < k => p[j] = q[j]
    PROVE  ~(p[k] < q[k])
  <1> SUFFICES ASSUME p[k] < q[k] PROVE FALSE
    OBVIOUS
  <1>1. PICK j \in 1..n : q[j] = p[k]
    OBVIOUS
  <1> j \in Nat /\ k \in Nat
    OBVIOUS
  <1>4. p[k] \in S /\ q[k] \in S
    OBVIOUS
  <1> p[k] \in Nat /\ q[k] \in Nat
    BY <1>4
  <1>2. CASE j < k
    <2>1. p[j] = p[k] /\ p[j] < p[k]
      BY <1>1, <1>2 DEF IsAscending
    <2> QED
      BY <2>1
  <1>3. CASE j > k
    <2>1. q[k] < q[j]
      BY <1>3 DEF IsAscending
    <2> QED
      BY <1>1, <2>1
  <1> QED
    BY <1>1, <1>2, <1>3

\* There is one order.
LEMMA AscendingIs ==
    ASSUME NEW S \in SUBSET Nat, IsFiniteSet(S)
    PROVE  /\ Ascending(S) \in [1..Cardinality(S) -> S] /\ IsAscending(Ascending(S))
           /\ \A e \in S : \E i \in 1..Cardinality(S) : Ascending(S)[i] = e
           /\ \A q \in [1..Cardinality(S) -> S] : IsAscending(q) => q = Ascending(S)
  <1> DEFINE n == Cardinality(S)
             p == Ascending(S)
  <1>1. p \in [1..n -> S] /\ IsAscending(p)
    BY AscendingExists DEF Ascending, IsAscending
  <1> HIDE DEF p
  <1>2. \A e \in S : \E i \in 1..n : p[i] = e
    BY <1>1, AscendingIsOnto
  <1>3. ASSUME NEW q \in [1..n -> S], IsAscending(q) PROVE q = p
    <2> SUFFICES ASSUME q # p PROVE FALSE
      OBVIOUS
    <2>1. n \in Nat
      BY FS_CardinalityType
    <2> DEFINE D == {k \in 1..n : p[k] # q[k]}
    <2>2. D \in SUBSET Nat /\ D # {}
      BY <1>1, <2>1
    <2>3. PICK k \in D : \A j \in D : k <= j
      BY <2>2, LeastNumber
    <2>4. \A j \in 1..n : j < k => p[j] = q[j]
      BY <2>1, <2>3
    <2>5. \A e \in S : \E i \in 1..n : q[i] = e
      BY <1>3, AscendingIsOnto
    <2>6. ~(p[k] < q[k]) /\ ~(q[k] < p[k])
      BY <1>1, <1>2, <1>3, <2>1, <2>4, <2>5, NoneSmaller
    <2>7. p[k] \in Nat /\ q[k] \in Nat /\ p[k] # q[k]
      BY <1>1, <2>3
    <2> QED
      BY <2>6, <2>7
  <1> QED
    BY <1>1, <1>2, <1>3 DEF p

-----------------------------------------------------------------------------
Line == [entry : Nat, version : Nat]

NewestFirst(q) == \A i, j \in DOMAIN q : i < j => q[i].entry > q[j].entry

\* A line of the list that is a row; and a row that is in the list.
IsRow(x)       == x.entry \in Entry /\ x.version = journal[x.entry] /\ x.version > 0
Lists(q, e)    == \E i \in DOMAIN q : q[i].entry = e
ListsRows(q)   == /\ NewestFirst(q) /\ \A i \in DOMAIN q : IsRow(q[i])
                  /\ \A e \in Entry : journal[e] > 0 => Lists(q, e)

LEMMA RowsFinite ==
    ASSUME NEW S \in SUBSET Entry PROVE S \in SUBSET Nat /\ IsFiniteSet(S) /\ Cardinality(S) \in Nat
  <1>1. IsFiniteSet(Entry) /\ Entry \in SUBSET Nat
    BY JournalAssumption, FS_Interval DEF Entry
  <1>2. IsFiniteSet(S)
    BY <1>1, FS_Subset
  <1> QED
    BY <1>1, <1>2, FS_CardinalityType

\* getEntries lists the rows.
LEMMA ServerLists ==
    ASSUME journal \in [Entry -> Nat] PROVE getEntries \in Seq(Line) /\ ListsRows(getEntries)
  <1> DEFINE S == {e \in Entry : journal[e] > 0}
             n == Cardinality(S)
             p == Ascending(S)
             g == getEntries
  <1>1. n \in Nat
    BY RowsFinite
  <1>2. p \in [1..n -> S] /\ IsAscending(p) /\ \A e \in S : \E i \in 1..n : p[i] = e
    <2>1. S \in SUBSET Nat /\ IsFiniteSet(S)
      BY RowsFinite
    <2> QED
      BY <2>1, AscendingIs
  <1>3. g = [i \in 1..n |-> [entry |-> p[n + 1 - i], version |-> journal[p[n + 1 - i]]]]
    BY DEF getEntries
  <1> HIDE DEF p, g
  <1>4. \A i \in 1..n : n + 1 - i \in 1..n /\ p[n + 1 - i] \in S
    BY <1>1, <1>2
  <1> HIDE DEF n
  <1>5. \A i \in 1..n : g[i].entry = p[n + 1 - i] /\ g[i].version = journal[p[n + 1 - i]] /\ g[i] \in Line
    BY <1>3, <1>4, JournalAssumption DEF Entry, Line
  <1>6. g \in Seq(Line) /\ DOMAIN g = 1..n
    <2>1. g \in [1..n -> Line]
      BY <1>3, <1>5
    <2> QED
      BY <1>1, <2>1, SeqDef
  <1>7. NewestFirst(g)
    <2> SUFFICES ASSUME NEW i \in 1..n, NEW j \in 1..n, i < j PROVE g[i].entry > g[j].entry
      BY <1>6 DEF NewestFirst
    <2>1. n + 1 - j < n + 1 - i /\ n + 1 - j \in 1..n /\ n + 1 - i \in 1..n
      BY <1>1
    <2>2. p[n + 1 - j] < p[n + 1 - i]
      BY <1>2, <2>1 DEF IsAscending
    <2>3. p[n + 1 - j] \in S /\ p[n + 1 - i] \in S /\ S \in SUBSET Nat
      BY <1>2, <2>1, RowsFinite
    <2>4. p[n + 1 - j] \in Nat /\ p[n + 1 - i] \in Nat
      BY <2>3
    <2>5. g[i].entry = p[n + 1 - i] /\ g[j].entry = p[n + 1 - j]
      BY <1>5
    <2> QED
      BY <2>2, <2>4, <2>5
  <1>8. \A i \in DOMAIN g : IsRow(g[i])
    BY <1>4, <1>5, <1>6 DEF IsRow
  <1>9. ASSUME NEW e \in Entry, journal[e] > 0 PROVE Lists(g, e)
    <2>1. PICK i \in 1..n : p[i] = e
      BY <1>2, <1>9
    <2>2. n + 1 - i \in 1..n /\ n + 1 - (n + 1 - i) = i
      BY <1>1
    <2> QED
      BY <1>5, <1>6, <2>1, <2>2 DEF Lists
  <1> QED
    BY <1>6, <1>7, <1>8, <1>9 DEF ListsRows, g

\* What lists the rows is what getEntries returns.
LEMMA ListIsTheServers ==
    ASSUME journal \in [Entry -> Nat], NEW q \in Seq(Line), ListsRows(q) PROVE q = getEntries
  <1> DEFINE S == {e \in Entry : journal[e] > 0}
             m == Len(q)
             p == [i \in 1..m |-> q[m + 1 - i].entry]
  <1>1. m \in Nat /\ DOMAIN q = 1..m /\ \A i \in 1..m : q[i] \in Line
    OBVIOUS
  <1>2. \A i \in 1..m : m + 1 - i \in 1..m /\ m + 1 - (m + 1 - i) = i
    BY <1>1
  <1>3. \A i \in 1..m : q[i].entry \in S /\ q[i].version = journal[q[i].entry]
    BY <1>1 DEF ListsRows, IsRow
  <1>4. S \in SUBSET Nat /\ IsFiniteSet(S) /\ Cardinality(S) \in Nat
    BY RowsFinite
  <1> HIDE DEF m
  <1>5. p \in [1..m -> S]
    BY <1>2, <1>3
  <1>6. IsAscending(p)
    <2> SUFFICES ASSUME NEW i \in 1..m, NEW j \in 1..m, i < j PROVE p[i] < p[j]
      BY DEF IsAscending
    <2>1. m + 1 - j < m + 1 - i /\ m + 1 - j \in 1..m /\ m + 1 - i \in 1..m
      BY <1>1
    <2>2. q[m + 1 - j].entry > q[m + 1 - i].entry
      BY <1>1, <2>1 DEF ListsRows, NewestFirst
    <2>3. q[m + 1 - j].entry \in Nat /\ q[m + 1 - i].entry \in Nat
      BY <1>3, <1>4, <2>1
    <2> QED
      BY <2>2, <2>3
  <1>7. \A e \in S : \E i \in 1..m : p[i] = e
    <2> SUFFICES ASSUME NEW e \in S PROVE \E i \in 1..m : p[i] = e
      OBVIOUS
    <2>1. PICK i \in 1..m : q[i].entry = e
      BY <1>1 DEF ListsRows, Lists
    <2>2. p[m + 1 - i] = e
      BY <1>2, <2>1
    <2> QED
      BY <1>2, <2>2
  <1>8. m = Cardinality(S)
    <2>1. ASSUME NEW i \in 1..m, NEW j \in 1..m, p[i] = p[j] PROVE i = j
      <3> HIDE DEF p
      <3>1. i \in Nat /\ j \in Nat /\ p[i] \in Nat /\ p[j] \in Nat
        BY <1>1, <1>4, <1>5
      <3>2. (i < j => p[i] < p[j]) /\ (j < i => p[j] < p[i])
        BY <1>5, <1>6 DEF IsAscending
      <3> QED
        BY <2>1, <3>1, <3>2
    <2>2. p \in Injection(1..m, S) /\ p \in Surjection(1..m, S)
      BY <1>5, <1>7, <2>1 DEF Injection, IsInjective, Surjection
    <2>3. Cardinality(1..m) = m
      BY <1>1, FS_Interval
    <2> QED
      BY <1>4, <2>2, <2>3, FS_Injection
  <1>9. p = Ascending(S)
    BY <1>4, <1>5, <1>6, <1>8, AscendingIs
  <1>10. getEntries = [i \in 1..m |-> [entry |-> p[m + 1 - i], version |-> journal[p[m + 1 - i]]]]
    BY <1>8, <1>9 DEF getEntries
  <1>11. ASSUME NEW i \in 1..m
         PROVE  [entry |-> p[m + 1 - i], version |-> journal[p[m + 1 - i]]] = q[i]
    <2>1. p[m + 1 - i] = q[i].entry /\ q[i].version = journal[q[i].entry] /\ q[i] \in Line
      BY <1>1, <1>2, <1>3
    <2> HIDE DEF p
    <2> QED
      BY <2>1 DEF Line
  <1>12. q = [i \in 1..m |-> q[i]]
    BY <1>1
  <1> HIDE DEF p
  <1> QED
    BY <1>10, <1>11, <1>12

-----------------------------------------------------------------------------
\* The requests of the journal, and what one of each kind may hold.
JournalOp == {"fetch", "create", "update", "delete"}
JournalCall == [op : JournalOp, entry : Entry \cup {0}, version : Nat,
                answer : {"none", "ok", "missing"}, list : Seq(Line), visit : Nat]

Holds(r) ==
    /\ r.op \in {"update", "delete"} => r.entry \in Entry
    /\ r.op = "create" => r.version = 1 /\ (r.answer = "ok" => r.entry \in Entry)
    /\ r.op = "update" => r.version > 0
    /\ r.op = "delete" => r.version = 0
    /\ r.op \in {"fetch", "create"} => r.answer # "missing"

JournalTypes ==
    /\ journal \in [Entry -> Nat] /\ created \in 0..MaxEntries /\ entries \in Seq(Line)
    /\ isLoading \in BOOLEAN /\ disturbed \in BOOLEAN
    /\ editing \in Entry \cup {0} /\ saving \in Entry \cup {0} /\ deleting \subseteq Entry
    /\ sent \subseteq JournalCall /\ \A r \in sent : Holds(r)
    /\ versions \in Nat /\ journalVisits \in Nat /\ journalFaults \in Nat
    /\ \A e \in Entry : journal[e] > 0 => e <= created

\* Whoever waits in the page waits for a request in flight.
Mine(op) == {r \in sent : r.op = op /\ r.visit = journalVisits}
Waits ==
    /\ isLoading => \E r \in sent : r.op = "fetch"
    /\ saving # 0 => Mine("update") # {}
    /\ createDialog = "saving" => Mine("create") # {}
    /\ \A e \in deleting : \E r \in Mine("delete") : r.entry = e

\* The other way round, of a page nobody disturbed: lists and writes do not meet, and a dialog
\* has one write in flight.
OneEach ==
    /\ \A q, r \in sent : q.op = "fetch" <=> r.op = "fetch"
    /\ \A r \in sent : r.op # "fetch" => r.visit = journalVisits
    /\ \A q, r \in sent : q.op = "update" /\ r.op = "update" => q = r
    /\ \A q, r \in sent : q.op = "create" /\ r.op = "create" => q = r
    /\ \A r \in sent : r.op = "update" => saving # 0
    /\ \A r \in sent : r.op = "create" => createDialog = "saving"

Done(op) == {r \in sent : r.op = op /\ r.answer = "ok"}

\* An entry the page knows: one that was created, and not by an answer still on its way.
Known(e) == e \in 1..created /\ \A c \in Done("create") : c.entry # e
KnownOnly ==
    /\ \A i \in DOMAIN entries : Known(entries[i].entry)
    /\ editing # 0 => Known(editing)
    /\ \A r \in sent : r.op \in {"update", "delete"} => Known(r.entry)

\* What an answer on its way will say is so.
AnswersTrue ==
    /\ \A r \in Done("fetch")  : ListsRows(r.list)
    /\ \A r \in Done("create") : r.entry = created /\ journal[r.entry] = 1
    /\ \A r \in Done("update") : journal[r.entry] \in {r.version, 0}
    /\ \A r \in Done("delete") : journal[r.entry] = 0

\* A line that is not the row is about to be updated to it, or to go with it.
Explained(x) ==
    \/ IsRow(x)
    \/ \E u \in Done("update") : u.entry = x.entry /\ journal[x.entry] = u.version
    \/ journal[x.entry] = 0 /\ \E d \in Done("delete") : d.entry = x.entry
ListExplained ==
    (journalVisits > 0 /\ \A r \in sent : r.op # "fetch") =>
        /\ NewestFirst(entries)
        /\ \A i \in DOMAIN entries : Explained(entries[i])
        /\ \A e \in Entry : journal[e] > 0 =>
              Lists(entries, e) \/ \E c \in Done("create") : c.entry = e

LinesTold == OneEach /\ KnownOnly /\ AnswersTrue /\ ListExplained

JournalInv == /\ JournalTypes /\ Waits
              /\ ~disturbed /\ journalFaults = 0 => LinesTold

LEMMA JournalStarts == JournalInit => JournalInv
  <1> SUFFICES ASSUME JournalInit PROVE JournalInv
    OBVIOUS
  <1> USE DEF JournalInit
  <1>1. <<>> \in Seq(Line)
    OBVIOUS
  <1>2. JournalTypes
    <2>1. journal \in [Entry -> Nat] /\ \A e \in Entry : ~(journal[e] > 0)
      OBVIOUS
    <2>2. created \in 0..MaxEntries /\ versions \in Nat /\ journalVisits \in Nat /\ journalFaults \in Nat
      BY JournalAssumption
    <2> QED
      BY <1>1, <2>1, <2>2 DEF JournalTypes
  <1>3. Waits
    BY DEF Waits
  <1>4. LinesTold
    BY DEF LinesTold, OneEach, KnownOnly, AnswersTrue, ListExplained, Done
  <1> QED
    BY <1>2, <1>3, <1>4 DEF JournalInv

\* What a new request holds, and what an answered one does.
LEMMA SentIs ==
    ASSUME JournalTypes, NEW op \in JournalOp, NEW e \in Entry \cup {0}, NEW v \in Nat
    PROVE  LET n == Sent(op, e, v)
           IN  /\ n \in JournalCall /\ n.op = op /\ n.entry = e /\ n.version = v
               /\ n.answer = "none" /\ n.visit = journalVisits
  <1>1. <<>> \in Seq(Line)
    OBVIOUS
  <1> QED
    BY <1>1 DEF Sent, JournalCall, JournalTypes


\* What the store makes of an answer is a list, without what was deleted and with what was
\* created first; the others keep their order.
LEMMA StoredCreate ==
    ASSUME JournalTypes, NEW r \in JournalCall, r.op = "create"
    PROVE  LET new == [entry |-> r.entry, version |-> r.version]
               s   == stored(r)
           IN  /\ s \in Seq(Line) /\ Len(s) = Len(entries) + 1 /\ s[1] = new
               /\ \A i \in DOMAIN entries : s[i + 1] = entries[i]
  <1> DEFINE new == [entry |-> r.entry, version |-> r.version]
  <1>1. new \in Line /\ entries \in Seq(Line)
    BY JournalAssumption DEF JournalCall, Line, JournalTypes, Entry
  <1>2. stored(r) = <<new>> \o entries
    BY DEF stored
  <1> HIDE DEF new
  <1>3. <<new>> \in Seq(Line) /\ Len(<<new>>) = 1 /\ <<new>>[1] = new
    BY <1>1
  <1>4. <<new>> \o entries \in Seq(Line) /\ Len(<<new>> \o entries) = Len(entries) + 1
    BY <1>1, <1>3, ConcatProperties
  <1>5. (<<new>> \o entries)[1] = new
    BY <1>1, <1>3
  <1>6. \A i \in DOMAIN entries : (<<new>> \o entries)[i + 1] = entries[i]
    BY <1>1, <1>3
  <1> QED
    BY <1>2, <1>4, <1>5, <1>6 DEF new

LEMMA StoredUpdate ==
    ASSUME JournalTypes, NEW r \in JournalCall, r.op = "update"
    PROVE  LET s == stored(r)
           IN  /\ s \in Seq(Line) /\ DOMAIN s = DOMAIN entries
               /\ \A i \in DOMAIN entries :
                     /\ s[i].entry = entries[i].entry
                     /\ s[i].version = IF entries[i].entry = r.entry THEN r.version ELSE entries[i].version
  <1> DEFINE n == Len(entries)
             line(i) == IF entries[i].entry = r.entry THEN [entries[i] EXCEPT !.version = r.version]
                                                      ELSE entries[i]
  <1>1. entries \in Seq(Line) /\ n \in Nat /\ DOMAIN entries = 1..n /\ r.version \in Nat
    BY DEF JournalTypes, JournalCall
  <1>2. stored(r) = [i \in 1..n |-> line(i)]
    BY <1>1 DEF stored
  <1>3. ASSUME NEW i \in 1..n
        PROVE  /\ line(i) \in Line /\ line(i).entry = entries[i].entry
               /\ line(i).version = IF entries[i].entry = r.entry THEN r.version ELSE entries[i].version
    <2>1. entries[i] \in Line
      BY <1>1
    <2> QED
      BY <1>1, <2>1 DEF Line
  <1> HIDE DEF line
  <1>4. stored(r) \in [1..n -> Line]
    BY <1>2, <1>3
  <1>5. stored(r) \in Seq(Line)
    BY <1>1, <1>4, SeqDef
  <1> QED
    BY <1>1, <1>2, <1>3, <1>5

LEMMA StoredDelete ==
    ASSUME JournalTypes, NEW r \in JournalCall, r.op = "delete"
    PROVE  LET s == stored(r)
           IN  /\ s \in Seq(Line) /\ (NewestFirst(entries) => NewestFirst(s))
               /\ \A k \in DOMAIN s : s[k].entry # r.entry /\ \E i \in DOMAIN entries : s[k] = entries[i]
               /\ \A i \in DOMAIN entries : entries[i].entry # r.entry => \E k \in DOMAIN s : s[k] = entries[i]
  <1> DEFINE stay == {i \in DOMAIN entries : entries[i].entry # r.entry}
             n == Cardinality(stay)
             p == Ascending(stay)
             s == stored(r)
  <1>1. entries \in Seq(Line) /\ Len(entries) \in Nat /\ DOMAIN entries = 1..Len(entries)
    BY DEF JournalTypes
  <1>2. stay \in SUBSET Nat /\ IsFiniteSet(stay) /\ n \in Nat
    <2>1. IsFiniteSet(1..Len(entries))
      BY <1>1, FS_Interval
    <2>2. stay \in SUBSET (1..Len(entries))
      BY <1>1
    <2>3. stay \in SUBSET Nat
      BY <1>1, <2>2
    <2>4. IsFiniteSet(stay)
      BY <2>1, <2>2, FS_Subset
    <2> QED
      BY <2>3, <2>4, FS_CardinalityType
  <1>3. p \in [1..n -> stay] /\ IsAscending(p) /\ \A i \in stay : \E k \in 1..n : p[k] = i
    BY <1>2, AscendingIs
  <1>4. s = [k \in 1..n |-> entries[p[k]]]
    BY DEF stored
  <1> HIDE DEF p, n, s
  <1>5. \A k \in 1..n : s[k] = entries[p[k]] /\ p[k] \in stay /\ p[k] \in DOMAIN entries
    BY <1>3, <1>4
  <1>6. s \in [1..n -> Line] /\ DOMAIN s = 1..n
    BY <1>1, <1>4, <1>5
  <1>7. s \in Seq(Line)
    BY <1>2, <1>6, SeqDef DEF n
  <1>8. NewestFirst(entries) => NewestFirst(s)
    BY <1>3, <1>5, <1>6 DEF NewestFirst, IsAscending
  <1>9. \A k \in DOMAIN s : s[k].entry # r.entry /\ \E i \in DOMAIN entries : s[k] = entries[i]
    BY <1>5, <1>6
  <1>10. \A i \in DOMAIN entries : entries[i].entry # r.entry => \E k \in DOMAIN s : s[k] = entries[i]
    BY <1>3, <1>5, <1>6
  <1> QED
    BY <1>7, <1>8, <1>9, <1>10 DEF s

-----------------------------------------------------------------------------
\* A request is sent: types.
LEMMA AskTypes ==
    ASSUME JournalTypes, NEW n \in JournalCall, Holds(n), AskFor(n)
    PROVE  sent' = sent \cup {n} /\ sent' \subseteq JournalCall /\ (\A r \in sent' : Holds(r))
           /\ disturbed' \in BOOLEAN
           /\ (~disturbed' => ~disturbed /\ \A q \in sent : q.op = "fetch" <=> n.op = "fetch")
  <1>1. sent' = sent \cup {n} /\ disturbed' = (disturbed \/ \E q \in sent : (q.op = "fetch") # (n.op = "fetch"))
    BY DEF AskFor
  <1> QED
    BY <1>1 DEF JournalTypes

\* What follows for a step that only sends an unanswered write, or nothing.
LEMMA NothingAnswered ==
    ASSUME UNCHANGED <<journal, created>>, \A op \in JournalOp : Done(op)' = Done(op)
    PROVE  /\ AnswersTrue => AnswersTrue'
           /\ \A e : Known(e)' <=> Known(e)
           /\ \A x : IsRow(x)' <=> IsRow(x)
           /\ \A x : Explained(x)' <=> Explained(x)
           /\ \A q : ListsRows(q)' <=> ListsRows(q)
  <1>1. /\ Done("fetch")' = Done("fetch") /\ Done("create")' = Done("create")
        /\ Done("update")' = Done("update") /\ Done("delete")' = Done("delete")
    BY DEF JournalOp
  <1>2. /\ \A e : Known(e)' <=> Known(e)
        /\ \A x : IsRow(x)' <=> IsRow(x)
    BY <1>1 DEF Known, IsRow
  <1>3. \A q : ListsRows(q)' <=> ListsRows(q)
    BY <1>2 DEF ListsRows
  <1>4. \A x : Explained(x)' <=> Explained(x)
    BY <1>1, <1>2 DEF Explained
  <1>5. AnswersTrue => AnswersTrue'
    BY <1>1, <1>3 DEF AnswersTrue
  <1> QED
    BY <1>2, <1>3, <1>4, <1>5

\* The page is opened: the list is fetched, and nothing of the page waits for more.
LEMMA JournalOpened == ASSUME JournalInv, openJournal PROVE JournalInv'
  <1> DEFINE n == Sent("fetch", 0, 0)
  <1>1. JournalTypes /\ 0 \in Entry \cup {0} /\ "fetch" \in JournalOp
    BY DEF JournalInv, JournalOp
  <1>2. n \in JournalCall /\ n.op = "fetch" /\ n.answer = "none"
    BY <1>1, SentIs
  <1>3. /\ journalVisits' = journalVisits + 1 /\ AskFor(n) /\ isLoading' = TRUE
        /\ createDialog' = "closed" /\ editing' = 0 /\ saving' = 0 /\ deleting' = {}
        /\ UNCHANGED <<journal, created, entries, versions, journalFaults>>
    BY DEF openJournal
  <1> HIDE DEF n
  <1>4. Holds(n)
    BY <1>2 DEF Holds
  <1>5. /\ sent' = sent \cup {n} /\ sent' \subseteq JournalCall /\ (\A r \in sent' : Holds(r))
        /\ disturbed' \in BOOLEAN
        /\ (~disturbed' => ~disturbed /\ \A q \in sent : q.op = "fetch" <=> n.op = "fetch")
    BY <1>1, <1>2, <1>3, <1>4, AskTypes
  <1>6. JournalTypes'
    BY <1>1, <1>3, <1>5 DEF JournalTypes
  <1>8. Waits'
    BY <1>2, <1>3, <1>5 DEF Waits
  <1>9. ASSUME ~disturbed', journalFaults' = 0 PROVE LinesTold'
    <2>1. LinesTold /\ \A r \in sent' : r.op = "fetch"
      BY <1>2, <1>3, <1>5, <1>9 DEF JournalInv
    <2>2. OneEach'
      BY <2>1 DEF OneEach
    <2>3. \A op \in JournalOp : Done(op)' = Done(op)
      BY <1>2, <1>5 DEF Done
    <2>4. /\ AnswersTrue => AnswersTrue'
          /\ \A e : Known(e)' <=> Known(e)
      BY <1>3, <2>3, NothingAnswered
    <2>5. KnownOnly'
      BY <1>3, <2>1, <2>4 DEF KnownOnly, LinesTold
    <2>6. ListExplained'
      BY <1>2, <1>5 DEF ListExplained
    <2> QED
      BY <2>1, <2>2, <2>4, <2>5, <2>6 DEF LinesTold
  <1> QED
    BY <1>6, <1>8, <1>9 DEF JournalInv

\* A dialog sends its write: what the page shows is explained as before.
LEMMA WriteAsked ==
    ASSUME JournalInv, NEW n \in JournalCall, n.op # "fetch", n.answer = "none", Holds(n), AskFor(n),
           n.visit = journalVisits, JournalTypes',
           UNCHANGED <<journal, created, entries, isLoading, editing, journalVisits, journalFaults>>,
           saving' # saving => n.op = "update" /\ saving' # 0,
           createDialog' # createDialog => n.op = "create",
           createDialog' = "saving" => createDialog = "saving" \/ n.op = "create",
           n.op = "update" => saving = 0 /\ saving' # 0,
           n.op = "create" => createDialog = "open" /\ createDialog' = "saving",
           \A e \in deleting' \ deleting : n.op = "delete" /\ n.entry = e,
           ~disturbed' /\ journalFaults' = 0 /\ n.op \in {"update", "delete"} => Known(n.entry)
    PROVE  JournalInv'
  <1>1. /\ JournalTypes /\ Waits /\ sent' = sent \cup {n}
        /\ (~disturbed' => ~disturbed /\ \A q \in sent : q.op = "fetch" <=> n.op = "fetch")
    BY AskTypes DEF JournalInv
  <1>2. Waits'
    <2>1. \A op : Mine(op) \subseteq Mine(op)' /\ (n.op = op => n \in Mine(op)')
      BY <1>1 DEF Mine
    <2>2. isLoading' => \E r \in sent' : r.op = "fetch"
      BY <1>1 DEF Waits
    <2>3. saving' # 0 => Mine("update")' # {}
      BY <1>1, <2>1 DEF Waits
    <2>4. createDialog' = "saving" => Mine("create")' # {}
      BY <1>1, <2>1 DEF Waits
    <2>5. \A e \in deleting' : \E r \in Mine("delete")' : r.entry = e
      BY <1>1, <2>1 DEF Waits
    <2> QED
      BY <2>2, <2>3, <2>4, <2>5 DEF Waits
  <1>3. ASSUME ~disturbed', journalFaults' = 0 PROVE LinesTold'
    <2>1. LinesTold /\ \A q \in sent' : q.op # "fetch"
      BY <1>1, <1>3 DEF JournalInv
    <2>2. OneEach'
      <3>1. OneEach
        BY <2>1 DEF LinesTold
      <3>2. \A r \in sent' : r.op # "fetch" => r.visit = journalVisits'
        BY <1>1, <3>1 DEF OneEach
      <3>3. \A q, r \in sent' : q.op = "update" /\ r.op = "update" => q = r
        BY <1>1, <3>1 DEF OneEach
      <3>4. \A q, r \in sent' : q.op = "create" /\ r.op = "create" => q = r
        BY <1>1, <3>1 DEF OneEach
      <3>5. \A r \in sent' : r.op = "update" => saving' # 0
        BY <1>1, <3>1 DEF OneEach
      <3>6. \A r \in sent' : r.op = "create" => createDialog' = "saving"
        BY <1>1, <3>1 DEF OneEach
      <3> QED
        BY <2>1, <3>2, <3>3, <3>4, <3>5, <3>6 DEF OneEach
    <2>3. \A op \in JournalOp : Done(op)' = Done(op)
      BY <1>1 DEF Done
    <2>4. /\ AnswersTrue => AnswersTrue'
          /\ \A e : Known(e)' <=> Known(e)
          /\ \A x : Explained(x)' <=> Explained(x)
      BY <2>3, NothingAnswered
    <2>5. KnownOnly'
      BY <1>1, <1>3, <2>1, <2>4 DEF KnownOnly, LinesTold
    <2>6. Done("create")' = Done("create")
      BY <2>3 DEF JournalOp
    <2>7. ListExplained'
      BY <1>1, <2>1, <2>4, <2>6 DEF ListExplained, LinesTold, Lists
    <2> QED
      BY <2>1, <2>2, <2>4, <2>5, <2>7 DEF LinesTold
  <1> QED
    BY <1>2, <1>3 DEF JournalInv

LEMMA CreateSubmitted == ASSUME JournalInv, submitCreate PROVE JournalInv'
  <1> DEFINE n == Sent("create", 0, 1)
  <1>1. JournalTypes /\ 0 \in Entry \cup {0} /\ "create" \in JournalOp
    BY DEF JournalInv, JournalOp
  <1>2. n \in JournalCall /\ n.op = "create" /\ n.answer = "none" /\ n.visit = journalVisits /\ n.version = 1
    BY <1>1, SentIs
  <1>3. /\ createDialog = "open" /\ createDialog' = "saving" /\ AskFor(n)
        /\ UNCHANGED <<journal, created, entries, isLoading, editing, saving, deleting, versions,
                       journalVisits, journalFaults>>
    BY DEF submitCreate, journalShown
  <1> HIDE DEF n
  <1>4. Holds(n)
    BY <1>2 DEF Holds
  <1>5. JournalTypes'
    BY <1>1, <1>2, <1>3, <1>4, AskTypes DEF JournalTypes
  <1> QED
    BY <1>2, <1>3, <1>4, <1>5, WriteAsked

LEMMA UpdateSubmitted == ASSUME JournalInv, submitUpdate PROVE JournalInv'
  <1> DEFINE n == Sent("update", editing, versions' + 1)
  <1>1. JournalTypes /\ editing \in Entry /\ "update" \in JournalOp /\ versions' = versions + 1
        /\ versions \in Nat
    BY DEF JournalInv, JournalOp, JournalTypes, submitUpdate
  <1>2. /\ n \in JournalCall /\ n.op = "update" /\ n.answer = "none" /\ n.visit = journalVisits
        /\ n.entry = editing /\ n.version > 0
    BY <1>1, SentIs
  <1>3. /\ editing # 0 /\ saving = 0 /\ saving' = editing /\ AskFor(n)
        /\ UNCHANGED <<journal, created, entries, isLoading, createDialog, editing, deleting,
                       journalVisits, journalFaults>>
    BY DEF submitUpdate, journalShown
  <1> HIDE DEF n
  <1>4. Holds(n)
    BY <1>1, <1>2 DEF Holds
  <1>5. JournalTypes'
    BY <1>1, <1>2, <1>3, <1>4, AskTypes DEF JournalTypes
  <1>6. ~disturbed' /\ journalFaults' = 0 => Known(editing)
    <2>1. ~disturbed' => ~disturbed
      BY <1>1, <1>2, <1>3, <1>4, AskTypes
    <2> QED
      BY <1>3, <2>1 DEF JournalInv, LinesTold, KnownOnly
  <1> QED
    BY <1>2, <1>3, <1>4, <1>5, <1>6, WriteAsked

LEMMA DeleteAsked == ASSUME JournalInv, NEW e \in Entry, handleDelete(e) PROVE JournalInv'
  <1> DEFINE n == Sent("delete", e, 0)
  <1>1. JournalTypes /\ "delete" \in JournalOp
    BY DEF JournalInv, JournalOp
  <1>2. /\ n \in JournalCall /\ n.op = "delete" /\ n.answer = "none" /\ n.visit = journalVisits
        /\ n.entry = e /\ n.version = 0
    BY <1>1, SentIs
  <1>3. /\ OnCard(e) /\ deleting' = deleting \cup {e} /\ AskFor(n)
        /\ UNCHANGED <<journal, created, entries, isLoading, createDialog, editing, saving, versions,
                       journalVisits, journalFaults>>
    BY DEF handleDelete, journalShown
  <1> HIDE DEF n
  <1>4. Holds(n)
    BY <1>2 DEF Holds
  <1>5. JournalTypes'
    BY <1>1, <1>2, <1>3, <1>4, AskTypes DEF JournalTypes
  <1>6. ~disturbed' /\ journalFaults' = 0 => Known(e)
    <2>1. ~disturbed' => ~disturbed
      BY <1>1, <1>2, <1>3, <1>4, AskTypes
    <2> QED
      BY <1>3, <2>1 DEF JournalInv, LinesTold, KnownOnly, OnCard
  <1> QED
    BY <1>2, <1>3, <1>4, <1>5, <1>6, WriteAsked

\* The dialogs open and close.
LEMMA DialogsMove ==
    ASSUME JournalInv, openCreate \/ (\E e \in Entry \cup {0} : setEditEntry(e)) \/ UNCHANGED journalVars
    PROVE  JournalInv'
  <1>1. /\ UNCHANGED <<journal, created, entries, isLoading, saving, deleting, sent, versions,
                       journalVisits, journalFaults, disturbed>>
        /\ createDialog' = createDialog \/ (createDialog = "closed" /\ createDialog' = "open")
        /\ editing' = editing \/ editing' = 0 \/ (editing' \in Entry /\ OnCard(editing'))
    BY DEF openCreate, setEditEntry, journalVars, journalShown, pageState
  <1>2. JournalTypes'
    BY <1>1 DEF JournalInv, JournalTypes
  <1>3. Waits'
    BY <1>1 DEF JournalInv, Waits, Mine
  <1>4. ASSUME ~disturbed', journalFaults' = 0 PROVE LinesTold'
    <2>1. LinesTold
      BY <1>1, <1>4 DEF JournalInv
    <2>2. \A op \in JournalOp : Done(op)' = Done(op)
      BY <1>1 DEF Done
    <2>3. /\ AnswersTrue => AnswersTrue'
          /\ \A e : Known(e)' <=> Known(e)
          /\ \A x : Explained(x)' <=> Explained(x)
      BY <1>1, <2>2, NothingAnswered
    <2>4. OneEach'
      BY <1>1, <2>1 DEF LinesTold, OneEach
    <2>5. KnownOnly'
      BY <1>1, <2>1, <2>3 DEF LinesTold, KnownOnly, OnCard
    <2>6. Done("create")' = Done("create")
      BY <2>2 DEF JournalOp
    <2>7. ListExplained'
      BY <1>1, <2>1, <2>3, <2>6 DEF ListExplained, LinesTold, Lists
    <2> QED
      BY <2>1, <2>3, <2>4, <2>5, <2>7 DEF LinesTold
  <1> QED
    BY <1>2, <1>3, <1>4 DEF JournalInv

\* Another device writes: the page promises nothing from then on.
LEMMA ElsewhereExcuses == ASSUME JournalInv, changeElsewhere PROVE JournalInv'
  <1>1. /\ disturbed' = TRUE
        /\ UNCHANGED <<entries, isLoading, createDialog, editing, saving, deleting, sent,
                       journalVisits, journalFaults>>
    BY DEF changeElsewhere, journalShown, pageState
  <1>2. /\ journal' \in [Entry -> Nat] /\ created' \in 0..MaxEntries /\ versions' \in Nat
        /\ \A e \in Entry : journal'[e] > 0 => e <= created'
    <2>1. JournalTypes
      BY DEF JournalInv
    <2>2. CASE /\ created < MaxEntries /\ created' = created + 1
               /\ journal' = [journal EXCEPT ![created'] = 1] /\ UNCHANGED versions
      BY <2>1, <2>2, JournalAssumption DEF JournalTypes, Entry
    <2>3. ASSUME NEW e \in Entry, journal[e] > 0, UNCHANGED created,
                 \/ versions' = versions + 1 /\ journal' = [journal EXCEPT ![e] = versions' + 1]
                 \/ journal' = [journal EXCEPT ![e] = 0] /\ UNCHANGED versions
          PROVE  /\ journal' \in [Entry -> Nat] /\ created' \in 0..MaxEntries /\ versions' \in Nat
                 /\ \A d \in Entry : journal'[d] > 0 => d <= created'
      BY <2>1, <2>3 DEF JournalTypes
    <2> QED
      BY <2>2, <2>3 DEF changeElsewhere
  <1>3. JournalTypes'
    BY <1>1, <1>2 DEF JournalInv, JournalTypes
  <1>4. Waits'
    BY <1>1 DEF JournalInv, Waits, Mine
  <1> QED
    BY <1>1, <1>3, <1>4 DEF JournalInv

-----------------------------------------------------------------------------
\* An answer takes its request's place: who waits and what is in flight stay.
LEMMA PlaceTaken ==
    ASSUME JournalInv, NEW r \in sent, NEW n \in JournalCall, n.op = r.op, n.visit = r.visit, Holds(n),
           n.op = "delete" => n.entry = r.entry, sent' = (sent \ {r}) \cup {n},
           UNCHANGED <<isLoading, saving, createDialog, deleting, journalVisits>>
    PROVE  sent' \subseteq JournalCall /\ (\A q \in sent' : Holds(q)) /\ Waits' /\ (OneEach => OneEach')
  <1>1. sent \subseteq JournalCall /\ (\A q \in sent : Holds(q)) /\ Waits
    BY DEF JournalInv, JournalTypes
  <1>2. Waits'
    <2>1. \A op : Mine(op) # {} => Mine(op)' # {}
      BY DEF Mine
    <2>2. ASSUME NEW e, \E q \in Mine("delete") : q.entry = e PROVE \E q \in Mine("delete")' : q.entry = e
      BY <2>2 DEF Mine
    <2>3. isLoading' => \E q \in sent' : q.op = "fetch"
      BY <1>1 DEF Waits
    <2> QED
      BY <1>1, <2>1, <2>2, <2>3 DEF Waits
  <1>3. OneEach => OneEach'
    BY DEF OneEach
  <1> QED
    BY <1>1, <1>2, <1>3

\* A list is answered with the rows.
LEMMA FetchServed ==
    ASSUME JournalInv, NEW r \in sent, serveJournal(r), r.op = "fetch" PROVE JournalInv'
  <1> DEFINE n == [r EXCEPT !.answer = "ok", !.entry = 0, !.list = getEntries]
  <1>1. JournalTypes /\ r \in JournalCall /\ r.answer = "none"
    BY DEF JournalInv, JournalTypes, serveJournal
  <1>2. getEntries \in Seq(Line) /\ ListsRows(getEntries)
    BY <1>1, ServerLists DEF JournalTypes
  <1>3. /\ n \in JournalCall /\ n.op = "fetch" /\ n.answer = "ok" /\ n.visit = r.visit
        /\ n.list = getEntries
    BY <1>1, <1>2 DEF JournalCall
  <1>4. /\ sent' = (sent \ {r}) \cup {n}
        /\ UNCHANGED <<journal, created, journalShown, pageState, versions, journalVisits, journalFaults,
                       disturbed>>
    BY DEF serveJournal, Replied
  <1> HIDE DEF n
  <1>5. Holds(n)
    BY <1>3 DEF Holds
  <1>6. sent' \subseteq JournalCall /\ (\A q \in sent' : Holds(q)) /\ Waits' /\ (OneEach => OneEach')
    BY <1>3, <1>4, <1>5, PlaceTaken DEF journalShown, pageState
  <1>7. JournalTypes'
    BY <1>1, <1>4, <1>6 DEF JournalTypes, journalShown, pageState
  <1>8. ASSUME ~disturbed', journalFaults' = 0 PROVE LinesTold'
    <2>1. LinesTold /\ UNCHANGED <<journal, created, entries, editing>>
      BY <1>4, <1>8 DEF JournalInv, journalShown, pageState
    <2>2. \A q \in sent : q.op = "fetch"
      BY <2>1 DEF LinesTold, OneEach
    <2>3. \A op \in JournalOp \ {"fetch"} : Done(op) = {} /\ Done(op)' = {}
      BY <1>3, <1>4, <2>2 DEF Done
    <2>4. \A q \in Done("fetch")' : q = n \/ q \in Done("fetch")
      BY <1>4 DEF Done
    <2>5. \A q : ListsRows(q)' <=> ListsRows(q)
      BY <2>1 DEF ListsRows, IsRow
    <2>6. AnswersTrue'
      BY <1>2, <1>3, <2>1, <2>3, <2>4, <2>5 DEF AnswersTrue, LinesTold, JournalOp
    <2>7. KnownOnly'
      BY <1>3, <1>4, <2>1, <2>2, <2>3 DEF KnownOnly, LinesTold, Known, JournalOp
    <2>8. ListExplained'
      BY <1>3, <1>4 DEF ListExplained
    <2> QED
      BY <1>6, <2>1, <2>6, <2>7, <2>8 DEF LinesTold
  <1> QED
    BY <1>6, <1>7, <1>8 DEF JournalInv

\* A write that finds no row changes none.
LEMMA MissingServed ==
    ASSUME JournalInv, NEW r \in sent, serveJournal(r), r.op \in {"update", "delete"},
           journal[r.entry] = 0
    PROVE  JournalInv'
  <1> DEFINE n == [r EXCEPT !.answer = "missing", !.entry = r.entry, !.list = <<>>]
  <1>1. JournalTypes /\ r \in JournalCall /\ r.answer = "none" /\ Holds(r)
    BY DEF JournalInv, JournalTypes, serveJournal
  <1>2. r.entry \in Entry \cup {0} /\ <<>> \in Seq(Line)
    BY <1>1 DEF JournalCall
  <1>3. /\ n \in JournalCall /\ n.op = r.op /\ n.answer = "missing" /\ n.visit = r.visit
        /\ n.entry = r.entry /\ n.version = r.version
    BY <1>1, <1>2 DEF JournalCall
  <1>4. /\ sent' = (sent \ {r}) \cup {n}
        /\ UNCHANGED <<journal, created, journalShown, pageState, versions, journalVisits, journalFaults,
                       disturbed>>
    BY DEF serveJournal, Replied
  <1> HIDE DEF n
  <1>5. Holds(n)
    BY <1>1, <1>3 DEF Holds
  <1>6. sent' \subseteq JournalCall /\ (\A q \in sent' : Holds(q)) /\ Waits' /\ (OneEach => OneEach')
    BY <1>3, <1>4, <1>5, PlaceTaken DEF journalShown, pageState
  <1>7. JournalTypes'
    BY <1>1, <1>4, <1>6 DEF JournalTypes, journalShown, pageState
  <1>8. ASSUME ~disturbed', journalFaults' = 0 PROVE LinesTold'
    <2>1. LinesTold /\ UNCHANGED <<journal, created, entries, editing>>
      BY <1>4, <1>8 DEF JournalInv, journalShown, pageState
    <2>2. \A op \in JournalOp : Done(op)' = Done(op)
      BY <1>1, <1>3, <1>4 DEF Done
    <2>3. /\ AnswersTrue => AnswersTrue'
          /\ \A e : Known(e)' <=> Known(e)
          /\ \A x : Explained(x)' <=> Explained(x)
      BY <2>1, <2>2, NothingAnswered
    <2>4. KnownOnly'
      BY <1>3, <1>4, <2>1, <2>3 DEF KnownOnly, LinesTold
    <2>5. Done("create")' = Done("create")
      BY <2>2 DEF JournalOp
    <2>6. ListExplained'
      BY <1>3, <1>4, <2>1, <2>3, <2>5 DEF ListExplained, LinesTold, Lists
    <2> QED
      BY <1>6, <2>1, <2>3, <2>4, <2>6 DEF LinesTold
  <1> QED
    BY <1>6, <1>7, <1>8 DEF JournalInv

\* A new row: nobody knows its number but the answer.
LEMMA CreateServed ==
    ASSUME JournalInv, NEW r \in sent, serveJournal(r), r.op = "create" PROVE JournalInv'
  <1> DEFINE n == [r EXCEPT !.answer = "ok", !.entry = created', !.list = <<>>]
  <1>1. JournalTypes /\ r \in JournalCall /\ r.answer = "none" /\ Holds(r)
    BY DEF JournalInv, JournalTypes, serveJournal
  <1>2. /\ created < MaxEntries /\ created' = created + 1 /\ journal' = [journal EXCEPT ![created'] = 1]
        /\ sent' = (sent \ {r}) \cup {n}
        /\ UNCHANGED <<journalShown, pageState, versions, journalVisits, journalFaults, disturbed>>
    BY DEF serveJournal, Replied
  <1>3. created \in Nat /\ created' \in Entry /\ created' \in 0..MaxEntries /\ <<>> \in Seq(Line)
    BY <1>1, <1>2, JournalAssumption DEF JournalTypes, Entry
  <1>4. /\ n \in JournalCall /\ n.op = "create" /\ n.answer = "ok" /\ n.visit = r.visit
        /\ n.entry = created' /\ n.version = r.version
    BY <1>1, <1>3 DEF JournalCall
  <1> HIDE DEF n
  <1>5. Holds(n)
    BY <1>1, <1>3, <1>4 DEF Holds
  <1>6. sent' \subseteq JournalCall /\ (\A q \in sent' : Holds(q)) /\ Waits' /\ (OneEach => OneEach')
    BY <1>2, <1>4, <1>5, PlaceTaken DEF journalShown, pageState
  <1>7. /\ journal' \in [Entry -> Nat] /\ journal'[created'] = 1
        /\ \A e \in Entry : e # created' => journal'[e] = journal[e]
    BY <1>1, <1>2, <1>3 DEF JournalTypes
  <1>8. \A e \in Entry : journal'[e] > 0 => e <= created'
    BY <1>1, <1>2, <1>3, <1>7 DEF JournalTypes, Entry
  <1>9. JournalTypes'
    BY <1>1, <1>2, <1>3, <1>6, <1>7, <1>8 DEF JournalTypes, journalShown, pageState
  <1>10. ASSUME ~disturbed', journalFaults' = 0 PROVE LinesTold'
    <2>1. LinesTold /\ UNCHANGED <<entries, editing, journalVisits>>
      BY <1>2, <1>10 DEF JournalInv, journalShown, pageState
    <2>2. \A q \in sent' : q.op # "fetch"
      BY <1>2, <1>4, <2>1 DEF LinesTold, OneEach
    <2>3. \A q \in sent : q.op = "create" => q = r
      BY <2>1 DEF LinesTold, OneEach
    <2>4. /\ Done("fetch")' = {} /\ Done("create")' = {n}
          /\ Done("update")' = Done("update") /\ Done("delete")' = Done("delete")
      BY <1>1, <1>2, <1>4, <2>2, <2>3 DEF Done
    <2>5. \A e : Known(e) => Known(e)' /\ e \in Entry /\ e # created'
      BY <1>2, <1>3, <1>4, <2>4, JournalAssumption DEF Known, Entry
    <2>6. KnownOnly'
      BY <1>2, <1>4, <2>1, <2>5 DEF KnownOnly, LinesTold
    <2>7. \A q \in sent : q.op \in {"update", "delete"} => q.entry \in Entry /\ journal'[q.entry] = journal[q.entry]
      BY <1>7, <2>1, <2>5 DEF KnownOnly, LinesTold
    <2>8. AnswersTrue'
      <3>1. \A q \in Done("update") \cup Done("delete") : journal'[q.entry] = journal[q.entry]
        BY <2>7 DEF Done
      <3>2. n.entry = created' /\ journal'[n.entry] = 1
        BY <1>4, <1>7
      <3> QED
        BY <2>1, <2>4, <3>1, <3>2 DEF AnswersTrue, LinesTold
    <2>9. ListExplained'
      <3> SUFFICES ASSUME journalVisits' > 0 PROVE
                     /\ NewestFirst(entries)
                     /\ \A i \in DOMAIN entries : Explained(entries[i])'
                     /\ \A e \in Entry : journal'[e] > 0 => Lists(entries, e) \/ \E c \in Done("create")' : c.entry = e
        BY <2>1 DEF ListExplained, Lists
      <3>1. /\ NewestFirst(entries) /\ \A i \in DOMAIN entries : Explained(entries[i])
            /\ \A e \in Entry : journal[e] > 0 =>
                  Lists(entries, e) \/ \E c \in Done("create") : c.entry = e
        BY <1>2, <1>4, <2>1, <2>2 DEF LinesTold, ListExplained
      <3>2. ASSUME NEW i \in DOMAIN entries PROVE Explained(entries[i])'
        <4> DEFINE x == entries[i]
        <4>1. x.entry \in Entry /\ journal'[x.entry] = journal[x.entry] /\ Explained(x)
          BY <1>7, <2>1, <2>5, <3>1 DEF KnownOnly, LinesTold
        <4> HIDE DEF x
        <4>2. (IsRow(x) => x.version = journal'[x.entry] /\ x.version > 0)
          BY <4>1 DEF IsRow
        <4>3. \/ x.entry \in Entry /\ x.version = journal'[x.entry] /\ x.version > 0
              \/ \E u \in Done("update")' : u.entry = x.entry /\ journal'[x.entry] = u.version
              \/ journal'[x.entry] = 0 /\ \E d \in Done("delete")' : d.entry = x.entry
          BY <2>4, <4>1, <4>2 DEF Explained
        <4> QED
          BY <2>1, <4>3 DEF Explained, IsRow, x
      <3>3. ASSUME NEW e \in Entry, journal'[e] > 0
            PROVE  Lists(entries, e) \/ \E c \in Done("create")' : c.entry = e
        <4>1. CASE e = created'
          BY <1>4, <2>4, <4>1
        <4>2. CASE e # created'
          <5>1. Done("create") = {}
            BY <1>1, <2>3 DEF Done
          <5> QED
            BY <1>7, <3>1, <3>3, <4>2, <5>1
        <4> QED
          BY <4>1, <4>2
      <3> QED
        BY <3>1, <3>2, <3>3
    <2> QED
      BY <1>6, <2>1, <2>6, <2>8, <2>9 DEF LinesTold
  <1> QED
    BY <1>6, <1>9, <1>10 DEF JournalInv

\* A row is updated or deleted: the answer on its way explains what the page still shows.
LEMMA WriteServed ==
    ASSUME JournalInv, NEW r \in sent, serveJournal(r), r.op \in {"update", "delete"},
           journal[r.entry] > 0
    PROVE  JournalInv'
  <1> DEFINE n == [r EXCEPT !.answer = "ok", !.entry = r.entry, !.list = <<>>]
  <1>1. JournalTypes /\ r \in JournalCall /\ r.answer = "none" /\ Holds(r)
    BY DEF JournalInv, JournalTypes, serveJournal
  <1>2. r.entry \in Entry /\ <<>> \in Seq(Line) /\ r.version \in Nat
    BY <1>1 DEF JournalCall, Holds
  <1>3. /\ n \in JournalCall /\ n.op = r.op /\ n.answer = "ok" /\ n.visit = r.visit
        /\ n.entry = r.entry /\ n.version = r.version
    BY <1>1, <1>2 DEF JournalCall
  <1>4. /\ sent' = (sent \ {r}) \cup {n} /\ journal' = [journal EXCEPT ![r.entry] = r.version]
        /\ UNCHANGED <<created, journalShown, pageState, versions, journalVisits, journalFaults, disturbed>>
    BY <1>2 DEF serveJournal, Replied
  <1> HIDE DEF n
  <1>5. Holds(n)
    BY <1>1, <1>2, <1>3 DEF Holds
  <1>6. sent' \subseteq JournalCall /\ (\A q \in sent' : Holds(q)) /\ Waits' /\ (OneEach => OneEach')
    BY <1>3, <1>4, <1>5, PlaceTaken DEF journalShown, pageState
  <1>7. /\ journal' \in [Entry -> Nat] /\ journal'[r.entry] = r.version
        /\ \A e \in Entry : e # r.entry => journal'[e] = journal[e]
        /\ \A e \in Entry : journal'[e] > 0 => journal[e] > 0
    BY <1>1, <1>2, <1>4 DEF JournalTypes
  <1>8. JournalTypes'
    BY <1>1, <1>4, <1>6, <1>7 DEF JournalTypes, journalShown, pageState
  <1>9. ASSUME ~disturbed', journalFaults' = 0 PROVE LinesTold'
    <2>1. LinesTold /\ UNCHANGED <<created, entries, editing, journalVisits>>
      BY <1>4, <1>9 DEF JournalInv, journalShown, pageState
    <2>2. \A q \in sent : q.op # "fetch"
      BY <2>1 DEF LinesTold, OneEach
    <2>3. /\ Done("fetch")' = {} /\ Done("create")' = Done("create")
          /\ \A op \in {"update", "delete"} :
                Done(op)' = IF r.op = op THEN Done(op) \cup {n} ELSE Done(op)
      BY <1>1, <1>3, <1>4, <2>2 DEF Done
    <2>4. \A e : Known(e)' <=> Known(e)
      BY <2>1, <2>3 DEF Known
    <2>5. KnownOnly'
      BY <1>3, <1>4, <2>1, <2>4 DEF KnownOnly, LinesTold
    <2>6. Known(r.entry) /\ \A c \in Done("create") : c.entry \in Entry /\ c.entry # r.entry
      BY <1>1, <2>1 DEF KnownOnly, LinesTold, Known, Done, JournalTypes, Holds
    <2>7. AnswersTrue'
      <3>1. \A c \in Done("create")' : c.entry = created' /\ journal'[c.entry] = 1
        BY <1>7, <2>1, <2>3, <2>6 DEF AnswersTrue, LinesTold
      <3>2. ASSUME NEW u \in Done("update")' PROVE journal'[u.entry] \in {u.version, 0}
        <4>1. CASE u = n
          BY <1>3, <1>7, <4>1
        <4>2. CASE u # n
          <5>1. u \in Done("update") /\ u.entry \in Entry
            BY <1>1, <2>3, <4>2 DEF Done, JournalTypes, Holds
          <5>2. CASE u.entry # r.entry
            BY <1>7, <2>1, <5>1, <5>2 DEF AnswersTrue, LinesTold
          <5>3. CASE u.entry = r.entry
            <6>1. r.op = "delete"
              BY <1>1, <2>1, <5>1 DEF LinesTold, OneEach, Done
            <6> QED
              BY <1>1, <1>7, <5>3, <6>1 DEF Holds
          <5> QED
            BY <5>2, <5>3
        <4> QED
          BY <4>1, <4>2
      <3>3. ASSUME NEW d \in Done("delete")' PROVE journal'[d.entry] = 0
        <4>1. CASE d = n
          <5>1. r.op = "delete"
            BY <1>3, <4>1 DEF Done
          <5> QED
            BY <1>1, <1>3, <1>7, <4>1, <5>1 DEF Holds
        <4>2. CASE d # n
          <5>1. d \in Done("delete") /\ d.entry \in Entry /\ journal[d.entry] = 0
            BY <1>1, <2>1, <2>3, <4>2 DEF Done, JournalTypes, Holds, LinesTold, AnswersTrue
          <5>2. d.entry # r.entry
            BY <5>1
          <5> QED
            BY <1>7, <5>1, <5>2
        <4> QED
          BY <4>1, <4>2
      <3> QED
        BY <2>3, <3>1, <3>2, <3>3 DEF AnswersTrue
    <2>8. ListExplained'
      <3> SUFFICES ASSUME journalVisits' > 0 PROVE
                     /\ NewestFirst(entries)
                     /\ \A i \in DOMAIN entries : Explained(entries[i])'
                     /\ \A e \in Entry : journal'[e] > 0 => Lists(entries, e) \/ \E c \in Done("create")' : c.entry = e
        BY <2>1 DEF ListExplained, Lists
      <3>1. /\ NewestFirst(entries) /\ \A i \in DOMAIN entries : Explained(entries[i])
            /\ \A e \in Entry : journal[e] > 0 =>
                  Lists(entries, e) \/ \E c \in Done("create") : c.entry = e
        BY <2>1, <2>2 DEF LinesTold, ListExplained
      <3>2. ASSUME NEW i \in DOMAIN entries PROVE Explained(entries[i])'
        <4> DEFINE x == entries[i]
        <4>1. x.entry \in Entry /\ Explained(x)
          BY <1>1, <2>1, <3>1, JournalAssumption DEF KnownOnly, LinesTold, Known, Entry, JournalTypes
        <4> HIDE DEF x
        <4>2. \/ x.entry \in Entry /\ x.version = journal'[x.entry] /\ x.version > 0
              \/ \E u \in Done("update")' : u.entry = x.entry /\ journal'[x.entry] = u.version
              \/ journal'[x.entry] = 0 /\ \E d \in Done("delete")' : d.entry = x.entry
          <5>1. CASE x.entry # r.entry
            <6>1. journal'[x.entry] = journal[x.entry]
              BY <1>7, <4>1, <5>1
            <6>2. Done("update") \subseteq Done("update")' /\ Done("delete") \subseteq Done("delete")'
              BY <2>3
            <6> QED
              BY <4>1, <6>1, <6>2 DEF Explained, IsRow
          <5>2. CASE x.entry = r.entry /\ r.op = "update"
            BY <1>3, <1>7, <2>3, <5>2
          <5>3. CASE x.entry = r.entry /\ r.op = "delete"
            BY <1>1, <1>3, <1>7, <2>3, <5>3 DEF Holds
          <5> QED
            BY <5>1, <5>2, <5>3
        <4> QED
          BY <2>1, <4>2 DEF Explained, IsRow, x
      <3> QED
        BY <1>7, <2>3, <3>1, <3>2
    <2> QED
      BY <1>6, <2>1, <2>5, <2>7, <2>8 DEF LinesTold
  <1> QED
    BY <1>6, <1>8, <1>9 DEF JournalInv

-----------------------------------------------------------------------------
\* An answer leaves: who waited for it goes on, the others wait for theirs.
LEMMA AnswerReleases ==
    ASSUME JournalInv, NEW r \in sent, NEW ok \in BOOLEAN, Released(r, ok),
           isLoading' => isLoading /\ r.op # "fetch"
    PROVE  /\ sent' = sent \ {r} /\ Waits'
           /\ UNCHANGED <<journal, created, versions, journalVisits, disturbed>>
           /\ editing' \in Entry \cup {0} /\ saving' \in Entry \cup {0} /\ deleting' \subseteq Entry
           /\ editing' # 0 => editing' = editing
           /\ OneEach => OneEach'
  <1>1. /\ JournalTypes /\ Waits /\ sent' = sent \ {r}
        /\ UNCHANGED <<journal, created, versions, journalVisits, disturbed>>
        /\ createDialog' = (IF r.op = "create" /\ r.visit = journalVisits
                            THEN (IF ok THEN "closed" ELSE "open") ELSE createDialog)
        /\ saving' = (IF r.op = "update" /\ r.visit = journalVisits THEN 0 ELSE saving)
        /\ deleting' = (IF r.op = "delete" /\ r.visit = journalVisits THEN deleting \ {r.entry} ELSE deleting)
        /\ editing' = editing \/ editing' = 0
    BY DEF Released, JournalInv
  <1>2. /\ editing' \in Entry \cup {0} /\ saving' \in Entry \cup {0} /\ deleting' \subseteq Entry
        /\ editing' # 0 => editing' = editing
    BY <1>1 DEF JournalTypes
  <1>3. Waits'
    <2>1. isLoading' => \E q \in sent' : q.op = "fetch"
      BY <1>1 DEF Waits
    <2>3. \A op : \A q \in Mine(op) : q # r => q \in Mine(op)'
      BY <1>1 DEF Mine
    <2>4. \A op : r \in Mine(op) => r.op = op /\ r.visit = journalVisits
      BY DEF Mine
    <2>5. saving' # 0 => Mine("update")' # {}
      BY <1>1, <2>3, <2>4 DEF Waits
    <2>6. createDialog' = "saving" => Mine("create")' # {}
      BY <1>1, <2>3, <2>4 DEF Waits
    <2>7. \A e \in deleting' : \E q \in Mine("delete")' : q.entry = e
      BY <1>1, <2>3, <2>4 DEF Waits
    <2> QED
      BY <2>1, <2>5, <2>6, <2>7 DEF Waits
  <1>4. OneEach => OneEach'
    BY <1>1 DEF OneEach
  <1> QED
    BY <1>1, <1>2, <1>3, <1>4

\* What it takes with it: it explained a line; the others go on explaining theirs.
LEMMA AnswerSpent ==
    ASSUME NEW r \in sent, sent' = sent \ {r}, UNCHANGED <<journal, created, journalVisits>>
    PROVE  /\ \A op : Done(op)' = Done(op) \ {r}
           /\ \A e : Known(e) => Known(e)'
           /\ \A x : IsRow(x)' <=> IsRow(x)
           /\ AnswersTrue => AnswersTrue'
  <1>1. \A op : Done(op)' = Done(op) \ {r}
    BY DEF Done
  <1>2. (\A e : Known(e) => Known(e)') /\ (\A x : IsRow(x)' <=> IsRow(x))
    BY <1>1 DEF Known, IsRow
  <1>3. \A q : ListsRows(q)' <=> ListsRows(q)
    BY <1>2 DEF ListsRows
  <1>4. AnswersTrue => AnswersTrue'
    BY <1>1, <1>3 DEF AnswersTrue
  <1> QED
    BY <1>1, <1>2, <1>4

PageKnows == \A i \in DOMAIN entries : Known(entries[i].entry)

LEMMA KnownStay ==
    ASSUME KnownOnly, NEW r \in sent, sent' = sent \ {r}, \A e : Known(e) => Known(e)',
           editing' # 0 => editing' = editing, PageKnows'
    PROVE  KnownOnly'
  BY DEF KnownOnly, PageKnows

LEMMA ListFetched == ASSUME JournalInv, NEW r \in sent, entriesFetched(r) PROVE JournalInv'
  <1>1. /\ JournalTypes /\ r \in JournalCall /\ r.op = "fetch" /\ r.answer = "ok" /\ Released(r, TRUE)
        /\ entries' = r.list /\ isLoading' = FALSE /\ UNCHANGED journalFaults
    BY DEF JournalInv, JournalTypes, entriesFetched
  <1>2. /\ sent' = sent \ {r} /\ Waits'
        /\ UNCHANGED <<journal, created, versions, journalVisits, disturbed>>
        /\ editing' \in Entry \cup {0} /\ saving' \in Entry \cup {0} /\ deleting' \subseteq Entry
        /\ editing' # 0 => editing' = editing
        /\ OneEach => OneEach'
    BY <1>1, AnswerReleases
  <1>3. r.list \in Seq(Line)
    BY <1>1 DEF JournalCall
  <1>4. JournalTypes'
    BY <1>1, <1>2, <1>3 DEF JournalTypes
  <1>5. ASSUME ~disturbed', journalFaults' = 0 PROVE LinesTold'
    <2>1. LinesTold
      BY <1>1, <1>2, <1>5 DEF JournalInv
    <2>2. ListsRows(r.list)
      BY <1>1, <2>1 DEF LinesTold, AnswersTrue, Done
    <2>3. \A q \in sent' : q.op = "fetch"
      BY <1>1, <1>2, <2>1 DEF LinesTold, OneEach
    <2>4. /\ \A e : Known(e) => Known(e)'
          /\ \A x : IsRow(x)' <=> IsRow(x)
          /\ AnswersTrue => AnswersTrue'
      BY <1>2, AnswerSpent
    <2>5. \A i \in DOMAIN entries' : IsRow(entries'[i]) /\ entries'[i].entry \in 1..created
      BY <1>1, <2>2, JournalAssumption DEF ListsRows, IsRow, JournalTypes, Entry
    <2>6. \A e : e \in 1..created => Known(e)'
      BY <1>2, <2>3 DEF Known, Done
    <2>7. KnownOnly'
      <3>1. PageKnows'
        BY <1>2, <2>5, <2>6 DEF PageKnows
      <3> QED
        BY <1>2, <2>1, <2>4, <3>1, KnownStay DEF LinesTold
    <2>8. ListExplained'
      <3>1. NewestFirst(entries') /\ \A e \in Entry : journal'[e] > 0 => Lists(entries', e)
        BY <1>1, <1>2, <2>2 DEF ListsRows
      <3>2. \A i \in DOMAIN entries' : \A x : x = entries'[i] => Explained(x)'
        BY <2>4, <2>5 DEF Explained
      <3> QED
        BY <3>1, <3>2 DEF ListExplained, Lists, NewestFirst
    <2> QED
      BY <1>2, <2>1, <2>4, <2>7, <2>8 DEF LinesTold
  <1> QED
    BY <1>2, <1>4, <1>5 DEF JournalInv

\* What the list is after a write's answer, if it is explained.
LEMMA WriteLeaves ==
    ASSUME JournalInv, NEW r \in sent, writeAnswered(r), entries' \in Seq(Line),
           LinesTold => PageKnows' /\ ListExplained'
    PROVE  JournalInv'
  <1>1. /\ JournalTypes /\ r.op # "fetch" /\ r.answer # "none" /\ Released(r, r.answer = "ok")
        /\ isLoading \in BOOLEAN /\ UNCHANGED <<isLoading, journalFaults>>
    BY DEF JournalInv, JournalTypes, writeAnswered
  <1>2. /\ sent' = sent \ {r} /\ Waits'
        /\ UNCHANGED <<journal, created, versions, journalVisits, disturbed>>
        /\ editing' \in Entry \cup {0} /\ saving' \in Entry \cup {0} /\ deleting' \subseteq Entry
        /\ editing' # 0 => editing' = editing
        /\ OneEach => OneEach'
    BY <1>1, AnswerReleases
  <1>3. JournalTypes'
    BY <1>1, <1>2 DEF JournalTypes
  <1>4. ASSUME ~disturbed', journalFaults' = 0 PROVE LinesTold'
    <2>1. LinesTold
      BY <1>1, <1>2, <1>4 DEF JournalInv
    <2>2. (\A e : Known(e) => Known(e)') /\ (AnswersTrue => AnswersTrue')
      BY <1>2, AnswerSpent
    <2>3. KnownOnly'
      BY <1>2, <2>1, <2>2, KnownStay DEF LinesTold
    <2> QED
      BY <1>2, <2>1, <2>2, <2>3 DEF LinesTold
  <1> QED
    BY <1>2, <1>3, <1>4 DEF JournalInv

\* What is so when a write's answer arrives at a page that nobody disturbed.
LEMMA WriteFound ==
    ASSUME JournalTypes, LinesTold, NEW r \in sent, writeAnswered(r)
    PROVE  /\ sent' = sent \ {r} /\ UNCHANGED <<journal, created, journalVisits>>
           /\ \A op : Done(op)' = Done(op) \ {r}
           /\ \A e : Known(e) => Known(e)'
           /\ \A x : IsRow(x)' <=> IsRow(x)
           /\ \A i \in DOMAIN entries : Known(entries[i].entry) /\ entries[i].entry \in Entry
           /\ journalVisits > 0 =>
                /\ NewestFirst(entries) /\ \A i \in DOMAIN entries : Explained(entries[i])
                /\ \A e \in Entry : journal[e] > 0 =>
                      Lists(entries, e) \/ \E c \in Done("create") : c.entry = e
  <1>1. sent' = sent \ {r} /\ UNCHANGED <<journal, created, journalVisits>> /\ r.op # "fetch"
    BY DEF writeAnswered, Released
  <1>2. /\ \A op : Done(op)' = Done(op) \ {r}
        /\ \A e : Known(e) => Known(e)'
        /\ \A x : IsRow(x)' <=> IsRow(x)
    BY <1>1, AnswerSpent
  <1>3. \A q \in sent : q.op # "fetch"
    BY <1>1 DEF LinesTold, OneEach
  <1>4. \A i \in DOMAIN entries : Known(entries[i].entry) /\ entries[i].entry \in Entry
    BY JournalAssumption DEF LinesTold, KnownOnly, Known, JournalTypes, Entry
  <1> QED
    BY <1>1, <1>2, <1>3, <1>4 DEF LinesTold, ListExplained

LEMMA CreateAnswered ==
    ASSUME JournalInv, NEW r \in sent, writeAnswered(r), r.op = "create" PROVE JournalInv'
  <1>0. PICK s : s = stored(r)
    OBVIOUS
  <1>1. JournalTypes /\ r \in JournalCall /\ Holds(r) /\ r.answer # "none"
    BY DEF JournalInv, JournalTypes, writeAnswered
  <1>2. r.answer = "ok" /\ r.version = 1 /\ r.entry \in Entry
    BY <1>1 DEF Holds, JournalCall
  <1>3. entries' = s
    BY <1>0, <1>2 DEF writeAnswered
  <1>4. /\ s \in Seq(Line) /\ Len(s) = Len(entries) + 1 /\ s[1] = [entry |-> r.entry, version |-> r.version]
        /\ \A i \in DOMAIN entries : s[i + 1] = entries[i]
    BY <1>0, <1>1, StoredCreate
  <1>5. /\ Len(entries) \in Nat /\ DOMAIN entries = 1..Len(entries) /\ DOMAIN s = 1..(Len(entries) + 1)
        /\ s[1].entry = r.entry /\ s[1].version = 1
        /\ \A j \in DOMAIN s : j = 1 \/ (j - 1 \in DOMAIN entries /\ s[j] = entries[j - 1])
    <2>1. Len(entries) \in Nat /\ DOMAIN entries = 1..Len(entries) /\ DOMAIN s = 1..Len(s)
      BY <1>1, <1>4 DEF JournalTypes
    <2>2. ASSUME NEW j \in DOMAIN s, j # 1 PROVE j - 1 \in DOMAIN entries /\ s[j] = entries[j - 1]
      <3>1. j - 1 \in DOMAIN entries /\ j = (j - 1) + 1
        BY <1>4, <2>1, <2>2
      <3> QED
        BY <1>4, <3>1
    <2> QED
      BY <1>2, <1>4, <2>1, <2>2
  <1>6. ASSUME LinesTold PROVE PageKnows' /\ ListExplained'
    <2>1. /\ sent' = sent \ {r} /\ UNCHANGED <<journal, created, journalVisits>>
          /\ \A op : Done(op)' = Done(op) \ {r}
          /\ \A e : Known(e) => Known(e)'
          /\ \A x : IsRow(x)' <=> IsRow(x)
          /\ \A i \in DOMAIN entries : Known(entries[i].entry) /\ entries[i].entry \in Entry
          /\ journalVisits > 0 =>
               /\ NewestFirst(entries) /\ \A i \in DOMAIN entries : Explained(entries[i])
               /\ \A e \in Entry : journal[e] > 0 =>
                     Lists(entries, e) \/ \E c \in Done("create") : c.entry = e
      BY <1>1, <1>6, WriteFound
    <2>2. /\ r \in Done("create") /\ r.entry = created /\ journal[r.entry] = 1
          /\ Done("create") = {r}
      BY <1>2, <1>6 DEF LinesTold, AnswersTrue, OneEach, Done
    <2>3. Known(r.entry)'
      BY <1>2, <2>1, <2>2, JournalAssumption DEF Known, Entry
    <2>4. \A i \in DOMAIN entries : entries[i].entry < r.entry
      BY <1>1, <1>2, <2>1, <2>2, JournalAssumption DEF Known, Entry
    <2>5. \A j \in DOMAIN s : Known(s[j].entry)'
      BY <1>5, <2>1, <2>3
    <2>6. ListExplained'
      <3> SUFFICES ASSUME journalVisits > 0 PROVE
                     /\ NewestFirst(s) /\ \A j \in DOMAIN s : Explained(s[j])'
                     /\ \A e \in Entry : journal[e] > 0 => Lists(s, e)
        BY <1>3, <2>1 DEF ListExplained, Lists, NewestFirst, Explained, IsRow, Done
      <3>1. NewestFirst(s)
        <4> SUFFICES ASSUME NEW i \in DOMAIN s, NEW j \in DOMAIN s, i < j PROVE s[i].entry > s[j].entry
          BY DEF NewestFirst
        <4>1. j - 1 \in DOMAIN entries /\ s[j] = entries[j - 1]
          BY <1>5
        <4>2. CASE i = 1
          BY <1>5, <2>1, <2>4, <4>1, <4>2, <1>2, JournalAssumption DEF Entry
        <4>3. CASE i # 1
          <5>1. i - 1 \in DOMAIN entries /\ s[i] = entries[i - 1] /\ i - 1 < j - 1
            BY <1>5, <4>3
          <5> QED
            BY <2>1, <4>1, <5>1 DEF NewestFirst
        <4> QED
          BY <4>2, <4>3
      <3>2. ASSUME NEW j \in DOMAIN s PROVE Explained(s[j])'
        <4>1. CASE j = 1
          <5>1. IsRow(s[j])
            BY <1>2, <1>5, <2>2, <4>1 DEF IsRow
          <5> QED
            BY <2>1, <5>1 DEF Explained
        <4>2. CASE j # 1
          <5>1. Explained(s[j])
            BY <1>5, <2>1, <4>2
          <5>2. Done("update")' = Done("update") /\ Done("delete")' = Done("delete")
            BY <2>1 DEF Done
          <5> QED
            BY <2>1, <5>1, <5>2 DEF Explained
        <4> QED
          BY <4>1, <4>2
      <3>3. ASSUME NEW e \in Entry, journal[e] > 0 PROVE Lists(s, e)
        <4>1. CASE Lists(entries, e)
          <5>1. PICK i \in DOMAIN entries : entries[i].entry = e
            BY <4>1 DEF Lists
          <5>2. i + 1 \in DOMAIN s /\ s[i + 1].entry = e
            BY <1>4, <1>5, <5>1
          <5> QED
            BY <5>2 DEF Lists
        <4>2. CASE r.entry = e
          BY <1>5, <4>2 DEF Lists
        <4> QED
          BY <2>1, <2>2, <3>3, <4>1, <4>2
      <3> QED
        BY <3>1, <3>2, <3>3
    <2> QED
      BY <1>3, <2>5, <2>6 DEF PageKnows
  <1> QED
    BY <1>3, <1>4, <1>6, WriteLeaves

LEMMA UpdateAnswered ==
    ASSUME JournalInv, NEW r \in sent, writeAnswered(r), r.op = "update", r.answer = "ok" PROVE JournalInv'
  <1>0. PICK s : s = stored(r)
    OBVIOUS
  <1>1. /\ JournalTypes /\ r \in JournalCall /\ r.entry \in Entry /\ r.version > 0 /\ r.version \in Nat
    BY DEF JournalInv, JournalTypes, Holds, JournalCall
  <1>2. entries' = s
    BY <1>0 DEF writeAnswered
  <1>3. /\ s \in Seq(Line) /\ DOMAIN s = DOMAIN entries
        /\ \A i \in DOMAIN entries :
              /\ s[i].entry = entries[i].entry
              /\ s[i].version = IF entries[i].entry = r.entry THEN r.version ELSE entries[i].version
    BY <1>0, <1>1, StoredUpdate
  <1>4. ASSUME LinesTold PROVE PageKnows' /\ ListExplained'
    <2>1. /\ sent' = sent \ {r} /\ UNCHANGED <<journal, created, journalVisits>>
          /\ \A op : Done(op)' = Done(op) \ {r}
          /\ \A e : Known(e) => Known(e)'
          /\ \A x : IsRow(x)' <=> IsRow(x)
          /\ \A i \in DOMAIN entries : Known(entries[i].entry) /\ entries[i].entry \in Entry
          /\ journalVisits > 0 =>
               /\ NewestFirst(entries) /\ \A i \in DOMAIN entries : Explained(entries[i])
               /\ \A e \in Entry : journal[e] > 0 =>
                     Lists(entries, e) \/ \E c \in Done("create") : c.entry = e
      BY <1>1, <1>4, WriteFound
    <2>2. Done("update") = {r} /\ journal[r.entry] \in {r.version, 0}
      BY <1>4 DEF LinesTold, AnswersTrue, OneEach, Done
    <2>3. Done("create")' = Done("create") /\ Done("delete")' = Done("delete")
      BY <2>1 DEF Done
    <2>4. PageKnows'
      BY <1>2, <1>3, <2>1 DEF PageKnows
    <2>5. ASSUME journalVisits > 0, NEW i \in DOMAIN entries PROVE Explained(s[i])'
      <3>1. Explained(entries[i]) /\ entries[i].entry \in Entry
        BY <2>1, <2>5
      <3>2. CASE entries[i].entry # r.entry
        BY <1>3, <2>1, <2>2, <2>3, <3>1, <3>2 DEF Explained, IsRow
      <3>3. CASE entries[i].entry = r.entry /\ journal[r.entry] = r.version
        BY <1>1, <1>3, <2>1, <3>3 DEF Explained, IsRow
      <3>4. CASE entries[i].entry = r.entry /\ journal[r.entry] = 0
        <4>1. \E d \in Done("delete") : d.entry = r.entry
          BY <1>1, <2>2, <3>1, <3>4 DEF Explained, IsRow
        <4> QED
          BY <1>3, <2>1, <2>3, <3>4, <4>1 DEF Explained
      <3> QED
        BY <2>2, <3>2, <3>3, <3>4
    <2>6. ASSUME journalVisits > 0 PROVE NewestFirst(s)
      BY <1>3, <2>1, <2>6 DEF NewestFirst
    <2>7. ASSUME journalVisits > 0, NEW e \in Entry, journal[e] > 0
          PROVE  Lists(s, e) \/ \E c \in Done("create")' : c.entry = e
      BY <1>3, <2>1, <2>3, <2>7 DEF Lists
    <2>8. ListExplained'
      <3>1. journalVisits > 0 => \A i \in DOMAIN s : \A x : x = s[i] => Explained(x)'
        BY <1>3, <2>5
      <3> QED
        BY <1>2, <2>1, <2>6, <2>7, <3>1 DEF ListExplained, Lists, NewestFirst
    <2> QED
      BY <2>4, <2>8
  <1> QED
    BY <1>2, <1>3, <1>4, WriteLeaves

LEMMA DeleteAnswered ==
    ASSUME JournalInv, NEW r \in sent, writeAnswered(r), r.op = "delete", r.answer = "ok" PROVE JournalInv'
  <1>0. PICK s : s = stored(r)
    OBVIOUS
  <1>1. JournalTypes /\ r \in JournalCall
    BY DEF JournalInv, JournalTypes
  <1>2. entries' = s
    BY <1>0 DEF writeAnswered
  <1>3. /\ s \in Seq(Line) /\ (NewestFirst(entries) => NewestFirst(s))
        /\ \A k \in DOMAIN s : s[k].entry # r.entry /\ \E i \in DOMAIN entries : s[k] = entries[i]
        /\ \A i \in DOMAIN entries : entries[i].entry # r.entry => \E k \in DOMAIN s : s[k] = entries[i]
    BY <1>0, <1>1, StoredDelete
  <1>4. ASSUME LinesTold PROVE PageKnows' /\ ListExplained'
    <2>1. /\ sent' = sent \ {r} /\ UNCHANGED <<journal, created, journalVisits>>
          /\ \A op : Done(op)' = Done(op) \ {r}
          /\ \A e : Known(e) => Known(e)'
          /\ \A x : IsRow(x)' <=> IsRow(x)
          /\ \A i \in DOMAIN entries : Known(entries[i].entry) /\ entries[i].entry \in Entry
          /\ journalVisits > 0 =>
               /\ NewestFirst(entries) /\ \A i \in DOMAIN entries : Explained(entries[i])
               /\ \A e \in Entry : journal[e] > 0 =>
                     Lists(entries, e) \/ \E c \in Done("create") : c.entry = e
      BY <1>1, <1>4, WriteFound
    <2>2. journal[r.entry] = 0
      BY <1>4 DEF LinesTold, AnswersTrue, Done
    <2>3. Done("create")' = Done("create") /\ Done("update")' = Done("update")
      BY <2>1 DEF Done
    <2>4. PageKnows'
      BY <1>2, <1>3, <2>1 DEF PageKnows
    <2>5. ASSUME journalVisits > 0, NEW k \in DOMAIN s PROVE Explained(s[k])'
      <3>1. Explained(s[k]) /\ s[k].entry # r.entry
        BY <1>3, <2>1, <2>5
      <3> QED
        BY <2>1, <2>3, <3>1 DEF Explained
    <2>6. ASSUME journalVisits > 0, NEW e \in Entry, journal[e] > 0
          PROVE  Lists(s, e) \/ \E c \in Done("create")' : c.entry = e
      <3>1. e # r.entry
        BY <2>2, <2>6
      <3> QED
        BY <1>3, <2>1, <2>3, <2>6, <3>1 DEF Lists
    <2>7. ListExplained'
      <3>1. journalVisits > 0 => \A k \in DOMAIN s : \A x : x = s[k] => Explained(x)'
        BY <2>5
      <3> QED
        BY <1>2, <1>3, <2>1, <2>6, <3>1 DEF ListExplained, Lists, NewestFirst
    <2> QED
      BY <2>4, <2>7
  <1> QED
    BY <1>2, <1>3, <1>4, WriteLeaves

\* A write that found no row leaves the list.
LEMMA MissingAnswered ==
    ASSUME JournalInv, NEW r \in sent, writeAnswered(r), r.answer = "missing" PROVE JournalInv'
  <1>1. JournalTypes /\ entries' = entries /\ entries \in Seq(Line)
    BY DEF JournalInv, JournalTypes, writeAnswered
  <1>2. ASSUME LinesTold PROVE PageKnows' /\ ListExplained'
    <2>1. /\ UNCHANGED <<journal, created, journalVisits>>
          /\ \A op : Done(op)' = Done(op) \ {r}
          /\ \A e : Known(e) => Known(e)'
          /\ \A x : IsRow(x)' <=> IsRow(x)
          /\ \A i \in DOMAIN entries : Known(entries[i].entry) /\ entries[i].entry \in Entry
          /\ journalVisits > 0 =>
               /\ NewestFirst(entries) /\ \A i \in DOMAIN entries : Explained(entries[i])
               /\ \A e \in Entry : journal[e] > 0 =>
                     Lists(entries, e) \/ \E c \in Done("create") : c.entry = e
      BY <1>1, <1>2, WriteFound
    <2>2. \A op : Done(op)' = Done(op)
      BY <2>1 DEF Done
    <2>3. PageKnows'
      BY <1>1, <2>1 DEF PageKnows
    <2>4. \A x : Explained(x)' <=> Explained(x)
      BY <2>1, <2>2 DEF Explained
    <2>5. ListExplained'
      BY <1>1, <2>1, <2>2, <2>4 DEF ListExplained, Lists, NewestFirst
    <2> QED
      BY <2>3, <2>5
  <1> QED
    BY <1>1, <1>2, WriteLeaves

\* A request is lost: the page may miss what it would have said from then on.
LEMMA RequestLost == ASSUME JournalInv, NEW r \in sent, loseJournal(r) PROVE JournalInv'
  <1>1. /\ JournalTypes /\ Released(r, FALSE) /\ journalFaults' = journalFaults + 1
        /\ isLoading' = (isLoading /\ r.op # "fetch") /\ UNCHANGED entries
    BY DEF JournalInv, loseJournal
  <1>2. /\ sent' = sent \ {r} /\ Waits'
        /\ UNCHANGED <<journal, created, versions, journalVisits, disturbed>>
        /\ editing' \in Entry \cup {0} /\ saving' \in Entry \cup {0} /\ deleting' \subseteq Entry
    BY <1>1, AnswerReleases
  <1>3. JournalTypes' /\ journalFaults' # 0
    BY <1>1, <1>2 DEF JournalTypes
  <1> QED
    BY <1>2, <1>3 DEF JournalInv

LEMMA JournalStep == ASSUME JournalInv, [JournalNext]_journalVars PROVE JournalInv'
  <1>1. ASSUME openCreate \/ (\E e \in Entry \cup {0} : setEditEntry(e)) \/ UNCHANGED journalVars
        PROVE  JournalInv'
    BY <1>1, DialogsMove
  <1>2. ASSUME NEW e \in Entry, handleDelete(e) PROVE JournalInv'
    BY <1>2, DeleteAsked
  <1>3. ASSUME NEW r \in sent, serveJournal(r) PROVE JournalInv'
    <2>1. /\ r.answer = "none" /\ r.op \in JournalOp
          /\ r.op \in {"update", "delete"} => r.entry \in Entry /\ journal[r.entry] \in Nat
      BY <1>3 DEF JournalInv, JournalTypes, JournalCall, Holds, serveJournal
    <2>2. CASE r.op = "fetch"
      BY <1>3, <2>2, FetchServed
    <2>3. CASE r.op = "create"
      BY <1>3, <2>3, CreateServed
    <2>4. CASE r.op \in {"update", "delete"} /\ journal[r.entry] = 0
      BY <1>3, <2>4, MissingServed
    <2>5. CASE r.op \in {"update", "delete"} /\ journal[r.entry] > 0
      BY <1>3, <2>5, WriteServed
    <2> QED
      BY <2>1, <2>2, <2>3, <2>4, <2>5 DEF JournalOp
  <1>4. ASSUME NEW r \in sent, writeAnswered(r) PROVE JournalInv'
    <2>1. r.answer \in {"ok", "missing"} /\ r.op \in {"create", "update", "delete"}
      BY <1>4 DEF JournalInv, JournalTypes, JournalCall, JournalOp, writeAnswered
    <2>2. CASE r.answer = "missing"
      BY <1>4, <2>2, MissingAnswered
    <2>3. CASE r.op = "create"
      BY <1>4, <2>3, CreateAnswered
    <2>4. CASE r.op = "update" /\ r.answer = "ok"
      BY <1>4, <2>4, UpdateAnswered
    <2>5. CASE r.op = "delete" /\ r.answer = "ok"
      BY <1>4, <2>5, DeleteAnswered
    <2> QED
      BY <2>1, <2>2, <2>3, <2>4, <2>5
  <1> QED
    BY <1>1, <1>2, <1>3, <1>4, JournalOpened, CreateSubmitted, UpdateSubmitted, ElsewhereExcuses,
       ListFetched, RequestLost DEF JournalNext

\* A page with nothing in flight has nothing left to explain.
LEMMA NothingLeft == ASSUME JournalInv PROVE JournalSound
  <1>1. ASSUME sent = {} PROVE ~isLoading /\ saving = 0 /\ deleting = {} /\ createDialog # "saving"
    <2>1. \A op : Mine(op) = {}
      BY <1>1 DEF Mine
    <2> QED
      BY <1>1, <2>1 DEF JournalInv, Waits
  <1>2. ASSUME sent = {}, ~disturbed, journalFaults = 0, journalVisits > 0 PROVE entries = getEntries
    <2>1. JournalTypes /\ LinesTold
      BY <1>2 DEF JournalInv
    <2>2. \A op : Done(op) = {}
      BY <1>2 DEF Done
    <2>3. ListsRows(entries)
      BY <1>2, <2>1, <2>2 DEF LinesTold, ListExplained, Explained, ListsRows
    <2> QED
      BY <2>1, <2>3, ListIsTheServers DEF JournalTypes
  <1> QED
    BY <1>1, <1>2 DEF JournalSound

\* However the writes of a tab and their answers cross, the journal page lists the server's
\* rows once nothing is in flight, and no dialog or card waits for nothing: in between, every
\* line is the row or an answer on its way says what becomes of it (JournalPage, store and
\* dialogs).
THEOREM TheJournalIsTold == JournalSpec => []JournalSound
  <1>1. JournalInit => JournalInv
    BY JournalStarts
  <1>2. JournalInv /\ [JournalNext]_journalVars => JournalInv'
    BY JournalStep
  <1>3. JournalInv => JournalSound
    BY NothingLeft
  <1> QED
    BY <1>1, <1>2, <1>3, PTL DEF JournalSpec

-----------------------------------------------------------------------------
(***************************************************************************)
(* The reading shelf.                                                      *)
(***************************************************************************)
RecordOr == Status \cup {Absent}
ShelfRequest == [kind : {"fetch", "one", "upsert", "remove"}, title : Title \cup {Absent},
                 status : RecordOr, by : {"page", "add", "user", "reader"},
                 answer : {"none", "ok", "empty", "refused"}, data : [Title -> RecordOr], number : Nat]

ShelfTypes ==
    /\ rows \in [Title -> RecordOr] /\ records \in [Title -> RecordOr]
    /\ requests \subseteq ShelfRequest
    /\ \A r \in requests : /\ r.kind # "fetch" => r.title \in Title
                           /\ r.answer = "empty" => r.kind = "one"
                           /\ r.answer = "refused" => r.kind \in {"upsert", "remove"}
    /\ screens \in Nat /\ writes \in Nat /\ shelfFaults \in Nat
    /\ fetching \in BOOLEAN /\ crossed \in BOOLEAN /\ wiped \in BOOLEAN

\* Changes of t's row that the page has not been told of yet, the reads that will tell it
\* the row, and whether its screen is one that shows it.
Untold(t) == {r \in requests : r.kind \in {"upsert", "remove"} /\ r.title = t /\ r.answer = "ok"}
Reads(t)  == {r \in requests : (r.kind = "fetch" /\ r.status = Absent) \/ (r.kind = "one" /\ r.title = t)}
Shows(t)  == \/ screen.page \in {"library", "history"}
             \/ screen.page = "series" /\ screen.title = t

\* An answer on its way is true of the rows of now.
AnswerHolds(r) ==
    /\ r.kind = "fetch" /\ r.answer = "ok" =>
          \A t \in Title : r.data[t] \in {Absent, rows[t]} /\ (r.status = Absent => r.data[t] = rows[t])
    /\ r.kind # "fetch" /\ r.answer = "ok" => r.data[r.title] = rows[r.title]
    /\ r.answer = "empty" => rows[r.title] = Absent
    /\ r.by = "add" /\ r.answer = "none" => rows[r.title] = Absent

\* What a fetch answers suits the screen; and no two requests get in each other's way.
Apart == \A q, r \in requests : q # r => ~conflict(q, r)
Suits(r) == r.kind = "fetch" =>
    screen.page # "series" /\ (screen.page \in {"library", "history"} => r.status = Absent)

TitleShown(t) ==
    /\ Untold(t) = {} => records[t] \in {Absent, rows[t]}
    /\ Shows(t) => Untold(t) # {} \/ Reads(t) # {} \/ records[t] = rows[t]

Calm == /\ Apart /\ ~wiped
        /\ \A r \in requests : AnswerHolds(r) /\ Suits(r)
        /\ \A t \in Title : TitleShown(t)
        /\ fetching => \E r \in requests : r.kind = "fetch"

ShelfInv == ShelfTypes /\ (calm => Calm)

LEMMA ShelfShows == ASSUME ShelfInv PROVE ShelfSound
  <1> SUFFICES ASSUME calm
               PROVE  /\ ~wiped
                      /\ requests = {} => /\ \A t \in Title : records[t] \in {Absent, rows[t]}
                                          /\ screen.page \in {"library", "history"} => records = rows
                                          /\ ~fetching
    BY DEF ShelfSound
  <1>1. Calm /\ ShelfTypes
    BY DEF ShelfInv
  <1>2. ASSUME requests = {} PROVE \A t \in Title : Untold(t) = {} /\ Reads(t) = {}
    BY <1>2 DEF Untold, Reads
  <1>3. ASSUME requests = {}, screen.page \in {"library", "history"} PROVE records = rows
    <2>1. \A t \in Title : records[t] = rows[t]
      BY <1>1, <1>2, <1>3 DEF Calm, TitleShown, Shows
    <2> QED
      BY <1>1, <2>1 DEF ShelfTypes
  <1> QED
    BY <1>1, <1>2, <1>3 DEF Calm, TitleShown

LEMMA ShelfStarts == ShelfInit => ShelfInv
  <1> SUFFICES ASSUME ShelfInit PROVE ShelfInv
    OBVIOUS
  <1>1. ShelfTypes
    BY DEF ShelfInit, ShelfTypes, RecordOr, Status, Shelved, Empty
  <1>2. Calm
    BY DEF ShelfInit, Calm, Apart, TitleShown, Untold, Reads, Shows, Empty
  <1> QED
    BY <1>1, <1>2 DEF ShelfInv

-----------------------------------------------------------------------------
LEMMA RequestTypes ==
    ASSUME NEW k \in {"fetch", "one", "upsert", "remove"}, NEW t \in Title \cup {Absent},
           NEW s \in RecordOr, NEW by \in {"page", "add", "user", "reader"},
           screens' \in Nat, writes' \in Nat, shelfFaults \in Nat
    PROVE  \E r \in ShelfRequest :
              /\ r = Request(k, t, s, by) /\ r.kind = k /\ r.title = t /\ r.status = s
              /\ r.by = by /\ r.answer = "none"
  <1> DEFINE n == screens' + writes' + shelfFaults
             r == Request(k, t, s, by)
  <1>0. n \in Nat
    <2>1. \A x, y, z \in Nat : x + y + z \in Nat
      OBVIOUS
    <2> QED
      BY <2>1 DEF n
  <1>1. n \in Nat /\ Empty \in [Title -> RecordOr]
    BY <1>0 DEF Empty, RecordOr
  <1>2. r = [kind |-> k, title |-> t, status |-> s, by |-> by, answer |-> "none", data |-> Empty,
             number |-> n]
    BY DEF Request
  <1> HIDE DEF n, r
  <1>3. r \in ShelfRequest
    BY <1>1, <1>2 DEF ShelfRequest
  <1> QED
    BY <1>2, <1>3 DEF r

\* A request is sent, out of the way of the others, and changes nothing yet.
LEMMA ShelfSent ==
    ASSUME ShelfTypes, NEW r \in ShelfRequest, r.answer = "none", r.kind # "fetch" => r.title \in Title,
           Sending(r), UNCHANGED <<rows, records, wiped, shelfFaults>>,
           screens' \in Nat, writes' \in Nat, fetching' \in BOOLEAN
    PROVE  /\ ShelfTypes'
           /\ calm' => calm
           /\ calm' /\ Calm =>
                 /\ Apart' /\ \A q \in requests : ~conflict(q, r)
                 /\ \A q \in requests : AnswerHolds(q)'
                 /\ \A t \in Title : Untold(t)' = Untold(t) /\ Reads(t) \subseteq Reads(t)'
  <1>1. requests' = requests \cup {r} /\ crossed' = (crossed \/ \E q \in requests : conflict(q, r))
    BY DEF Sending
  <1>2. crossed' \in BOOLEAN
    BY <1>1 DEF ShelfTypes, conflict
  <1>3. ShelfTypes'
    BY <1>1, <1>2 DEF ShelfTypes
  <1>4. calm' => calm
    BY <1>1 DEF calm
  <1>5. ASSUME calm', Calm
        PROVE  /\ Apart' /\ \A q \in requests : ~conflict(q, r)
               /\ \A q \in requests : AnswerHolds(q)'
    <2>1. \A q \in requests : ~conflict(q, r)
      BY <1>1, <1>5 DEF calm
    <2>2. \A q \in requests : ~conflict(r, q)
      BY <2>1 DEF conflict
    <2>3. Apart'
      BY <1>1, <1>5, <2>1, <2>2 DEF Apart, Calm
    <2> QED
      BY <1>5, <2>1, <2>3 DEF Calm, AnswerHolds
  <1>6. \A t \in Title : Untold(t)' = Untold(t) /\ Reads(t) \subseteq Reads(t)'
    BY <1>1 DEF Untold, Reads
  <1> QED
    BY <1>3, <1>4, <1>5, <1>6

LEMMA ScreenOpened ==
    ASSUME ShelfInv, NEW p \in {"dashboard", "library", "history", "series", "reader"},
           NEW t \in Title \cup {Absent}, openScreen(p, t)
    PROVE  ShelfInv'
  <1>1. /\ screens' \in Nat /\ writes' = writes /\ writes' \in Nat /\ shelfFaults \in Nat
        /\ screen' = [page |-> p, title |-> t]
        /\ screen'.page = p /\ screen'.title = t
        /\ UNCHANGED <<rows, records, wiped, shelfFaults>>
    BY DEF openScreen, ShelfInv, ShelfTypes
  <1>2. CASE p \in {"dashboard", "library", "history"}
    <2>0. PICK f \in RecordOr : /\ f = (IF p = "dashboard" THEN "reading" ELSE Absent)
                                /\ (f = Absent \/ p = "dashboard")
      BY DEF RecordOr, Status
    <2>2. PICK r \in ShelfRequest : /\ r = Fetch(f) /\ r.answer = "none" /\ r.kind = "fetch"
                                    /\ r.status = f /\ r.by = "page"
      BY <1>1, <2>0, RequestTypes DEF Fetch
    <2>1. Sending(r) /\ fetching' = TRUE
      BY <1>2, <2>0, <2>2 DEF openScreen
    <2>3. /\ ShelfTypes' /\ (calm' => calm)
          /\ calm' /\ Calm =>
                 /\ Apart' /\ \A q \in requests : ~conflict(q, r)
                 /\ \A q \in requests : AnswerHolds(q)'
                 /\ \A x \in Title : Untold(x)' = Untold(x) /\ Reads(x) \subseteq Reads(x)'
      BY <1>1, <2>1, <2>2, ShelfSent DEF ShelfInv
    <2>4. ASSUME calm' PROVE Calm'
      <3>1. Calm /\ requests = {} /\ requests' = {r}
        BY <2>1, <2>2, <2>3, <2>4 DEF ShelfInv, conflict, Sending
      <3>2. AnswerHolds(r)' /\ Suits(r)'
        BY <1>1, <1>2, <2>0, <2>2 DEF AnswerHolds, Suits
      <3>3. ASSUME NEW x \in Title PROVE TitleShown(x)'
        <4>1. Untold(x)' = {} /\ Untold(x) = {} /\ (p # "dashboard" => Reads(x)' # {})
          BY <2>0, <2>2, <3>1 DEF Untold, Reads
        <4> QED
          BY <1>1, <1>2, <3>1, <4>1 DEF TitleShown, Shows, Calm
      <3> QED
        BY <1>1, <2>1, <2>2, <2>3, <2>4, <3>1, <3>2, <3>3 DEF Calm
    <2> QED
      BY <2>3, <2>4 DEF ShelfInv
  <1>3. CASE p = "series"
    <2>2. PICK r \in ShelfRequest : /\ r = One(t) /\ r.answer = "none" /\ r.kind = "one"
                                    /\ r.title = t /\ r.by = "page"
      BY <1>1, RequestTypes DEF One, RecordOr
    <2>1. Sending(r) /\ fetching' = fetching /\ t \in Title
      BY <1>3, <2>2 DEF openScreen
    <2>3. /\ ShelfTypes' /\ (calm' => calm)
          /\ calm' /\ Calm =>
                 /\ Apart' /\ \A q \in requests : ~conflict(q, r)
                 /\ \A q \in requests : AnswerHolds(q)'
                 /\ \A x \in Title : Untold(x)' = Untold(x) /\ Reads(x) \subseteq Reads(x)'
      BY <1>1, <2>1, <2>2, ShelfSent DEF ShelfInv, ShelfTypes
    <2>4. ASSUME calm' PROVE Calm'
      <3>1. Calm /\ requests' = requests \cup {r} /\ \A q \in requests : q.kind # "fetch"
        BY <2>1, <2>2, <2>3, <2>4 DEF ShelfInv, conflict, Sending
      <3>2. AnswerHolds(r)' /\ \A q \in requests' : Suits(q)'
        BY <2>2, <3>1 DEF AnswerHolds, Suits
      <3>3. ASSUME NEW x \in Title PROVE TitleShown(x)'
        <4>1. x = t => Reads(x)' # {}
          BY <2>2, <3>1 DEF Reads
        <4>2. Shows(x)' => x = t
          BY <1>1, <1>3 DEF Shows
        <4> QED
          BY <1>1, <2>3, <2>4, <3>1, <4>1, <4>2 DEF TitleShown, Calm
      <3> QED
        BY <1>1, <2>1, <2>3, <2>4, <3>1, <3>2, <3>3 DEF Calm
    <2> QED
      BY <2>3, <2>4 DEF ShelfInv
  <1>4. CASE p = "reader"
    <2>1. UNCHANGED <<requests, crossed, fetching>>
      BY <1>4 DEF openScreen
    <2>2. ShelfTypes' /\ calm' = calm
      BY <1>1, <2>1 DEF ShelfInv, ShelfTypes, calm
    <2>3. ASSUME Calm PROVE Calm'
      BY <1>1, <1>4, <2>1, <2>3 DEF Calm, Apart, AnswerHolds, Suits, TitleShown, Untold, Reads, Shows
    <2> QED
      BY <2>2, <2>3 DEF ShelfInv
  <1> QED
    BY <1>2, <1>3, <1>4

LEMMA FetchRetried == ASSUME ShelfInv, retryFetch PROVE ShelfInv'
  <1>1. /\ Sending(Fetch(Absent)) /\ fetching' = TRUE /\ screen.page = "history" /\ screen' = screen
        /\ screens' \in Nat /\ writes' \in Nat /\ UNCHANGED <<rows, records, wiped, shelfFaults>>
        /\ shelfFaults \in Nat
    BY DEF retryFetch, ShelfInv, ShelfTypes
  <1>2. PICK r \in ShelfRequest : /\ r = Fetch(Absent) /\ r.answer = "none" /\ r.kind = "fetch"
                                  /\ r.status = Absent /\ r.by = "page"
    BY <1>1, RequestTypes DEF Fetch, RecordOr
  <1>3. /\ ShelfTypes' /\ (calm' => calm)
        /\ calm' /\ Calm =>
               /\ Apart' /\ \A q \in requests : ~conflict(q, r)
               /\ \A q \in requests : AnswerHolds(q)'
               /\ \A x \in Title : Untold(x)' = Untold(x) /\ Reads(x) \subseteq Reads(x)'
    BY <1>1, <1>2, ShelfSent DEF ShelfInv
  <1>4. ASSUME calm' PROVE Calm'
    <2>1. Calm /\ requests = {} /\ requests' = {r}
      BY <1>1, <1>2, <1>3, <1>4 DEF ShelfInv, conflict, Sending
    <2>2. AnswerHolds(r)' /\ Suits(r)'
      BY <1>1, <1>2 DEF AnswerHolds, Suits
    <2>3. ASSUME NEW x \in Title PROVE TitleShown(x)'
      <3>1. Untold(x)' = {} /\ Untold(x) = {} /\ Reads(x)' # {}
        BY <1>2, <2>1 DEF Untold, Reads
      <3> QED
        BY <1>1, <2>1, <3>1 DEF TitleShown, Calm
    <2> QED
      BY <1>1, <1>2, <1>3, <1>4, <2>1, <2>2, <2>3 DEF Calm
  <1> QED
    BY <1>3, <1>4 DEF ShelfInv

\* A control of the page sends a change; "Add to library" is there when the array, and so
\* the server, has no record.
LEMMA ChangeSent ==
    ASSUME ShelfInv, NEW r \in ShelfRequest, r.kind \in {"upsert", "remove"}, NEW t \in Title, r.title = t,
           r.answer = "none", Write(r),
           r.by = "add" => screen = [page |-> "series", title |-> t] /\ records[t] = Absent
    PROVE  ShelfInv'
  <1>1. /\ Sending(r) /\ fetching' = fetching /\ fetching' \in BOOLEAN /\ screen' = screen
        /\ screens' \in Nat /\ writes' \in Nat /\ UNCHANGED <<rows, records, wiped, shelfFaults>>
    BY DEF Write, shelfStore, ShelfInv, ShelfTypes
  <1>2. /\ ShelfTypes' /\ (calm' => calm)
        /\ calm' /\ Calm =>
               /\ Apart' /\ \A q \in requests : ~conflict(q, r)
               /\ \A q \in requests : AnswerHolds(q)'
               /\ \A x \in Title : Untold(x)' = Untold(x) /\ Reads(x) \subseteq Reads(x)'
    BY <1>1, ShelfSent DEF ShelfInv
  <1>3. ASSUME calm' PROVE Calm'
    <2>1. /\ Calm /\ requests' = requests \cup {r}
          /\ \A q \in requests : q.kind # "fetch" /\ q.title # t
      BY <1>1, <1>2, <1>3 DEF ShelfInv, conflict, Sending
    <2>2. r.by = "add" => rows[t] = Absent
      <3> SUFFICES ASSUME r.by = "add" PROVE rows[t] = Absent
        OBVIOUS
      <3>1. Untold(t) = {} /\ Reads(t) = {} /\ Shows(t)
        BY <2>1 DEF Untold, Reads, Shows
      <3> QED
        BY <2>1, <3>1 DEF Calm, TitleShown
    <2>3. AnswerHolds(r)' /\ Suits(r)'
      BY <1>1, <2>2 DEF AnswerHolds, Suits
    <2>4. \A q \in requests : Suits(q)'
      BY <1>1, <2>1 DEF Suits
    <2>5. ASSUME NEW x \in Title PROVE TitleShown(x)'
      BY <1>1, <1>2, <1>3, <2>1 DEF TitleShown, Shows, Calm
    <2> QED
      BY <1>1, <1>2, <1>3, <2>1, <2>3, <2>4, <2>5 DEF Calm
  <1> QED
    BY <1>2, <1>3 DEF ShelfInv

LEMMA ControlsUsed ==
    ASSUME ShelfInv, NEW t \in Title, NEW s \in Status,
           \/ handleAddToLibrary(t) \/ handleRemove(t) \/ handleStatusChange(t, s) \/ readToEnd(t, s)
    PROVE  ShelfInv'
  <1>1. \E by \in {"add", "user", "reader"} :
          /\ \/ Write(Request("upsert", t, IF by = "add" THEN "planned" ELSE s, by))
             \/ Write(Request("remove", t, Absent, by)) /\ by = "user"
          /\ by = "add" => screen = [page |-> "series", title |-> t] /\ records[t] = Absent
    BY DEF handleAddToLibrary, handleRemove, handleStatusChange, readToEnd, Upsert, RemoveRecord
  <1>2. PICK by \in {"add", "user", "reader"} :
          /\ \/ Write(Request("upsert", t, IF by = "add" THEN "planned" ELSE s, by))
             \/ Write(Request("remove", t, Absent, by)) /\ by = "user"
          /\ by = "add" => screen = [page |-> "series", title |-> t] /\ records[t] = Absent
    BY <1>1
  <1>3. screens' \in Nat /\ writes' \in Nat /\ shelfFaults \in Nat
    BY <1>2 DEF Write, ShelfInv, ShelfTypes
  <1>4. (IF by = "add" THEN "planned" ELSE s) \in RecordOr /\ Absent \in RecordOr
    BY DEF RecordOr, Status, Shelved
  <1>5. PICK r \in ShelfRequest : /\ Write(r) /\ r.kind \in {"upsert", "remove"} /\ r.title = t
                                  /\ r.by = by /\ r.answer = "none"
    BY <1>2, <1>3, <1>4, RequestTypes
  <1> QED
    BY <1>2, <1>5, ChangeSent

-----------------------------------------------------------------------------
\* The server answers: what it changes, no other request is about.
LEMMA ShelfServed == ASSUME ShelfInv, NEW r \in requests, serveShelf(r) PROVE ShelfInv'
  <1> USE DEF ShelfInv
  <1> DEFINE t == r.title
  <1>1. r \in ShelfRequest /\ (r.kind # "fetch" => t \in Title) /\ r.answer = "none"
    BY DEF ShelfTypes, serveShelf
  <1>2. PICK x \in {"ok", "empty", "refused"}, d \in [Title -> RecordOr] :
          /\ Serve(r, x, d)
          /\ x = "empty" => r.kind = "one" /\ rows[t] = Absent
          /\ x = "refused" => r.kind \in {"upsert", "remove"} /\ d[t] = rows[t]
          /\ r.kind = "fetch" => \A y \in Title : d[y] \in {Absent, rows[y]}
          /\ r.kind = "fetch" => \A y \in Title : r.status = Absent => d[y] = rows[y]
          /\ \/ /\ r.kind \in {"fetch", "one"} /\ rows' = rows /\ wiped' = wiped
                /\ r.kind = "one" => d[t] = rows[t]
             \/ /\ r.kind \in {"upsert", "remove"} /\ rows' = [rows EXCEPT ![t] = d[t]]
                /\ wiped' \in BOOLEAN
                /\ wiped' => wiped \/ (r.by = "add" /\ rows[t] # Absent)
    <2>1. CASE r.kind = "fetch"
      <3> DEFINE e == [y \in Title |-> IF r.status \in {Absent, rows[y]} THEN rows[y] ELSE Absent]
      <3>1. /\ e \in [Title -> RecordOr]
            /\ \A y \in Title : e[y] \in {Absent, rows[y]} /\ (r.status = Absent => e[y] = rows[y])
        BY DEF ShelfTypes, RecordOr
      <3>2. Serve(r, "ok", e) /\ rows' = rows /\ wiped' = wiped
        BY <2>1 DEF serveShelf
      <3> HIDE DEF e
      <3> QED
        BY <2>1, <3>1, <3>2
    <2>2. CASE r.kind = "one"
      <3>1. Just(t, rows[t]) \in [Title -> RecordOr] /\ Just(t, rows[t])[t] = rows[t]
        BY <1>1, <2>2 DEF Just, Empty, ShelfTypes, RecordOr
      <3>2. /\ Serve(r, IF rows[t] = Absent THEN "empty" ELSE "ok", Just(t, rows[t]))
            /\ rows' = rows /\ wiped' = wiped
        BY <2>2 DEF serveShelf
      <3> QED
        BY <2>2, <3>1, <3>2
    <2>3. CASE r.kind = "upsert"
      <3>1. rows[t] \in RecordOr /\ rows = [rows EXCEPT ![t] = rows[t]]
        BY <1>1, <2>3 DEF ShelfTypes
      <3>2. ASSUME NEW v \in RecordOr
            PROVE  Just(t, v) \in [Title -> RecordOr] /\ Just(t, v)[t] = v
        BY <1>1, <2>3 DEF Just, Empty, RecordOr
      <3>3. \/ \E v \in upserted(r) : /\ Serve(r, "ok", Just(t, v)) /\ rows' = [rows EXCEPT ![t] = v]
                                     /\ wiped' = (wiped \/ (r.by = "add" /\ rows[t] # Absent))
            \/ Serve(r, "refused", Just(t, rows[t])) /\ rows' = rows /\ wiped' = wiped
        BY <2>3 DEF serveShelf
      <3>4. upserted(r) \subseteq RecordOr /\ wiped \in BOOLEAN
        BY <1>1 DEF upserted, ShelfRequest, RecordOr, Status, ShelfTypes
      <3> DEFINE Came(v, y) ==
              /\ Serve(r, y, Just(t, v)) /\ rows' = [rows EXCEPT ![t] = v]
              /\ y = "refused" => v = rows[t]
              /\ wiped' \in BOOLEAN /\ (wiped' => wiped \/ (r.by = "add" /\ rows[t] # Absent))
      <3>6. ASSUME NEW v \in upserted(r), Serve(r, "ok", Just(t, v)), rows' = [rows EXCEPT ![t] = v],
                   wiped' = (wiped \/ (r.by = "add" /\ rows[t] # Absent))
            PROVE  Came(v, "ok")
        BY <3>4, <3>6
      <3>7. ASSUME Serve(r, "refused", Just(t, rows[t])), rows' = rows, wiped' = wiped
            PROVE  Came(rows[t], "refused")
        BY <3>1, <3>4, <3>7
      <3>5. PICK v \in RecordOr, y \in {"ok", "refused"} : Came(v, y)
        <4> HIDE DEF Came
        <4> QED
          BY <3>1, <3>3, <3>4, <3>6, <3>7
      <3> QED
        BY <2>3, <3>2, <3>5
    <2>4. CASE r.kind = "remove"
      <3>1. Empty \in [Title -> RecordOr] /\ Empty[t] = Absent
        BY <1>1, <2>4 DEF Empty, RecordOr
      <3>2. /\ Serve(r, IF rows[t] = Absent THEN "refused" ELSE "ok", Empty)
            /\ rows' = [rows EXCEPT ![t] = Absent] /\ wiped' = wiped
        BY <2>4 DEF serveShelf
      <3>3. wiped' \in BOOLEAN
        BY <3>2 DEF ShelfTypes
      <3> QED
        BY <2>4, <3>1, <3>2, <3>3
    <2> QED
      BY <1>1, <2>1, <2>2, <2>3, <2>4 DEF ShelfRequest
  <1>3. UNCHANGED <<shelfStore, screen, busy, crossed, shelfCount>>
    BY DEF serveShelf
  <1> DEFINE n == [r EXCEPT !.answer = x, !.data = d]
  <1>4. /\ n \in ShelfRequest /\ n.kind = r.kind /\ n.title = t /\ n.status = r.status
        /\ n.by = r.by /\ n.answer = x /\ n.data = d
    BY <1>1 DEF ShelfRequest
  <1>5. requests' = (requests \ {r}) \cup {n}
    BY <1>2 DEF Serve
  <1> HIDE DEF n
  <1>6. ShelfTypes'
    <2>1. rows' \in [Title -> RecordOr] /\ wiped' \in BOOLEAN
      BY <1>1, <1>2 DEF ShelfTypes
    <2> QED
      BY <1>1, <1>2, <1>3, <1>4, <1>5, <2>1 DEF ShelfTypes, shelfStore, shelfCount
  <1>7. ASSUME calm' PROVE Calm'
    <2>1. Calm
      BY <1>3, <1>7 DEF calm, shelfCount
    <2>2. \A q \in requests \ {r} : ~conflict(q, r) /\ ~conflict(r, q)
      BY <2>1 DEF Calm, Apart
    <2>3. \A q \in requests \ {r} : ~conflict(q, n) /\ ~conflict(n, q)
      BY <1>4, <2>2 DEF conflict
    <2>4. Apart'
      BY <1>5, <2>1, <2>3 DEF Apart, Calm
    <2>5. ~wiped'
      BY <1>1, <1>2, <2>1 DEF Calm, AnswerHolds
    <2>6. \A q \in requests \ {r} : q.kind # "fetch" /\ r.kind # "fetch" /\ q.title # t /\ q.title \in Title
      BY <2>2 DEF conflict, ShelfTypes
    <2>7. \A q \in requests \ {r} : rows'[q.title] = rows[q.title]
      BY <1>2, <2>6 DEF ShelfTypes
    <2>8. \A q \in requests \ {r} : AnswerHolds(q)'
      BY <2>1, <2>6, <2>7 DEF AnswerHolds, Calm
    <2>9. AnswerHolds(n)'
      <3>1. n.kind # "fetch" => rows'[t] = d[t]
        BY <1>1, <1>2, <1>4 DEF ShelfTypes
      <3>2. n.kind = "fetch" => rows' = rows
        BY <1>2, <1>4
      <3>3. n.answer = "empty" => rows'[t] = Absent
        BY <1>2, <1>4
      <3>4. n.kind = "fetch" => \A y \in Title : n.data[y] \in {Absent, rows'[y]}
                                               /\ (n.status = Absent => n.data[y] = rows'[y])
        BY <1>2, <1>4, <3>2
      <3>5. n.kind # "fetch" => n.data[n.title] = rows'[n.title]
        BY <1>4, <3>1
      <3>6. n.answer # "none" /\ n.title = t
        BY <1>4
      <3> QED
        BY <3>3, <3>4, <3>5, <3>6 DEF AnswerHolds
    <2>10. \A q \in requests' : Suits(q)'
      BY <1>3, <1>4, <1>5, <2>1 DEF Suits, Calm
    <2>11. ASSUME NEW y \in Title PROVE TitleShown(y)'
      <3>1. TitleShown(y) /\ records' = records /\ Shows(y)' = Shows(y)
        BY <1>3, <2>1 DEF Calm, Shows, shelfStore
      <3>2. Reads(y) # {} => Reads(y)' # {}
        BY <1>4, <1>5 DEF Reads
      <3>3. CASE r.kind \in {"upsert", "remove"} /\ y = t /\ x = "ok"
        <4>1. n \in Untold(y)'
          BY <1>4, <1>5, <3>3 DEF Untold
        <4> QED
          BY <4>1 DEF TitleShown
      <3>4. CASE ~(r.kind \in {"upsert", "remove"} /\ y = t /\ x = "ok")
        <4>1. Untold(y)' = Untold(y)
          BY <1>1, <1>4, <1>5, <3>4 DEF Untold
        <4>2. rows'[y] = rows[y]
          BY <1>1, <1>2, <3>4 DEF ShelfTypes
        <4> QED
          BY <3>1, <3>2, <4>1, <4>2 DEF TitleShown
      <3> QED
        BY <3>3, <3>4
    <2>12. fetching' => \E q \in requests' : q.kind = "fetch"
      BY <1>3, <1>4, <1>5, <2>1 DEF Calm, shelfStore
    <2> QED
      BY <1>5, <2>4, <2>5, <2>8, <2>9, <2>10, <2>11, <2>12 DEF Calm
  <1> QED
    BY <1>6, <1>7

\* The store takes an answer: it holds of the rows, so the record is the server's.
LEMMA ShelfAnswered == ASSUME ShelfInv, NEW r \in requests, answerShelf(r) PROVE ShelfInv'
  <1> USE DEF ShelfInv
  <1> DEFINE t == r.title
  <1>1. /\ r \in ShelfRequest /\ (r.kind # "fetch" => t \in Title) /\ r.answer # "none"
        /\ r.answer = "empty" => r.kind = "one"
        /\ r.answer = "refused" => r.kind \in {"upsert", "remove"}
    BY DEF ShelfTypes, answerShelf
  <1>2. /\ requests' = requests \ {r} /\ UNCHANGED <<rows, screen, crossed, wiped, screens, writes, shelfFaults>>
        /\ records' = (IF r.answer \in {"empty", "refused"} THEN records ELSE merged(r))
        /\ fetching' = (fetching /\ r.kind # "fetch")
    BY DEF answerShelf, Over
  <1>3. merged(r) \in [Title -> RecordOr]
    BY <1>1 DEF merged, ShelfRequest, ShelfTypes
  <1>4. ShelfTypes'
    BY <1>2, <1>3 DEF ShelfTypes
  <1>5. ASSUME calm' PROVE Calm'
    <2>1. Calm /\ AnswerHolds(r) /\ Suits(r)
      BY <1>2, <1>5 DEF calm, Calm
    <2>2. Apart' /\ ~wiped' /\ \A q \in requests' : AnswerHolds(q)' /\ Suits(q)'
      BY <1>2, <2>1 DEF Calm, Apart, AnswerHolds, Suits
    <2>3. fetching' => \E q \in requests' : q.kind = "fetch"
      BY <1>2, <2>1 DEF Calm
    <2>4. ASSUME NEW y \in Title PROVE TitleShown(y)'
      <3>1. TitleShown(y) /\ Shows(y)' = Shows(y) /\ rows' = rows
        BY <1>2, <2>1 DEF Calm, Shows
      <3>2. CASE r.kind = "fetch"
        <4>1. r.answer = "ok" /\ records'[y] = r.data[y]
          BY <1>1, <1>2, <3>2 DEF ShelfRequest, merged
        <4>2. Shows(y) => r.status = Absent
          BY <2>1, <3>2 DEF Suits, Shows
        <4> QED
          BY <2>1, <3>1, <3>2, <4>1, <4>2 DEF TitleShown, AnswerHolds
      <3>3. CASE r.kind # "fetch" /\ y # t
        <4>1. records'[y] = records[y] /\ Untold(y)' = Untold(y)
          BY <1>1, <1>2, <3>3 DEF merged, ShelfTypes, Untold
        <4>2. Reads(y)' = Reads(y)
          BY <1>2, <3>3 DEF Reads
        <4> QED
          BY <3>1, <4>1, <4>2 DEF TitleShown
      <3>4. CASE r.kind # "fetch" /\ y = t /\ r.answer = "ok"
        <4>1. records'[y] = r.data[y] /\ r.data[y] = rows[y]
          BY <1>1, <1>2, <2>1, <3>4 DEF merged, ShelfTypes, AnswerHolds
        <4> QED
          BY <3>1, <4>1 DEF TitleShown
      <3>5. CASE r.kind = "one" /\ y = t /\ r.answer = "empty"
        <4>1. records'[y] = records[y] /\ rows[y] = Absent /\ Untold(y)' = Untold(y)
          BY <1>2, <2>1, <3>5 DEF AnswerHolds, Untold
        <4>2. Untold(y) = {}
          BY <2>1, <3>5 DEF Untold, Calm, Apart, conflict
        <4> QED
          BY <3>1, <4>1, <4>2 DEF TitleShown
      <3>6. CASE r.kind \in {"upsert", "remove"} /\ y = t /\ r.answer = "refused"
        <4>1. records'[y] = records[y] /\ Untold(y)' = Untold(y) /\ Reads(y)' = Reads(y)
          BY <1>2, <3>6 DEF Untold, Reads
        <4> QED
          BY <3>1, <4>1 DEF TitleShown
      <3> QED
        BY <1>1, <3>2, <3>3, <3>4, <3>5, <3>6 DEF ShelfRequest
    <2> QED
      BY <2>2, <2>3, <2>4 DEF Calm
  <1> QED
    BY <1>4, <1>5

\* Once something is lost, nothing is promised.
LEMMA ShelfLost == ASSUME ShelfInv, NEW r \in requests, loseShelf(r) PROVE ShelfInv'
  <1>1. shelfFaults' \in Nat /\ shelfFaults' # 0
    BY DEF loseShelf, ShelfInv, ShelfTypes
  <1>2. fetching' \in BOOLEAN
    BY DEF loseShelf, ShelfInv, ShelfTypes
  <1>3. ShelfTypes'
    BY <1>1, <1>2 DEF ShelfInv, ShelfTypes, loseShelf, Over
  <1> QED
    BY <1>1, <1>3 DEF ShelfInv, calm

LEMMA ShelfStep == ASSUME ShelfInv, [ShelfNext]_shelfVars PROVE ShelfInv'
  <1>1. CASE \E p \in {"dashboard", "library", "history", "series", "reader"}, t \in Title \cup {Absent} :
               openScreen(p, t)
    BY <1>1, ScreenOpened
  <1>2. CASE retryFetch
    BY <1>2, FetchRetried
  <1>3. CASE \E t \in Title, s \in Status : \/ handleAddToLibrary(t) \/ handleRemove(t)
                                          \/ handleStatusChange(t, s) \/ readToEnd(t, s)
    BY <1>3, ControlsUsed
  <1>4. CASE \E r \in requests : serveShelf(r) \/ answerShelf(r) \/ loseShelf(r)
    BY <1>4, ShelfServed, ShelfAnswered, ShelfLost
  <1>5. CASE UNCHANGED shelfVars
    <2> USE <1>5 DEF shelfVars, shelfStore, shelfCount
    <2>1. ShelfTypes' = ShelfTypes /\ calm' = calm
      BY DEF ShelfTypes, calm
    <2>2. Calm' = Calm
      BY DEF Calm, Apart, AnswerHolds, Suits, TitleShown, Untold, Reads, Shows
    <2> QED
      BY <2>1, <2>2 DEF ShelfInv
  <1> QED
    BY <1>1, <1>2, <1>3, <1>4, <1>5 DEF ShelfNext

\* The shelf shows the server's records once nothing is in flight, and adding to the library
\* overwrites none, for any series and number of changes, while no request got in another's
\* way and none was lost (ReadingShelf, stores/reading.store.ts and ReadingService).
THEOREM TheShelfIsTold == ShelfSpec => []ShelfSound
  <1>1. ShelfInv /\ [ShelfNext]_shelfVars => ShelfInv'
    BY ShelfStep
  <1>2. ShelfInv => ShelfSound
    BY ShelfShows
  <1> QED
    BY <1>1, <1>2, ShelfStarts, PTL DEF ShelfSpec

-----------------------------------------------------------------------------
(***************************************************************************)
(* Becoming a creator.                                                     *)
(***************************************************************************)
AppStatus == {"NONE", "APPROVED"}
AppCall == [number : Nat, tab : AppTab \cup {Blank}, kind : {"check", "apply"}, pitch : Pitch \cup {Blank},
            pc : {"asked", "store", "answered", "refused"}, answer : AppStatus]

Form == [step : Int, pitch : Pitch \cup {Blank}, tooling : BOOLEAN]

AppTypes ==
    /\ creatorStatus \in AppStatus /\ application \in Pitch \cup {Blank} /\ first \in Pitch \cup {Blank}
    /\ known \in [AppTab -> AppStatus] /\ checked \subseteq AppTab
    /\ place \in [AppTab -> {"elsewhere", "reader", "apply", "studio"}]
    /\ entered \in [AppTab -> Form]
    /\ posted \subseteq AppCall /\ callCount \in Nat /\ together \in BOOLEAN
    /\ \A c \in posted : /\ c.kind = "apply" => c.pitch # Blank
                         /\ c.pc \in {"store", "refused"} => c.kind = "apply"

\* An application about to be stored is the only one, and the first, unless two were
\* examined at once.
Storing == {c \in posted : c.pc = "store"}
OneStores == ~together => /\ \A c, d \in Storing : c = d
                          /\ Storing # {} => creatorStatus = "NONE"
                          /\ application = first
Examined == /\ (application # Blank) = (creatorStatus = "APPROVED")
            /\ (first # Blank) = (creatorStatus = "APPROVED")
            /\ OneStores

\* What a tab was told, and is about to be.
Answered(c) ==
    /\ c.pc = "answered" /\ (c.answer = "APPROVED" \/ c.kind = "apply") => creatorStatus = "APPROVED"
    /\ c.pc = "answered" /\ c.kind = "check" /\ c.tab # Blank =>
          c.answer = creatorStatus \/ c.tab \in behind
Welcome(t) == {c \in posted : c.tab = t /\ c.kind = "apply" /\ c.pc = "answered"}
Informed(t) ==
    /\ known[t] = "APPROVED" => creatorStatus = "APPROVED"
    /\ t \in checked \ behind => known[t] = creatorStatus \/ Welcome(t) # {}

AppInv == AppTypes /\ Examined /\ (\A c \in posted : Answered(c)) /\ (\A t \in AppTab : Informed(t))

LEMMA AppShows == ASSUME AppInv PROVE ApplicationSound
  <1>1. FirstApplicationStays
    BY DEF AppInv, Examined, OneStores, FirstApplicationStays
  <1>2. ASSUME NEW t \in AppTab, t \in checked \ behind, \A c \in posted : c.tab # t
        PROVE  known[t] = creatorStatus
    BY <1>2 DEF AppInv, Informed, Welcome
  <1>3. StatusTold
    BY <1>2 DEF AppInv, Informed, StatusTold
  <1> QED
    BY <1>1, <1>3 DEF ApplicationSound

LEMMA AppStarts == ApplicationInit => AppInv
  <1> SUFFICES ASSUME ApplicationInit PROVE AppInv
    OBVIOUS
  <1>0. NoDraft \in Form
    BY DEF NoDraft, Form
  <1>1. AppTypes
    BY <1>0 DEF ApplicationInit, AppTypes, AppStatus
  <1>2. Examined
    BY DEF ApplicationInit, Examined, OneStores, Storing
  <1> QED
    BY <1>1, <1>2 DEF AppInv, ApplicationInit, Informed, Answered

-----------------------------------------------------------------------------
\* A page moves and may send a request; the server has not seen it.
PageMoves ==
    /\ UNCHANGED <<creatorStatus, application, first, together>>
    /\ AppTypes'
    /\ \A c \in posted' : c \in posted \/ c.pc = "asked"
    /\ posted \subseteq posted'
    /\ UNCHANGED <<known, checked, behind>>

LEMMA PageMovesKeep == ASSUME AppInv, PageMoves PROVE AppInv'
  <1> USE DEF AppInv, PageMoves
  <1>1. Storing' = Storing
    BY DEF Storing
  <1>2. Examined'
    BY <1>1 DEF Examined, OneStores
  <1>3. \A c \in posted' : Answered(c)'
    BY DEF Answered
  <1>4. \A t \in AppTab : Welcome(t)' = Welcome(t)
    BY DEF Welcome
  <1>5. ASSUME NEW t \in AppTab PROVE Informed(t)'
    BY <1>4 DEF Informed
  <1> QED
    BY <1>2, <1>3, <1>5

LEMMA Posted ==
    ASSUME AppTypes, NEW t \in AppTab, NEW k \in {"check", "apply"}, NEW p \in Pitch \cup {Blank},
           k = "apply" => p # Blank, Call(t, k, p)
    PROVE  /\ posted' \subseteq AppCall /\ callCount' \in Nat
           /\ \A c \in posted' : /\ c.kind = "apply" => c.pitch # Blank
                                 /\ c.pc \in {"store", "refused"} => c.kind = "apply"
           /\ \A c \in posted' : c \in posted \/ c.pc = "asked"
           /\ posted \subseteq posted'
  <1> DEFINE n == [number |-> callCount, tab |-> t, kind |-> k, pitch |-> p, pc |-> "asked",
                   answer |-> "NONE"]
  <1>1. n \in AppCall /\ n.kind = k /\ n.pitch = p /\ n.pc = "asked"
    BY DEF AppTypes, AppCall, AppStatus
  <1>2. posted' = posted \cup {n} /\ callCount' = callCount + 1
    BY DEF Call
  <1> HIDE DEF n
  <1> QED
    BY <1>1, <1>2 DEF AppTypes

LEMMA TabMoves ==
    ASSUME AppInv, NEW t \in AppTab,
           \/ readerShell(t) \/ becomeACreator(t) \/ creatorShell(t) \/ fill(t) \/ nextStep(t)
           \/ previousStep(t) \/ handleApply(t)
    PROVE  AppInv'
  <1> USE DEF AppInv
  <1>1. CASE readerShell(t)
    <2>1. \/ UNCHANGED <<posted, callCount>>
          \/ Call(t, "check", Blank)
      BY <1>1 DEF readerShell
    <2>2. /\ posted' \subseteq AppCall /\ callCount' \in Nat
          /\ \A c \in posted' : /\ c.kind = "apply" => c.pitch # Blank
                                /\ c.pc \in {"store", "refused"} => c.kind = "apply"
          /\ \A c \in posted' : c \in posted \/ c.pc = "asked"
          /\ posted \subseteq posted'
      BY <2>1, Posted DEF AppTypes
    <2>3. AppTypes'
      BY <1>1, <2>2 DEF AppTypes, readerShell, NoDraft, Form
    <2> QED
      BY <1>1, <2>2, <2>3, PageMovesKeep DEF PageMoves, readerShell
  <1>2. CASE becomeACreator(t) \/ creatorShell(t)
    <2>1. AppTypes'
      <3>1. CASE becomeACreator(t)
        BY <3>1 DEF AppTypes, becomeACreator
      <3>2. CASE creatorShell(t)
        BY <3>2 DEF AppTypes, creatorShell, NoDraft, Form
      <3> QED
        BY <1>2, <3>1, <3>2
    <2>2. UNCHANGED <<creatorStatus, application, known, checked, posted, first, together, behind>>
      BY <1>2 DEF becomeACreator, creatorShell
    <2> QED
      BY <2>1, <2>2, PageMovesKeep DEF PageMoves
  <1>3. CASE fill(t) \/ nextStep(t) \/ previousStep(t)
    <2>1. entered' \in [AppTab -> Form]
      <3>1. entered \in [AppTab -> Form] /\ entered[t] \in Form
        BY DEF AppTypes
      <3>2. CASE fill(t)
        <4>1. \/ \E p \in Pitch : entered' = [entered EXCEPT ![t] = [entered[t] EXCEPT !.pitch = p]]
              \/ entered' = [entered EXCEPT ![t] = [entered[t] EXCEPT !.tooling = TRUE]]
          BY <3>1, <3>2 DEF fill
        <4> QED
          BY <3>1, <4>1 DEF Form
      <3>3. CASE nextStep(t) \/ previousStep(t)
        <4>1. \/ entered' = [entered EXCEPT ![t] = [entered[t] EXCEPT !.step = entered[t].step + 1]]
              \/ entered' = [entered EXCEPT ![t] = [entered[t] EXCEPT !.step = entered[t].step - 1]]
          BY <3>1, <3>3 DEF nextStep, previousStep
        <4> QED
          BY <3>1, <4>1 DEF Form
      <3> QED
        BY <1>3, <3>2, <3>3
    <2>2. UNCHANGED <<creatorStatus, application, known, checked, place, submitting, posted, callCount,
                      first, together, behind>>
      BY <1>3 DEF fill, nextStep, previousStep
    <2>3. AppTypes'
      BY <2>1, <2>2 DEF AppTypes
    <2> QED
      BY <2>2, <2>3, PageMovesKeep DEF PageMoves
  <1>4. CASE handleApply(t)
    <2>1. Call(t, "apply", entered[t].pitch) /\ entered[t].pitch \in Pitch \cup {Blank} /\ entered[t].pitch # Blank
      BY <1>4 DEF handleApply, AppTypes, Form
    <2>2. /\ posted' \subseteq AppCall /\ callCount' \in Nat
          /\ \A c \in posted' : /\ c.kind = "apply" => c.pitch # Blank
                                /\ c.pc \in {"store", "refused"} => c.kind = "apply"
          /\ \A c \in posted' : c \in posted \/ c.pc = "asked"
          /\ posted \subseteq posted'
      BY <2>1, Posted
    <2>3. AppTypes'
      BY <1>4, <2>2 DEF AppTypes, handleApply
    <2> QED
      BY <1>4, <2>2, <2>3, PageMovesKeep DEF PageMoves, handleApply
  <1> QED
    BY <1>1, <1>2, <1>3, <1>4

-----------------------------------------------------------------------------
\* The server takes a request one step on.
LEMMA Become1 ==
    ASSUME AppTypes, NEW c \in posted, NEW p \in {"store", "answered", "refused"}, NEW s \in AppStatus,
           Become(c, p, s), p \in {"store", "refused"} => c.kind = "apply"
    PROVE  \E n \in AppCall :
              /\ posted' = (posted \ {c}) \cup {n}
              /\ n.tab = c.tab /\ n.kind = c.kind /\ n.pitch = c.pitch /\ n.pc = p /\ n.answer = s
              /\ posted' \subseteq AppCall
              /\ \A d \in posted' : /\ d.kind = "apply" => d.pitch # Blank
                                    /\ d.pc \in {"store", "refused"} => d.kind = "apply"
  <1> DEFINE n == [c EXCEPT !.pc = p, !.answer = s]
  <1>1. n \in AppCall /\ n.tab = c.tab /\ n.kind = c.kind /\ n.pitch = c.pitch /\ n.pc = p /\ n.answer = s
    BY DEF AppTypes, AppCall
  <1>2. posted' = (posted \ {c}) \cup {n}
    BY DEF Become
  <1> HIDE DEF n
  <1> QED
    BY <1>1, <1>2 DEF AppTypes

LEMMA StatusRead == ASSUME AppInv, NEW c \in posted, getApplicationStatus(c) PROVE AppInv'
  <1> USE DEF AppInv
  <1>1. /\ c.kind = "check" /\ c.pc = "asked" /\ Become(c, "answered", creatorStatus)
        /\ UNCHANGED <<creatorStatus, application, known, checked, pageOf, callCount, first, together, behind>>
    BY DEF getApplicationStatus
  <1>2. PICK n \in AppCall :
          /\ posted' = (posted \ {c}) \cup {n}
          /\ n.tab = c.tab /\ n.kind = "check" /\ n.pc = "answered" /\ n.answer = creatorStatus
          /\ posted' \subseteq AppCall
          /\ \A d \in posted' : /\ d.kind = "apply" => d.pitch # Blank
                                /\ d.pc \in {"store", "refused"} => d.kind = "apply"
    BY <1>1, Become1 DEF AppTypes
  <1>3. AppTypes'
    BY <1>1, <1>2 DEF AppTypes, pageOf
  <1>4. Storing' = Storing /\ \A t \in AppTab : Welcome(t)' = Welcome(t)
    BY <1>1, <1>2 DEF Storing, Welcome
  <1>5. Examined'
    BY <1>1, <1>4 DEF Examined, OneStores
  <1>6. \A d \in posted' : Answered(d)'
    BY <1>1, <1>2 DEF Answered
  <1>7. \A t \in AppTab : Informed(t)'
    BY <1>1, <1>4 DEF Informed, pageOf
  <1> QED
    BY <1>3, <1>5, <1>6, <1>7

LEMMA ApplicantFound == ASSUME AppInv, NEW c \in posted, findApplicant(c) PROVE AppInv'
  <1> USE DEF AppInv
  <1>1. /\ c.kind = "apply" /\ c.pc = "asked"
        /\ together' = (together \/ \E d \in posted : d.pc = "store")
        /\ UNCHANGED <<creatorStatus, application, known, checked, pageOf, callCount, first, behind>>
    BY DEF findApplicant
  <1>2. PICK p \in {"store", "refused"} : Become(c, p, "NONE") /\ (p = "store" => creatorStatus = "NONE")
    BY DEF findApplicant, AppTypes, AppStatus
  <1>3. PICK n \in AppCall :
          /\ posted' = (posted \ {c}) \cup {n}
          /\ n.tab = c.tab /\ n.kind = "apply" /\ n.pc = p
          /\ posted' \subseteq AppCall
          /\ \A d \in posted' : /\ d.kind = "apply" => d.pitch # Blank
                                /\ d.pc \in {"store", "refused"} => d.kind = "apply"
    BY <1>1, <1>2, Become1 DEF AppStatus
  <1>4. AppTypes'
    BY <1>1, <1>3 DEF AppTypes, pageOf
  <1>5. \A t \in AppTab : Welcome(t)' = Welcome(t)
    BY <1>1, <1>2, <1>3 DEF Welcome
  <1>6. ~together' => Storing = {} /\ Storing' \subseteq {n} /\ (Storing' # {} => p = "store")
    BY <1>1, <1>3 DEF Storing
  <1>7. Examined'
    BY <1>1, <1>2, <1>6 DEF Examined, OneStores
  <1>8. \A d \in posted' : Answered(d)'
    BY <1>1, <1>2, <1>3 DEF Answered
  <1>9. \A t \in AppTab : Informed(t)'
    BY <1>1, <1>5 DEF Informed, pageOf
  <1> QED
    BY <1>4, <1>7, <1>8, <1>9

LEMMA ApplicationStored == ASSUME AppInv, NEW c \in posted, storeApplication(c) PROVE AppInv'
  <1> USE DEF AppInv
  <1>1. /\ c.pc = "store" /\ Become(c, "answered", "APPROVED") /\ c.kind = "apply"
        /\ c.pitch \in Pitch /\ c.pitch # Blank
        /\ application' = c.pitch /\ creatorStatus' = "APPROVED"
        /\ first' = (IF first = Blank THEN c.pitch ELSE first)
        /\ behind' = behind \cup uninformed(c)
        /\ UNCHANGED <<known, checked, pageOf, callCount, together>>
    BY DEF storeApplication, AppTypes, AppCall
  <1>2. PICK n \in AppCall :
          /\ posted' = (posted \ {c}) \cup {n}
          /\ n.tab = c.tab /\ n.kind = "apply" /\ n.pc = "answered"
          /\ posted' \subseteq AppCall
          /\ \A d \in posted' : /\ d.kind = "apply" => d.pitch # Blank
                                /\ d.pc \in {"store", "refused"} => d.kind = "apply"
    BY <1>1, Become1 DEF AppStatus
  <1>3. AppTypes'
    BY <1>1, <1>2 DEF AppTypes, AppStatus, pageOf
  <1>4. Examined'
    <2>1. ~together => Storing' = {}
      BY <1>1, <1>2 DEF Storing, Examined, OneStores
    <2>2. ~together => first = Blank
      BY <1>1 DEF Storing, Examined, OneStores
    <2> QED
      BY <1>1, <2>1, <2>2, ApplicationAssumption DEF Examined, OneStores
  <1>5. ASSUME NEW d \in posted' PROVE Answered(d)'
    <2>1. CASE d = n
      BY <1>1, <1>2, <2>1 DEF Answered
    <2>2. CASE d \in posted /\ d # n
      <3>1. d.pc = "answered" /\ d.kind = "check" /\ d.tab # Blank => d.tab \in uninformed(c)
        BY <2>2 DEF uninformed, AppTypes, AppCall
      <3> QED
        BY <1>1, <3>1 DEF Answered
    <2> QED
      BY <1>2, <2>1, <2>2
  <1>6. ASSUME NEW t \in AppTab PROVE Informed(t)'
    <2>1. CASE t = c.tab
      <3>1. n \in Welcome(t)'
        BY <1>2, <2>1 DEF Welcome
      <3> QED
        BY <1>1, <3>1 DEF Informed
    <2>2. CASE t # c.tab
      <3>1. t \in checked => t \in uninformed(c)
        BY <2>2 DEF uninformed
      <3> QED
        BY <1>1, <3>1 DEF Informed
    <2> QED
      BY <2>1, <2>2
  <1> QED
    BY <1>3, <1>4, <1>5, <1>6

-----------------------------------------------------------------------------
\* An answer reaches its tab t, or no one: requests end, or nobody waits for them any more.
LEMMA CallOver ==
    ASSUME AppInv, NEW t, AppTypes', UNCHANGED <<creatorStatus, application, first, together>>,
           \A d \in posted' : \E e \in posted : /\ d.pc = e.pc /\ d.kind = e.kind /\ d.answer = e.answer
                                                /\ d.tab \in {e.tab, Blank},
           (\A c, d \in Storing : c = d) => (\A c, d \in Storing' : c = d),
           \A d \in posted' : d.tab \in behind => d.tab \in behind',
           \A x \in AppTab : x # t => /\ known'[x] = known[x] /\ Welcome(x)' = Welcome(x)
                                      /\ (x \in checked') = (x \in checked)
                                      /\ (x \in behind) = (x \in behind'),
           t \in AppTab => Informed(t)'
    PROVE  AppInv'
  <1> USE DEF AppInv
  <1>1. Storing' # {} => Storing # {}
    BY DEF Storing
  <1>2. Examined'
    BY <1>1 DEF Examined, OneStores
  <1>3. ASSUME NEW d \in posted' PROVE Answered(d)'
    BY DEF Answered
  <1>4. ASSUME NEW x \in AppTab, x # t PROVE Informed(x)'
    BY <1>4 DEF Informed
  <1> QED
    BY <1>2, <1>3, <1>4

\* A request ends.
LEMMA CallEnds ==
    ASSUME AppInv, NEW c \in posted, posted' = posted \ {c}, AppTypes',
           UNCHANGED <<creatorStatus, application, first, together>>, behind \subseteq behind',
           \A x \in AppTab : x # c.tab => /\ known'[x] = known[x] /\ (x \in checked') = (x \in checked)
                                          /\ (x \in behind) = (x \in behind'),
           c.tab \in AppTab => Informed(c.tab)'
    PROVE  AppInv'
  <1>1. Storing' \subseteq Storing
    BY DEF Storing
  <1>2. \A x \in AppTab : x # c.tab => Welcome(x)' = Welcome(x)
    BY DEF Welcome
  <1>3. \A d \in posted' : \E e \in posted : /\ d.pc = e.pc /\ d.kind = e.kind /\ d.answer = e.answer
                                             /\ d.tab \in {e.tab, Blank}
    OBVIOUS
  <1> QED
    BY <1>1, <1>2, <1>3, CallOver

LEMMA NobodyHears ==
    ASSUME AppTypes, NEW c \in posted
    PROVE  /\ Unheard(c) \in AppCall /\ Unheard(c).tab = Blank /\ Unheard(c).kind = c.kind
           /\ Unheard(c).pc = c.pc /\ Unheard(c).answer = c.answer /\ Unheard(c).pitch = c.pitch
  BY DEF AppTypes, AppCall, Unheard

\* The client gives up, or goes, and the server goes on.
LEMMA GivenUp ==
    ASSUME AppInv, NEW c \in posted, callLost(c), posted' = (posted \ {c}) \cup {Unheard(c)}
    PROVE  AppInv'
  <1> USE DEF AppInv
  <1>0. AppTypes
    OBVIOUS
  <1> DEFINE n == Unheard(c)
  <1>1. /\ n \in AppCall /\ n.tab = Blank /\ n.kind = c.kind /\ n.pc = c.pc /\ n.answer = c.answer
        /\ n.pitch = c.pitch /\ posted' = (posted \ {c}) \cup {n}
    BY <1>0, NobodyHears
  <1> HIDE DEF n
  <1>2. /\ UNCHANGED <<creatorStatus, application, known, checked, place, entered, callCount, first, together>>
        /\ behind \subseteq behind' /\ behind' \subseteq behind \cup ({c.tab} \cap AppTab)
        /\ c.kind = "apply" /\ c.pc = "answered" => {c.tab} \cap AppTab \subseteq behind'
    BY DEF callLost
  <1>3. AppTypes'
    BY <1>1, <1>2 DEF AppTypes
  <1>4. \A d \in posted' : \E e \in posted : /\ d.pc = e.pc /\ d.kind = e.kind /\ d.answer = e.answer
                                             /\ d.tab \in {e.tab, Blank}
    BY <1>1
  <1>5. (\A d, e \in Storing : d = e) => (\A d, e \in Storing' : d = e)
    BY <1>1 DEF Storing
  <1>6. \A x \in AppTab : x # c.tab => Welcome(x)' = Welcome(x)
    BY <1>1, ApplicationAssumption DEF Welcome
  <1>7. ASSUME c.tab \in AppTab PROVE Informed(c.tab)'
    <2>1. CASE c.kind = "apply" /\ c.pc = "answered"
      BY <1>2, <1>7, <2>1 DEF Informed
    <2>2. CASE ~(c.kind = "apply" /\ c.pc = "answered")
      <3>1. Welcome(c.tab)' = Welcome(c.tab)
        BY <1>1, <2>2 DEF Welcome
      <3> QED
        BY <1>2, <1>7, <3>1 DEF Informed
    <2> QED
      BY <2>1, <2>2
  <1> QED
    BY <1>2, <1>3, <1>4, <1>5, <1>6, <1>7, CallOver

LEMMA TabReloaded == ASSUME AppInv, NEW t \in AppTab, reload(t) PROVE AppInv'
  <1> USE DEF AppInv
  <1>0. AppTypes
    OBVIOUS
  <1> DEFINE After(c) == IF c.tab = t THEN Unheard(c) ELSE c
  <1>1. \A c \in posted : /\ After(c) \in AppCall /\ After(c).kind = c.kind /\ After(c).pc = c.pc
                          /\ After(c).answer = c.answer /\ After(c).pitch = c.pitch
                          /\ After(c).tab \in {c.tab, Blank}
                          /\ c.tab # t => After(c) = c
                          /\ c.tab = t => After(c).tab = Blank
    BY <1>0, NobodyHears DEF AppTypes
  <1>2. posted' = {After(c) : c \in posted}
    BY DEF reload
  <1> HIDE DEF After
  <1>3. /\ UNCHANGED <<creatorStatus, application, callCount, first, together>>
        /\ known' = [known EXCEPT ![t] = "NONE"] /\ checked' = checked \ {t} /\ behind' = behind \ {t}
        /\ place' = [place EXCEPT ![t] = "elsewhere"] /\ entered' = [entered EXCEPT ![t] = NoDraft]
    BY DEF reload
  <1>4. AppTypes'
    <2>1. posted' \subseteq AppCall
      BY <1>1, <1>2
    <2>2. \A c \in posted' : /\ c.kind = "apply" => c.pitch # Blank
                             /\ c.pc \in {"store", "refused"} => c.kind = "apply"
      BY <1>1, <1>2 DEF AppTypes
    <2> QED
      BY <1>3, <2>1, <2>2 DEF AppTypes, AppStatus, NoDraft, Form
  <1>5. \A d \in posted' : \E e \in posted : /\ d.pc = e.pc /\ d.kind = e.kind /\ d.answer = e.answer
                                             /\ d.tab \in {e.tab, Blank}
    BY <1>1, <1>2
  <1>6. (\A d, e \in Storing : d = e) => (\A d, e \in Storing' : d = e)
    BY <1>1, <1>2 DEF Storing
  <1>7. ASSUME NEW x \in AppTab, x # t PROVE Welcome(x)' = Welcome(x)
    BY <1>1, <1>2, <1>7, ApplicationAssumption DEF Welcome
  <1>8. \A d \in posted' : d.tab # t
    BY <1>1, <1>2, ApplicationAssumption
  <1>9. Informed(t)'
    BY <1>3, <1>0 DEF Informed, AppTypes
  <1>10. \A x \in AppTab : x # t => /\ known'[x] = known[x] /\ (x \in checked') = (x \in checked)
                                    /\ (x \in behind) = (x \in behind')
    BY <1>0, <1>3 DEF AppTypes
  <1>11. \A d \in posted' : d.tab \in behind => d.tab \in behind'
    BY <1>3, <1>8
  <1> QED
    BY <1>3, <1>4, <1>5, <1>6, <1>7, <1>9, <1>10, <1>11, CallOver

LEMMA TabTold ==
    ASSUME AppInv, NEW c \in posted,
           statusChecked(c) \/ approved(c) \/ applyRefused(c) \/ callLost(c) \/ unheard(c)
    PROVE  AppInv'
  <1> USE DEF AppInv
  <1>0. /\ c.tab \in AppTab \cup {Blank} /\ c.answer \in AppStatus /\ Answered(c)
        /\ c.tab # Blank => c.tab \in AppTab /\ Informed(c.tab)
    BY DEF AppTypes, AppCall
  <1>1. CASE statusChecked(c)
    <2>1. AppTypes'
      BY <1>0, <1>1 DEF AppTypes, statusChecked, pageOf
    <2>2. /\ known'[c.tab] = c.answer
          /\ \A t \in AppTab : t # c.tab => known'[t] = known[t]
      BY <1>0, <1>1 DEF AppTypes, statusChecked
    <2>3. Informed(c.tab)'
      BY <1>0, <1>1, <2>2 DEF Informed, Answered, statusChecked
    <2> QED
      BY <1>0, <1>1, <2>1, <2>2, <2>3, CallEnds DEF statusChecked
  <1>2. CASE approved(c)
    <2>1. AppTypes'
      BY <1>0, <1>2 DEF AppTypes, AppStatus, approved, NoDraft, Form
    <2>2. /\ known'[c.tab] = "APPROVED"
          /\ \A t \in AppTab : t # c.tab => known'[t] = known[t]
      BY <1>0, <1>2 DEF AppTypes, approved
    <2>3. Informed(c.tab)'
      BY <1>0, <1>2, <2>2 DEF Informed, Answered, approved
    <2> QED
      BY <1>0, <1>2, <2>1, <2>2, <2>3, CallEnds DEF approved
  <1>3. CASE applyRefused(c) \/ unheard(c)
    <2>1. AppTypes'
      BY <1>3 DEF AppTypes, applyRefused, unheard, pageOf
    <2>2. c.tab \in AppTab => Welcome(c.tab)' = Welcome(c.tab)
      BY <1>3, ApplicationAssumption DEF Welcome, applyRefused, unheard
    <2>3. c.tab \in AppTab => Informed(c.tab)'
      BY <1>0, <1>3, <2>2 DEF Informed, applyRefused, unheard
    <2> QED
      BY <1>0, <1>3, <2>1, <2>3, CallEnds DEF applyRefused, unheard
  <1>4. CASE callLost(c) /\ posted' = posted \ {c}
    <2>1. AppTypes'
      BY <1>4 DEF AppTypes, callLost
    <2>2. c.tab \in AppTab => Informed(c.tab)'
      <3>1. CASE c.kind = "apply" /\ c.pc = "answered"
        BY <1>0, <1>4, <3>1 DEF Informed, callLost
      <3>2. CASE ~(c.kind = "apply" /\ c.pc = "answered")
        <4>1. Welcome(c.tab)' = Welcome(c.tab)
          BY <1>4, <3>2 DEF Welcome, callLost
        <4> QED
          BY <1>0, <1>4, <3>2, <4>1 DEF Informed, callLost
      <3> QED
        BY <3>1, <3>2
    <2> QED
      BY <1>0, <1>4, <2>1, <2>2, CallEnds DEF callLost
  <1>5. CASE callLost(c) /\ posted' # posted \ {c}
    BY <1>5, GivenUp DEF callLost
  <1> QED
    BY <1>1, <1>2, <1>3, <1>4, <1>5

LEMMA AppStep == ASSUME AppInv, [ApplicationNext]_applicationVars PROVE AppInv'
  <1>1. CASE \E t \in AppTab : \/ readerShell(t) \/ becomeACreator(t) \/ creatorShell(t) \/ fill(t)
                               \/ nextStep(t) \/ previousStep(t) \/ handleApply(t) \/ reload(t)
    BY <1>1, TabMoves, TabReloaded
  <1>2. CASE \E c \in posted : getApplicationStatus(c) \/ findApplicant(c) \/ storeApplication(c)
    BY <1>2, StatusRead, ApplicantFound, ApplicationStored
  <1>3. CASE \E c \in posted : statusChecked(c) \/ approved(c) \/ applyRefused(c) \/ callLost(c)
                                \/ unheard(c)
    BY <1>3, TabTold
  <1>4. CASE UNCHANGED applicationVars
    BY <1>4 DEF applicationVars, pageOf, AppInv, AppTypes, Examined, OneStores, Storing, Answered,
          Informed, Welcome
  <1> QED
    BY <1>1, <1>2, <1>3, <1>4 DEF ApplicationNext

\* A user is approved for the application stored first, unless two were examined at once,
\* and a tab that has checked knows it, for any tabs and number of requests
\* (CreatorApplication, CreatorService.apply and stores/creator.store.ts).
THEOREM ApplicationsAreSound == ApplicationSpec => []ApplicationSound
  <1>1. AppInv /\ [ApplicationNext]_applicationVars => AppInv'
    BY AppStep
  <1>2. AppInv => ApplicationSound
    BY AppShows
  <1> QED
    BY <1>1, <1>2, AppStarts, PTL DEF ApplicationSpec

-----------------------------------------------------------------------------
(***************************************************************************)
(* The passport page.                                                      *)
(***************************************************************************)
\* The bar of each level, for any total that has reached it.
BarAt(grade, n) ==
    LET pct == levelProgress(grade, n)
        bar == imageBar(grade, n)
    IN  /\ pct \in 0 .. 100
        /\ 472 * pct - 100 * bar.fill \in -286 .. 286
        /\ bar.missing = 0 => pct = 100

\* Of a span of d, i done: in per cent and in pixels.
BarOf(d, i) ==
    /\ Least(100, rounded(100 * i, d)) \in 0 .. 100
    /\ 472 * Least(100, rounded(100 * i, d)) - 100 * rounded(472 * Least(i, d), d) \in -286 .. 286
    /\ i >= d => Least(100, rounded(100 * i, d)) = 100

LEMMA Bars ==
    ASSUME NEW d \in {500, 1500, 4000, 9000, 25000}, NEW i \in Nat PROVE BarOf(d, i)
  <1>1. CASE d = 500
    BY <1>1 DEF BarOf, Least, rounded
  <1>2. CASE d = 1500
    BY <1>2 DEF BarOf, Least, rounded
  <1>3. CASE d = 4000
    BY <1>3 DEF BarOf, Least, rounded
  <1>4. CASE d = 9000
    BY <1>4 DEF BarOf, Least, rounded
  <1>5. CASE d = 25000
    BY <1>5 DEF BarOf, Least, rounded
  <1> QED
    BY <1>1, <1>2, <1>3, <1>4, <1>5

LEMMA BarRight ==
    ASSUME NEW grade \in 1 .. 6, NEW n \in Nat, n >= Thresholds[grade] PROVE BarAt(grade, n)
  <1>1. CASE grade = 6
    BY <1>1 DEF BarAt, levelProgress, imageBar
  <1>2. CASE grade # 6
    <2> DEFINE d == Thresholds[grade + 1] - Thresholds[grade]
               i == n - Thresholds[grade]
    <2>1. /\ d \in {500, 1500, 4000, 9000, 25000} /\ i \in Nat
          /\ Thresholds[grade] \in Nat /\ Thresholds[grade + 1] \in Nat
      <3>1. grade \in {1, 2, 3, 4, 5}
        BY <1>2
      <3> QED
        BY <3>1 DEF Thresholds
    <2>2. levelProgress(grade, n) = Least(100, rounded(100 * i, d))
      BY <1>2 DEF levelProgress
    <2>3. /\ imageBar(grade, n).fill = rounded(472 * Least(i, d), d)
          /\ imageBar(grade, n).missing = (IF n < Thresholds[grade + 1] THEN Thresholds[grade + 1] - n ELSE 0)
      BY <1>2, <2>1 DEF imageBar
    <2>4. imageBar(grade, n).missing = 0 => i >= d
      BY <2>1, <2>3
    <2> HIDE DEF i, d
    <2>0. /\ d \in {500, 1500, 4000, 9000, 25000}
          /\ i \in Nat
      BY <2>1
    <2>5. /\ Least(100, rounded(100 * i, d)) \in 0 .. 100
          /\ 472 * Least(100, rounded(100 * i, d)) - 100 * rounded(472 * Least(i, d), d) \in -286 .. 286
          /\ i >= d => Least(100, rounded(100 * i, d)) = 100
      <3>1. BarOf(d, i)
        BY <2>0, Bars
      <3> QED
        BY <3>1 DEF BarOf
    <2> DEFINE p == levelProgress(grade, n)
               b == imageBar(grade, n)
    <2>6. p \in 0 .. 100 /\ (b.missing = 0 => p = 100)
      BY <2>2, <2>4, <2>5
    <2>7. 472 * p - 100 * b.fill \in -286 .. 286
      BY <2>2, <2>3, <2>5
    <2> QED
      BY <2>6, <2>7 DEF BarAt
  <1> QED
    BY <1>1, <1>2

PassportRow == [ink : Nat, blob : Nat, synced : Nat]

PassportTypes ==
    /\ kept \in PassportRow /\ copy \in PassportRow \cup {Unfetched} /\ snapshot \in Nat
    /\ \A f \in fetches : f.row \in PassportRow \cup {Unfetched}
    /\ fetches \subseteq [number : Int, row : PassportRow \cup {Unfetched}]

\* A copy c of the row, read without a fetch in its way: nothing newer is there that was not
\* marked as a change, and after the sync none at all of the sync.
Fresh(c) == /\ ~changed => c = kept
            /\ syncing = "success" => c.synced = kept.synced
CopyFresh ==
    ~fetchesCrossed => /\ \A f, g \in fetches : f = g
                       /\ \A f \in fetches : f.row # Unfetched => Fresh(f.row)
                       /\ fetches = {} /\ copy # Unfetched /\ ~passportError => Fresh(copy)

\* No snapshot is named before it is stored.
BlobsStored ==
    /\ snapshot <= kept.blob
    /\ copy # Unfetched => copy.blob <= kept.blob
    /\ \A f \in fetches : f.row # Unfetched => f.row.blob <= kept.blob
    /\ snapshot # 0 /\ exporting # "stored" /\ ~elsewhere => snapshot = kept.blob

PassInv == PassportTypes /\ CopyFresh /\ BlobsStored

LEMMA PassShows == ASSUME PassInv PROVE PassportShown
  <1>1. BarSound
    <2>1. kept.ink \in Nat
      BY DEF PassInv, PassportTypes, PassportRow
    <2>2. \A grade \in 1 .. 6 : kept.ink >= Thresholds[grade] => BarAt(grade, kept.ink)
      BY <2>1, BarRight
    <2> QED
      BY <2>2 DEF BarSound, BarAt
  <1>2. CopyTold
    BY DEF PassInv, CopyFresh, Fresh, CopyTold
  <1>3. SnapshotTold
    BY DEF PassInv, BlobsStored, SnapshotTold, named
  <1> QED
    BY <1>1, <1>2, <1>3 DEF PassportShown

LEMMA PassStarts == PassportInit => PassInv
  BY DEF PassportInit, PassInv, PassportTypes, PassportRow, CopyFresh, BlobsStored

\* A fetch begins; what is in flight besides is crossed.
LEMMA FetchBegins ==
    ASSUME PassInv, NEW n \in Int, fetchPassport(n),
           UNCHANGED <<kept, copy, snapshot, exporting, changed, elsewhere>>
    PROVE  PassInv'
  <1> DEFINE f == [number |-> n, row |-> Unfetched]
  <1>1. fetches' = fetches \cup {f} /\ f.row = Unfetched /\ fetchesCrossed' = (fetches # {})
    BY DEF fetchPassport
  <1>2. f \in [number : Int, row : PassportRow \cup {Unfetched}]
    OBVIOUS
  <1> HIDE DEF f
  <1>3. PassportTypes'
    BY <1>1, <1>2 DEF PassInv, PassportTypes
  <1>4. CopyFresh'
    BY <1>1 DEF CopyFresh
  <1>5. BlobsStored'
    BY <1>1 DEF PassInv, BlobsStored
  <1> QED
    BY <1>3, <1>4, <1>5 DEF PassInv

LEMMA FetchMoves ==
    ASSUME PassInv, NEW f \in fetches, findByUserId(f) \/ passportFetched(f) \/ fetchLost(f)
    PROVE  PassInv'
  <1> USE DEF PassInv
  <1>1. CASE findByUserId(f)
    <2> DEFINE g == [f EXCEPT !.row = kept]
    <2>1. /\ fetches' = (fetches \ {f}) \cup {g} /\ changed' = FALSE
          /\ UNCHANGED <<kept, copy, passportError, snapshot, exporting, syncing, fetchesCrossed, elsewhere>>
      BY <1>1 DEF findByUserId
    <2>2. g \in [number : Int, row : PassportRow \cup {Unfetched}] /\ g.row = kept
      BY DEF PassportTypes
    <2> HIDE DEF g
    <2>3. PassportTypes'
      BY <2>1, <2>2 DEF PassportTypes
    <2>4. CopyFresh'
      BY <2>1, <2>2 DEF CopyFresh, Fresh
    <2>5. BlobsStored'
      BY <2>1, <2>2 DEF BlobsStored, PassportTypes, PassportRow
    <2> QED
      BY <2>3, <2>4, <2>5
  <1>2. CASE passportFetched(f)
    <2>1. /\ f.row # Unfetched /\ f.row \in PassportRow /\ fetches' = fetches \ {f} /\ copy' = f.row
          /\ UNCHANGED <<kept, passportError, snapshot, exporting, syncing, changed, fetchesCrossed, elsewhere>>
      BY <1>2 DEF passportFetched, PassportTypes
    <2>2. PassportTypes'
      BY <2>1 DEF PassportTypes
    <2>3. CopyFresh'
      BY <2>1 DEF CopyFresh, Fresh
    <2>4. BlobsStored'
      BY <2>1 DEF BlobsStored
    <2> QED
      BY <2>2, <2>3, <2>4
  <1>3. CASE fetchLost(f)
    <2>1. /\ fetches' = fetches \ {f} /\ passportError' = TRUE
          /\ UNCHANGED <<kept, copy, snapshot, exporting, syncing, changed, fetchesCrossed, elsewhere>>
      BY <1>3 DEF fetchLost
    <2>2. PassportTypes'
      BY <2>1 DEF PassportTypes
    <2>3. CopyFresh'
      BY <2>1 DEF CopyFresh, Fresh
    <2>4. BlobsStored'
      BY <2>1 DEF BlobsStored
    <2> QED
      BY <2>2, <2>3, <2>4
  <1> QED
    BY <1>1, <1>2, <1>3

\* The row changes: INK, a snapshot or a sync; every copy is then marked as behind it, and
\* no sync follows one that succeeded.
LEMMA RowChanges ==
    ASSUME PassInv, inkEarned \/ takeSnapshot \/ snapshotElsewhere \/ anchored
    PROVE  PassInv'
  <1> USE DEF PassInv
  <1>1. /\ changed' /\ UNCHANGED <<copyVars, snapshot, fetchesCrossed>>
        /\ kept' \in PassportRow /\ kept'.blob >= kept.blob
        /\ syncing' = "success" => syncing = "success" /\ kept'.synced = kept.synced
        /\ snapshot # 0 /\ exporting' # "stored" /\ ~elsewhere' => snapshot = kept'.blob
    <2>1. CASE inkEarned
      <3>1. PICK n \in Totals : kept' = [kept EXCEPT !.ink = n]
        BY <2>1 DEF inkEarned
      <3>2. /\ kept' \in PassportRow /\ kept'.blob = kept.blob /\ kept'.synced = kept.synced /\ kept.blob \in Nat
        BY <3>1, PassportPageAssumption DEF PassportTypes, PassportRow
      <3> QED
        BY <2>1, <3>2 DEF inkEarned, BlobsStored
    <2>2. CASE takeSnapshot \/ snapshotElsewhere
      <3>1. kept' = [kept EXCEPT !.blob = kept.blob + 1]
        BY <2>2 DEF takeSnapshot, snapshotElsewhere
      <3>2. kept' \in PassportRow /\ kept'.blob = kept.blob + 1 /\ kept'.synced = kept.synced /\ kept.blob \in Nat
        BY <3>1 DEF PassportTypes, PassportRow
      <3> QED
        BY <2>2, <3>2 DEF takeSnapshot, snapshotElsewhere
    <2>3. CASE anchored
      <3>1. kept' = [kept EXCEPT !.synced = kept.synced + 1]
        BY <2>3 DEF anchored
      <3>2. kept' \in PassportRow /\ kept'.blob = kept.blob /\ kept.blob \in Nat
        BY <3>1 DEF PassportTypes, PassportRow
      <3> QED
        BY <2>3, <3>2 DEF anchored, BlobsStored
    <2> QED
      BY <2>1, <2>2, <2>3
  <1>2. PassportTypes'
    BY <1>1 DEF PassportTypes, copyVars
  <1>3. CopyFresh'
    BY <1>1 DEF CopyFresh, Fresh, copyVars
  <1>4. BlobsStored'
    <2>1. /\ kept.blob \in Nat /\ kept'.blob \in Nat /\ snapshot \in Nat
          /\ copy # Unfetched => copy.blob \in Nat
          /\ \A f \in fetches : f.row # Unfetched => f.row.blob \in Nat
      BY <1>1 DEF PassportTypes, PassportRow
    <2> QED
      BY <1>1, <2>1 DEF BlobsStored, copyVars
  <1> QED
    BY <1>2, <1>3, <1>4

\* The export and the sync, as the page follows them.
LEMMA ButtonsMove ==
    ASSUME PassInv,
           exportSnapshot \/ snapshotTaken \/ snapshotLost \/ anchorStats \/ syncFailed
    PROVE  PassInv'
  <1> USE DEF PassInv
  <1>1. /\ UNCHANGED <<kept, copyVars, changed, fetchesCrossed>>
        /\ syncing' = "success" => syncing = "success"
        /\ \/ /\ snapshot' = snapshot
              /\ exporting' # "stored" /\ ~elsewhere' => exporting # "stored" /\ ~elsewhere
           \/ snapshot' = kept.blob
    <2>1. CASE exportSnapshot
      BY <2>1 DEF exportSnapshot
    <2>2. CASE snapshotTaken
      BY <2>2 DEF snapshotTaken
    <2>3. CASE snapshotLost
      BY <2>3 DEF snapshotLost
    <2>4. CASE anchorStats
      BY <2>4 DEF anchorStats
    <2>5. CASE syncFailed
      BY <2>5 DEF syncFailed
    <2> QED
      BY <2>1, <2>2, <2>3, <2>4, <2>5
  <1>2. PassportTypes'
    BY <1>1 DEF PassportTypes, PassportRow, copyVars
  <1>3. CopyFresh'
    BY <1>1 DEF CopyFresh, Fresh, copyVars
  <1>4. BlobsStored'
    BY <1>1 DEF BlobsStored, copyVars, PassportTypes, PassportRow
  <1> QED
    BY <1>2, <1>3, <1>4

LEMMA PassStep ==
    ASSUME PassInv, [PassportNext]_passportVars, passportVisits \in Nat PROVE PassInv'
  <1>1. CASE openPassport \/ retryPassport
    BY <1>1, FetchBegins DEF openPassport, retryPassport
  <1>2. CASE syncSucceeded
    <2>1. MaxPassportVisits + kept.synced \in Int
      BY PassportPageAssumption DEF PassInv, PassportTypes, PassportRow
    <2> QED
      BY <1>2, <2>1, FetchBegins DEF syncSucceeded
  <1>3. CASE \E f \in fetches : findByUserId(f) \/ passportFetched(f) \/ fetchLost(f)
    BY <1>3, FetchMoves
  <1>4. CASE inkEarned \/ takeSnapshot \/ snapshotElsewhere \/ anchored
    BY <1>4, RowChanges
  <1>5. CASE exportSnapshot \/ snapshotTaken \/ snapshotLost \/ anchorStats \/ syncFailed
    BY <1>5, ButtonsMove
  <1>6. CASE UNCHANGED passportVars
    BY <1>6 DEF passportVars, copyVars, PassInv, PassportTypes, CopyFresh, Fresh, BlobsStored
  <1> QED
    BY <1>1, <1>2, <1>3, <1>4, <1>5, <1>6 DEF PassportNext

LEMMA VisitsCounted == ASSUME passportVisits \in Nat, [PassportNext]_passportVars PROVE passportVisits' \in Nat
  BY DEF PassportNext, passportVars, openPassport, retryPassport, inkEarned, exportSnapshot, takeSnapshot,
         snapshotElsewhere, snapshotTaken, snapshotLost, anchorStats, anchored, syncSucceeded,
         syncFailed, findByUserId, passportFetched, fetchLost

\* What the passport page says of the row, its level and its snapshots is so, for any totals
\* and number of visits, exports and syncs (PassportPage, the passport page, its image and
\* stores/passport.store.ts).
THEOREM ThePassportIsShown == PassportSpec => []PassportShown
  <1>1. PassportInit => PassInv /\ passportVisits \in Nat
    BY PassStarts DEF PassportInit
  <1>2. PassInv /\ passportVisits \in Nat /\ [PassportNext]_passportVars => (PassInv /\ passportVisits \in Nat)'
    BY PassStep, VisitsCounted
  <1>3. PassInv => PassportShown
    BY PassShows
  <1> QED
    BY <1>1, <1>2, <1>3, PTL DEF PassportSpec

-----------------------------------------------------------------------------
(***************************************************************************)
(* The pages together.                                                     *)
(***************************************************************************)
\* A step of the pages is a step of one of them, or of none.
LEMMA PagesMoveApart ==
    ASSUME [\E p \in Page : Turn(p)]_pagesVars
    PROVE  /\ [ReaderNext]_readerVars /\ [ShelfNext]_shelfVars /\ [JournalNext]_journalVars
           /\ [PassportNext]_passportVars /\ [ApplicationNext]_applicationVars
  <1>1. ASSUME UNCHANGED pagesVars
        PROVE  UNCHANGED <<readerVars, shelfVars, journalVars, passportVars, applicationVars>>
    BY <1>1 DEF pagesVars
  <1>2. ASSUME NEW p \in Page, Turn(p)
        PROVE  /\ p = "reader"   \/ UNCHANGED readerVars
               /\ p = "shelf"    \/ UNCHANGED shelfVars
               /\ p = "journal"  \/ UNCHANGED journalVars
               /\ p = "passport" \/ UNCHANGED passportVars
               /\ p = "creator"  \/ UNCHANGED applicationVars
    BY <1>2 DEF Turn, Rests, Page
  <1>3. ASSUME NEW p \in Page, Turn(p)
        PROVE  /\ p = "reader"   => ReaderNext
               /\ p = "shelf"    => ShelfNext
               /\ p = "journal"  => JournalNext
               /\ p = "passport" => PassportNext
               /\ p = "creator"  => ApplicationNext
    BY <1>3 DEF Turn, Acts
  <1> QED
    BY <1>1, <1>2, <1>3

\* Every page that shows the server's rows shows them once it is quiet, whatever the
\* others do meanwhile (the stores of the pages).
THEOREM ThePagesAreTold == PagesSpec => []PagesTold
  <1>1. PagesInit => ReaderInit /\ ShelfInit /\ JournalInit /\ PassportInit /\ ApplicationInit
    BY DEF PagesInit
  <1>2. [\E p \in Page : Turn(p)]_pagesVars =>
          /\ [ReaderNext]_readerVars /\ [ShelfNext]_shelfVars /\ [JournalNext]_journalVars
          /\ [PassportNext]_passportVars /\ [ApplicationNext]_applicationVars
    BY PagesMoveApart
  <1>3. PagesSpec => ReaderSpec /\ ShelfSpec /\ JournalSpec /\ PassportSpec /\ ApplicationSpec
    BY <1>1, <1>2, PTL DEF PagesSpec, ReaderSpec, ShelfSpec, JournalSpec, PassportSpec, ApplicationSpec
  <1>4. QuietPageIsRight /\ ShelfSound /\ JournalSound /\ PassportShown /\ ApplicationSound => PagesTold
    BY DEF PagesTold
  <1> QED
    BY <1>3, <1>4, QuietPagesAreRight, TheShelfIsTold, TheJournalIsTold, ThePassportIsShown,
       ApplicationsAreSound, PTL

-----------------------------------------------------------------------------
(***************************************************************************)
(* The passport: its sync and its snapshot.                                *)
(***************************************************************************)
Locals == [tab : Tab \cup {"none"}, stats : Stats, records : Nat, gas : Nat,
           version : Nat, readVersion : Nat, readBlob : Job \cup {"none"}]
Built == {"coins", "build", "sign", "submit"}
Snap  == {"records", "upload", "store"}
Places == Ended \cup Built \cup Snap \cup {"idle", "epoch", "row", "record"}

\* The row counts as many chapters as it ever did; the chain shows a row there was.
History ==
    /\ stats \in past /\ chain.stats \in past
    /\ \A p \in past : p.chapters <= stats.chapters
    /\ chain.level = calculate_level(chain.stats.ink)

\* What a sync at a place knows of the passport object ch.
SyncFits(where, q, ch) ==
    /\ where \in Built =>
          /\ q.stats \in past /\ q.readVersion <= ch.version
          /\ q.readVersion = ch.version => ch.stats.chapters <= q.stats.chapters
    /\ where \in {"sign", "submit"} => q.readVersion <= q.version

\* What a snapshot at a place knows of the library and of the snapshot before it.
SnapFits(n, where, q, saved) ==
    /\ where \in Snap =>
          /\ q.stats.chapters <= stats.chapters
          /\ q.readBlob # "none" =>
                /\ q.readBlob \in Job /\ pc[q.readBlob] = "done"
                /\ req[q.readBlob].stats.chapters <= q.stats.chapters
    /\ where \in {"upload", "store"} => q.stats.chapters <= q.records
    /\ where = "store" => n \in saved

Placed == \A j \in Job : /\ SyncFits(pc[j], req[j], chain)
                         /\ SnapFits(j, pc[j], req[j], blobs)
                         /\ pc[j] = "record" => j \in executed
                         /\ j \in executed => pc[j] \in {"record", "done", "failed"}

BlobSound == blobId # "none" =>
    /\ blobId \in Job /\ blobId \in blobs /\ pc[blobId] = "done"
    /\ req[blobId].stats.chapters <= req[blobId].records
    /\ req[blobId].stats.chapters <= stats.chapters

IInv == TypeOK /\ req \in [Job -> Locals] /\ History /\ Placed /\ BlobSound /\ SyncedIsOnChain

-----------------------------------------------------------------------------
(***************************************************************************)
(* Levels: passport::calculate_level and InkService.calculateLevel.        *)
(***************************************************************************)
LEMMA LevelOnChain ==
    ASSUME NEW total \in Nat
    PROVE  calculate_level(total) = IF total < 500 THEN 1 ELSE IF total < 2000 THEN 2
                                  ELSE IF total < 6000 THEN 3 ELSE IF total < 15000 THEN 4
                                  ELSE IF total < 40000 THEN 5 ELSE 6
  <1> DEFINE S == {t \in {500, 2000, 6000, 15000, 40000} : total >= t}
  <1>1. Cardinality({}) = 0 /\ IsFiniteSet({})
    BY FS_EmptySet
  <1>2. Cardinality({500}) = 1 /\ IsFiniteSet({500})
    BY FS_Singleton
  <1>3. Cardinality({500, 2000}) = 2 /\ IsFiniteSet({500, 2000})
    <2>1. {500, 2000} = {500} \cup {2000} /\ 2000 \notin {500}
      OBVIOUS
    <2> QED
      BY <1>2, <2>1, FS_AddElement
  <1>4. Cardinality({500, 2000, 6000}) = 3 /\ IsFiniteSet({500, 2000, 6000})
    <2>1. {500, 2000, 6000} = {500, 2000} \cup {6000} /\ 6000 \notin {500, 2000}
      OBVIOUS
    <2> QED
      BY <1>3, <2>1, FS_AddElement
  <1>5. Cardinality({500, 2000, 6000, 15000}) = 4 /\ IsFiniteSet({500, 2000, 6000, 15000})
    <2>1. /\ {500, 2000, 6000, 15000} = {500, 2000, 6000} \cup {15000}
          /\ 15000 \notin {500, 2000, 6000}
      OBVIOUS
    <2> QED
      BY <1>4, <2>1, FS_AddElement
  <1>6. Cardinality({500, 2000, 6000, 15000, 40000}) = 5
    <2>1. /\ {500, 2000, 6000, 15000, 40000} = {500, 2000, 6000, 15000} \cup {40000}
          /\ 40000 \notin {500, 2000, 6000, 15000}
      OBVIOUS
    <2> QED
      BY <1>5, <2>1, FS_AddElement
  <1>7. calculate_level(total) = 1 + Cardinality(S)
    BY DEF calculate_level
  <1>8. CASE total < 500
    <2>1. S = {}
      BY <1>8
    <2> QED
      BY <1>1, <1>7, <1>8, <2>1
  <1>9. CASE total >= 500 /\ total < 2000
    <2>1. S = {500}
      BY <1>9
    <2> HIDE DEF S
    <2> QED
      BY <1>2, <1>7, <1>9, <2>1
  <1>10. CASE total >= 2000 /\ total < 6000
    <2>1. S = {500, 2000}
      BY <1>10
    <2> HIDE DEF S
    <2> QED
      BY <1>3, <1>7, <1>10, <2>1
  <1>11. CASE total >= 6000 /\ total < 15000
    <2>1. S = {500, 2000, 6000}
      BY <1>11
    <2> HIDE DEF S
    <2> QED
      BY <1>4, <1>7, <1>11, <2>1
  <1>12. CASE total >= 15000 /\ total < 40000
    <2>1. S = {500, 2000, 6000, 15000}
      BY <1>12
    <2> HIDE DEF S
    <2> QED
      BY <1>5, <1>7, <1>12, <2>1
  <1>13. CASE total >= 40000
    <2>1. S = {500, 2000, 6000, 15000, 40000}
      BY <1>13
    <2> HIDE DEF S
    <2> QED
      BY <1>6, <1>7, <1>13, <2>1
  <1> QED
    BY <1>8, <1>9, <1>10, <1>11, <1>12, <1>13

\* InkService.calculateLevel, which looks for the last threshold reached, as a table.
LEMMA LevelInPostgres ==
    ASSUME NEW total \in Nat
    PROVE  calculateLevel(total) = IF total < 500 THEN 1 ELSE IF total < 2000 THEN 2
                                 ELSE IF total < 6000 THEN 3 ELSE IF total < 15000 THEN 4
                                 ELSE IF total < 40000 THEN 5 ELSE 6
  <1> DEFINE R(i) == i = 1 \/ \A j \in 2 .. i : total >= LEVEL_THRESHOLDS[j]
             S == {i \in 1 .. 6 : R(i)}
             k == IF total < 500 THEN 1 ELSE IF total < 2000 THEN 2
                  ELSE IF total < 6000 THEN 3 ELSE IF total < 15000 THEN 4
                  ELSE IF total < 40000 THEN 5 ELSE 6
  <1>1. /\ LEVEL_THRESHOLDS[2] = 500 /\ LEVEL_THRESHOLDS[3] = 2000
        /\ LEVEL_THRESHOLDS[4] = 6000 /\ LEVEL_THRESHOLDS[5] = 15000
        /\ LEVEL_THRESHOLDS[6] = 40000
    BY DEF LEVEL_THRESHOLDS
  <1>2. k \in 1 .. 6
    OBVIOUS
  <1>3. \A j \in 2 .. 6 : total >= LEVEL_THRESHOLDS[j] <=> j <= k
    <2> SUFFICES ASSUME NEW j \in 2 .. 6 PROVE total >= LEVEL_THRESHOLDS[j] <=> j <= k
      OBVIOUS
    <2>1. j = 2 \/ j = 3 \/ j = 4 \/ j = 5 \/ j = 6
      OBVIOUS
    <2> QED
      BY <1>1, <2>1
  <1> HIDE DEF k
  <1>4. \A i \in 1 .. 6 : i <= k => R(i)
    BY <1>2, <1>3
  <1>5. \A i \in 1 .. 6 : R(i) => i <= k
    <2> SUFFICES ASSUME NEW i \in 1 .. 6, R(i) PROVE i <= k
      OBVIOUS
    <2>1. CASE i = 1
      BY <1>2, <2>1
    <2>2. CASE i # 1
      BY <1>3, <2>2
    <2> QED
      BY <2>1, <2>2
  <1>6. k \in S /\ \A i \in S : k >= i
    BY <1>2, <1>4, <1>5
  <1>7. \A x, y \in S : (\A i \in S : x >= i) /\ (\A i \in S : y >= i) => x = y
    OBVIOUS
  <1>8. calculateLevel(total) = Max(S)
    BY DEF calculateLevel
  <1> HIDE DEF S
  <1>9. Max(S) = k
    BY <1>6, <1>7 DEF Max
  <1> QED
    BY <1>8, <1>9 DEF k

\* The contract and the backend agree on every amount of INK, and no reader loses
\* a level by earning.
THEOREM LevelsMatch ==
    /\ \A total \in Nat : /\ calculate_level(total) = calculateLevel(total)
                          /\ calculate_level(total) \in 1 .. 6
    /\ \A low, high \in Nat : low <= high => calculate_level(low) <= calculate_level(high)
  <1>1. \A total \in Nat : calculate_level(total) = calculateLevel(total)
    BY LevelOnChain, LevelInPostgres
  <1>2. \A total \in Nat : calculate_level(total) \in 1 .. 6
    BY LevelOnChain
  <1>3. ASSUME NEW low \in Nat, NEW high \in Nat, low <= high
        PROVE  calculate_level(low) <= calculate_level(high)
    BY <1>3, LevelOnChain
  <1> QED
    BY <1>1, <1>2, <1>3

-----------------------------------------------------------------------------
(***************************************************************************)
(* One step of a job.                                                      *)
(***************************************************************************)
LEMMA JobMoves ==
    ASSUME IInv, NEW j \in Job, NEW where \in Places, NEW q \in Locals,
           NEW st \in Busy \cup {"idle", "success", "error"} \cup {stage[t] : t \in Tab},
           Move(j, where, st, q), pc[j] \notin Ended,
           UNCHANGED <<stats, level, past, epoch>>, gasVersion' \in Nat,
           chain' \in [stats : Stats, level : 1 .. 6, version : Nat],
           chain' = chain \/ chain'.version > chain.version,
           chain'.stats \in past, chain'.level = calculate_level(chain'.stats.ink),
           executed' \in {executed, executed \cup {j}},
           where = "record" => j \in executed',
           j \in executed' => where \in {"record", "done", "failed"},
           blobs' \in {blobs, blobs \cup {j}},
           SyncFits(where, q, chain'), SnapFits(j, where, q, blobs'),
           \/ blobId' = blobId
           \/ /\ blobId' = j /\ j \in blobs' /\ where = "done"
              /\ q.stats.chapters <= q.records /\ q.stats.chapters <= stats.chapters,
           lastSyncedAt' = lastSyncedAt \/ (lastSyncedAt' = j /\ j \in executed'),
           j \in executed => q.tab = req[j].tab,
           \A t \in Tab : q.tab = t /\ st = "success" => stage[t] = "success" \/ j \in executed'
    PROVE  IInv'
  <1> USE DEF IInv
  <1>1. /\ pc'[j] = where /\ req'[j] = q
        /\ \A m \in Job \ {j} : pc'[m] = pc[m] /\ req'[m] = req[m]
    BY DEF Move, TypeOK
  <1>2. pc' \in [Job -> Ended \cup {"idle", "epoch", "row", "coins", "build", "sign", "submit",
                                   "record", "records", "upload", "store"}]
    BY DEF Move, TypeOK, Places, Ended, Built, Snap
  <1>3. stage' \in [Tab -> Busy \cup {"idle", "success", "error"}]
    BY DEF Move, TypeOK
  <1>4. req' \in [Job -> Locals]
    BY DEF Move
  <1>5. TypeOK'
    BY <1>2, <1>3 DEF TypeOK
  <1>6. History'
    BY DEF History
  <1>7. Placed'
    <2> SUFFICES ASSUME NEW m \in Job
                 PROVE  /\ SyncFits(pc[m], req[m], chain)'
                        /\ SnapFits(m, pc[m], req[m], blobs)'
                        /\ pc'[m] = "record" => m \in executed'
                        /\ m \in executed' => pc'[m] \in {"record", "done", "failed"}
      BY DEF Placed
    <2>1. \A b \in Job : pc[b] = "done" => pc'[b] = "done" /\ req'[b] = req[b]
      BY <1>1 DEF Ended
    <2>2. CASE m = j
      <3>1. SyncFits(pc[m], req[m], chain)'
        BY <1>1, <2>2 DEF SyncFits
      <3>2. SnapFits(m, pc[m], req[m], blobs)'
        BY <1>1, <2>1, <2>2 DEF SnapFits
      <3> QED
        BY <1>1, <2>2, <3>1, <3>2
    <2>3. CASE m # j
      <3>1. /\ SyncFits(pc[m], req[m], chain) /\ SnapFits(m, pc[m], req[m], blobs)
            /\ pc[m] = "record" => m \in executed
            /\ m \in executed => pc[m] \in {"record", "done", "failed"}
        BY DEF Placed
      <3>2. SyncFits(pc[m], req[m], chain)'
        <4>1. req[m].readVersion \in Nat /\ chain.version \in Nat /\ chain'.version \in Nat
          BY DEF TypeOK, Locals
        <4> QED
          BY <1>1, <2>3, <3>1, <4>1 DEF SyncFits
      <3>3. SnapFits(m, pc[m], req[m], blobs)'
        BY <1>1, <2>1, <2>3, <3>1 DEF SnapFits
      <3> QED
        BY <1>1, <2>3, <3>1, <3>2, <3>3
    <2> QED
      BY <2>2, <2>3
  <1>8. BlobSound'
    <2>1. CASE blobId' = blobId
      BY <1>1, <2>1 DEF BlobSound, Ended
    <2>2. CASE blobId' = j
      BY <1>1, <2>2 DEF BlobSound, Ended
    <2> QED
      BY <2>1, <2>2
  <1>9. SyncedIsOnChain'
    <2>1. ASSUME NEW t \in Tab, stage'[t] = "success"
          PROVE  \E s \in executed' : req'[s].tab = t
      <3>1. stage'[t] = IF t = q.tab THEN st ELSE stage[t]
        BY DEF Move
      <3>2. CASE stage[t] = "success"
        <4>1. PICK s \in executed : req[s].tab = t
          BY <3>2 DEF SyncedIsOnChain
        <4>2. s \in Job /\ req'[s].tab = t
          BY <1>1, <4>1 DEF TypeOK
        <4> QED
          BY <4>1, <4>2
      <3>3. CASE stage[t] # "success"
        BY <1>1, <2>1, <3>1, <3>3
      <3> QED
        BY <3>2, <3>3
    <2>2. lastSyncedAt' # "none" => lastSyncedAt' \in executed'
      BY DEF SyncedIsOnChain
    <2> QED
      BY <2>1, <2>2 DEF SyncedIsOnChain
  <1> QED
    BY <1>4, <1>5, <1>6, <1>7, <1>8, <1>9

\* What the lemma takes from a step that leaves Postgres, Sui and Walrus alone.
LEMMA JobMovesLocally ==
    ASSUME IInv, NEW j \in Job, NEW where \in Places \ {"record"}, NEW q \in Locals,
           NEW st \in Busy \cup {"idle", "error"} \cup {stage[t] : t \in Tab},
           Move(j, where, st, q), pc[j] \notin Ended, j \notin executed,
           UNCHANGED <<postgres, sui, blobs, past, executed>>,
           SyncFits(where, q, chain), SnapFits(j, where, q, blobs),
           \A t \in Tab : q.tab = t /\ st = "success" => stage[t] = "success"
    PROVE  IInv'
  <1>1. /\ UNCHANGED <<stats, level, past, epoch, chain, gasVersion, executed, blobs, blobId,
                      lastSyncedAt>>
    BY DEF postgres, sui
  <1>2. /\ chain \in [stats : Stats, level : 1 .. 6, version : Nat] /\ gasVersion \in Nat
        /\ chain.stats \in past /\ chain.level = calculate_level(chain.stats.ink)
    BY DEF IInv, TypeOK, History
  <1> QED
    BY <1>1, <1>2, JobMoves

\* Step keeps the stage of the job's tab.
LEMMA StepIsMove ==
    ASSUME IInv, NEW j \in Job, NEW where \in Places, NEW q \in Locals, Step(j, where, q)
    PROVE  \E st \in Busy \cup {"idle"} \cup {stage[t] : t \in Tab} :
              /\ Move(j, where, st, q)
              /\ \A t \in Tab : q.tab = t => st = stage[t]
  <1>1. CASE q.tab \in Tab
    <2>1. Move(j, where, stage[q.tab], q)
      BY <1>1 DEF Step
    <2> QED
      BY <1>1, <2>1
  <1>2. CASE q.tab \notin Tab
    <2>1. Move(j, where, "idle", q)
      BY <1>2 DEF Step
    <2> QED
      BY <1>2, <2>1
  <1> QED
    BY <1>1, <1>2

\* A step of a job that leaves the databases and the page alone.
LEMMA JobStepsLocally ==
    ASSUME IInv, NEW j \in Job, NEW where \in Places \ {"record"}, NEW q \in Locals,
           Step(j, where, q), pc[j] \notin Ended, j \notin executed,
           UNCHANGED <<postgres, sui, blobs, past, executed>>,
           SyncFits(where, q, chain), SnapFits(j, where, q, blobs)
    PROVE  IInv'
  <1>1. PICK st \in Busy \cup {"idle"} \cup {stage[t] : t \in Tab} :
           Move(j, where, st, q) /\ \A t \in Tab : q.tab = t => st = stage[t]
    BY StepIsMove
  <1> QED
    BY <1>1, JobMovesLocally

-----------------------------------------------------------------------------
(***************************************************************************)
(* The actions.                                                            *)
(***************************************************************************)
\* What a job that is still under way may rely on.
LEMMA JobFacts ==
    ASSUME IInv, NEW j \in Job
    PROVE  /\ req[j] \in Locals /\ SyncFits(pc[j], req[j], chain)
           /\ SnapFits(j, pc[j], req[j], blobs)
           /\ j \in executed => pc[j] \in {"record", "done", "failed"}
           /\ pc[j] = "record" => j \in executed
           /\ stats \in Stats /\ stats \in past /\ chain.stats \in past
           /\ chain.stats \in Stats /\ chain.version \in Nat /\ gasVersion \in Nat
           /\ chain.stats.chapters <= stats.chapters /\ blobId \in Job \cup {"none"}
           /\ NoJob \in Locals
  <1>1. NoJob \in Locals
    BY DEF NoJob, NoStats, Locals, Stats
  <1> QED
    BY <1>1 DEF IInv, Placed, TypeOK, History

\* The button: a sync starts and knows nothing yet.
LEMMA SyncBegins ==
    ASSUME IInv, NEW j \in Job, NEW t \in Tab, syncOnChain(j, t)
    PROVE  IInv'
  <1> DEFINE q == [NoJob EXCEPT !.tab = t]
  <1>1. q \in Locals
    BY JobFacts DEF Locals
  <1>2. SyncFits("epoch", q, chain) /\ SnapFits(j, "epoch", q, blobs)
    BY DEF SyncFits, SnapFits, Built, Snap
  <1>3. pc[j] = "idle" /\ Move(j, "epoch", "building", q)
    BY DEF syncOnChain
  <1>4. pc[j] \notin Ended /\ j \notin executed /\ "building" \in Busy
        /\ "epoch" \in Places \ {"record"}
    BY <1>3, JobFacts DEF Ended, Busy, Places
  <1>5. UNCHANGED <<postgres, sui, blobs, past, executed>>
    BY DEF syncOnChain
  <1> HIDE DEF q
  <1> QED
    BY <1>1, <1>2, <1>3, <1>4, <1>5, JobMovesLocally

\* A job that gives up: refused, failed.
LEMMA JobEnds ==
    ASSUME IInv, NEW j \in Job, pc[j] \notin Ended, j \notin executed,
           Move(j, "failed", "error", req[j]) \/ Step(j, "failed", req[j]),
           UNCHANGED <<postgres, sui, blobs, past, executed>>
    PROVE  IInv'
  <1>1. SyncFits("failed", req[j], chain) /\ SnapFits(j, "failed", req[j], blobs)
    BY DEF SyncFits, SnapFits, Built, Snap
  <1>2. "failed" \in Places \ {"record"} /\ req[j] \in Locals
    BY JobFacts DEF Places, Ended
  <1> QED
    BY <1>1, <1>2, JobMovesLocally, JobStepsLocally

\* The sponsored transaction is put together and signed, or the sync gives up.
LEMMA SyncBuilds ==
    ASSUME IInv, NEW j \in Job,
           \/ checkEpoch(j) \/ readRow(j) \/ listCoins(j) \/ buildBytes(j)
           \/ signWithZkLogin(j) \/ refuse(j) \/ syncFails(j)
    PROVE  IInv'
  <1>1. UNCHANGED <<postgres, sui, blobs, past, executed>>
    BY DEF checkEpoch, readRow, listCoins, buildBytes, signWithZkLogin, refuse, syncFails
  <1>2. pc[j] \in {"epoch", "row", "coins", "build", "sign", "submit"}
    BY DEF checkEpoch, readRow, listCoins, buildBytes, signWithZkLogin, refuse, syncFails
  <1>3. pc[j] \notin Ended /\ j \notin executed
    BY <1>2, JobFacts DEF Ended
  <1>4. /\ req[j] \in Locals /\ SyncFits(pc[j], req[j], chain)
        /\ \A p \in {"row", "coins", "build", "sign", "submit"} : p \in Places \ {"record"}
        /\ \A p \in {"row", "coins", "build", "sign", "submit"}, q \in Locals :
              SnapFits(j, p, q, blobs)
    BY JobFacts DEF Places, Built, SnapFits, Snap
  <1>5. CASE checkEpoch(j)
    <2>1. CASE epoch > MaxEpoch
      BY <1>1, <1>3, <1>5, <2>1, JobEnds DEF checkEpoch
    <2>2. CASE ~(epoch > MaxEpoch)
      <3>1. Step(j, "row", req[j])
        BY <1>5, <2>2 DEF checkEpoch
      <3>2. SyncFits("row", req[j], chain)
        BY DEF SyncFits, Built
      <3> QED
        BY <1>1, <1>3, <1>4, <3>1, <3>2, JobStepsLocally
    <2> QED
      BY <2>1, <2>2
  <1>6. CASE readRow(j)
    <2> DEFINE q == [req[j] EXCEPT !.stats = stats, !.readVersion = chain.version]
    <2>1. q \in Locals /\ q.stats = stats /\ q.readVersion = chain.version
      BY <1>4, JobFacts DEF Locals
    <2>2. SyncFits("coins", q, chain)
      BY <2>1, JobFacts DEF SyncFits
    <2>3. Step(j, "coins", q)
      BY <1>6 DEF readRow
    <2> HIDE DEF q
    <2> QED
      BY <1>1, <1>3, <1>4, <2>1, <2>2, <2>3, JobStepsLocally
  <1>7. CASE listCoins(j)
    <2> DEFINE q == [req[j] EXCEPT !.gas = gasVersion]
    <2>1. /\ q \in Locals /\ q.stats = req[j].stats /\ q.readVersion = req[j].readVersion
      BY <1>4, JobFacts DEF Locals
    <2>2. SyncFits("build", q, chain)
      BY <1>4, <1>7, <2>1 DEF SyncFits, Built, listCoins
    <2>3. Step(j, "build", q)
      BY <1>7 DEF listCoins
    <2> HIDE DEF q
    <2> QED
      BY <1>1, <1>3, <1>4, <2>1, <2>2, <2>3, JobStepsLocally
  <1>8. CASE buildBytes(j)
    <2> DEFINE q == [req[j] EXCEPT !.version = chain.version]
    <2>1. /\ q \in Locals /\ q.stats = req[j].stats /\ q.readVersion = req[j].readVersion
          /\ q.version = chain.version
      BY <1>4, JobFacts DEF Locals
    <2>2. SyncFits("sign", q, chain)
      BY <1>4, <1>8, <2>1 DEF SyncFits, Built, buildBytes
    <2>3. Move(j, "sign", "signing", q) /\ "signing" \in Busy
      BY <1>8 DEF buildBytes, Busy
    <2> HIDE DEF q
    <2> QED
      BY <1>1, <1>3, <1>4, <2>1, <2>2, <2>3, JobMovesLocally
  <1>9. CASE signWithZkLogin(j)
    <2>1. Move(j, "submit", "submitting", req[j]) /\ "submitting" \in Busy
      BY <1>9 DEF signWithZkLogin, Busy
    <2>2. SyncFits("submit", req[j], chain)
      BY <1>4, <1>9 DEF SyncFits, Built, signWithZkLogin
    <2> QED
      BY <1>1, <1>3, <1>4, <2>1, <2>2, JobMovesLocally
  <1>10. CASE refuse(j)
    BY <1>1, <1>3, <1>10, JobEnds DEF refuse
  <1>11. CASE syncFails(j)
    BY <1>1, <1>3, <1>11, JobEnds DEF syncFails
  <1> QED
    BY <1>5, <1>6, <1>7, <1>8, <1>9, <1>10, <1>11

\* Steps that change the passport object.
LEMMA ChainChanges ==
    ASSUME IInv, NEW j \in Job, executeSponsored(j) \/ abortStale(j)
    PROVE  IInv'
  <1>1. /\ pc[j] = "submit" /\ pc[j] \notin Ended /\ j \notin executed
        /\ req[j] \in Locals /\ SyncFits(pc[j], req[j], chain)
    BY JobFacts DEF executeSponsored, abortStale, Ended
  <1>2. /\ req[j].stats \in past /\ req[j].stats \in Stats
        /\ chain.version \in Nat /\ chain.stats \in Stats /\ gasVersion \in Nat
        /\ chain.level \in 1 .. 6 /\ chain.stats \in past
        /\ chain.level = calculate_level(chain.stats.ink)
    BY <1>1, JobFacts DEF SyncFits, Built, IInv, TypeOK, History, Locals
  <1>3. /\ UNCHANGED <<stats, level, past, epoch, blobs, blobId, lastSyncedAt>>
        /\ gasVersion' \in Nat
    BY <1>2 DEF executeSponsored, abortStale, postgres
  <1>4. \A p \in {"failed", "record"} :
           /\ SyncFits(p, req[j], chain') /\ SnapFits(j, p, req[j], blobs') /\ p \in Places
    BY DEF SyncFits, SnapFits, Built, Snap, Places, Ended
  <1>5. CASE executeSponsored(j)
    <2>1. /\ chain' = [stats |-> req[j].stats, level |-> calculate_level(req[j].stats.ink),
                       version |-> chain.version + 1]
          /\ executed' = executed \cup {j}
      BY <1>5 DEF executeSponsored
    <2>2. calculate_level(req[j].stats.ink) \in 1 .. 6
      <3>1. req[j].stats.ink \in Nat
        BY <1>2 DEF Stats
      <3> QED
        BY <3>1, LevelsMatch
    <2>3. /\ chain' \in [stats : Stats, level : 1 .. 6, version : Nat]
          /\ chain'.version > chain.version /\ chain'.stats \in past
          /\ chain'.level = calculate_level(chain'.stats.ink)
      BY <1>2, <2>1, <2>2
    <2>4. CASE Move(j, "failed", "error", req[j])
      BY <1>1, <1>3, <1>4, <2>1, <2>3, <2>4, JobMoves
    <2>5. CASE Step(j, "record", req[j])
      <3>1. PICK st \in Busy \cup {"idle"} \cup {stage[t] : t \in Tab} :
               /\ Move(j, "record", st, req[j])
               /\ \A t \in Tab : req[j].tab = t => st = stage[t]
        BY <1>1, <1>4, <2>5, StepIsMove
      <3> QED
        BY <1>1, <1>3, <1>4, <2>1, <2>3, <3>1, JobMoves
    <2> QED
      BY <1>5, <2>4, <2>5 DEF executeSponsored
  <1>6. CASE abortStale(j)
    <2>1. chain' = [chain EXCEPT !.version = @ + 1] /\ executed' = executed
      BY <1>6 DEF abortStale
    <2>2. /\ chain' \in [stats : Stats, level : 1 .. 6, version : Nat]
          /\ chain'.version = chain.version + 1 /\ chain'.stats = chain.stats
          /\ chain'.level = chain.level
      BY <2>1 DEF IInv, TypeOK
    <2>3. chain'.version > chain.version
      BY <1>2, <2>2
    <2>4. Move(j, "failed", "error", req[j])
      BY <1>6 DEF abortStale
    <2> QED
      BY <1>1, <1>2, <1>3, <1>4, <2>1, <2>2, <2>3, <2>4, JobMoves
  <1> QED
    BY <1>5, <1>6

\* lastSyncedAt is written for a transaction that was executed.
LEMMA SyncRecorded == ASSUME IInv, NEW j \in Job, recordSync(j) PROVE IInv'
  <1>1. /\ pc[j] = "record" /\ pc[j] \notin Ended /\ j \in executed /\ req[j] \in Locals
    BY JobFacts DEF recordSync, Ended
  <1>2. /\ UNCHANGED <<stats, level, past, epoch, blobs, blobId, chain, gasVersion, executed>>
        /\ lastSyncedAt' = j
    BY DEF recordSync, sui
  <1>3. /\ chain \in [stats : Stats, level : 1 .. 6, version : Nat] /\ gasVersion \in Nat
        /\ chain.stats \in past /\ chain.level = calculate_level(chain.stats.ink)
    BY DEF IInv, TypeOK, History
  <1>4. \A p \in {"failed", "done"} :
           /\ SyncFits(p, req[j], chain') /\ SnapFits(j, p, req[j], blobs') /\ p \in Places
    BY DEF SyncFits, SnapFits, Built, Snap, Places, Ended
  <1>5. CASE Move(j, "done", "success", req[j])
    BY <1>1, <1>2, <1>3, <1>4, <1>5, JobMoves
  <1>6. CASE Move(j, "failed", "error", req[j])
    BY <1>1, <1>2, <1>3, <1>4, <1>6, JobMoves
  <1> QED
    BY <1>5, <1>6 DEF recordSync

\* takeSnapshot: what is stored counts no less than the snapshot it read of.
LEMMA SnapshotTaken == ASSUME IInv, NEW n \in Job, SnapshotStep(n) PROVE IInv'
  <1>1. /\ pc[n] \in Snap \cup {"idle"} /\ pc[n] \notin Ended /\ n \notin executed
    BY JobFacts DEF SnapshotStep, readPassport, readRecords, upload, uploadFails, storeBlobId,
                    Snap, Ended
  <1>2. /\ req[n] \in Locals /\ SnapFits(n, pc[n], req[n], blobs)
        /\ req[n].stats.chapters \in Nat /\ stats.chapters \in Nat
    BY JobFacts DEF Locals, Stats
  <1>3. \A p \in Snap \cup {"failed", "done"}, q \in Locals :
           SyncFits(p, q, chain) /\ p \in Places \ {"record"}
    BY DEF SyncFits, Built, Snap, Places, Ended
  <1>4. CASE readPassport(n)
    <2> DEFINE q == [NoJob EXCEPT !.stats = stats, !.readBlob = blobId]
    <2>1. q \in Locals /\ q.stats = stats /\ q.readBlob = blobId
      BY JobFacts DEF Locals
    <2>2. SnapFits(n, "records", q, blobs)
      BY <1>2, <2>1 DEF SnapFits, Snap, IInv, BlobSound
    <2>3. Step(n, "records", q) /\ UNCHANGED <<postgres, sui, blobs, past, executed>>
      BY <1>4 DEF readPassport
    <2>4. "records" \in Snap
      BY DEF Snap
    <2> HIDE DEF q
    <2> QED
      BY <1>1, <1>3, <2>1, <2>2, <2>3, <2>4, JobStepsLocally
  <1>5. CASE readRecords(n)
    <2> DEFINE q == [req[n] EXCEPT !.records = stats.chapters]
    <2>1. /\ q \in Locals /\ q.stats = req[n].stats /\ q.readBlob = req[n].readBlob
          /\ q.records = stats.chapters
      BY <1>2 DEF Locals
    <2>2. SnapFits(n, "upload", q, blobs)
      BY <1>2, <1>5, <2>1 DEF SnapFits, Snap, readRecords
    <2>3. Step(n, "upload", q) /\ UNCHANGED <<postgres, sui, blobs, past, executed>>
      BY <1>5 DEF readRecords
    <2>4. "upload" \in Snap
      BY DEF Snap
    <2> HIDE DEF q
    <2> QED
      BY <1>1, <1>3, <2>1, <2>2, <2>3, <2>4, JobStepsLocally
  <1>6. CASE uploadFails(n)
    BY <1>1, <1>6, JobEnds DEF uploadFails
  <1>7. ASSUME upload(n) \/ storeBlobId(n) PROVE IInv'
    <2>1. /\ UNCHANGED <<stats, level, past, epoch, chain, gasVersion, executed, lastSyncedAt>>
      BY <1>7 DEF upload, storeBlobId, postgres, sui
    <2>2. /\ chain \in [stats : Stats, level : 1 .. 6, version : Nat] /\ gasVersion \in Nat
          /\ chain.stats \in past /\ chain.level = calculate_level(chain.stats.ink)
      BY DEF IInv, TypeOK, History
    <2>3. CASE upload(n)
      <3>1. pc[n] = "upload" /\ blobs' = blobs \cup {n} /\ blobId' = blobId
        BY <2>3 DEF upload, postgres
      <3>2. \A p \in {"store", "failed"} : SnapFits(n, p, req[n], blobs')
        BY <1>2, <3>1 DEF SnapFits, Snap
      <3>3. PICK p \in {"store", "failed"} : Step(n, p, req[n])
        BY <2>3 DEF upload
      <3>4. p \in Places \ {"record"} /\ SyncFits(p, req[n], chain')
        BY <1>2, <1>3, <2>1 DEF Snap
      <3>5. PICK st \in Busy \cup {"idle"} \cup {stage[t] : t \in Tab} :
               /\ Move(n, p, st, req[n])
               /\ \A t \in Tab : req[n].tab = t => st = stage[t]
        BY <1>2, <3>3, <3>4, StepIsMove
      <3> QED
        BY <1>1, <1>2, <2>1, <2>2, <3>1, <3>2, <3>4, <3>5, JobMoves
    <2>4. CASE storeBlobId(n)
      <3>1. pc[n] = "store" /\ blobs' = blobs /\ blobId' = n /\ Step(n, "done", req[n])
        BY <2>4 DEF storeBlobId
      <3>2. /\ n \in blobs /\ req[n].stats.chapters <= req[n].records
            /\ req[n].stats.chapters <= stats.chapters
        BY <1>2, <3>1 DEF SnapFits, Snap
      <3>3. SnapFits(n, "done", req[n], blobs') /\ SyncFits("done", req[n], chain')
        BY <1>2, <1>3, <2>1 DEF SnapFits, Snap
      <3>4. "done" \in Places
        BY DEF Places, Ended
      <3>5. PICK st \in Busy \cup {"idle"} \cup {stage[t] : t \in Tab} :
               /\ Move(n, "done", st, req[n])
               /\ \A t \in Tab : req[n].tab = t => st = stage[t]
        BY <1>2, <3>1, <3>4, StepIsMove
      <3> QED
        BY <1>1, <1>2, <2>1, <2>2, <3>1, <3>2, <3>3, <3>4, <3>5, JobMoves
    <2> QED
      BY <1>7, <2>3, <2>4
  <1> QED
    BY <1>4, <1>5, <1>6, <1>7 DEF SnapshotStep

\* Milestones, completed series, other readers' transactions, the epoch.
LEMMA WorldMoves ==
    ASSUME IInv, statsChange \/ sponsorOther \/ epochAdvances \/ UNCHANGED vars
    PROVE  IInv'
  <1> USE DEF IInv
  <1>1. /\ UNCHANGED <<level, lastSyncedAt, blobId, chain, blobs, stage, pc, req, executed>>
    BY DEF statsChange, sponsorOther, epochAdvances, vars, postgres, sui
  <1>2. /\ stats' \in Stats /\ past' \subseteq Stats /\ past \subseteq past' /\ stats' \in past'
        /\ stats'.chapters >= stats.chapters /\ past' \subseteq past \cup {stats'}
    <2>1. CASE statsChange
      <3>1. /\ past' = past \cup {stats'}
            /\ stats' \in {[stats EXCEPT !.ink = @ + Earning], [stats EXCEPT !.chapters = @ + 1]}
        BY <2>1 DEF statsChange
      <3>2. stats \in Stats /\ past \subseteq Stats
        BY DEF TypeOK
      <3>3. stats' \in Stats /\ stats'.chapters >= stats.chapters
        BY <3>1, <3>2, PassportAssumption DEF Stats
      <3> QED
        BY <3>1, <3>2, <3>3
    <2>2. CASE sponsorOther \/ epochAdvances \/ UNCHANGED vars
      <3>1. stats' = stats /\ past' = past
        BY <2>2 DEF sponsorOther, epochAdvances, vars, postgres
      <3>2. stats \in Stats /\ stats.chapters \in Nat
        BY DEF TypeOK, Stats
      <3> QED
        BY <3>1, <3>2 DEF TypeOK, History
    <2> QED
      BY <2>1, <2>2
  <1>3. gasVersion' \in Nat /\ epoch' \in Nat
    BY DEF statsChange, sponsorOther, epochAdvances, vars, sui, TypeOK
  <1>4. TypeOK' /\ req' \in [Job -> Locals]
    BY <1>1, <1>2, <1>3 DEF TypeOK
  <1>5. stats.chapters \in Nat /\ stats'.chapters \in Nat /\ \A p \in past : p.chapters \in Nat
    BY <1>2 DEF TypeOK, Stats
  <1>6. History'
    BY <1>1, <1>2, <1>5 DEF History
  <1>7. Placed'
    <2> SUFFICES ASSUME NEW m \in Job
                 PROVE  /\ SyncFits(pc[m], req[m], chain)' /\ SnapFits(m, pc[m], req[m], blobs)'
      BY <1>1 DEF Placed
    <2>1. SyncFits(pc[m], req[m], chain) /\ SnapFits(m, pc[m], req[m], blobs)
      BY DEF Placed
    <2>2. req[m].stats.chapters \in Nat
      BY DEF Locals, Stats
    <2> QED
      BY <1>1, <1>2, <1>5, <2>1, <2>2 DEF SyncFits, SnapFits
  <1>8. BlobSound'
    <2> SUFFICES ASSUME blobId # "none" PROVE BlobSound'
      BY <1>1 DEF BlobSound
    <2>1. blobId \in Job /\ req[blobId].stats.chapters \in Nat
      BY DEF BlobSound, Locals, Stats
    <2> QED
      BY <1>1, <1>2, <1>5, <2>1 DEF BlobSound
  <1>9. SyncedIsOnChain'
    BY <1>1 DEF SyncedIsOnChain
  <1> QED
    BY <1>4, <1>6, <1>7, <1>8, <1>9

-----------------------------------------------------------------------------
\* Nothing is under way at first, and the passport on chain is new.
LEMMA InitSound == Init => IInv
  <1> SUFFICES ASSUME Init PROVE IInv
    OBVIOUS
  <1>1. NoJob \in Locals /\ NoStats \in Stats /\ NoStats.ink = 0 /\ NoStats.chapters = 0
    BY DEF NoJob, NoStats, Locals, Stats
  <1>2. stats \in Stats /\ stats.chapters = 0
    BY PassportAssumption DEF Init, Stats
  <1>3. calculate_level(0) = 1
    BY LevelOnChain
  <1>4. TypeOK
    <2>1. chain \in [stats : Stats, level : 1 .. 6, version : Nat]
      BY <1>1 DEF Init
    <2>2. past \subseteq Stats /\ gasVersion \in Nat /\ epoch \in Nat /\ level \in 1 .. 6
      BY <1>1, <1>2, PassportAssumption DEF Init
    <2>3. /\ stage \in [Tab -> Busy \cup {"idle", "success", "error"}]
          /\ pc \in [Job -> Ended \cup {"idle", "epoch", "row", "coins", "build", "sign",
                                      "submit", "record", "records", "upload", "store"}]
      BY DEF Init
    <2> QED
      BY <1>2, <2>1, <2>2, <2>3 DEF Init, TypeOK
  <1>5. req \in [Job -> Locals]
    BY <1>1 DEF Init
  <1>6. History
    BY <1>1, <1>2, <1>3 DEF Init, History
  <1>7. Placed
    BY DEF Init, Placed, SyncFits, SnapFits, Built, Snap
  <1>8. BlobSound /\ SyncedIsOnChain
    BY DEF Init, BlobSound, SyncedIsOnChain
  <1> QED
    BY <1>4, <1>5, <1>6, <1>7, <1>8 DEF IInv

\* Every step keeps the invariant.
LEMMA StepKeeps == IInv /\ [Next]_vars => IInv'
  <1> SUFFICES ASSUME IInv, [Next]_vars PROVE IInv'
    OBVIOUS
  <1>1. CASE statsChange \/ sponsorOther \/ epochAdvances \/ UNCHANGED vars
    BY <1>1, WorldMoves
  <1>2. ASSUME NEW j \in Job, SyncStep(j) PROVE IInv'
    BY <1>2, SyncBuilds, ChainChanges, SyncRecorded DEF SyncStep
  <1>3. ASSUME NEW j \in Job, SnapshotStep(j) PROVE IInv'
    BY <1>3, SnapshotTaken
  <1>4. ASSUME NEW j \in Job, NEW t \in Tab, syncOnChain(j, t) PROVE IInv'
    BY <1>4, SyncBegins
  <1> QED
    BY <1>1, <1>2, <1>3, <1>4 DEF Next

\* The invariant holds in every behaviour.
LEMMA AlwaysSound == Spec => []IInv
  <1> QED
    BY InitSound, StepKeeps, PTL DEF Spec

-----------------------------------------------------------------------------
\* Whatever is submitted in whatever order, the passport shows totals that were
\* true, at a level both programs compute, and what Postgres says of Sui and
\* Walrus is so (update_stats_attested, submitSyncTransaction, takeSnapshot).
THEOREM PassportIsSound == Spec => []PassportSound
  <1>1. IInv => LevelsAgree
    <2> SUFFICES ASSUME IInv PROVE LevelsAgree
      OBVIOUS
    <2>1. chain.stats.ink \in Nat
      BY DEF IInv, TypeOK, Stats
    <2>2. \A i \in 2 .. 6, d \in {-1, 0, 1} : LEVEL_THRESHOLDS[i] + d \in Nat
      <3> SUFFICES ASSUME NEW i \in 2 .. 6, NEW d \in {-1, 0, 1}
                   PROVE  LEVEL_THRESHOLDS[i] + d \in Nat
        OBVIOUS
      <3>1. LEVEL_THRESHOLDS[i] \in Nat /\ LEVEL_THRESHOLDS[i] >= 500
        <4>1. i = 2 \/ i = 3 \/ i = 4 \/ i = 5 \/ i = 6
          OBVIOUS
        <4> QED
          BY <4>1 DEF LEVEL_THRESHOLDS
      <3> QED
        BY <3>1
    <2> QED
      BY <2>1, <2>2, LevelsMatch DEF LevelsAgree, IInv, History
  <1>2. IInv => TypeOK /\ AttestedTotals /\ SyncedIsOnChain /\ SnapshotSound
    BY DEF IInv, History, AttestedTotals, BlobSound, SnapshotSound
  <1> QED
    BY <1>1, <1>2, AlwaysSound, PTL DEF PassportSound

\* A step that falls back does so only in a race; INK and levels never do.
LEMMA StepsStand == ASSUME IInv, [Next]_vars PROVE InkStands /\ FallsBackInARace
  <1> USE DEF InkStands, FallsBackInARace
  <1>1. /\ chain.stats.ink \in Nat /\ chain.stats.chapters \in Nat /\ chain.level \in 1 .. 6
        /\ chain.level = calculate_level(chain.stats.ink)
    BY DEF IInv, TypeOK, Stats, History
  <1>2. CASE \E s \in Job : executeSponsored(s)
    <2>1. PICK s \in Job : executeSponsored(s)
      BY <1>2
    <2>2. /\ pc[s] = "submit" /\ req[s].version = chain.version
          /\ req[s].stats.ink >= chain.stats.ink
          /\ chain'.stats = req[s].stats /\ chain'.level = calculate_level(req[s].stats.ink)
          /\ blobId' = blobId
      <3>1. req[s].stats.ink \in Nat
        BY JobFacts DEF Locals, Stats
      <3> QED
        BY <1>1, <2>1, <3>1 DEF executeSponsored, accepted, stale, postgres
    <2>3. pc'[s] # "submit"
      <3>1. pc'[s] \in {"record", "failed"}
        BY <2>1 DEF executeSponsored, Step, Move, IInv, TypeOK
      <3> QED
        BY <3>1
    <2>4. /\ req[s].stats.ink \in Nat /\ req[s].stats.chapters \in Nat
          /\ req[s].readVersion \in Nat /\ req[s].version \in Nat
          /\ req[s].readVersion <= req[s].version
          /\ req[s].readVersion = chain.version => chain.stats.chapters <= req[s].stats.chapters
      BY <2>2, JobFacts DEF Locals, Stats, SyncFits, Built
    <2>5. chain'.level >= chain.level
      BY <1>1, <2>2, <2>4, LevelsMatch
    <2> QED
      BY <1>1, <2>2, <2>3, <2>4, <2>5
  <1>3. CASE \E n \in Job : storeBlobId(n)
    <2>1. PICK n \in Job : storeBlobId(n)
      BY <1>3
    <2>2. pc[n] = "store" /\ blobId' = n /\ chain' = chain
      BY <2>1 DEF storeBlobId, sui
    <2>3. blobId # "none" /\ req[n].readBlob = blobId =>
             req[n].stats.chapters >= req[blobId].stats.chapters
      <3> SUFFICES ASSUME blobId # "none", req[n].readBlob = blobId
                   PROVE  req[n].stats.chapters >= req[blobId].stats.chapters
        OBVIOUS
      <3>1. /\ req[blobId].stats.chapters <= req[n].stats.chapters /\ blobId \in Job
        BY <2>2, JobFacts DEF SnapFits, Snap
      <3>2. req[n].stats.chapters \in Nat /\ req[blobId].stats.chapters \in Nat
        BY <3>1 DEF IInv, Locals, Stats
      <3> QED
        BY <3>1, <3>2
    <2> QED
      BY <1>1, <2>2, <2>3
  <1>4. ASSUME chain'.stats = chain.stats, chain'.level = chain.level, blobId' = blobId
        PROVE  /\ chain'.stats.ink >= chain.stats.ink /\ chain'.level >= chain.level
               /\ ~(chain'.stats.chapters < chain.stats.chapters)
    BY <1>1, <1>4
  <1>5. CASE \E s \in Job : abortStale(s)
    <2>1. chain' = [chain EXCEPT !.version = @ + 1] /\ blobId' = blobId
      BY <1>5 DEF abortStale, postgres
    <2>2. chain'.stats = chain.stats /\ chain'.level = chain.level
      BY <2>1 DEF IInv, TypeOK
    <2> QED
      BY <1>4, <2>1, <2>2
  <1>6. CASE \E j \in Job :
               \/ checkEpoch(j) \/ readRow(j) \/ listCoins(j) \/ buildBytes(j)
               \/ signWithZkLogin(j) \/ refuse(j) \/ syncFails(j) \/ recordSync(j)
               \/ readPassport(j) \/ readRecords(j) \/ upload(j) \/ uploadFails(j)
               \/ \E t \in Tab : syncOnChain(j, t)
    <2>1. chain' = chain /\ blobId' = blobId
      BY <1>6 DEF checkEpoch, readRow, listCoins, buildBytes, signWithZkLogin, refuse, syncFails,
                  recordSync, readPassport, readRecords, upload, uploadFails, syncOnChain,
                  postgres, sui
    <2> QED
      BY <1>4, <2>1
  <1>7. CASE statsChange \/ sponsorOther \/ epochAdvances \/ UNCHANGED vars
    <2>1. chain' = chain /\ blobId' = blobId
      BY <1>7 DEF statsChange, sponsorOther, epochAdvances, vars, postgres, sui
    <2> QED
      BY <1>4, <2>1
  <1> QED
    BY <1>2, <1>3, <1>5, <1>6, <1>7 DEF Next, SyncStep, SnapshotStep

\* No order of submissions takes INK or a level off the passport, and chapters and
\* snapshots fall back only when another sync or snapshot came in between.
THEOREM NothingIsTakenBack == Spec => NothingFallsBack
  <1>1. IInv /\ [Next]_vars => [InkStands]_vars /\ [FallsBackInARace]_vars
    BY StepsStand
  <1> QED
    BY <1>1, AlwaysSound, PTL DEF Spec, NothingFallsBack, InkNeverFalls, BackOnlyInARace
=============================================================================
