---------------------------- MODULE ReadingShelf ----------------------------
(***************************************************************************)
(* The reading records as one tab keeps them: the reading store, filled    *)
(* and changed by the dashboard, the library, the history, the series page *)
(* and the reader, over ReadingService's rows.                             *)
(*                                                                         *)
(* One array serves all those pages, also the dashboard, which fills it    *)
(* with the records being read only.  A record is its status here; the     *)
(* service takes the larger chapter number (ReadingMilestones).            *)
(***************************************************************************)
EXTENDS Naturals, FiniteSets

CONSTANTS
    Title,           \* the series
    MaxScreens,      \* bound: pages opened
    MaxShelfWrites,  \* bound: changes asked for
    MaxShelfFaults,  \* bound: requests lost, or answered too late
    Absent

ASSUME ShelfAssumption ==
    /\ MaxScreens \in Nat /\ MaxShelfWrites \in Nat /\ MaxShelfFaults \in Nat
    /\ Absent \notin Title

VARIABLES
    rows,      \* ReadingRecord: the status, or Absent
    records,   \* store: the record of each series in the array, or Absent
    blanks,    \* store: entries of the array that are no record
    fetching, fetchError,    \* store: isLoading, error
    screen,    \* the page, and its series
    busy,      \* isMutating of the controls on the page
    requests,  \* in flight, with the server's answer once there is one
    crossed,   \* history: a request was sent while another could change its outcome
    wiped,     \* history: "Add to library" overwrote a record
    screens, writes, shelfFaults    \* counters for the bounds

shelfStore == <<records, blanks, fetching, fetchError>>
shelfCount == <<screens, writes, shelfFaults>>
shelfVars  == <<rows, shelfStore, screen, busy, requests, crossed, wiped, shelfCount>>

-----------------------------------------------------------------------------
Shelved == {"planned", "held"}     \* what a reader may choose: USER_SETTABLE_STATUSES
Status  == Shelved \cup {"reading", "completed"}
Empty   == [t \in Title |-> Absent]

ShelfInit ==
    /\ rows \in [Title -> {Absent, "held", "reading"}]
    /\ records = Empty /\ blanks = 0 /\ fetching = FALSE /\ fetchError = FALSE
    /\ screen = [page |-> "other", title |-> Absent] /\ busy = {}
    /\ requests = {} /\ crossed = FALSE /\ wiped = FALSE
    /\ screens = 0 /\ writes = 0 /\ shelfFaults = 0

\* A request of each kind; its answer is "none" until the server has served it, and data
\* then says what the answer tells of each series.
Request(k, t, s, by) == [kind |-> k, title |-> t, status |-> s, by |-> by,
                         answer |-> "none", data |-> Empty, number |-> screens' + writes' + shelfFaults]
Fetch(f)         == Request("fetch", Absent, f, "page")
One(t)           == Request("one", t, Absent, "page")
Upsert(t, s, by) == Request("upsert", t, s, by)
RemoveRecord(t)  == Request("remove", t, Absent, "user")

\* Two requests whose answers the order of arrival matters to.
conflict(q, r) == \/ q.kind = "fetch" \/ r.kind = "fetch"
                  \/ q.title = r.title
Sending(r) == /\ requests' = requests \cup {r}
              /\ crossed' = (crossed \/ \E q \in requests : conflict(q, r))

\* A page is opened and fetches what it shows; the controls of the last one are gone.
openScreen(p, t) ==
    /\ screens < MaxScreens /\ screens' = screens + 1 /\ UNCHANGED writes
    /\ screen' = [page |-> p, title |-> t] /\ screen' # screen
    /\ busy' = {}
    /\ \/ /\ p \in {"dashboard", "library", "history"} /\ t = Absent
          /\ Sending(Fetch(IF p = "dashboard" THEN "reading" ELSE Absent))
          /\ fetching' = TRUE /\ fetchError' = FALSE
       \/ /\ p = "series" /\ t # Absent /\ Sending(One(t)) /\ UNCHANGED <<fetching, fetchError>>
       \/ /\ p = "reader" /\ t # Absent /\ UNCHANGED <<requests, crossed, fetching, fetchError>>
    /\ UNCHANGED <<rows, records, blanks, wiped, shelfFaults>>

\* The Retry button of the history.
retryFetch ==
    /\ screen.page = "history" /\ fetchError /\ ~fetching
    /\ UNCHANGED <<screens, writes>>
    /\ Sending(Fetch(Absent)) /\ fetching' = TRUE /\ fetchError' = FALSE
    /\ UNCHANGED <<rows, records, blanks, screen, busy, wiped, shelfFaults>>

Write(r) ==
    /\ writes < MaxShelfWrites /\ writes' = writes + 1 /\ UNCHANGED screens
    /\ Sending(r)
    /\ busy' = IF r.by = "reader" THEN busy ELSE busy \cup {r.title}
    /\ UNCHANGED <<rows, shelfStore, screen, wiped, shelfFaults>>

\* The button of the series page, there when the array has no record of the series.
handleAddToLibrary(t) ==
    /\ screen = [page |-> "series", title |-> t] /\ t \notin busy
    /\ records[t] = Absent
    /\ Write(Upsert(t, "planned", "add"))

\* The controls of a record, on the series page and on the library's card.
Controls(t) ==
    /\ t \notin busy /\ records[t] # Absent
    /\ \/ screen = [page |-> "series", title |-> t]
       \/ screen.page = "library" /\ ~fetching

handleStatusChange(t, s) == Controls(t) /\ s \in Shelved /\ Write(Upsert(t, s, "user"))

handleRemove(t) == Controls(t) /\ Write(RemoveRecord(t))

\* The reader reaches the end of a chapter (ReaderPage).
readToEnd(t, s) ==
    /\ screen = [page |-> "reader", title |-> t]
    /\ s \in {"reading", "completed"} /\ Write(Upsert(t, s, "reader"))

-----------------------------------------------------------------------------
\* upsertRecord's rule: what is not read to the series' last chapter is not completed, and
\* reading on does not take "completed" away.
upserted(r) ==
    IF r.status \in Shelved THEN {r.status}
    ELSE IF rows[r.title] = "completed" THEN {"completed"}
    ELSE {"reading", r.status}

Serve(r, x, d) == requests' = (requests \ {r}) \cup {[r EXCEPT !.answer = x, !.data = d]}
Just(t, x)     == [Empty EXCEPT ![t] = x]

\* The server serves a request; of a series that has no record, getRecord answers with an
\* empty body and no error, and an upsert for a series that is gone is refused.
serveShelf(r) ==
    /\ r.answer = "none"
    /\ \/ /\ r.kind = "fetch"
          /\ Serve(r, "ok", [t \in Title |-> IF r.status \in {Absent, rows[t]} THEN rows[t] ELSE Absent])
          /\ UNCHANGED <<rows, wiped>>
       \/ /\ r.kind = "one"
          /\ Serve(r, IF rows[r.title] = Absent THEN "empty" ELSE "ok", Just(r.title, rows[r.title]))
          /\ UNCHANGED <<rows, wiped>>
       \/ /\ r.kind = "upsert"
          /\ \E s \in upserted(r) : /\ rows' = [rows EXCEPT ![r.title] = s]
                                    /\ Serve(r, "ok", Just(r.title, s))
          /\ wiped' = (wiped \/ (r.by = "add" /\ rows[r.title] # Absent))
       \/ /\ r.kind = "upsert"
          /\ Serve(r, "refused", Just(r.title, rows[r.title])) /\ UNCHANGED <<rows, wiped>>
       \/ /\ r.kind = "remove"
          /\ rows' = [rows EXCEPT ![r.title] = Absent] /\ UNCHANGED wiped
          /\ Serve(r, IF rows[r.title] = Absent THEN "refused" ELSE "ok", Empty)
    /\ UNCHANGED <<shelfStore, screen, busy, crossed, shelfCount>>

\* (mutant) a removed record stays in the array
merged_kept(r) == IF r.kind = "remove" THEN records ELSE r.data

\* What an answer makes of the array: replaced, one record replaced or added, or removed.
merged(r) == IF r.kind = "fetch" THEN r.data
             ELSE [records EXCEPT ![r.title] = r.data[r.title]]

Over(r) == /\ requests' = requests \ {r}
           /\ busy' = IF r.by \in {"add", "user"} THEN busy \ {r.title} ELSE busy
           /\ UNCHANGED <<rows, screen, crossed, wiped, screens, writes>>

\* An answer reaches the store.  The empty answer to fetchRecord goes in as a record.
answerShelf(r) ==
    /\ r.answer # "none" /\ Over(r)
    /\ records' = IF r.answer \in {"empty", "refused"} THEN records ELSE merged(r)
    /\ blanks'  = IF r.kind = "fetch" THEN 0
                  ELSE IF r.answer = "empty" THEN blanks + 1 ELSE blanks
    /\ fetching' = (fetching /\ r.kind # "fetch")
    /\ UNCHANGED <<fetchError, shelfFaults>>

\* A request or its answer is lost; fetchRecord takes it for "no record".
loseShelf(r) ==
    /\ shelfFaults < MaxShelfFaults /\ shelfFaults' = shelfFaults + 1
    /\ Over(r)
    /\ fetching' = (fetching /\ r.kind # "fetch") /\ fetchError' = (fetchError \/ r.kind = "fetch")
    /\ UNCHANGED <<records, blanks>>

ShelfNext ==
    \/ \E p \in {"dashboard", "library", "history", "series", "reader"}, t \in Title \cup {Absent} :
          openScreen(p, t)
    \/ retryFetch
    \/ \E t \in Title, s \in Status :
          \/ handleAddToLibrary(t) \/ handleRemove(t)
          \/ handleStatusChange(t, s) \/ readToEnd(t, s)
    \/ \E r \in requests : serveShelf(r) \/ answerShelf(r) \/ loseShelf(r)

ShelfSpec == ShelfInit /\ [][ShelfNext]_shelfVars

-----------------------------------------------------------------------------
calm == ~crossed /\ shelfFaults = 0

\* With nothing in flight, nothing lost and no request sent in another's way, a record
\* shown is the server's, the library shows all of them, and "Add to library" has not
\* overwritten one.
ShelfSound ==
    calm => /\ ~wiped
            /\ requests = {} => /\ \A t \in Title : records[t] \in {Absent, rows[t]}
                                /\ screen.page \in {"library", "history"} => records = rows
                                /\ ~fetching
=============================================================================
