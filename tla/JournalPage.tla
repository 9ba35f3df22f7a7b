---------------------------- MODULE JournalPage ----------------------------
(***************************************************************************)
(* The journal: one tab's page and store (create dialog, edit dialog,      *)
(* entry cards) over JournalService's rows, which another device of the    *)
(* same user may change as well.                                           *)
(*                                                                         *)
(* An entry is its number, in the order of creation, and a version: what   *)
(* its progress and notes were last set to.  Dialogs and cards send their  *)
(* writes one at a time each, and so several of them together.             *)
(***************************************************************************)
EXTENDS Naturals, Sequences, FiniteSets

CONSTANTS
    MaxEntries,        \* bound: entries ever created
    MaxVersion,        \* bound: updates asked for
    MaxJournalVisits,  \* bound: times the page is opened
    MaxJournalFaults   \* bound: requests lost

ASSUME JournalAssumption ==
    /\ MaxEntries \in Nat /\ MaxVersion \in Nat /\ MaxJournalVisits \in Nat
    /\ MaxJournalFaults \in Nat

VARIABLES
    journal,     \* JournalEntry rows: entry number -> version, 0 when there is none
    created,     \* entries created so far
    entries,     \* store: the entries, as the page lists them
    isLoading, loadError,        \* store
    createDialog, \* "closed", "open" or "saving"
    editing,     \* page: the entry the edit dialog shows, 0 when it is closed
    saving,      \* EditDialog: the entry whose update it waits for, 0 if none
    deleting,    \* cards that wait for their deletion
    sent,        \* requests in flight, with the server's answer once there is one
    versions, journalVisits, journalFaults,  \* counters for the bounds
    disturbed    \* history: a write of this tab overlapped with a fetch, or of another device

pageState   == <<createDialog, editing, saving, deleting>>
journalShown == <<entries, isLoading, loadError>>
journalVars == <<journal, created, journalShown, pageState, sent, versions, journalVisits,
                 journalFaults, disturbed>>

-----------------------------------------------------------------------------
Entry == 1..MaxEntries

JournalInit ==
    /\ journal = [e \in Entry |-> 0] /\ created = 0
    /\ entries = <<>> /\ isLoading = FALSE /\ loadError = FALSE
    /\ createDialog = "closed" /\ editing = 0 /\ saving = 0 /\ deleting = {}
    /\ sent = {} /\ versions = 0 /\ journalVisits = 0 /\ journalFaults = 0 /\ disturbed = FALSE

\* The numbers of a finite set in order.
Ascending(S) == CHOOSE q \in [1..Cardinality(S) -> S] : \A i, j \in DOMAIN q : i < j => q[i] < q[j]

\* getEntries: the rows, newest first.
getEntries ==
    LET rows == {e \in Entry : journal[e] > 0}
        n    == Cardinality(rows)
        nth(i) == Ascending(rows)[n + 1 - i]
    IN  [i \in 1..n |-> [entry |-> nth(i), version |-> journal[nth(i)]]]

Sent(op, e, v) == [op |-> op, entry |-> e, version |-> v, answer |-> "none", list |-> <<>>,
                   visit |-> journalVisits]
\* The dialogs and cards are those of the visit a request was made on.
AskFor(r) == /\ sent' = sent \cup {r}
             /\ disturbed' = (disturbed \/ \E q \in sent : (q.op = "fetch") # (r.op = "fetch"))

\* The page is opened (or Retry pressed): fetchEntries, even beside an earlier one.  The
\* dialogs are the page's own.
openJournal ==
    /\ journalVisits < MaxJournalVisits /\ journalVisits' = journalVisits + 1
    /\ AskFor(Sent("fetch", 0, 0)) /\ isLoading' = TRUE /\ loadError' = FALSE
    /\ createDialog' = "closed" /\ editing' = 0 /\ saving' = 0 /\ deleting' = {}
    /\ UNCHANGED <<journal, created, entries, versions, journalFaults>>

\* The create dialog: one create at a time; it cannot be closed while it saves.
openCreate ==
    /\ journalVisits > 0 /\ createDialog = "closed" /\ createDialog' = "open"
    /\ UNCHANGED <<journal, created, journalShown, editing, saving, deleting, sent, versions,
                   journalVisits, journalFaults, disturbed>>

submitCreate ==
    /\ createDialog = "open" /\ created + Cardinality({r \in sent : r.op = "create"}) < MaxEntries
    /\ createDialog' = "saving" /\ AskFor(Sent("create", 0, 1))
    /\ UNCHANGED <<journal, created, journalShown, editing, saving, deleting, versions,
                   journalVisits, journalFaults>>

\* A card's button; the edit dialog can be closed while it saves, and opened on another
\* entry.
OnCard(e) == ~isLoading /\ ~loadError /\ \E i \in DOMAIN entries : entries[i].entry = e

setEditEntry(e) ==
    /\ editing' = e
    /\ \/ editing = 0 /\ e # 0 /\ OnCard(e)
       \/ editing # 0 /\ e = 0
    /\ UNCHANGED <<journal, created, journalShown, createDialog, saving, deleting, sent, versions,
                   journalVisits, journalFaults, disturbed>>

submitUpdate ==
    /\ editing # 0 /\ saving = 0 /\ versions < MaxVersion /\ versions' = versions + 1
    /\ saving' = editing /\ AskFor(Sent("update", editing, versions' + 1))
    /\ UNCHANGED <<journal, created, journalShown, createDialog, editing, deleting,
                   journalVisits, journalFaults>>

handleDelete(e) ==
    /\ OnCard(e) /\ e \notin deleting
    /\ deleting' = deleting \cup {e} /\ AskFor(Sent("delete", e, 0))
    /\ UNCHANGED <<journal, created, journalShown, createDialog, editing, saving, versions,
                   journalVisits, journalFaults>>

-----------------------------------------------------------------------------
Replied(r, a, e, l) == sent' = (sent \ {r}) \cup {[r EXCEPT !.answer = a, !.entry = e, !.list = l]}

\* createEntry, updateEntry, deleteEntry and getEntries.  Whether an update or a delete
\* finds its row gone at its find or at its write, the caller gets an error.
serveJournal(r) ==
    /\ r.answer = "none"
    /\ \/ r.op = "fetch" /\ Replied(r, "ok", 0, getEntries) /\ UNCHANGED <<journal, created>>
       \/ /\ r.op = "create" /\ created < MaxEntries /\ created' = created + 1
          /\ journal' = [journal EXCEPT ![created'] = 1]
          /\ Replied(r, "ok", created', <<>>)
       \/ /\ r.op \in {"update", "delete"} /\ journal[r.entry] > 0
          /\ journal' = [journal EXCEPT ![r.entry] = r.version]
          /\ Replied(r, "ok", r.entry, <<>>) /\ UNCHANGED created
       \/ /\ r.op \in {"update", "delete"} /\ journal[r.entry] = 0
          /\ Replied(r, "missing", r.entry, <<>>) /\ UNCHANGED <<journal, created>>
    /\ UNCHANGED <<journalShown, pageState, versions, journalVisits, journalFaults, disturbed>>

\* Another device of the user creates, updates or deletes an entry.
changeElsewhere ==
    /\ disturbed' = TRUE
    /\ \/ /\ created < MaxEntries /\ created' = created + 1
          /\ journal' = [journal EXCEPT ![created'] = 1] /\ UNCHANGED versions
       \/ \E e \in Entry :
            /\ journal[e] > 0 /\ UNCHANGED created
            /\ \/ versions < MaxVersion /\ versions' = versions + 1
                  /\ journal' = [journal EXCEPT ![e] = versions' + 1]
               \/ journal' = [journal EXCEPT ![e] = 0] /\ UNCHANGED versions
    /\ UNCHANGED <<journalShown, pageState, sent, journalVisits, journalFaults>>

\* What the store makes of a write that succeeded: a new entry goes first, an updated one
\* replaces itself, a deleted one goes.
stored(r) == CASE r.op = "create" -> <<[entry |-> r.entry, version |-> r.version]>> \o entries
               [] r.op = "update" -> [i \in DOMAIN entries |-> IF entries[i].entry = r.entry
                      THEN [entries[i] EXCEPT !.version = r.version] ELSE entries[i]]
               [] r.op = "delete" -> LET kept == {i \in DOMAIN entries : entries[i].entry # r.entry}
                                     IN  [k \in 1..Cardinality(kept) |-> entries[Ascending(kept)[k]]]

\* The dialog or card that waited goes on: after a success the create dialog and, whatever
\* entry it shows by now, the edit dialog close.  A page opened since has none that waits.
Released(r, ok) ==
    LET here(op) == r.op = op /\ r.visit = journalVisits
    IN  /\ createDialog' = IF here("create") THEN (IF ok THEN "closed" ELSE "open") ELSE createDialog
        /\ editing'  = IF here("update") /\ ok THEN 0 ELSE editing
        /\ saving'   = IF here("update") THEN 0 ELSE saving
        /\ deleting' = IF here("delete") THEN deleting \ {r.entry} ELSE deleting
        /\ sent' = sent \ {r}
        /\ UNCHANGED <<journal, created, versions, journalVisits, disturbed>>

entriesFetched(r) ==
    /\ r.op = "fetch" /\ r.answer = "ok" /\ Released(r, TRUE)
    /\ entries' = r.list /\ isLoading' = FALSE /\ UNCHANGED <<loadError, journalFaults>>

writeAnswered(r) ==
    /\ r.op # "fetch" /\ r.answer # "none" /\ Released(r, r.answer = "ok")
    /\ entries' = IF r.answer = "ok" THEN stored(r) ELSE entries
    /\ UNCHANGED <<isLoading, loadError, journalFaults>>

\* A request or its answer is lost: the list stays as it is.
loseJournal(r) ==
    /\ journalFaults < MaxJournalFaults /\ journalFaults' = journalFaults + 1
    /\ Released(r, FALSE)
    /\ isLoading' = (isLoading /\ r.op # "fetch") /\ loadError' = (loadError \/ r.op = "fetch")
    /\ UNCHANGED entries

JournalNext ==
    \/ openJournal \/ openCreate \/ submitCreate \/ submitUpdate \/ changeElsewhere
    \/ \E e \in Entry \cup {0} : setEditEntry(e)
    \/ \E e \in Entry : handleDelete(e)
    \/ \E r \in sent : serveJournal(r) \/ entriesFetched(r) \/ writeAnswered(r) \/ loseJournal(r)

JournalSpec == JournalInit /\ [][JournalNext]_journalVars

-----------------------------------------------------------------------------
\* However the writes of one tab overlap and in whatever order their answers come, once
\* all are answered the page lists the server's rows, newest first and up to date, unless
\* a request was lost, a fetch overlapped with a write, or another device wrote.
JournalSound ==
    /\ (sent = {} /\ ~disturbed /\ journalFaults = 0 /\ journalVisits > 0) => entries = getEntries
    /\ sent = {} => ~isLoading /\ saving = 0 /\ deleting = {} /\ createDialog # "saving"
=============================================================================
