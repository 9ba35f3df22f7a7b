---------------------------- MODULE ChainShelves ----------------------------
(***************************************************************************)
(* The on-chain objects of a reader: the UserLibrary of reading_history    *)
(* and the UserJournal of journal, as the Move package publishes them.     *)
(*                                                                         *)
(* Both are owned objects without `store`: a transaction uses one only     *)
(* when its owner signs it, and it never changes hands.  The calls gated   *)
(* by an AdminCap are the operator's; the backend of this commit makes     *)
(* only those of the bootstrap (AuthBootstrap), once per reader, which is  *)
(* not something these modules ask for.                                    *)
(***************************************************************************)
EXTENDS Naturals

CONSTANTS
    Owner,         \* addresses
    Operator,      \* those that hold an AdminCap (ChainRewards)
    Library,       \* ids of UserLibrary objects
    Journal,       \* ids of UserJournal objects
    SeriesId,      \* keys of the fields of a library
    EntryId,       \* keys of the fields of a journal
    MaxChapterNo,  \* bound: chapter numbers
    MaxEpoch,      \* bound: epochs, whose timestamps the records keep
    Nil

ASSUME ShelvesAssumption ==
    /\ Operator \subseteq Owner
    /\ MaxChapterNo \in Nat /\ MaxEpoch \in Nat
    /\ Nil \notin Owner /\ Nil \notin Nat

VARIABLES
    library,      \* owner of each library, or Nil when there is none
    record,       \* library -> series -> ReadingRecord
    archived,     \* libraries with a history_blob_id
    journalOf,    \* owner of each journal, or Nil
    entry,        \* journal -> entry id -> JournalEntry
    epoch         \* epoch_timestamp_ms, by its number

shelvesVars == <<library, record, archived, journalOf, entry, epoch>>

-----------------------------------------------------------------------------
\* The five statuses, of which the module knows the last number and COMPLETED.
ReadStatus == {"reading", "completed", "on hold", "dropped", "plan to read"}
NoField    == [status |-> "none", chapter |-> 0, last |-> 0, completedAt |-> Nil]
NoEntry    == [chapter |-> Nil, submitted |-> FALSE]

ShelvesInit ==
    /\ library = [l \in Library |-> Nil] /\ record = [l \in Library |-> [s \in SeriesId |-> NoField]]
    /\ archived = {}
    /\ journalOf = [j \in Journal |-> Nil] /\ entry = [j \in Journal |-> [e \in EntryId |-> NoEntry]]
    /\ epoch = 1

-----------------------------------------------------------------------------
\* create_library and create_journal, for any recipient an operator names.
create_library(l, u) ==
    /\ Operator # {} /\ library[l] = Nil
    /\ library' = [library EXCEPT ![l] = u]
    /\ UNCHANGED <<record, archived, journalOf, entry, epoch>>

create_journal(j, u) ==
    /\ Operator # {} /\ journalOf[j] = Nil
    /\ journalOf' = [journalOf EXCEPT ![j] = u]
    /\ UNCHANGED <<library, record, archived, entry, epoch>>

\* (mutant) completion is only dated when the record is created
dated_onCreate(r, st) == IF st = "completed" /\ r = NoField THEN epoch ELSE r.completedAt

\* completed_at is set the first time the status is COMPLETED.
dated(r, st) == IF st = "completed" /\ r.completedAt = Nil THEN epoch ELSE r.completedAt

\* add_or_update_record: the owner's own account of a series, overwritten; nothing keeps
\* the chapter from going back.
add_or_update_record(u, l, s, st, n) ==
    /\ library[l] = u
    /\ record' = [record EXCEPT ![l][s] = [status |-> st, chapter |-> n, last |-> epoch,
                                           completedAt |-> dated(record[l][s], st)]]
    /\ UNCHANGED <<library, archived, journalOf, entry, epoch>>

\* set_history_blob asks for an AdminCap and for the library: its owner must be an
\* operator, too.
set_history_blob(u, l) ==
    /\ u \in Operator /\ library[l] = u
    /\ archived' = archived \cup {l}
    /\ UNCHANGED <<library, record, journalOf, entry, epoch>>

-----------------------------------------------------------------------------
\* add_entry: an id that is there already makes dynamic_field::add abort.
add_entry(u, j, e, n) ==
    /\ journalOf[j] = u /\ entry[j][e] = NoEntry
    /\ entry' = [entry EXCEPT ![j][e] = [chapter |-> n, submitted |-> FALSE]]
    /\ UNCHANGED <<library, record, archived, journalOf, epoch>>

\* update_entry leaves the flag alone.
update_entry(u, j, e, n) ==
    /\ journalOf[j] = u /\ entry[j][e] # NoEntry
    /\ entry' = [entry EXCEPT ![j][e].chapter = n]
    /\ UNCHANGED <<library, record, archived, journalOf, epoch>>

\* mark_as_submitted: twice is as good as once.
mark_as_submitted(u, j, e) ==
    /\ journalOf[j] = u /\ entry[j][e] # NoEntry
    /\ entry' = [entry EXCEPT ![j][e].submitted = TRUE]
    /\ UNCHANGED <<library, record, archived, journalOf, epoch>>

\* A new epoch begins.
nextEpoch == /\ epoch < MaxEpoch /\ epoch' = epoch + 1
             /\ UNCHANGED <<library, record, archived, journalOf, entry>>

ShelvesNext ==
    \/ nextEpoch
    \/ \E u \in Owner, l \in Library :
          \/ create_library(l, u) \/ set_history_blob(u, l)
          \/ \E s \in SeriesId, st \in ReadStatus, n \in 0..MaxChapterNo :
                add_or_update_record(u, l, s, st, n)
    \/ \E u \in Owner, j \in Journal :
          \/ create_journal(j, u)
          \/ \E e \in EntryId : \/ mark_as_submitted(u, j, e)
                                \/ \E n \in 0..MaxChapterNo : add_entry(u, j, e, n) \/ update_entry(u, j, e, n)
-----------------------------------------------------------------------------
\* A completed series has its date of completion, which is no later than the last reading,
\* and nothing is recorded in a library or journal that does not exist.
RecordsDated ==
    /\ \A l \in Library, s \in SeriesId :
          LET r == record[l][s]
          IN  /\ r.status = "completed" => r.completedAt # Nil
              /\ r.completedAt # Nil => r.completedAt <= r.last
              /\ r.last <= epoch
              /\ r # NoField => library[l] # Nil
    /\ \A j \in Journal, e \in EntryId : entry[j][e] # NoEntry => journalOf[j] # Nil

\* A date of completion is never changed, an entry marked as submitted stays marked and
\* stays, and a library or journal keeps its owner.
ShelvesKept ==
    /\ \A l \in Library :
          /\ library[l] # Nil => library'[l] = library[l]
          /\ \A s \in SeriesId :
                /\ record'[l][s].completedAt \in
                      IF record[l][s].completedAt = Nil THEN {Nil, epoch} ELSE {record[l][s].completedAt}
                /\ record[l][s].last <= record'[l][s].last
    /\ \A j \in Journal :
          /\ journalOf[j] # Nil => journalOf'[j] = journalOf[j]
          /\ \A e \in EntryId :
                /\ entry[j][e] # NoEntry => entry'[j][e] # NoEntry
                /\ entry[j][e].submitted => entry'[j][e].submitted
=============================================================================
