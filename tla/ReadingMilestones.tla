-------------------------- MODULE ReadingMilestones --------------------------
(***************************************************************************)
(* One reader's library: ReadingService.upsertRecord and deleteRecord over *)
(* Postgres, and checkAndFireMilestones, which runs after the response has *)
(* been sent and calls InkService.mintEarning and BadgesService.mint.      *)
(*                                                                         *)
(* A request is one invocation; every await of its handler is a step.      *)
(* mintEarning is taken at the level of InkPromise: a key is registered on *)
(* chain once and mirrored with it, unless the reply is lost.              *)
(***************************************************************************)
EXTENDS Integers, Sequences, FiniteSets, FiniteSetsExt

CONSTANTS
    Request,       \* invocations of the service, each used once
    Series,        \* series the reader may track
    Chapter,       \* chapter numbers a request may report
    StatusInput,   \* statuses a request may ask for
    InitialLast,   \* the last known chapter of each series, or NoChapter
    MaxLast,       \* bound: the last chapter a sync may bring
    Faults         \* which of "rpc", "db" and "crash" may happen

\* A series without a chapter row; a oneshot's only chapter has number 0.
NoChapter == -1

ASSUME ReadingAssumption ==
    /\ IsFiniteSet(Request) /\ IsFiniteSet(Series) /\ "none" \notin Series
    /\ Chapter \subseteq Nat
    /\ StatusInput \subseteq {"READING", "COMPLETED", "ON_HOLD", "DROPPED", "PLAN_TO_READ"}
    /\ InitialLast \in [Series -> Nat \cup {NoChapter}]
    /\ MaxLast \in Nat
    /\ Faults \subseteq {"rpc", "db", "crash"}

VARIABLES
    \* --- Postgres ---
    record,           \* the reader's ReadingRecord of each series
    lastChapter,      \* highest Chapter.chapterNumber of each series, or NoChapter
    seriesTracked,    \* Passport.seriesTracked
    seriesCompleted,  \* Passport.seriesCompleted
    chaptersRead,     \* Passport.chaptersRead
    ledger,           \* keys with an InkLedgerEntry row
    badgeRows,        \* how many BadgeEarned rows each badge has
    \* --- Sui ---
    registry,         \* keys in the EarningRegistry
    badges,           \* badges in the BadgeRegistry
    \* --- the server ---
    pc,               \* where each request stands
    req               \* its arguments and local variables

passport  == <<seriesTracked, seriesCompleted, chaptersRead>>
inkVars   == <<ledger, registry>>
badgeVars == <<badgeRows, badges>>
vars      == <<record, lastChapter, passport, inkVars, badgeVars, pc, req>>

-----------------------------------------------------------------------------
Status == {"READING", "COMPLETED", "ON_HOLD", "DROPPED", "PLAN_TO_READ"}
Badge  == {"FIRST_CHAPTER", "SERIES_COMPLETIONIST"}

CHAPTER_MILESTONE_INTERVAL == 25

NoRecord == [status |-> "none", currentChapter |-> 0, completedAt |-> FALSE]

NoRequest == [series |-> "none", chapter |-> 0, status |-> "none",
              prevChapter |-> 0, newChapter |-> 0, isNew |-> FALSE,
              wasCompleted |-> FALSE, rewards |-> <<>>, badge |-> "none"]

Ended   == {"done", "refused", "aborted", "failed", "crashed"}
Waiting == {"lastChapter", "upsert", "track", "reward", "mint", "complete",
            "badge", "badgeMint", "badgeRow", "chapters", "delete"}

\* Idempotency keys.  The reader's id, the same in all of them, is left out.
Chapter1(s)        == <<s, "chapter1", 0>>
Milestone(s, mark) == <<s, "milestone", mark>>
Complete(s)        == <<s, "complete", 0>>

\* The request moves its series to COMPLETED.
completes(q) == q.status = "COMPLETED" /\ ~q.wasCompleted

\* (mutant) The milestones start at the one already reached.
rewardsOf_offByOne(q) ==
    LET prevMilestone == q.prevChapter \div CHAPTER_MILESTONE_INTERVAL
        newMilestone  == q.newChapter \div CHAPTER_MILESTONE_INTERVAL
    IN  (IF q.isNew THEN <<Chapter1(q.series)>> ELSE <<>>)
        \o [i \in 1 .. (newMilestone - prevMilestone) |->
              Milestone(q.series, (prevMilestone + i + 1) * CHAPTER_MILESTONE_INTERVAL)]
        \o (IF completes(q) THEN <<Complete(q.series)>> ELSE <<>>)

\* checkAndFireMilestones: the keys to mint, in order - the first record of a
\* series, at whatever chapter ("chapter 0 (oneshots) counts too"), every
\* multiple of 25 crossed, the completion.
rewardsOf(q) ==
    LET prevMilestone == q.prevChapter \div CHAPTER_MILESTONE_INTERVAL
        newMilestone  == q.newChapter \div CHAPTER_MILESTONE_INTERVAL
    IN  (IF q.isNew THEN <<Chapter1(q.series)>> ELSE <<>>)
        \o [i \in 1 .. (newMilestone - prevMilestone) |->
              Milestone(q.series, (prevMilestone + i) * CHAPTER_MILESTONE_INTERVAL)]
        \o (IF completes(q) THEN <<Complete(q.series)>> ELSE <<>>)

\* Where checkAndFireMilestones goes after the last reward.
afterRewards(q) == IF completes(q) THEN "complete"
                   ELSE IF q.isNew THEN "badge" ELSE "done"

-----------------------------------------------------------------------------
Init ==
    /\ record = [s \in Series |-> NoRecord]
    /\ lastChapter = InitialLast
    /\ seriesTracked = 0
    /\ seriesCompleted = 0
    /\ chaptersRead = 0
    /\ ledger = {}
    /\ badgeRows = [b \in Badge |-> 0]
    /\ registry = {}
    /\ badges = {}
    /\ pc = [r \in Request |-> "idle"]
    /\ req = [r \in Request |-> NoRequest]

\* A chapter sync, or a creator, adds chapters to a series.
chaptersAdded(s) ==
    /\ lastChapter[s] < MaxLast
    /\ lastChapter' = [lastChapter EXCEPT ![s] = MaxLast]
    /\ UNCHANGED <<record, passport, inkVars, badgeVars, pc, req>>

Move(r, place, locals) ==
    /\ pc' = [pc EXCEPT ![r] = place]
    /\ req' = [req EXCEPT ![r] = locals]

-----------------------------------------------------------------------------
(***************************************************************************)
(* upsertRecord.                                                           *)
(***************************************************************************)

\* The existing record is read.  A completion that is not yet recorded must be
\* earned first; "Reading" keeps a completed series completed.
upsertRecord(r, s, chapter, status) ==
    LET existing     == record[s]
        wasCompleted == existing.status = "COMPLETED"
    IN  /\ pc[r] = "idle"
        /\ Move(r, IF status = "COMPLETED" /\ ~wasCompleted THEN "lastChapter"
                                                            ELSE "upsert",
                [series |-> s, chapter |-> chapter,
                 status |-> IF wasCompleted /\ status = "READING" THEN "COMPLETED"
                                                                  ELSE status,
                 prevChapter |-> existing.currentChapter,
                 newChapter |-> Max({existing.currentChapter, chapter}),
                 isNew |-> existing = NoRecord,
                 wasCompleted |-> wasCompleted, rewards |-> <<>>,
                 badge |-> "none"])
        /\ UNCHANGED <<record, lastChapter, passport, inkVars, badgeVars>>

\* (mutant) Any progress on a series that has chapters counts as its end.
checkReachedEnd_anyChapter(r) ==
    /\ pc[r] = "lastChapter"
    /\ Move(r, "upsert",
            [req[r] EXCEPT !.status = IF lastChapter[req[r].series] # NoChapter
                                      THEN "COMPLETED" ELSE "READING"])
    /\ UNCHANGED <<record, lastChapter, passport, inkVars, badgeVars>>

\* "Completed" is honoured when the series has chapters and its last known one
\* is reached; otherwise the request counts as "Reading".
checkReachedEnd(r) ==
    LET last       == lastChapter[req[r].series]
        reachedEnd == last # NoChapter /\ req[r].newChapter >= last
    IN  /\ pc[r] = "lastChapter"
        /\ Move(r, "upsert",
                [req[r] EXCEPT !.status = IF reachedEnd THEN "COMPLETED"
                                                        ELSE "READING"])
        /\ UNCHANGED <<record, lastChapter, passport, inkVars, badgeVars>>

\* The record is created, or overwritten with what was computed from the one
\* read before.  An update keeps completedAt unless this request completes.
writeRecord(r) ==
    LET q         == req[r]
        completed == q.status = "COMPLETED"
        old       == record[q.series]
    IN  /\ pc[r] = "upsert"
        /\ record' = [record EXCEPT ![q.series] =
              [status |-> q.status, currentChapter |-> q.newChapter,
               completedAt |-> IF old = NoRecord THEN completed
                               ELSE old.completedAt \/ completes(q)]]
        /\ LET rewards == rewardsOf(q)
           IN  Move(r, IF q.isNew THEN "track"
                       ELSE IF rewards # <<>> THEN "reward" ELSE afterRewards(q),
                    [q EXCEPT !.rewards = rewards, !.badge =
                       IF completes(q) THEN "SERIES_COMPLETIONIST" ELSE "FIRST_CHAPTER"])
        /\ UNCHANGED <<lastChapter, passport, inkVars, badgeVars>>

\* seriesTracked is incremented in a statement of its own.
trackSeries(r) ==
    /\ pc[r] = "track"
    /\ seriesTracked' = seriesTracked + 1
    /\ Move(r, "reward", req[r])
    /\ UNCHANGED <<record, lastChapter, seriesCompleted, chaptersRead, inkVars,
                   badgeVars>>

-----------------------------------------------------------------------------
(***************************************************************************)
(* checkAndFireMilestones: the rewards, one mintEarning after the other.   *)
(***************************************************************************)

\* The reward at hand is settled: on to the next one, or to what follows.
NextReward(r) ==
    LET q == [req[r] EXCEPT !.rewards = Tail(@)]
    IN  Move(r, IF q.rewards = <<>> THEN afterRewards(q) ELSE "reward", q)

\* mintEarning finds its ledger row, or goes on to the chain.
findLedgerEntry(r) ==
    /\ pc[r] = "reward"
    /\ IF Head(req[r].rewards) \in ledger THEN NextReward(r)
                                          ELSE Move(r, "mint", req[r])
    /\ UNCHANGED <<record, lastChapter, passport, inkVars, badgeVars>>

\* earn executes and Postgres mirrors it.
mintReward(r) ==
    LET key == Head(req[r].rewards)
    IN  /\ pc[r] = "mint" /\ key \notin registry
        /\ registry' = registry \cup {key}
        /\ ledger' = ledger \cup {key}
        /\ NextReward(r)
        /\ UNCHANGED <<record, lastChapter, passport, badgeVars>>

\* earn executes, but its reply is lost or Postgres fails: nothing is mirrored
\* and the error ends checkAndFireMilestones.
mintUnmirrored(r) ==
    LET key == Head(req[r].rewards)
    IN  /\ Faults \cap {"rpc", "db"} # {}
        /\ pc[r] = "mint" /\ key \notin registry
        /\ registry' = registry \cup {key}
        /\ Move(r, "failed", req[r])
        /\ UNCHANGED <<record, lastChapter, passport, ledger, badgeVars>>

\* (mutant) "already minted" ends checkAndFireMilestones like any other error.
alreadyMinted_rethrown(r) ==
    /\ pc[r] = "mint" /\ Head(req[r].rewards) \in registry
    /\ Move(r, "aborted", req[r])
    /\ UNCHANGED <<record, lastChapter, passport, inkVars, badgeVars>>

\* earn aborts on a duplicate key: "already minted" is swallowed.  A node whose
\* message does not name the error constant makes it one more stepFails.
alreadyMinted(r) ==
    /\ pc[r] = "mint" /\ Head(req[r].rewards) \in registry
    /\ NextReward(r)
    /\ UNCHANGED <<record, lastChapter, passport, inkVars, badgeVars>>

-----------------------------------------------------------------------------
(***************************************************************************)
(* checkAndFireMilestones: the completion and the badges.                  *)
(***************************************************************************)

completeSeries(r) ==
    /\ pc[r] = "complete"
    /\ seriesCompleted' = seriesCompleted + 1
    /\ Move(r, "badge", req[r])
    /\ UNCHANGED <<record, lastChapter, seriesTracked, chaptersRead, inkVars,
                   badgeVars>>

\* What follows the badge a request is at.
afterBadge(q) == IF q.badge = "SERIES_COMPLETIONIST" THEN "chapters" ELSE "done"

\* BadgesService.mint finds its row, or goes on to the chain.
findBadge(r) ==
    /\ pc[r] = "badge"
    /\ Move(r, IF badgeRows[req[r].badge] > 0 THEN afterBadge(req[r])
                                              ELSE "badgeMint", req[r])
    /\ UNCHANGED <<record, lastChapter, passport, inkVars, badgeVars>>

\* badges::mint executes once for a badge.
mintBadge(r) ==
    /\ pc[r] = "badgeMint" /\ req[r].badge \notin badges
    /\ badges' = badges \cup {req[r].badge}
    /\ Move(r, "badgeRow", req[r])
    /\ UNCHANGED <<record, lastChapter, passport, inkVars, badgeRows>>

\* The second time it aborts, and the error ends checkAndFireMilestones.
badgeAborts(r) ==
    /\ pc[r] = "badgeMint" /\ req[r].badge \in badges
    /\ Move(r, "aborted", req[r])
    /\ UNCHANGED <<record, lastChapter, passport, inkVars, badgeVars>>

\* The reply of an executed badges::mint is lost.
badgeUnmirrored(r) ==
    /\ "rpc" \in Faults
    /\ pc[r] = "badgeMint" /\ req[r].badge \notin badges
    /\ badges' = badges \cup {req[r].badge}
    /\ Move(r, "failed", req[r])
    /\ UNCHANGED <<record, lastChapter, passport, inkVars, badgeRows>>

\* badgeEarned.create; a unique index with a NULL seriesId never refuses it.
createBadgeRow(r) ==
    /\ pc[r] = "badgeRow"
    /\ badgeRows' = [badgeRows EXCEPT ![req[r].badge] = @ + 1]
    /\ Move(r, afterBadge(req[r]), req[r])
    /\ UNCHANGED <<record, lastChapter, passport, inkVars, badges>>

\* chaptersRead counts the completed series; a new one has a badge to come.
countChapters(r) ==
    /\ pc[r] = "chapters"
    /\ chaptersRead' = chaptersRead + req[r].newChapter
    /\ Move(r, IF req[r].isNew THEN "badge" ELSE "done",
            [req[r] EXCEPT !.badge = "FIRST_CHAPTER"])
    /\ UNCHANGED <<record, lastChapter, seriesTracked, seriesCompleted, inkVars,
                   badgeVars>>

-----------------------------------------------------------------------------
(***************************************************************************)
(* deleteRecord.                                                           *)
(***************************************************************************)

deleteRecord(r, s) ==
    /\ pc[r] = "idle"
    /\ Move(r, IF record[s] = NoRecord THEN "refused" ELSE "delete",
            [NoRequest EXCEPT !.series = s])
    /\ UNCHANGED <<record, lastChapter, passport, inkVars, badgeVars>>

\* The transaction deletes and decrements together, or fails with the record
\* already gone.
removeRecord(r) ==
    /\ pc[r] = "delete"
    /\ IF record[req[r].series] = NoRecord
       THEN Move(r, "refused", req[r]) /\ UNCHANGED <<record, seriesTracked>>
       ELSE /\ record' = [record EXCEPT ![req[r].series] = NoRecord]
            /\ seriesTracked' = seriesTracked - 1
            /\ Move(r, "done", req[r])
    /\ UNCHANGED <<lastChapter, seriesCompleted, chaptersRead, inkVars, badgeVars>>

-----------------------------------------------------------------------------
(***************************************************************************)
(* Faults.                                                                 *)
(***************************************************************************)

\* A query fails, or the RPC refuses a transaction, and the handler throws.
stepFails(r) ==
    /\ \/ "db" \in Faults /\ pc[r] \in Waiting
       \/ "rpc" \in Faults /\ pc[r] \in {"mint", "badgeMint"}
    /\ Move(r, "failed", req[r])
    /\ UNCHANGED <<record, lastChapter, passport, inkVars, badgeVars>>

Crash ==
    /\ "crash" \in Faults
    /\ \E r \in Request : pc[r] \in Waiting
    /\ pc' = [r \in Request |-> IF pc[r] \in Waiting THEN "crashed" ELSE pc[r]]
    /\ UNCHANGED <<record, lastChapter, passport, inkVars, badgeVars, req>>

-----------------------------------------------------------------------------
Arrive(r) == \E s \in Series :
    \/ \E chapter \in Chapter, status \in StatusInput : upsertRecord(r, s, chapter, status)
    \/ deleteRecord(r, s)

Proceed(r) ==
    \/ checkReachedEnd(r) \/ writeRecord(r) \/ trackSeries(r)
    \/ findLedgerEntry(r) \/ mintReward(r) \/ alreadyMinted(r)
    \/ completeSeries(r) \/ findBadge(r) \/ mintBadge(r) \/ badgeAborts(r)
    \/ createBadgeRow(r) \/ countChapters(r) \/ removeRecord(r)

Fail(r) == mintUnmirrored(r) \/ badgeUnmirrored(r) \/ stepFails(r)

Next ==
    \/ \E s \in Series : chaptersAdded(s)
    \/ \E r \in Request : Arrive(r) \/ Proceed(r) \/ Fail(r)
    \/ Crash

Spec == Init /\ [][Next]_vars

-----------------------------------------------------------------------------
(***************************************************************************)
(* Properties.                                                             *)
(***************************************************************************)
Key == Series \X {"chapter1", "milestone", "complete"} \X Nat

\* Every variable has its type.
TypeOK ==
    /\ record \in [Series -> [status : Status \cup {"none"}, currentChapter : Nat,
                              completedAt : BOOLEAN]]
    /\ lastChapter \in [Series -> Nat \cup {NoChapter}]
    /\ seriesTracked \in Int
    /\ seriesCompleted \in Nat
    /\ chaptersRead \in Nat
    /\ ledger \subseteq Key /\ registry \subseteq Key
    /\ badgeRows \in [Badge -> Nat]
    /\ badges \subseteq Badge
    /\ pc \in [Request -> {"idle"} \cup Waiting \cup Ended]
    /\ \A r \in Request :
          /\ req[r].series \in Series \cup {"none"}
          /\ req[r].status \in Status \cup {"none"}
          /\ req[r].badge \in Badge \cup {"none"}
          /\ req[r].rewards \in Seq(Key)

\* A COMPLETED record belongs to a series with chapters and has reached its
\* end, whatever races for it: "Completed" is EARNED, not chosen (upsertRecord).
CompletedReachedEnd ==
    \A s \in Series : record[s].status = "COMPLETED" =>
        lastChapter[s] # NoChapter /\ record[s].currentChapter >= InitialLast[s]

\* A request is reason for a reward of its series: it found the series new, it
\* reported the milestone's chapter, or the last chapter there was.
earns(q, key) ==
    /\ q.series = key[1]
    /\ key[2] = "chapter1"  => q.isNew
    /\ key[2] = "milestone" => q.chapter >= key[3]
    /\ key[2] = "complete"  =>
          lastChapter[key[1]] # NoChapter /\ q.chapter >= InitialLast[key[1]]

\* No INK without a reason (checkAndFireMilestones): whatever the requests read
\* of each other's records, every key on chain is earned by one of them.
InkIsEarned == \A key \in registry : \E r \in Request : earns(req[r], key)

\* "When a reader adds a series to their library and their current chapter is
\* >= 1, a CHAPTER_READ reward fires" (ink-system.mdx, INK_SYSTEM.md): there is
\* no first-chapter INK before some request has reported a chapter >= 1.
FirstChapterIsRead ==
    \A key \in registry : key[2] = "chapter1" =>
        \E r \in Request : req[r].series = key[1] /\ req[r].chapter >= 1

\* The badge mirror shows each badge once at most and only when it is on chain,
\* although two requests can both find it missing.
BadgeMirrorSound ==
    \A b \in Badge : badgeRows[b] <= 1 /\ (badgeRows[b] = 1 => b \in badges)

Quiet == \A r \in Request : pc[r] \in {"idle"} \cup Ended

\* No request failed or died on the way.  A badge mint that aborts because
\* another request has just minted the badge is no fault.
NoFault == \A r \in Request : pc[r] \in {"idle", "done", "refused", "aborted"}

\* Without a fault no milestone is lost: when every request has ended, each
\* series in the library was rewarded for its first record, for every multiple
\* of 25 up to its chapter, and, if completed, for that, with the badge.
MilestonesPaid ==
    NoFault => \A s \in Series : record[s] # NoRecord =>
        /\ Chapter1(s) \in registry
        /\ \A m \in 1 .. (record[s].currentChapter \div CHAPTER_MILESTONE_INTERVAL) :
              Milestone(s, m * CHAPTER_MILESTONE_INTERVAL) \in registry
        /\ record[s].status = "COMPLETED" =>
              Complete(s) \in registry /\ "SERIES_COMPLETIONIST" \in badges

\* "New series" counts one up, "delete" one down (INK_SYSTEM.md), in statements
\* apart from the read they rest on.  Without a fault the passport counts a
\* series too many only when two requests found it new, and one too few only
\* when an update brought a deleted one back.
TrackedSeriesCounted ==
    LET tracked == Cardinality({s \in Series : record[s] # NoRecord})
        new(s)  == {r \in Request : req[r].series = s /\ req[r].isNew}
        deletes == {r \in Request : req[r].series # "none" /\ req[r].status = "none"}
    IN  NoFault =>
          /\ (\A s \in Series : Cardinality(new(s)) <= 1) => seriesTracked <= tracked
          /\ deletes = {} => seriesTracked >= tracked

\* What holds of the library's rows and of the badge mirror.
RecordsSound == TypeOK /\ CompletedReachedEnd /\ BadgeMirrorSound /\ TrackedSeriesCounted
=============================================================================
