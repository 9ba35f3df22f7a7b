------------------------------ MODULE DaoPage ------------------------------
(***************************************************************************)
(* The DAO page: the submission store and the tally it keeps of its own,   *)
(* against the tally the server builds from the votes.  After a vote the   *)
(* store does not ask again: it undoes the reader's earlier vote, with the *)
(* weight of the new one, and adds the new.                                *)
(*                                                                         *)
(* The server's side is one step per request here; SubmissionDao has the   *)
(* steps of castVote and of the decision.                                  *)
(***************************************************************************)
EXTENDS Integers, FiniteSets

CONSTANTS
    Proposal,       \* submissions that may be made
    Weight,         \* the INK a reader may hold
    DaoQuorum,      \* INK it takes to decide
    MaxBallots,     \* bound: votes this reader casts
    MaxLists,       \* bound: times the list is fetched
    MaxDaoFaults,   \* bound: requests lost
    Nothing

ASSUME DaoPageAssumption ==
    /\ Weight \subseteq Nat \ {0} /\ DaoQuorum \in Nat
    /\ MaxBallots \in Nat /\ MaxLists \in Nat /\ MaxDaoFaults \in Nat
    /\ Nothing \notin Proposal \cup {0, 1}

VARIABLES
    ink,        \* the reader's balance
    ballots,    \* server: each submission's votes, of this reader and of the others
    decided,    \* server: submissions no longer PENDING
    proposed,   \* server: the submissions there are
    ended,      \* server: submissions whose voting time is over
    shown,      \* store: the submissions listed, with tally and myVote
    fetchingDao, \* store: loading
    voting,     \* store: votes in flight, by submission
    dialog,     \* SubmitDialog: "closed", "open" or "saving"
    wire,       \* requests in flight, with the server's answer once there is one
    cast, lists, daoFaults,  \* counters for the bounds
    apart,      \* history: submissions whose tally moved without the page being told
    closed      \* history: submissions decided by no vote that was taken

daoStore  == <<shown, fetchingDao, voting>>
daoServer == <<ink, ballots, decided, proposed, ended, closed>>
daoCount  == <<cast, lists, daoFaults>>
daoVars   == <<daoServer, daoStore, dialog, wire, daoCount, apart>>

-----------------------------------------------------------------------------
\* A vote: 1 approves, 0 rejects; NoBallot has no weight.
NoBallot == [vote |-> Nothing, ink |-> 0]
Voter  == {"me", "others"}

DaoInit ==
    /\ ink \in Weight
    /\ ballots = [p \in Proposal |-> [v \in Voter |-> NoBallot]]
    /\ proposed \in SUBSET Proposal /\ decided = {} /\ ended = {} /\ closed = {}
    /\ shown = [p \in Proposal |-> Nothing] /\ fetchingDao = FALSE /\ voting = {}
    /\ dialog = "closed" /\ wire = {}
    /\ cast = 0 /\ lists = 0 /\ daoFaults = 0 /\ apart = {}

\* The INK on one side of a submission.
side(b, x) == (IF b["me"].vote = x THEN b["me"].ink ELSE 0)
              + (IF b["others"].vote = x THEN b["others"].ink ELSE 0)

\* buildTally, and the reader's own vote with it.
buildTally(p) == [approve |-> side(ballots[p], 1), reject |-> side(ballots[p], 0),
                  mine |-> ballots[p]["me"].vote]

\* Quorum, and 60 % for or less than 40 %.
decisive(t) == LET total == t.approve + t.reject
               IN  /\ total >= DaoQuorum
                   /\ t.approve * 10 >= total * 6 \/ t.approve * 10 < total * 4

Asked(k, p, v) == [kind |-> k, proposal |-> p, vote |-> v, answer |-> "none", ink |-> 0,
                   final |-> FALSE, list |-> [q \in Proposal |-> Nothing], number |-> cast + lists]

\* fetchDao, when the page opens, on Retry and after a suggestion.  A list asked for beside
\* a vote may tell less than the vote's answer has told.
fetchDao ==
    /\ lists < MaxLists /\ lists' = lists + 1
    /\ wire' = wire \cup {Asked("list", Nothing, Nothing)} /\ fetchingDao' = TRUE
    /\ apart' = apart \cup {r.proposal : r \in {q \in wire : q.kind = "vote"}}

openDao == /\ dialog' = "closed" /\ fetchDao
           /\ UNCHANGED <<daoServer, shown, voting, cast, daoFaults>>

\* A card's buttons: with INK, and no vote for this submission in flight.
vote(p, v) ==
    /\ ~fetchingDao /\ shown[p] # Nothing /\ p \notin voting
    /\ cast < MaxBallots /\ cast' = cast + 1
    /\ voting' = voting \cup {p} /\ wire' = wire \cup {Asked("vote", p, v)}
    /\ apart' = IF \E r \in wire : r.kind = "list" THEN apart \cup {p} ELSE apart
    /\ UNCHANGED <<daoServer, shown, fetchingDao, dialog, lists, daoFaults>>

openDialog == /\ lists > 0 /\ dialog = "closed" /\ dialog' = "open"
              /\ UNCHANGED <<daoServer, daoStore, wire, daoCount, apart>>

\* It can be closed while it saves; opened again, it can save once more.
closeDialog == /\ dialog # "closed" /\ dialog' = "closed"
               /\ UNCHANGED <<daoServer, daoStore, wire, daoCount, apart>>

submit(p) ==
    /\ dialog = "open" /\ dialog' = "saving"
    /\ p \notin proposed /\ \A r \in wire : r.proposal # p
    /\ wire' = wire \cup {Asked("submit", p, Nothing)}
    /\ UNCHANGED <<daoServer, daoStore, daoCount, apart>>

-----------------------------------------------------------------------------
Told(r, s) == wire' = (wire \ {r}) \cup {s}

serveList(r) ==
    /\ r.kind = "list" /\ r.answer = "none"
    /\ Told(r, [r EXCEPT !.answer = "ok",
           !.list = [p \in Proposal |-> IF p \in proposed \ decided THEN buildTally(p) ELSE Nothing]])
    /\ UNCHANGED <<daoServer, daoStore, dialog, daoCount, apart>>

serveSubmit(r) ==
    /\ r.kind = "submit" /\ r.answer = "none"
    /\ proposed' = proposed \cup {r.proposal} /\ Told(r, [r EXCEPT !.answer = "ok"])
    /\ UNCHANGED <<ink, ballots, decided, ended, closed, daoStore, dialog, daoCount, apart>>

\* castVote: the vote is stored with the balance of now, and may decide.  A reader whose
\* balance has changed since her earlier vote leaves the page with a wrong undo.
serveVote(r) ==
    /\ r.kind = "vote" /\ r.answer = "none" /\ r.proposal \notin decided \cup ended
    /\ ballots' = [ballots EXCEPT ![r.proposal]["me"] = [vote |-> r.vote, ink |-> ink]]
    /\ LET final == decisive(buildTally(r.proposal)')
       IN  /\ decided' = IF final THEN decided \cup {r.proposal} ELSE decided
           /\ Told(r, [r EXCEPT !.answer = "ok", !.ink = ink, !.final = final])
    /\ apart' = IF ballots[r.proposal]["me"].ink \in {0, ink} THEN apart ELSE apart \cup {r.proposal}
    /\ UNCHANGED <<ink, proposed, ended, closed, daoStore, dialog, daoCount>>

\* The vote is stored, and the decision it takes fails: the answer is an error.
decisionFails(r) ==
    /\ daoFaults < MaxDaoFaults /\ daoFaults' = daoFaults + 1
    /\ r.kind = "vote" /\ r.answer = "none" /\ r.proposal \notin decided \cup ended
    /\ ballots' = [ballots EXCEPT ![r.proposal]["me"] = [vote |-> r.vote, ink |-> ink]]
    /\ decisive(buildTally(r.proposal)')
    /\ Told(r, [r EXCEPT !.answer = "refused"])
    /\ apart' = apart \cup {r.proposal}
    /\ UNCHANGED <<ink, decided, proposed, ended, closed, daoStore, dialog, cast, lists>>

\* A vote that comes too late is not taken, but the submission is decided first; and that
\* may fail.
lateVote(r) ==
    /\ r.kind = "vote" /\ r.answer = "none" /\ r.proposal \in ended \ decided
    /\ Told(r, [r EXCEPT !.answer = "refused"])
    /\ \/ decided' = decided \cup {r.proposal} /\ closed' = closed \cup {r.proposal} /\ UNCHANGED daoFaults
       \/ /\ daoFaults < MaxDaoFaults /\ daoFaults' = daoFaults + 1
          /\ UNCHANGED <<decided, closed>>
    /\ UNCHANGED <<ink, ballots, proposed, ended, daoStore, dialog, cast, lists, apart>>

refuseVote(r) ==
    /\ r.kind = "vote" /\ r.answer = "none" /\ r.proposal \in decided
    /\ Told(r, [r EXCEPT !.answer = "refused"])
    /\ UNCHANGED <<daoServer, daoStore, dialog, daoCount, apart>>

\* Others vote, which may decide (or fail to), and the reader earns INK, unseen by the page.
othersVote(p, v, w) ==
    /\ p \in proposed \ (decided \cup ended) /\ ballots[p]["others"] = NoBallot
    /\ ballots' = [ballots EXCEPT ![p]["others"] = [vote |-> v, ink |-> w]]
    /\ UNCHANGED decided \/ (decisive(buildTally(p)') /\ decided' = decided \cup {p})
    /\ apart' = IF lists = 0 THEN apart ELSE apart \cup {p}
    /\ UNCHANGED <<ink, proposed, ended, closed, daoStore, dialog, wire, daoCount>>

timeIsUp(p) ==
    /\ p \in proposed \ (decided \cup ended) /\ ended' = ended \cup {p}
    /\ UNCHANGED <<ink, ballots, decided, proposed, closed, daoStore, dialog, wire, daoCount, apart>>

\* adminApprove and adminReject, and another reader's vote that came too late.
othersDecide(p) ==
    /\ p \in proposed \ decided
    /\ decided' = decided \cup {p} /\ closed' = closed \cup {p}
    /\ UNCHANGED <<ink, ballots, proposed, ended, daoStore, dialog, wire, daoCount, apart>>

earnInk(w) == /\ w > ink /\ ink' = w
              /\ UNCHANGED <<ballots, decided, proposed, ended, closed, daoStore, dialog, wire, daoCount, apart>>

-----------------------------------------------------------------------------
Gone(r) == wire' = wire \ {r} /\ UNCHANGED <<daoServer, cast>>

listAnswered(r) ==
    /\ r.kind = "list" /\ r.answer = "ok" /\ Gone(r)
    /\ shown' = r.list /\ fetchingDao' = FALSE
    /\ UNCHANGED <<voting, dialog, lists, daoFaults, apart>>

\* (mutant) the earlier vote is not undone
undone_not(t, w) == t

\* The reader's earlier vote is taken off its side, with the weight of the new one.
undone(t, w) == CASE t.mine = 1 -> [t EXCEPT !.approve = @ - w]
                  [] t.mine = 0 -> [t EXCEPT !.reject = @ - w]
                  [] OTHER -> t

counted(t, v, w) ==
    LET u == undone(t, w)
    IN  [approve |-> IF v = 1 THEN u.approve + w ELSE u.approve,
         reject  |-> IF v = 1 THEN u.reject ELSE u.reject + w, mine |-> v]

\* The answer to a vote: the tally is adjusted, and a submission that the vote has decided
\* leaves the list.
voteAnswered(r) ==
    /\ r.kind = "vote" /\ r.answer = "ok" /\ Gone(r)
    /\ voting' = voting \ {r.proposal}
    /\ shown' = [shown EXCEPT ![r.proposal] =
                   IF r.final \/ @ = Nothing THEN Nothing ELSE counted(@, r.vote, r.ink)]
    /\ UNCHANGED <<fetchingDao, dialog, lists, daoFaults, apart>>

voteRefused(r) ==
    /\ r.kind = "vote" /\ r.answer = "refused" /\ Gone(r)
    /\ voting' = voting \ {r.proposal}
    /\ UNCHANGED <<shown, fetchingDao, dialog, lists, daoFaults, apart>>

\* handleSuccess closes the dialog, even one opened since, and fetches the list.
submitAnswered(r) ==
    /\ r.kind = "submit" /\ r.answer = "ok" /\ dialog' = "closed"
    /\ lists < MaxLists /\ lists' = lists + 1
    /\ wire' = (wire \ {r}) \cup {Asked("list", Nothing, Nothing)} /\ fetchingDao' = TRUE
    /\ apart' = apart \cup {q.proposal : q \in {q \in wire : q.kind = "vote"}}
    /\ UNCHANGED <<daoServer, shown, voting, cast, daoFaults>>

\* A request or its answer is lost; a vote that was stored all the same is not shown.
loseDao(r) ==
    /\ daoFaults < MaxDaoFaults /\ daoFaults' = daoFaults + 1
    /\ Gone(r)
    /\ fetchingDao' = (fetchingDao /\ r.kind # "list")
    /\ voting' = voting \ (IF r.kind = "vote" THEN {r.proposal} ELSE {})
    /\ dialog' = IF r.kind = "submit" /\ dialog = "saving" THEN "open" ELSE dialog
    /\ apart' = apart \cup (IF r.kind = "vote" THEN {r.proposal} ELSE {})
    /\ UNCHANGED <<shown, lists>>

DaoNext ==
    \/ openDao \/ openDialog \/ closeDialog
    \/ \E p \in Proposal : submit(p) \/ timeIsUp(p) \/ othersDecide(p)
    \/ \E p \in Proposal : \E v \in {0, 1} : vote(p, v) \/ \E w \in Weight : othersVote(p, v, w)
    \/ \E w \in Weight : earnInk(w)
    \/ \E r \in wire : \/ serveList(r) \/ serveSubmit(r) \/ serveVote(r) \/ refuseVote(r)
                       \/ decisionFails(r) \/ lateVote(r)
                       \/ listAnswered(r) \/ voteAnswered(r) \/ voteRefused(r)
                       \/ submitAnswered(r) \/ loseDao(r)

DaoSpec == DaoInit /\ [][DaoNext]_daoVars

-----------------------------------------------------------------------------
\* With no request about it in flight, the tally the page keeps of a submission is the one
\* the server would build, however often the reader has changed her vote, unless others
\* voted, her INK changed in between, a list or an answer was missed, or the decision failed
\* that her vote would have taken.  A submission that is decided is no longer listed, unless
\* it was decided by others, or by a vote of hers that came too late and was refused.
TallyTold ==
    wire = {} => \A p \in Proposal \ apart :
        shown[p] # Nothing => shown[p] = buildTally(p) /\ p \notin decided \ closed
=============================================================================
