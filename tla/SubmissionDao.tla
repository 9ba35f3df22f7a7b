---------------------------- MODULE SubmissionDao ----------------------------
(***************************************************************************)
(* Community submissions and their INK-weighted vote: SubmissionService    *)
(* (create, castVote, _finalise, _executeApproval, adminApprove,           *)
(* adminReject) over Postgres and over the approval PTB, which calls       *)
(* ink_earning::earn and, for a first approval, badges::mint.              *)
(*                                                                         *)
(* A request is one invocation of castVote, adminApprove or adminReject.   *)
(* Every await of the service is a step of its own, so that requests       *)
(* interleave between a read and the write that relies on it.              *)
(***************************************************************************)
EXTENDS Naturals, FiniteSets, FiniteSetsExt

CONSTANTS
    Request,      \* invocations of the service, each used once
    User,         \* readers: submitters and voters
    Submission,   \* submissions that may be created
    SubmitterOf,  \* who creates each submission
    InitialInk,   \* each reader's INK balance at the start
    MaxEarned,    \* bound: credits each reader earns by reading meanwhile
    Faults        \* which of "rpc", "db" and "crash" may happen

ASSUME DaoAssumption ==
    /\ SubmitterOf \in [Submission -> User]
    /\ InitialInk \in [User -> Nat]
    /\ MaxEarned \in [User -> Nat]
    /\ Faults \subseteq {"rpc", "db", "crash"}

VARIABLES
    \* --- Postgres ---
    status,          \* Submission.status, "none" before create
    rewardClaimed,   \* Submission.rewardClaimed
    expired,         \* now > votingEndsAt
    votes,           \* SubmissionVote rows: votes[s][u]
    ledger,          \* submissions whose INK key has an InkLedgerEntry row
    balance,         \* InkBalance.balance
    totalInkEarned,  \* Passport.totalInkEarned
    badgeRows,       \* Contributor BadgeEarned rows of each user (a count)
    earned,          \* credits earned by reading, outside this component
    \* --- Sui ---
    registry,        \* submissions whose INK key is in the EarningRegistry
    badges,          \* users whose Contributor badge is in the BadgeRegistry
    tx,              \* fate of each request's PTB
    \* --- the server ---
    pc,              \* where each request stands
    req              \* its arguments and local variables

rowVars   == <<status, rewardClaimed, expired, votes>>
inkVars   == <<ledger, balance, totalInkEarned, badgeRows>>
chainVars == <<registry, badges>>
vars      == <<rowVars, inkVars, earned, chainVars, tx, pc, req>>

-----------------------------------------------------------------------------
(***************************************************************************)
(* The tally.                                                              *)
(***************************************************************************)
QUORUM_INK      == 500
APPROVAL_BPS    == 6000
MIN_INK_TO_VOTE == 1
inkAmount       == 50      \* the reward of an approval

\* The INK a reader earns elsewhere in one go (a completed series).
READING_CREDIT == 100

NoVote == [vote |-> "none", inkWeight |-> 0]

\* INK behind one side of the vote rows v.
InkFor(side, v) ==
    MapThenSumSet(LAMBDA u : v[u].inkWeight, {u \in User : v[u].vote = side})

approveBps(v) ==
    LET approveInk == InkFor("approve", v)
        totalInk   == approveInk + InkFor("reject", v)
    IN  IF totalInk = 0 THEN 0 ELSE (approveInk * 10000) \div totalInk

quorumMet(v) == InkFor("approve", v) + InkFor("reject", v) >= QUORUM_INK

shouldApprove(v) == approveBps(v) >= APPROVAL_BPS

\* buildTally's finalisable: quorum, and a decisive margin on either side.
finalisable(v) ==
    quorumMet(v) /\ (shouldApprove(v) \/ approveBps(v) < 10000 - APPROVAL_BPS)

-----------------------------------------------------------------------------
NoRequest == [sub |-> "none", user |-> "none", vote |-> "none", inkWeight |-> 0,
              approve |-> FALSE, alreadyHasBadge |-> FALSE]

Locals == [sub : Submission \cup {"none"}, user : User \cup {"none"},
           vote : {"approve", "reject", "none"}, inkWeight : Nat,
           approve : BOOLEAN, alreadyHasBadge : BOOLEAN]

\* A request ends answered, or with an exception of its own: refused by a
\* guard, failed on the way, or gone with the server.
Ended  == {"done", "refused", "failed", "crashed"}
Waiting == {"weigh", "upsert", "tally", "finalise", "reject", "approve",
            "submit", "await", "record"}

Init ==
    /\ status = [s \in Submission |-> "none"]
    /\ rewardClaimed = [s \in Submission |-> FALSE]
    /\ expired = [s \in Submission |-> FALSE]
    /\ votes = [s \in Submission |-> [u \in User |-> NoVote]]
    /\ ledger = {}
    /\ balance = InitialInk
    /\ totalInkEarned = InitialInk
    /\ badgeRows = [u \in User |-> 0]
    /\ earned = [u \in User |-> 0]
    /\ registry = {}
    /\ badges = {}
    /\ tx = [r \in Request |-> "none"]
    /\ pc = [r \in Request |-> "idle"]
    /\ req = [r \in Request |-> NoRequest]

\* create: a PENDING row with its voting window open.
create(s) ==
    /\ status[s] = "none"
    /\ status' = [status EXCEPT ![s] = "PENDING"]
    /\ UNCHANGED <<rewardClaimed, expired, votes, inkVars, earned, chainVars,
                   tx, pc, req>>

\* votingEndsAt passes.  Nothing in the backend reacts to it.
votingEnds(s) ==
    /\ status[s] # "none" /\ ~expired[s]
    /\ expired' = [expired EXCEPT ![s] = TRUE]
    /\ UNCHANGED <<status, rewardClaimed, votes, inkVars, earned, chainVars,
                   tx, pc, req>>

\* InkService.mintEarning credits a reader (module InkEarning).
earnByReading(u) ==
    /\ earned[u] < MaxEarned[u]
    /\ earned' = [earned EXCEPT ![u] = @ + 1]
    /\ balance' = [balance EXCEPT ![u] = @ + READING_CREDIT]
    /\ totalInkEarned' = [totalInkEarned EXCEPT ![u] = @ + READING_CREDIT]
    /\ UNCHANGED <<rowVars, ledger, badgeRows, chainVars, tx, pc, req>>

-----------------------------------------------------------------------------
(***************************************************************************)
(* castVote.                                                               *)
(***************************************************************************)

\* Only the place of request r and its locals change.
Move(r, place, locals) ==
    /\ pc' = [pc EXCEPT ![r] = place]
    /\ req' = [req EXCEPT ![r] = locals]

OnlyRequests == UNCHANGED <<rowVars, inkVars, earned, chainVars, tx>>

\* castVote reads the submission with its votes.  A decided one is refused; a
\* pending one whose window has closed goes to _finalise with the votes just
\* read, to be decided by quorum and threshold.
castVote(r, s, u, vote) ==
    /\ pc[r] = "idle" /\ status[s] # "none"
    /\ Move(r, CASE status[s] # "PENDING"               -> "refused"
                 [] status[s] = "PENDING" /\ expired[s]  -> "finalise"
                 [] status[s] = "PENDING" /\ ~expired[s] -> "weigh",
            [NoRequest EXCEPT !.sub = s, !.user = u, !.vote = vote,
               !.approve = quorumMet(votes[s]) /\ shouldApprove(votes[s])])
    /\ OnlyRequests

\* (mutant) the minimum balance is not enforced.
weighVote_noMinimum(r) ==
    /\ pc[r] = "weigh"
    /\ Move(r, "upsert", [req[r] EXCEPT !.inkWeight = balance[req[r].user]])
    /\ OnlyRequests

\* The voter's INK balance becomes the weight of the vote.
weighVote(r) ==
    LET inkBalance == balance[req[r].user]
    IN  /\ pc[r] = "weigh"
        /\ Move(r, IF inkBalance < MIN_INK_TO_VOTE THEN "refused" ELSE "upsert",
                [req[r] EXCEPT !.inkWeight = inkBalance])
        /\ OnlyRequests

\* The vote is written, over an earlier one of the same voter.
upsertVote(r) ==
    /\ pc[r] = "upsert"
    /\ votes' = [votes EXCEPT ![req[r].sub][req[r].user] =
                    [vote |-> req[r].vote, inkWeight |-> req[r].inkWeight]]
    /\ Move(r, "tally", req[r])
    /\ UNCHANGED <<status, rewardClaimed, expired, inkVars, earned, chainVars, tx>>

\* (mutant) only a decisive approval is finalised.
tallyVotes_approveOnly(r) ==
    LET v == votes[req[r].sub]
    IN  /\ pc[r] = "tally"
        /\ Move(r, IF quorumMet(v) /\ shouldApprove(v) THEN "finalise" ELSE "done",
                [req[r] EXCEPT !.approve = shouldApprove(v)])
        /\ OnlyRequests

\* All votes are read and counted; a decisive tally is finalised.
tallyVotes(r) ==
    LET v == votes[req[r].sub]
    IN  /\ pc[r] = "tally"
        /\ Move(r, IF finalisable(v) THEN "finalise" ELSE "done",
                [req[r] EXCEPT !.approve = shouldApprove(v)])
        /\ OnlyRequests

\* _finalise reads the status again and returns unless it is PENDING.
finalise(r) ==
    /\ pc[r] = "finalise"
    /\ Move(r, CASE status[req[r].sub] # "PENDING" -> "done"
                 [] status[req[r].sub] = "PENDING" /\ req[r].approve  -> "approve"
                 [] status[req[r].sub] = "PENDING" /\ ~req[r].approve -> "reject",
            req[r])
    /\ OnlyRequests

\* _finalise and adminReject write REJECTED; the update has no status guard.
writeRejected(r) ==
    /\ pc[r] = "reject"
    /\ status' = [status EXCEPT ![req[r].sub] = "REJECTED"]
    /\ Move(r, "done", req[r])
    /\ UNCHANGED <<rewardClaimed, expired, votes, inkVars, earned, chainVars, tx>>

-----------------------------------------------------------------------------
(***************************************************************************)
(* _executeApproval: read the badge mirror, run the PTB, write Postgres.   *)
(***************************************************************************)

\* (mutant) a badge of any category counts.
readBadgeMirror_anyCategory(r) ==
    /\ pc[r] = "approve"
    /\ Move(r, "submit", [req[r] EXCEPT !.alreadyHasBadge = TRUE])
    /\ OnlyRequests

\* alreadyHasBadge is read from Postgres.
readBadgeMirror(r) ==
    /\ pc[r] = "approve"
    /\ Move(r, "submit", [req[r] EXCEPT !.alreadyHasBadge =
                             badgeRows[SubmitterOf[req[r].sub]] > 0])
    /\ OnlyRequests

\* (mutant) the await is missing: Postgres is written at once.
submitApproval_notAwaited(r) ==
    /\ pc[r] = "submit"
    /\ tx' = [tx EXCEPT ![r] = "submitted"]
    /\ Move(r, "record", req[r])
    /\ UNCHANGED <<rowVars, inkVars, earned, chainVars>>

\* executeAsAdmin submits the PTB.
submitApproval(r) ==
    /\ pc[r] = "submit"
    /\ tx' = [tx EXCEPT ![r] = "submitted"]
    /\ Move(r, "await", req[r])
    /\ UNCHANGED <<rowVars, inkVars, earned, chainVars>>

\* (mutant) the idempotency key is not checked.
approvalAllowed_noKeyCheck(r) ==
    req[r].alreadyHasBadge \/ SubmitterOf[req[r].sub] \notin badges

\* The PTB is all or nothing: earn needs a fresh key, and the badge, when the
\* mirror had none, must not have been minted yet.
approvalAllowed(r) ==
    LET s == req[r].sub
    IN  /\ s \notin registry
        /\ req[r].alreadyHasBadge \/ SubmitterOf[s] \notin badges

approvalExecutes(r) ==
    LET s == req[r].sub
    IN  /\ tx[r] = "submitted" /\ approvalAllowed(r)
        /\ registry' = registry \cup {s}
        /\ badges' = IF req[r].alreadyHasBadge THEN badges
                                               ELSE badges \cup {SubmitterOf[s]}
        /\ tx' = [tx EXCEPT ![r] = "executed"]
        /\ UNCHANGED <<rowVars, inkVars, earned, pc, req>>

approvalAborts(r) ==
    /\ tx[r] = "submitted" /\ ~approvalAllowed(r)
    /\ tx' = [tx EXCEPT ![r] = "aborted"]
    /\ UNCHANGED <<rowVars, inkVars, earned, chainVars, pc, req>>

\* (mutant) the handler returns before it writes Postgres.
approvalReply_notRecorded(r) ==
    /\ pc[r] = "await" /\ tx[r] \in {"executed", "aborted"}
    /\ Move(r, IF tx[r] = "executed" THEN "done" ELSE "failed", req[r])
    /\ OnlyRequests

\* The reply arrives: success goes on to Postgres, an abort is thrown.
approvalReply(r) ==
    /\ pc[r] = "await" /\ tx[r] \in {"executed", "aborted"}
    /\ Move(r, IF tx[r] = "executed" THEN "record" ELSE "failed", req[r])
    /\ OnlyRequests

\* The Postgres transaction.  The badge row is created when the PTB created a
\* badge object and no row exists.
recordApproval(r) ==
    LET s == req[r].sub
        u == SubmitterOf[s]
    IN  /\ pc[r] = "record"
        /\ status' = [status EXCEPT ![s] = "APPROVED"]
        /\ rewardClaimed' = [rewardClaimed EXCEPT ![s] = TRUE]
        /\ ledger' = ledger \cup {s}
        /\ balance' = [balance EXCEPT ![u] = @ + inkAmount]
        /\ totalInkEarned' = [totalInkEarned EXCEPT ![u] = @ + inkAmount]
        /\ badgeRows' = IF ~req[r].alreadyHasBadge /\ badgeRows[u] = 0
                        THEN [badgeRows EXCEPT ![u] = 1]
                        ELSE badgeRows
        /\ Move(r, "done", req[r])
        /\ UNCHANGED <<expired, votes, earned, chainVars, tx>>

-----------------------------------------------------------------------------
(***************************************************************************)
(* The administrator's override.                                           *)
(***************************************************************************)

adminApprove(r, s) ==
    /\ pc[r] = "idle" /\ status[s] # "none"
    /\ Move(r, IF status[s] = "PENDING" THEN "approve" ELSE "refused",
            [NoRequest EXCEPT !.sub = s])
    /\ OnlyRequests

\* The status is checked here and written by writeRejected, a step later.
adminReject(r, s) ==
    /\ pc[r] = "idle" /\ status[s] # "none"
    /\ Move(r, IF status[s] = "PENDING" THEN "reject" ELSE "refused",
            [NoRequest EXCEPT !.sub = s])
    /\ OnlyRequests

-----------------------------------------------------------------------------
(***************************************************************************)
(* Faults.                                                                 *)
(***************************************************************************)

\* The treasury check refuses or the RPC is down before anything is sent.
submitFails(r) ==
    /\ "rpc" \in Faults /\ pc[r] = "submit"
    /\ Move(r, "failed", req[r])
    /\ OnlyRequests

\* The reply is lost or late; the PTB keeps its own fate.
approvalReplyLost(r) ==
    /\ "rpc" \in Faults /\ pc[r] = "await"
    /\ Move(r, "failed", req[r])
    /\ OnlyRequests

\* The Postgres transaction is rolled back.
recordFails(r) ==
    /\ "db" \in Faults /\ pc[r] = "record"
    /\ Move(r, "failed", req[r])
    /\ OnlyRequests

Crash ==
    /\ "crash" \in Faults
    /\ \E r \in Request : pc[r] \in Waiting
    /\ pc' = [r \in Request |-> IF pc[r] \in Waiting THEN "crashed" ELSE pc[r]]
    /\ UNCHANGED <<rowVars, inkVars, earned, chainVars, tx, req>>

-----------------------------------------------------------------------------
Arrive(r) == \E s \in Submission :
    \/ \E u \in User, vote \in {"approve", "reject"} : castVote(r, s, u, vote)
    \/ adminApprove(r, s)
    \/ adminReject(r, s)

Proceed(r) ==
    \/ weighVote(r) \/ upsertVote(r) \/ tallyVotes(r) \/ finalise(r)
    \/ writeRejected(r) \/ readBadgeMirror(r) \/ submitApproval(r)
    \/ approvalReply(r) \/ recordApproval(r)

Chain(r) == approvalExecutes(r) \/ approvalAborts(r)

Fail(r) == submitFails(r) \/ approvalReplyLost(r) \/ recordFails(r)

Next ==
    \/ \E s \in Submission : create(s) \/ votingEnds(s)
    \/ \E u \in User : earnByReading(u)
    \/ \E r \in Request : Arrive(r) \/ Proceed(r) \/ Chain(r) \/ Fail(r)
    \/ Crash

Spec == Init /\ [][Next]_vars

-----------------------------------------------------------------------------
(***************************************************************************)
(* Properties.                                                             *)
(***************************************************************************)

\* Every variable has its type.
TypeOK ==
    /\ status \in [Submission -> {"none", "PENDING", "APPROVED", "REJECTED"}]
    /\ rewardClaimed \in [Submission -> BOOLEAN]
    /\ expired \in [Submission -> BOOLEAN]
    /\ votes \in [Submission -> [User -> [vote : {"none", "approve", "reject"},
                                         inkWeight : Nat]]]
    /\ ledger \subseteq Submission
    /\ balance \in [User -> Nat]
    /\ totalInkEarned \in [User -> Nat]
    /\ badgeRows \in [User -> Nat]
    /\ earned \in [User -> Nat] /\ \A u \in User : earned[u] <= MaxEarned[u]
    /\ registry \subseteq Submission
    /\ badges \subseteq User
    /\ tx \in [Request -> {"none", "submitted", "executed", "aborted"}]
    /\ pc \in [Request -> {"idle"} \cup Waiting \cup Ended]
    /\ req \in [Request -> Locals]

\* The reward of a submission is paid at most once, whatever mix of decisive
\* votes, late votes and administrators approves it at the same time.
RewardPaidOnce ==
    \A q, r \in Request :
        tx[q] = "executed" /\ tx[r] = "executed" /\ req[q].sub = req[r].sub => q = r

\* Postgres claims a reward only if the chain paid it, and an APPROVED
\* submission is one whose reward was paid: _executeApproval's PTB precedes
\* its transaction, which writes status, rewardClaimed and ledger together.
ClaimedMeansPaid ==
    \A s \in Submission :
        /\ status[s] = "APPROVED" => rewardClaimed[s]
        /\ rewardClaimed[s] <=> s \in ledger
        /\ s \in ledger => s \in registry

\* "One PTB calls ink_earning::earn + badges::mint - both succeed or neither
\* does": whoever was paid for a submission holds the Contributor badge, and
\* Postgres lists it at most once although its unique index (with a NULL
\* seriesId) never fires.
PaidWithOneBadge ==
    /\ \A s \in registry : SubmitterOf[s] \in badges
    /\ \A u \in User : badgeRows[u] <= 1 /\ (badgeRows[u] = 1 => u \in badges)

\* Every reader's balance is what was earned by reading plus 50 INK for each
\* of the reader's approved submissions, once each.
InkAddsUp ==
    \A u \in User :
        /\ balance[u] = InitialInk[u] + READING_CREDIT * earned[u]
                 + inkAmount * Cardinality({s \in ledger : SubmitterOf[s] = u})
        /\ totalInkEarned[u] = balance[u]

\* A vote never weighs more than its voter holds, nor less than the minimum,
\* although weight and row are read and written in different steps.
VotesBackedByInk ==
    \A s \in Submission, u \in User : votes[s][u].vote # "none" =>
        /\ votes[s][u].inkWeight >= MIN_INK_TO_VOTE
        /\ votes[s][u].inkWeight <= balance[u]

\* A reward on chain that Postgres does not show is still being recorded, or
\* the request that paid it failed or died: a race alone never loses it.
UnrecordedOnlyByFault ==
    \A s \in registry \ ledger : \E r \in Request :
        /\ req[r].sub = s /\ tx[r] = "executed"
        /\ pc[r] \in {"await", "record", "failed", "crashed"}

\* The PTB of r was turned down for a badge that the PTB of q, for another
\* submission of the same reader, had minted after r read the mirror.
BadgeTakenBy(q, r) ==
    /\ tx[r] = "aborted" /\ ~req[r].alreadyHasBadge
    /\ tx[q] = "executed" /\ req[q].sub # req[r].sub
    /\ SubmitterOf[req[q].sub] = SubmitterOf[req[r].sub]

\* "After each vote the tally is re-checked; if quorum + decisive threshold is
\* met the submission auto-finalises" (castVote): once every request has ended,
\* none of them by a fault, a submission whose votes are decisive is no longer
\* PENDING.  A PTB that aborts on chain is no fault, and one abort is the sole
\* exception: two submissions of one reader are approved at once, both PTBs
\* carry badges::mint, and the one that comes second waits for the next vote.
DecisiveTallyFinalises ==
    (\A r \in Request : \/ pc[r] \in {"idle", "done", "refused"}
                        \/ pc[r] = "failed" /\ tx[r] = "aborted")
    => \A s \in Submission : finalisable(votes[s]) /\ status[s] = "PENDING"
          => \E q, r \in Request : req[r].sub = s /\ BadgeTakenBy(q, r)

\* "The status guard at the top prevents double-finalisation under concurrent
\* requests" (_finalise): the step by which a vote's _finalise decides a
\* submission never overwrites a decision another request has written.
DecidedOnce ==
    [][\A r \in Request :
          /\ pc[r] \in {"reject", "record"} /\ pc'[r] # pc[r]
          /\ req[r].user # "none"
          /\ status[req[r].sub] \in {"APPROVED", "REJECTED"}
          => status'[req[r].sub] = status[req[r].sub]]_vars

\* The INK that weighs is accounted for, and decides.
TallySound == InkAddsUp /\ DecisiveTallyFinalises
=============================================================================
