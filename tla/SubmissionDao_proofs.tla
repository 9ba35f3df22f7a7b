------------------------ MODULE SubmissionDao_proofs ------------------------
(***************************************************************************)
(* Proofs that SubmissionDao is safe for every set of requests, readers    *)
(* and submissions, every INK balance and every combination of faults.     *)
(*                                                                         *)
(* As with mintEarning, the chain carries the argument: whichever request's *)
(* PTB registers a submission's key is the only one that ever reaches the  *)
(* Postgres transaction for it (PaidByOneRequest, RequestMatchesTx), so the *)
(* unguarded updates of that transaction are applied once.  That a decisive *)
(* tally is decided needs a second invariant, TallyInv: which request      *)
(* answers for the votes, and why the chain turned a PTB down.             *)
(*                                                                         *)
(* The DAO page's card counts as the server does: its invariant ties the   *)
(* tally shown to the list and the vote in flight.                         *)
(***************************************************************************)
EXTENDS Integers, SubmissionDao, DaoPage, FiniteSetTheorems, TLAPS

\* The registry holds the submissions of the executed PTBs, one PTB each.
PaidByOneRequest ==
    /\ \A r \in Request : tx[r] = "executed" => req[r].sub \in registry
    /\ RewardPaidOnce
    /\ UnrecordedOnlyByFault

\* What a request's place in the service says of its PTB and its locals.
RequestMatchesTx ==
    \A r \in Request :
        /\ pc[r] \in Waiting => req[r].sub \in Submission
        /\ pc[r] \in {"idle", "weigh", "upsert", "tally", "finalise", "reject",
                      "approve", "submit"} => tx[r] = "none"
        /\ tx[r] # "none" => req[r].sub \in Submission
        /\ tx[r] \in {"submitted", "aborted"} => pc[r] \in {"await", "failed", "crashed"}
        /\ pc[r] = "record" => tx[r] = "executed"
        /\ pc[r] \in {"await", "record"} /\ tx[r] = "executed"
              => req[r].sub \notin ledger

\* A mirror that shows the badge is right, also in a request's local variable.
BadgeMirrorSound ==
    /\ PaidWithOneBadge
    /\ \A r \in Request : req[r].alreadyHasBadge =>
          req[r].sub \in Submission /\ SubmitterOf[req[r].sub] \in badges
    /\ \A r \in Request : tx[r] = "executed" => SubmitterOf[req[r].sub] \in badges

\* A weight read but not yet written is backed like the weights in the rows.
WeightsBacked ==
    /\ VotesBackedByInk
    /\ \A r \in Request : pc[r] \in {"weigh", "upsert"} => req[r].user \in User
    /\ \A r \in Request : pc[r] = "upsert" =>
          /\ req[r].inkWeight >= MIN_INK_TO_VOTE
          /\ req[r].inkWeight <= balance[req[r].user]

IInv == /\ TypeOK /\ PaidByOneRequest /\ RequestMatchesTx /\ ClaimedMeansPaid
        /\ BadgeMirrorSound /\ WeightsBacked

-----------------------------------------------------------------------------
\* The initial state satisfies the inductive invariant.
LEMMA InitIInv == Init => IInv
  <1> SUFFICES ASSUME Init PROVE IInv
    OBVIOUS
  <1> USE DaoAssumption DEF Init, NoRequest, NoVote
  <1>1. TypeOK
    BY DEF TypeOK, Locals
  <1>2. PaidByOneRequest /\ RequestMatchesTx /\ ClaimedMeansPaid
    BY DEF PaidByOneRequest, RewardPaidOnce, UnrecordedOnlyByFault,
           RequestMatchesTx, Waiting, ClaimedMeansPaid
  <1>3. BadgeMirrorSound /\ WeightsBacked
    BY DEF BadgeMirrorSound, PaidWithOneBadge, WeightsBacked, VotesBackedByInk
  <1> QED
    BY <1>1, <1>2, <1>3 DEF IInv

\* The local variables of a request keep their types, field by field.
LEMMA LocalsTyped ==
    /\ \A s \in Submission : [NoRequest EXCEPT !.sub = s] \in Locals
    /\ \A s \in Submission, u \in User, choice \in {"approve", "reject"},
          b \in BOOLEAN :
          [NoRequest EXCEPT !.sub = s, !.user = u, !.vote = choice, !.approve = b]
             \in Locals
    /\ \A q \in Locals : \A n \in Nat : [q EXCEPT !.inkWeight = n] \in Locals
    /\ \A q \in Locals : \A b \in BOOLEAN : [q EXCEPT !.approve = b] \in Locals
    /\ \A q \in Locals : \A b \in BOOLEAN : [q EXCEPT !.alreadyHasBadge = b] \in Locals
  <1>1. \A s \in Submission : [NoRequest EXCEPT !.sub = s] \in Locals
    BY DEF Locals, NoRequest
  <1>2. \A s \in Submission, u \in User, choice \in {"approve", "reject"},
          b \in BOOLEAN :
          [NoRequest EXCEPT !.sub = s, !.user = u, !.vote = choice, !.approve = b]
             \in Locals
    BY DEF Locals, NoRequest
  <1>3. \A q \in Locals : \A n \in Nat : [q EXCEPT !.inkWeight = n] \in Locals
    BY DEF Locals
  <1>4. \A q \in Locals : \A b \in BOOLEAN : [q EXCEPT !.approve = b] \in Locals
    BY DEF Locals
  <1>5. \A q \in Locals : \A b \in BOOLEAN : [q EXCEPT !.alreadyHasBadge = b] \in Locals
    BY DEF Locals
  <1> QED
    BY <1>1, <1>2, <1>3, <1>4, <1>5

\* Request r alone moves, and places and local variables keep their types.
Moved(r) ==
    /\ pc' \in [Request -> {"idle"} \cup Waiting \cup Ended]
    /\ req' \in [Request -> Locals]
    /\ \A q \in Request \ {r} : pc'[q] = pc[q] /\ req'[q] = req[q]

\* Request r moves and keeps its local variables but its weight and verdict.
KeepsCase(r) ==
    /\ Moved(r)
    /\ req'[r].sub = req[r].sub
    /\ req'[r].user = req[r].user
    /\ req'[r].alreadyHasBadge = req[r].alreadyHasBadge

\* A move of one request, spelled out.
LEMMA MoveMoves ==
    ASSUME TypeOK, NEW r \in Request,
           NEW place \in {"idle"} \cup Waiting \cup Ended, NEW locals \in Locals,
           Move(r, place, locals)
    PROVE  Moved(r) /\ pc'[r] = place /\ req'[r] = locals
  BY DEF Move, TypeOK, Moved

\* A request that arrives knows its submission, and its voter when it votes.
LEMMA ArriveMoves ==
    ASSUME TypeOK, NEW r \in Request, Arrive(r)
    PROVE  /\ Moved(r) /\ OnlyRequests
           /\ pc[r] = "idle"
           /\ pc'[r] \in {"refused", "weigh", "finalise", "approve", "reject"}
           /\ req'[r].sub \in Submission
           /\ ~req'[r].alreadyHasBadge
           /\ pc'[r] = "weigh" => req'[r].user \in User
  <1>1. ASSUME NEW s \in Submission, NEW u \in User,
               NEW choice \in {"approve", "reject"}, castVote(r, s, u, choice)
        PROVE  /\ Moved(r) /\ OnlyRequests
               /\ pc[r] = "idle"
               /\ pc'[r] \in {"refused", "weigh", "finalise"}
               /\ req'[r].sub \in Submission /\ req'[r].user \in User
               /\ ~req'[r].alreadyHasBadge
    <2> DEFINE approve == quorumMet(votes[s]) /\ shouldApprove(votes[s])
               locals == [NoRequest EXCEPT !.sub = s, !.user = u, !.vote = choice,
                                           !.approve = approve]
               where == CASE status[s] # "PENDING"                -> "refused"
                          [] status[s] = "PENDING" /\ expired[s]  -> "finalise"
                          [] status[s] = "PENDING" /\ ~expired[s] -> "weigh"
    <2>1. approve \in BOOLEAN
      OBVIOUS
    <2>2. where \in {"refused", "weigh", "finalise"}
      <3>1. CASE status[s] # "PENDING"
        <4>1. where = "refused"
          BY <3>1, Zenon
        <4> QED
          BY <4>1
      <3>2. CASE status[s] = "PENDING" /\ expired[s]
        <4>1. where = "finalise"
          BY <3>2, Zenon
        <4> QED
          BY <4>1
      <3>3. CASE status[s] = "PENDING" /\ ~expired[s]
        <4>1. where = "weigh"
          BY <3>3, Zenon
        <4> QED
          BY <4>1
      <3> QED
        BY <3>1, <3>2, <3>3
    <2>3. Move(r, where, locals)
      BY <1>1, Zenon DEF castVote
    <2> HIDE DEF approve, where
    <2>4. locals \in Locals
      BY <2>1, LocalsTyped
    <2>5. locals.sub = s /\ locals.user = u /\ locals.alreadyHasBadge = FALSE
      BY <2>1 DEF NoRequest
    <2> HIDE DEF locals
    <2>6. Moved(r) /\ pc'[r] = where /\ req'[r] = locals
      BY <2>2, <2>3, <2>4, MoveMoves DEF Waiting, Ended
    <2> QED
      BY <1>1, <2>2, <2>5, <2>6 DEF castVote
  <1>2. ASSUME NEW s \in Submission, adminApprove(r, s) \/ adminReject(r, s)
        PROVE  /\ Moved(r) /\ OnlyRequests
               /\ pc[r] = "idle"
               /\ pc'[r] \in {"refused", "approve", "reject"}
               /\ req'[r].sub \in Submission
               /\ ~req'[r].alreadyHasBadge
    <2> DEFINE locals == [NoRequest EXCEPT !.sub = s]
    <2>1. PICK place \in {"refused", "approve", "reject"} : Move(r, place, locals)
      BY <1>2 DEF adminApprove, adminReject
    <2>2. locals \in Locals
      BY LocalsTyped
    <2>3. locals.sub = s /\ locals.alreadyHasBadge = FALSE
      BY DEF NoRequest
    <2> HIDE DEF locals
    <2>4. Moved(r) /\ pc'[r] = place /\ req'[r] = locals
      BY <2>1, <2>2, MoveMoves DEF Waiting, Ended
    <2> QED
      BY <1>2, <2>3, <2>4 DEF adminApprove, adminReject
  <1> QED
    BY <1>1, <1>2 DEF Arrive

\* The weight that goes on to the upsert is the balance, at least the minimum.
LEMMA WeighMoves ==
    ASSUME TypeOK, WeightsBacked, NEW r \in Request, weighVote(r)
    PROVE  /\ KeepsCase(r) /\ OnlyRequests
           /\ pc[r] = "weigh" /\ pc'[r] \in {"refused", "upsert"}
           /\ pc'[r] = "upsert" => /\ req'[r].inkWeight >= MIN_INK_TO_VOTE
                                   /\ req'[r].inkWeight <= balance[req[r].user]
  <1> DEFINE b == balance[req[r].user]
             locals == [req[r] EXCEPT !.inkWeight = b]
             where == IF b < MIN_INK_TO_VOTE THEN "refused" ELSE "upsert"
  <1>1. b \in Nat
    BY DEF weighVote, WeightsBacked, TypeOK
  <1>2. req[r] \in Locals
    BY DEF TypeOK
  <1>3. Move(r, where, locals)
    BY Zenon DEF weighVote
  <1> HIDE DEF b
  <1>4. locals \in Locals
    BY <1>1, <1>2, LocalsTyped
  <1>5. /\ locals.sub = req[r].sub /\ locals.user = req[r].user
        /\ locals.alreadyHasBadge = req[r].alreadyHasBadge
        /\ locals.inkWeight = b
    BY <1>2 DEF Locals
  <1> HIDE DEF locals
  <1>6. Moved(r) /\ pc'[r] = where /\ req'[r] = locals
    BY <1>3, <1>4, MoveMoves DEF Waiting, Ended
  <1> QED
    BY <1>1, <1>5, <1>6 DEF weighVote, KeepsCase, MIN_INK_TO_VOTE, b

\* buildTally only reads.
LEMMA TallyMoves ==
    ASSUME TypeOK, NEW r \in Request, tallyVotes(r)
    PROVE  /\ KeepsCase(r) /\ OnlyRequests
           /\ pc[r] = "tally" /\ pc'[r] \in {"finalise", "done"}
           /\ finalisable(votes[req[r].sub]) => pc'[r] = "finalise"
  <1> DEFINE b == shouldApprove(votes[req[r].sub])
             locals == [req[r] EXCEPT !.approve = b]
             where == IF finalisable(votes[req[r].sub]) THEN "finalise" ELSE "done"
  <1>1. b \in BOOLEAN
    BY DEF shouldApprove
  <1>2. req[r] \in Locals
    BY DEF TypeOK
  <1>3. Move(r, where, locals)
    BY Zenon DEF tallyVotes
  <1> HIDE DEF b
  <1>4. locals \in Locals
    BY <1>1, <1>2, LocalsTyped
  <1>5. /\ locals.sub = req[r].sub /\ locals.user = req[r].user
        /\ locals.alreadyHasBadge = req[r].alreadyHasBadge
    BY <1>2 DEF Locals
  <1> HIDE DEF locals
  <1>6. Moved(r) /\ pc'[r] = where /\ req'[r] = locals
    BY <1>3, <1>4, MoveMoves DEF Waiting, Ended
  <1> QED
    BY <1>5, <1>6 DEF tallyVotes, KeepsCase

\* readBadgeMirror looks at the submitter's rows and at nothing else.
LEMMA BadgeMoves ==
    ASSUME TypeOK, NEW r \in Request, readBadgeMirror(r)
    PROVE  /\ Moved(r) /\ OnlyRequests
           /\ pc[r] = "approve" /\ pc'[r] = "submit"
           /\ req'[r].sub = req[r].sub /\ req'[r].user = req[r].user
           /\ req'[r].alreadyHasBadge <=> badgeRows[SubmitterOf[req[r].sub]] > 0
  <1> DEFINE b == badgeRows[SubmitterOf[req[r].sub]] > 0
             locals == [req[r] EXCEPT !.alreadyHasBadge = b]
  <1>1. b \in BOOLEAN
    OBVIOUS
  <1>2. req[r] \in Locals
    BY DEF TypeOK
  <1>3. Move(r, "submit", locals)
    BY Zenon DEF readBadgeMirror
  <1> HIDE DEF b
  <1>4. locals \in Locals
    BY <1>1, <1>2, LocalsTyped
  <1>5. /\ locals.sub = req[r].sub /\ locals.user = req[r].user
        /\ locals.alreadyHasBadge = b
    BY <1>2 DEF Locals
  <1> HIDE DEF locals
  <1>6. Moved(r) /\ pc'[r] = "submit" /\ req'[r] = locals
    BY <1>3, <1>4, MoveMoves DEF Waiting, Ended
  <1> QED
    BY <1>5, <1>6 DEF readBadgeMirror, b

\* The steps that keep every local variable, and where they lead.
LEMMA OtherMoves ==
    ASSUME TypeOK, NEW r \in Request,
           \/ upsertVote(r) \/ finalise(r) \/ writeRejected(r)
           \/ submitApproval(r) \/ approvalReply(r) \/ recordApproval(r)
           \/ Fail(r)
    PROVE  /\ KeepsCase(r) /\ req'[r] = req[r]
           /\ pc[r] \in {"upsert", "finalise", "reject", "submit", "await", "record"}
           /\ pc[r] = "upsert" => pc'[r] = "tally"
           /\ pc[r] = "finalise" =>
                \/ pc'[r] \in {"approve", "reject"}
                \/ pc'[r] = "done" /\ status[req[r].sub] # "PENDING"
           /\ pc[r] = "reject" => pc'[r] = "done"
           /\ pc[r] = "submit" => pc'[r] \in {"await", "failed"}
           /\ pc[r] = "await" => \/ pc'[r] = "failed"
                                 \/ pc'[r] = "record" /\ tx[r] = "executed"
           /\ pc[r] = "record" => pc'[r] \in {"done", "failed"}
  <1>1. req[r] \in Locals
    BY DEF TypeOK
  <1>2. ASSUME NEW place \in Waiting \cup Ended, Move(r, place, req[r])
        PROVE  KeepsCase(r) /\ req'[r] = req[r] /\ pc'[r] = place
    BY <1>1, <1>2, MoveMoves DEF KeepsCase
  <1>3. CASE finalise(r)
    <2>1. status[req[r].sub] # "PENDING" => Move(r, "done", req[r])
      BY <1>3, Zenon DEF finalise
    <2>2. status[req[r].sub] = "PENDING" /\ req[r].approve =>
             Move(r, "approve", req[r])
      BY <1>3, Zenon DEF finalise
    <2>3. status[req[r].sub] = "PENDING" /\ ~req[r].approve =>
             Move(r, "reject", req[r])
      BY <1>3, Zenon DEF finalise
    <2>4. pc[r] = "finalise"
      BY <1>3 DEF finalise
    <2> QED
      BY <1>2, <2>1, <2>2, <2>3, <2>4 DEF Waiting, Ended
  <1>4. CASE approvalReply(r)
    <2>1. \/ Move(r, "failed", req[r])
          \/ Move(r, "record", req[r]) /\ tx[r] = "executed"
      BY <1>4 DEF approvalReply
    <2> QED
      BY <1>2, <1>4, <2>1 DEF Waiting, Ended, approvalReply
  <1>5. CASE upsertVote(r)
    BY <1>2, <1>5 DEF upsertVote, Waiting, Ended
  <1>6. CASE writeRejected(r)
    BY <1>2, <1>6 DEF writeRejected, Waiting, Ended
  <1>7. CASE submitApproval(r)
    BY <1>2, <1>7 DEF submitApproval, Waiting, Ended
  <1>8. CASE recordApproval(r)
    BY <1>2, <1>8 DEF recordApproval, Waiting, Ended
  <1>9. CASE Fail(r)
    <2>1. Move(r, "failed", req[r]) /\ pc[r] \in {"submit", "await", "record"}
      BY <1>9 DEF Fail, submitFails, approvalReplyLost, recordFails
    <2> QED
      BY <1>2, <2>1 DEF Waiting, Ended
  <1> QED
    BY <1>3, <1>4, <1>5, <1>6, <1>7, <1>8, <1>9

\* What recordApproval writes, row by row.
LEMMA RecordEffects ==
    ASSUME TypeOK, RequestMatchesTx, NEW r \in Request, recordApproval(r)
    PROVE  LET s == req[r].sub
               u == SubmitterOf[s]
           IN  /\ s \in Submission /\ u \in User /\ pc[r] = "record" /\ pc'[r] = "done"
               /\ status' = [status EXCEPT ![s] = "APPROVED"]
               /\ rewardClaimed' = [rewardClaimed EXCEPT ![s] = TRUE]
               /\ ledger' = ledger \cup {s}
               /\ balance' \in [User -> Nat] /\ totalInkEarned' \in [User -> Nat]
               /\ \A v \in User : balance'[v] >= balance[v]
               /\ badgeRows' \in [User -> Nat]
               /\ \A v \in User : \/ badgeRows'[v] = badgeRows[v]
                                  \/ v = u /\ badgeRows[v] = 0 /\ badgeRows'[v] = 1
               /\ UNCHANGED <<expired, votes, earned, chainVars, tx>>
  <1> DEFINE s == req[r].sub
             u == SubmitterOf[s]
  <1>1. s \in Submission /\ u \in User /\ pc[r] = "record"
    BY DaoAssumption DEF recordApproval, RequestMatchesTx, Waiting
  <1>2. pc'[r] = "done"
    BY DEF recordApproval, Move, TypeOK
  <1>3. balance \in [User -> Nat] /\ totalInkEarned \in [User -> Nat]
           /\ badgeRows \in [User -> Nat]
    BY DEF TypeOK
  <1>4. /\ balance' = [balance EXCEPT ![u] = @ + inkAmount]
        /\ totalInkEarned' = [totalInkEarned EXCEPT ![u] = @ + inkAmount]
    BY Zenon DEF recordApproval
  <1>5. \/ badgeRows' = badgeRows
        \/ badgeRows[u] = 0 /\ badgeRows' = [badgeRows EXCEPT ![u] = 1]
    BY Zenon DEF recordApproval
  <1>6. /\ status' = [status EXCEPT ![s] = "APPROVED"]
        /\ rewardClaimed' = [rewardClaimed EXCEPT ![s] = TRUE]
        /\ ledger' = ledger \cup {s}
        /\ UNCHANGED <<expired, votes, earned, chainVars, tx>>
    BY Zenon DEF recordApproval
  <1> HIDE DEF s, u
  <1>7. /\ balance' \in [User -> Nat] /\ totalInkEarned' \in [User -> Nat]
        /\ \A v \in User : balance'[v] >= balance[v]
    BY <1>1, <1>3, <1>4 DEF inkAmount
  <1>8. /\ badgeRows' \in [User -> Nat]
        /\ \A v \in User : \/ badgeRows'[v] = badgeRows[v]
                           \/ v = u /\ badgeRows[v] = 0 /\ badgeRows'[v] = 1
    BY <1>1, <1>3, <1>5
  <1> QED
    BY <1>1, <1>2, <1>6, <1>7, <1>8 DEF s, u

-----------------------------------------------------------------------------
\* Every step keeps the types: the request that moves keeps its place and its
\* local variables typed by the lemmas above, and the rows are written with
\* the submission, the voter and the weight the request holds.
LEMMA NextTypeOK ==
    TypeOK /\ RequestMatchesTx /\ WeightsBacked /\ [Next]_vars => TypeOK'
  <1> SUFFICES ASSUME TypeOK, RequestMatchesTx, WeightsBacked, [Next]_vars
               PROVE  TypeOK'
    OBVIOUS
  <1> USE DaoAssumption DEF TypeOK, rowVars, inkVars, chainVars, OnlyRequests,
          Moved, KeepsCase
  <1>1. ASSUME NEW s \in Submission, create(s) PROVE TypeOK'
    BY <1>1 DEF create
  <1>2. ASSUME NEW s \in Submission, votingEnds(s) PROVE TypeOK'
    BY <1>2 DEF votingEnds
  <1>3. ASSUME NEW u \in User, earnByReading(u) PROVE TypeOK'
    BY <1>3 DEF earnByReading, READING_CREDIT
  <1>4. ASSUME NEW r \in Request, Arrive(r) PROVE TypeOK'
    BY <1>4, ArriveMoves
  <1>5. ASSUME NEW r \in Request, weighVote(r) PROVE TypeOK'
    BY <1>5, WeighMoves
  <1>6. ASSUME NEW r \in Request, upsertVote(r) PROVE TypeOK'
    <2>1. /\ req[r].sub \in Submission /\ req[r].user \in User
          /\ req[r].vote \in {"none", "approve", "reject"}
          /\ req[r].inkWeight \in Nat
      BY <1>6 DEF upsertVote, WeightsBacked, RequestMatchesTx, Waiting, Locals
    <2>2. votes' \in [Submission -> [User -> [vote : {"none", "approve", "reject"},
                                              inkWeight : Nat]]]
      BY <1>6, <2>1 DEF upsertVote
    <2> QED
      BY <1>6, <2>2, OtherMoves DEF upsertVote
  <1>7. ASSUME NEW r \in Request, tallyVotes(r) PROVE TypeOK'
    BY <1>7, TallyMoves
  <1>8. ASSUME NEW r \in Request, finalise(r) PROVE TypeOK'
    BY <1>8, OtherMoves DEF finalise
  <1>9. ASSUME NEW r \in Request, writeRejected(r) PROVE TypeOK'
    BY <1>9, OtherMoves DEF writeRejected
  <1>10. ASSUME NEW r \in Request, readBadgeMirror(r) PROVE TypeOK'
    BY <1>10, BadgeMoves
  <1>11. ASSUME NEW r \in Request, submitApproval(r) PROVE TypeOK'
    BY <1>11, OtherMoves DEF submitApproval
  <1>12. ASSUME NEW r \in Request, approvalReply(r) PROVE TypeOK'
    BY <1>12, OtherMoves DEF approvalReply
  <1>13. ASSUME NEW r \in Request, recordApproval(r) PROVE TypeOK'
    <2> DEFINE s == req[r].sub
    <2>1. /\ s \in Submission
          /\ status' = [status EXCEPT ![s] = "APPROVED"]
          /\ rewardClaimed' = [rewardClaimed EXCEPT ![s] = TRUE]
          /\ ledger' = ledger \cup {s}
          /\ balance' \in [User -> Nat] /\ totalInkEarned' \in [User -> Nat]
          /\ badgeRows' \in [User -> Nat]
          /\ UNCHANGED <<expired, votes, earned, chainVars, tx>>
      BY <1>13, RecordEffects
    <2>2. Moved(r)
      BY <1>13, OtherMoves
    <2> QED
      BY <2>1, <2>2
  <1>14. ASSUME NEW r \in Request, Chain(r) PROVE TypeOK'
    <2>1. req[r].sub \in Submission /\ SubmitterOf[req[r].sub] \in User
      BY <1>14 DEF Chain, approvalExecutes, approvalAborts, RequestMatchesTx
    <2> QED
      BY <1>14, <2>1 DEF Chain, approvalExecutes, approvalAborts
  <1>15. ASSUME NEW r \in Request, Fail(r) PROVE TypeOK'
    <2>1. OnlyRequests
      BY <1>15 DEF Fail, submitFails, approvalReplyLost, recordFails
    <2> QED
      BY <1>15, <2>1, OtherMoves
  <1>16. CASE Crash
    BY <1>16 DEF Crash, Ended
  <1>17. CASE UNCHANGED vars
    BY <1>17 DEF vars
  <1> QED
    BY <1>1, <1>2, <1>3, <1>4, <1>5, <1>6, <1>7, <1>8, <1>9, <1>10, <1>11,
       <1>12, <1>13, <1>14, <1>15, <1>16, <1>17 DEF Next, Proceed

-----------------------------------------------------------------------------
Safe == PaidByOneRequest /\ RequestMatchesTx /\ ClaimedMeansPaid
           /\ BadgeMirrorSound /\ WeightsBacked

\* A step that writes neither database nor chain keeps the invariant when the
\* request that moves keeps it.
LEMMA QuietStep ==
    ASSUME IInv, NEW r \in Request, Moved(r), OnlyRequests,
           tx[r] = "none" \/ req'[r].sub = req[r].sub,
           pc'[r] \in Waiting => req'[r].sub \in Submission,
           pc'[r] \in {"idle", "weigh", "upsert", "tally", "finalise", "reject",
                       "approve", "submit"} => tx[r] = "none",
           pc'[r] = "record" => tx[r] = "executed",
           tx[r] = "executed" => pc'[r] \in {"record", "failed"},
           tx[r] = "executed" /\ pc'[r] = "record" => req[r].sub \notin ledger,
           tx[r] \in {"submitted", "aborted"} => pc'[r] \in {"await", "failed"},
           req'[r].alreadyHasBadge =>
              req'[r].sub \in Submission /\ SubmitterOf[req'[r].sub] \in badges,
           pc'[r] \in {"weigh", "upsert"} => req'[r].user \in User,
           pc'[r] = "upsert" => /\ req'[r].inkWeight >= MIN_INK_TO_VOTE
                                /\ req'[r].inkWeight <= balance[req'[r].user]
    PROVE  Safe'
  <1> USE DEF IInv, OnlyRequests, rowVars, inkVars, chainVars, Moved
  <1>1. PaidByOneRequest'
    <2>1. \A q \in Request : tx'[q] = "executed" => req'[q].sub \in registry'
      BY DEF PaidByOneRequest
    <2>2. RewardPaidOnce'
      BY DEF PaidByOneRequest, RewardPaidOnce
    <2>3. UnrecordedOnlyByFault'
      BY DEF PaidByOneRequest, UnrecordedOnlyByFault
    <2> QED
      BY <2>1, <2>2, <2>3 DEF PaidByOneRequest
  <1>2. RequestMatchesTx'
    BY DEF RequestMatchesTx, Waiting
  <1>3. ClaimedMeansPaid'
    BY DEF ClaimedMeansPaid
  <1>4. BadgeMirrorSound'
    BY DEF BadgeMirrorSound, PaidWithOneBadge
  <1>5. WeightsBacked'
    BY DEF WeightsBacked, VotesBackedByInk
  <1> QED
    BY <1>1, <1>2, <1>3, <1>4, <1>5 DEF Safe

\* The steps of the service that only read.
LEMMA ReadsSafe ==
    ASSUME IInv, NEW r \in Request,
           \/ Arrive(r) \/ weighVote(r) \/ tallyVotes(r) \/ finalise(r)
           \/ readBadgeMirror(r) \/ approvalReply(r) \/ Fail(r)
    PROVE  Safe'
  <1> USE DEF IInv, RequestMatchesTx
  <1>1. CASE Arrive(r)
    BY <1>1, ArriveMoves, QuietStep DEF Waiting
  <1>2. CASE weighVote(r)
    <2>1. req'[r].alreadyHasBadge =>
             req'[r].sub \in Submission /\ SubmitterOf[req'[r].sub] \in badges
      BY <1>2, WeighMoves DEF KeepsCase, BadgeMirrorSound
    <2> QED
      BY <1>2, <2>1, WeighMoves, QuietStep DEF KeepsCase, Waiting, WeightsBacked
  <1>3. CASE tallyVotes(r)
    <2>1. req'[r].alreadyHasBadge =>
             req'[r].sub \in Submission /\ SubmitterOf[req'[r].sub] \in badges
      BY <1>3, TallyMoves DEF KeepsCase, BadgeMirrorSound
    <2> QED
      BY <1>3, <2>1, TallyMoves, QuietStep DEF KeepsCase, Waiting
  <1>4. CASE finalise(r)
    <2>1. req'[r].alreadyHasBadge =>
             req'[r].sub \in Submission /\ SubmitterOf[req'[r].sub] \in badges
      BY <1>4, OtherMoves DEF BadgeMirrorSound
    <2>2. pc[r] = "finalise" /\ OnlyRequests
      BY <1>4 DEF finalise
    <2> QED
      BY <1>4, <2>1, <2>2, OtherMoves, QuietStep DEF KeepsCase, Waiting
  <1>5. CASE readBadgeMirror(r)
    \* The mirror is right: a row is there only once the badge is on chain.
    <2>1. req[r].sub \in Submission
      BY <1>5, BadgeMoves DEF Waiting
    <2>2. badgeRows[SubmitterOf[req[r].sub]] > 0 => SubmitterOf[req[r].sub] \in badges
      BY <2>1, DaoAssumption DEF BadgeMirrorSound, PaidWithOneBadge, TypeOK
    <2> QED
      BY <1>5, <2>1, <2>2, BadgeMoves, QuietStep DEF Waiting
  <1>6. CASE approvalReply(r) \/ Fail(r)
    <2>1. req'[r].alreadyHasBadge =>
             req'[r].sub \in Submission /\ SubmitterOf[req'[r].sub] \in badges
      BY <1>6, OtherMoves DEF BadgeMirrorSound
    <2>2. OnlyRequests /\ pc[r] \in {"submit", "await", "record"}
             /\ pc'[r] \in {"record", "failed"}
             /\ (pc'[r] = "record" => tx[r] = "executed" /\ pc[r] = "await")
      <3>1. CASE approvalReply(r)
        BY <3>1, OtherMoves DEF approvalReply
      <3>2. CASE Fail(r)
        <4>1. OnlyRequests /\ pc[r] \in {"submit", "await", "record"}
                /\ Move(r, "failed", req[r])
          BY <3>2 DEF Fail, submitFails, approvalReplyLost, recordFails
        <4>2. pc'[r] = "failed"
          BY <4>1 DEF Move, TypeOK
        <4> QED
          BY <4>1, <4>2
      <3> QED
        BY <1>6, <3>1, <3>2
    <2> QED
      BY <1>6, <2>1, <2>2, OtherMoves, QuietStep DEF KeepsCase, Waiting
  <1> QED
    BY <1>1, <1>2, <1>3, <1>4, <1>5, <1>6

\* The steps of the service that write Postgres.  The one that carries the
\* argument is recordApproval: the ledger row is missing, because only the
\* request that was paid for the submission can write it.
LEMMA WritesSafe ==
    ASSUME IInv, NEW r \in Request,
           upsertVote(r) \/ writeRejected(r) \/ recordApproval(r)
    PROVE  Safe'
  <1> USE DaoAssumption DEF IInv, rowVars, inkVars, chainVars
  <1>0. TypeOK /\ KeepsCase(r) /\ req'[r] = req[r] /\ Moved(r)
    BY OtherMoves DEF KeepsCase
  <1>1. CASE upsertVote(r)
    <2>1. /\ pc[r] = "upsert" /\ pc'[r] = "tally" /\ tx[r] = "none"
          /\ UNCHANGED <<status, rewardClaimed, ledger, balance, badgeRows, registry,
                         badges, tx>>
          /\ votes' = [votes EXCEPT ![req[r].sub][req[r].user] =
                          [vote |-> req[r].vote, inkWeight |-> req[r].inkWeight]]
      BY <1>1, OtherMoves DEF upsertVote, RequestMatchesTx
    <2>2. PaidByOneRequest'
      BY <1>0, <2>1 DEF PaidByOneRequest, RewardPaidOnce, UnrecordedOnlyByFault, Moved
    <2>3. RequestMatchesTx'
      BY <1>0, <2>1 DEF RequestMatchesTx, Waiting, Moved
    <2>4. ClaimedMeansPaid'
      BY <2>1 DEF ClaimedMeansPaid
    <2>5. BadgeMirrorSound'
      BY <1>0, <2>1 DEF BadgeMirrorSound, PaidWithOneBadge, Moved
    <2>6. WeightsBacked'
      <3>1. /\ req[r].sub \in Submission /\ req[r].user \in User
            /\ req[r].inkWeight >= MIN_INK_TO_VOTE
            /\ req[r].inkWeight <= balance[req[r].user]
        BY <2>1 DEF WeightsBacked, RequestMatchesTx, Waiting
      <3>2. VotesBackedByInk'
        BY <2>1, <3>1 DEF VotesBackedByInk, WeightsBacked, TypeOK
      <3> QED
        BY <1>0, <2>1, <3>2 DEF WeightsBacked, Moved
    <2> QED
      BY <2>2, <2>3, <2>4, <2>5, <2>6 DEF Safe
  <1>2. CASE writeRejected(r)
    <2>1. /\ pc[r] = "reject" /\ pc'[r] = "done" /\ tx[r] = "none"
          /\ UNCHANGED <<rewardClaimed, votes, ledger, balance, badgeRows, registry,
                         badges, tx>>
          /\ status' = [status EXCEPT ![req[r].sub] = "REJECTED"]
      BY <1>2, OtherMoves DEF writeRejected, RequestMatchesTx
    <2>2. PaidByOneRequest'
      BY <1>0, <2>1 DEF PaidByOneRequest, RewardPaidOnce, UnrecordedOnlyByFault, Moved
    <2>3. RequestMatchesTx'
      BY <1>0, <2>1 DEF RequestMatchesTx, Waiting, Moved
    <2>4. ClaimedMeansPaid'
      BY <2>1 DEF ClaimedMeansPaid, TypeOK
    <2>5. BadgeMirrorSound'
      BY <1>0, <2>1 DEF BadgeMirrorSound, PaidWithOneBadge, Moved
    <2>6. WeightsBacked'
      BY <1>0, <2>1 DEF WeightsBacked, VotesBackedByInk, Moved
    <2> QED
      BY <2>2, <2>3, <2>4, <2>5, <2>6 DEF Safe
  <1>3. CASE recordApproval(r)
    <2> DEFINE s == req[r].sub
               u == SubmitterOf[s]
    <2>1. /\ s \in Submission /\ u \in User /\ pc[r] = "record" /\ pc'[r] = "done"
          /\ status' = [status EXCEPT ![s] = "APPROVED"]
          /\ rewardClaimed' = [rewardClaimed EXCEPT ![s] = TRUE]
          /\ ledger' = ledger \cup {s}
          /\ \A v \in User : balance'[v] >= balance[v]
          /\ balance' \in [User -> Nat]
          /\ \A v \in User : \/ badgeRows'[v] = badgeRows[v]
                             \/ v = u /\ badgeRows[v] = 0 /\ badgeRows'[v] = 1
          /\ UNCHANGED <<votes, registry, badges, tx>>
      BY <1>3, RecordEffects
    <2>2. tx[r] = "executed" /\ s \in registry /\ u \in badges
      BY <2>1 DEF RequestMatchesTx, PaidByOneRequest, BadgeMirrorSound
    <2>3. PaidByOneRequest'
      BY <1>0, <2>1, <2>2 DEF PaidByOneRequest, RewardPaidOnce, UnrecordedOnlyByFault, Moved
    <2>4. RequestMatchesTx'
      BY <1>0, <2>1, <2>2 DEF RequestMatchesTx, PaidByOneRequest, RewardPaidOnce,
                              Waiting, Moved
    <2>5. ClaimedMeansPaid'
      BY <2>1, <2>2 DEF ClaimedMeansPaid, TypeOK
    <2>6. BadgeMirrorSound'
      BY <1>0, <2>1, <2>2 DEF BadgeMirrorSound, PaidWithOneBadge, Moved
    <2>7. WeightsBacked'
      <3>1. VotesBackedByInk'
        BY <2>1 DEF VotesBackedByInk, WeightsBacked, TypeOK
      <3>2. \A q \in Request : pc'[q] \in {"weigh", "upsert"} =>
               q # r /\ pc[q] = pc'[q] /\ req'[q] = req[q]
        BY <1>0, <2>1 DEF Moved
      <3>3. \A q \in Request : req[q].inkWeight \in Nat
        BY DEF TypeOK, Locals
      <3> QED
        BY <2>1, <3>1, <3>2, <3>3 DEF WeightsBacked, TypeOK
    <2> QED
      BY <2>3, <2>4, <2>5, <2>6, <2>7 DEF Safe
  <1> QED
    BY <1>1, <1>2, <1>3

\* The steps of the chain and of everything around the service.  The one that
\* carries the argument is approvalExecutes: the key was not in the registry,
\* so no other request has been paid for the submission.
LEMMA OutsideSafe ==
    ASSUME IInv,
           \/ \E s \in Submission : create(s) \/ votingEnds(s)
           \/ \E u \in User : earnByReading(u)
           \/ \E r \in Request : submitApproval(r) \/ Chain(r)
           \/ Crash
           \/ UNCHANGED vars
    PROVE  Safe'
  <1> USE DaoAssumption DEF IInv, rowVars, inkVars, chainVars
  <1>1. ASSUME NEW s \in Submission, create(s) \/ votingEnds(s) PROVE Safe'
    <2>1. /\ UNCHANGED <<rewardClaimed, votes, ledger, balance, badgeRows, registry,
                         badges, tx, pc, req>>
          /\ \/ status' = status
             \/ status[s] = "none" /\ status' = [status EXCEPT ![s] = "PENDING"]
      BY <1>1 DEF create, votingEnds
    <2>2. ClaimedMeansPaid'
      BY <2>1 DEF ClaimedMeansPaid, TypeOK
    <2>3. PaidByOneRequest' /\ RequestMatchesTx'
      BY <2>1 DEF PaidByOneRequest, RewardPaidOnce, UnrecordedOnlyByFault, RequestMatchesTx
    <2>4. BadgeMirrorSound' /\ WeightsBacked'
      BY <2>1 DEF BadgeMirrorSound, PaidWithOneBadge, WeightsBacked, VotesBackedByInk
    <2> QED
      BY <2>2, <2>3, <2>4 DEF Safe
  <1>2. ASSUME NEW u \in User, earnByReading(u) PROVE Safe'
    <2>1. /\ UNCHANGED <<status, rewardClaimed, votes, ledger, badgeRows, registry,
                         badges, tx, pc, req>>
          /\ \A v \in User : balance[v] \in Nat /\ balance'[v] \in Nat
                                /\ balance'[v] >= balance[v]
      BY <1>2 DEF earnByReading, TypeOK, READING_CREDIT
    <2>2. ClaimedMeansPaid' /\ BadgeMirrorSound'
      BY <2>1 DEF ClaimedMeansPaid, BadgeMirrorSound, PaidWithOneBadge
    <2>3. PaidByOneRequest' /\ RequestMatchesTx'
      BY <2>1 DEF PaidByOneRequest, RewardPaidOnce, UnrecordedOnlyByFault, RequestMatchesTx
    <2>4. WeightsBacked'
      BY <2>1 DEF WeightsBacked, VotesBackedByInk, TypeOK, Locals
    <2> QED
      BY <2>2, <2>3, <2>4 DEF Safe
  <1>3. ASSUME NEW r \in Request, submitApproval(r) PROVE Safe'
    <2>0. pc[r] = "submit" /\ pc'[r] = "await" /\ req'[r] = req[r] /\ Moved(r)
      BY <1>3, OtherMoves DEF submitApproval, KeepsCase, Move, TypeOK
    <2>1. /\ pc[r] = "submit" /\ pc'[r] = "await" /\ tx[r] = "none"
          /\ UNCHANGED <<status, rewardClaimed, votes, ledger, balance, badgeRows,
                         registry, badges>>
          /\ tx' = [tx EXCEPT ![r] = "submitted"]
          /\ req'[r] = req[r] /\ Moved(r)
      BY <1>3, <2>0 DEF submitApproval, RequestMatchesTx
    <2>2. ClaimedMeansPaid' /\ BadgeMirrorSound'
      BY <2>1 DEF ClaimedMeansPaid, BadgeMirrorSound, PaidWithOneBadge, Moved, TypeOK
    <2>3. PaidByOneRequest'
      <3>1. \A q \in Request : /\ tx'[q] = "executed" <=> tx[q] = "executed"
                               /\ req'[q] = req[q]
                               /\ tx[q] = "executed" => pc'[q] = pc[q]
        BY <2>1 DEF Moved, TypeOK
      <3> QED
        BY <2>1, <3>1 DEF PaidByOneRequest, RewardPaidOnce, UnrecordedOnlyByFault
    <2>4. RequestMatchesTx'
      BY <2>1 DEF RequestMatchesTx, Waiting, Moved, TypeOK
    <2>5. WeightsBacked'
      BY <2>1 DEF WeightsBacked, VotesBackedByInk, Moved
    <2> QED
      BY <2>2, <2>3, <2>4, <2>5 DEF Safe
  <1>4. ASSUME NEW r \in Request, approvalExecutes(r) PROVE Safe'
    <2> DEFINE s == req[r].sub
               u == SubmitterOf[s]
    <2>1. /\ tx[r] = "submitted" /\ s \notin registry
          /\ req[r].alreadyHasBadge \/ u \notin badges
          /\ UNCHANGED <<status, rewardClaimed, votes, ledger, balance, badgeRows, pc, req>>
          /\ registry' = registry \cup {s}
          /\ tx' = [tx EXCEPT ![r] = "executed"]
      BY <1>4 DEF approvalExecutes, approvalAllowed
    <2>2. s \in Submission /\ pc[r] \in {"await", "failed", "crashed"}
             /\ u \in User /\ s \notin ledger
      BY <2>1 DEF RequestMatchesTx, ClaimedMeansPaid
    <2>3. badges \subseteq badges' /\ u \in badges'
      BY <1>4, <2>2 DEF approvalExecutes, BadgeMirrorSound
    <2>4. ClaimedMeansPaid'
      BY <2>1 DEF ClaimedMeansPaid
    <2>5. BadgeMirrorSound'
      BY <2>1, <2>2, <2>3 DEF BadgeMirrorSound, PaidWithOneBadge, TypeOK
    <2>6. PaidByOneRequest'
      <3>1. \A q \in Request : tx'[q] = "executed" => req'[q].sub \in registry'
        BY <2>1 DEF PaidByOneRequest, TypeOK
      <3>2. RewardPaidOnce'
        BY <2>1 DEF PaidByOneRequest, RewardPaidOnce, TypeOK
      <3>3. UnrecordedOnlyByFault'
        BY <2>1, <2>2 DEF PaidByOneRequest, UnrecordedOnlyByFault, TypeOK
      <3> QED
        BY <3>1, <3>2, <3>3 DEF PaidByOneRequest
    <2>7. RequestMatchesTx'
      BY <2>1, <2>2 DEF RequestMatchesTx, TypeOK
    <2>8. WeightsBacked'
      BY <2>1 DEF WeightsBacked, VotesBackedByInk
    <2> QED
      BY <2>4, <2>5, <2>6, <2>7, <2>8 DEF Safe
  <1>5. ASSUME NEW r \in Request, approvalAborts(r) PROVE Safe'
    <2>1. /\ tx[r] = "submitted" /\ tx' = [tx EXCEPT ![r] = "aborted"]
          /\ UNCHANGED <<status, rewardClaimed, votes, ledger, balance, badgeRows,
                         registry, badges, pc, req>>
      BY <1>5 DEF approvalAborts
    <2>2. ClaimedMeansPaid' /\ BadgeMirrorSound' /\ WeightsBacked'
      BY <2>1 DEF ClaimedMeansPaid, BadgeMirrorSound, PaidWithOneBadge, WeightsBacked,
                  VotesBackedByInk, TypeOK
    <2>3. PaidByOneRequest' /\ RequestMatchesTx'
      BY <2>1 DEF PaidByOneRequest, RewardPaidOnce, UnrecordedOnlyByFault,
                  RequestMatchesTx, TypeOK
    <2> QED
      BY <2>2, <2>3 DEF Safe
  <1>6. CASE Crash
    <2>1. /\ UNCHANGED <<status, rewardClaimed, votes, ledger, balance, badgeRows,
                         registry, badges, tx, req>>
          /\ \A r \in Request : \/ pc'[r] = "crashed"
                                \/ pc'[r] = pc[r] /\ pc[r] \notin Waiting
      BY <1>6 DEF Crash
    <2>2. ClaimedMeansPaid' /\ BadgeMirrorSound' /\ WeightsBacked'
      BY <2>1 DEF ClaimedMeansPaid, BadgeMirrorSound, PaidWithOneBadge, WeightsBacked,
                  VotesBackedByInk
    <2>3. PaidByOneRequest'
      BY <2>1 DEF PaidByOneRequest, RewardPaidOnce, UnrecordedOnlyByFault
    <2>4. RequestMatchesTx'
      BY <2>1 DEF RequestMatchesTx, Waiting
    <2> QED
      BY <2>2, <2>3, <2>4 DEF Safe
  <1>7. CASE UNCHANGED vars
    BY <1>7 DEF vars, Safe, ClaimedMeansPaid, BadgeMirrorSound, PaidWithOneBadge,
                WeightsBacked, VotesBackedByInk, PaidByOneRequest, RewardPaidOnce,
                UnrecordedOnlyByFault, RequestMatchesTx
  <1> QED
    BY <1>1, <1>2, <1>3, <1>4, <1>5, <1>6, <1>7 DEF Chain

-----------------------------------------------------------------------------
\* Every step preserves the inductive invariant.
LEMMA NextIInv == IInv /\ [Next]_vars => IInv'
  <1> SUFFICES ASSUME IInv, [Next]_vars PROVE IInv'
    OBVIOUS
  <1>1. TypeOK'
    BY NextTypeOK DEF IInv
  <1>2. Safe'
    BY ReadsSafe, WritesSafe, OutsideSafe DEF Next, Proceed
  <1> QED
    BY <1>1, <1>2 DEF IInv, Safe

\* The inductive invariant holds in every reachable state.
LEMMA AlwaysIInv == Spec => []IInv
  BY InitIInv, NextIInv, PTL DEF Spec

\* Types are respected in every reachable state of the submission service.
THEOREM DaoTypeCorrect == Spec => []TypeOK
  BY AlwaysIInv, PTL DEF IInv

\* However many votes and administrators approve a submission at the same
\* time, one PTB at most pays its 50 INK (_executeApproval).
THEOREM DaoPaysOnce == Spec => []RewardPaidOnce
  <1>1. IInv => RewardPaidOnce
    BY DEF IInv, PaidByOneRequest
  <1> QED
    BY AlwaysIInv, <1>1, PTL

\* Postgres never shows a reward, or an approval, that the chain did not pay.
THEOREM DaoClaimsArePaid == Spec => []ClaimedMeansPaid
  <1>1. IInv => ClaimedMeansPaid
    BY DEF IInv
  <1> QED
    BY AlwaysIInv, <1>1, PTL

\* Whoever was paid holds the Contributor badge, and Postgres lists it once at
\* most, without the help of the unique index.
THEOREM DaoPaysWithOneBadge == Spec => []PaidWithOneBadge
  <1>1. IInv => PaidWithOneBadge
    BY DEF IInv, BadgeMirrorSound
  <1> QED
    BY AlwaysIInv, <1>1, PTL

\* No vote row outweighs its voter's balance or undercuts the minimum.
THEOREM DaoVotesAreBacked == Spec => []VotesBackedByInk
  <1>1. IInv => VotesBackedByInk
    BY DEF IInv, WeightsBacked
  <1> QED
    BY AlwaysIInv, <1>1, PTL

\* A reward that Postgres does not show is being recorded or belongs to a
\* request that failed or died.
THEOREM DaoDriftNeedsAFault == Spec => []UnrecordedOnlyByFault
  <1>1. IInv => UnrecordedOnlyByFault
    BY DEF IInv, PaidByOneRequest
  <1> QED
    BY AlwaysIInv, <1>1, PTL
-----------------------------------------------------------------------------
(***************************************************************************)
(* The tally: the INK behind it adds up, and a decisive one is acted on.   *)
(***************************************************************************)

\* Votes are rows of created submissions, and a recorded reward is a decision.
RowsInOrder ==
    /\ \A s \in Submission : status[s] = "none" => votes[s] = [u \in User |-> NoVote]
    /\ \A s \in ledger : status[s] \in {"APPROVED", "REJECTED"}
    /\ \A r \in Request : pc[r] # "idle" =>
          req[r].sub \in Submission /\ status[req[r].sub] # "none"

\* Keys and badges on chain come from executed PTBs, and a PTB is turned down
\* for one of them.
AbortsHaveReasons ==
    /\ \A s \in registry : \E q \in Request : tx[q] = "executed" /\ req[q].sub = s
    /\ \A u \in badges : \E s \in registry : SubmitterOf[s] = u
    /\ \A r \in Request : tx[r] = "aborted" =>
          \/ req[r].sub \in registry
          \/ ~req[r].alreadyHasBadge /\ SubmitterOf[req[r].sub] \in badges

\* Where a request that has seen, or will see, the votes that count may be.
Handling == {"tally", "finalise", "reject", "approve", "submit", "await", "record",
             "failed", "crashed"}

\* A decisive tally has a request that acts on it, or one that ended trying.
DecisiveIsHandled ==
    \A s \in Submission : finalisable(votes[s]) /\ status[s] = "PENDING" =>
        \E r \in Request : req[r].sub = s /\ pc[r] \in Handling

\* The ledger has finitely many rows, and the balances count them.
InkCounted == IsFiniteSet(ledger) /\ InkAddsUp

TallyInv == RowsInOrder /\ AbortsHaveReasons /\ DecisiveIsHandled /\ InkCounted

\* Without a vote there is no INK on either side, hence no quorum.
LEMMA NoVotesNoQuorum == ~finalisable([u \in User |-> NoVote])
  <1> DEFINE v == [u \in User |-> NoVote]
  <1>1. ASSUME NEW which \in {"approve", "reject"} PROVE InkFor(which, v) = 0
    <2> DEFINE W(u) == v[u].inkWeight
    <2>1. {u \in User : v[u].vote = which} = {}
      BY DEF NoVote
    <2>2. InkFor(which, v) = MapThenSumSet(W, {})
      BY <2>1 DEF InkFor
    <2> QED
      BY <2>2 DEF MapThenSumSet, MapThenFoldSet
  <1> QED
    BY <1>1 DEF finalisable, quorumMet, QUORUM_INK

LEMMA InitTallyInv == Init => TallyInv
  <1> SUFFICES ASSUME Init PROVE TallyInv
    OBVIOUS
  <1> USE DaoAssumption DEF Init
  <1>1. RowsInOrder /\ AbortsHaveReasons
    BY DEF RowsInOrder, AbortsHaveReasons, NoRequest
  <1>2. DecisiveIsHandled
    BY DEF DecisiveIsHandled
  <1>3. InkCounted
    <2>1. /\ IsFiniteSet(ledger)
          /\ \A u \in User : Cardinality({s \in ledger : SubmitterOf[s] = u}) = 0
      <3>1. \A u \in User : {s \in ledger : SubmitterOf[s] = u} = {}
        OBVIOUS
      <3> QED
        BY <3>1, FS_EmptySet
    <2>2. \A u \in User : balance[u] = InitialInk[u] /\ earned[u] = 0 /\ InitialInk[u] \in Nat
                             /\ totalInkEarned[u] = balance[u]
      OBVIOUS
    <2> QED
      BY <2>1, <2>2 DEF InkCounted, InkAddsUp, READING_CREDIT, inkAmount
  <1> QED
    BY <1>1, <1>2, <1>3 DEF TallyInv

\* Who may write a submission's status and votes, and what is written.
LEMMA RowsInOrderKept ==
    IInv /\ TallyInv /\ [Next]_vars => RowsInOrder'
  <1> SUFFICES ASSUME IInv, RowsInOrder, [Next]_vars PROVE RowsInOrder'
    BY DEF TallyInv
  <1> USE DaoAssumption DEF IInv, rowVars, inkVars, chainVars, RowsInOrder, OnlyRequests
  <1>1. ASSUME NEW s \in Submission, create(s) PROVE RowsInOrder'
    BY <1>1 DEF create, TypeOK
  <1>2. ASSUME NEW s \in Submission, votingEnds(s) PROVE RowsInOrder'
    BY <1>2 DEF votingEnds
  <1>3. ASSUME NEW u \in User, earnByReading(u) PROVE RowsInOrder'
    BY <1>3 DEF earnByReading
  <1>4. ASSUME NEW r \in Request, Arrive(r) PROVE RowsInOrder'
    <2>1. Moved(r) /\ OnlyRequests
      BY <1>4, ArriveMoves
    <2>2. req'[r].sub \in Submission /\ status[req'[r].sub] # "none"
      <3>1. ASSUME NEW s \in Submission, NEW u \in User,
                   NEW choice \in {"approve", "reject"}, castVote(r, s, u, choice)
            PROVE  req'[r].sub \in Submission /\ status[req'[r].sub] # "none"
        BY <3>1 DEF castVote, Move, TypeOK, NoRequest
      <3>2. ASSUME NEW s \in Submission, adminApprove(r, s) \/ adminReject(r, s)
            PROVE  req'[r].sub \in Submission /\ status[req'[r].sub] # "none"
        BY <3>2 DEF adminApprove, adminReject, Move, TypeOK, NoRequest
      <3> QED
        BY <1>4, <3>1, <3>2 DEF Arrive
    <2> QED
      BY <2>1, <2>2 DEF Moved
  <1>5. ASSUME NEW r \in Request, weighVote(r) \/ tallyVotes(r) PROVE RowsInOrder'
    BY <1>5, WeighMoves, TallyMoves DEF KeepsCase, Moved
  <1>6. ASSUME NEW r \in Request, upsertVote(r) PROVE RowsInOrder'
    <2>1. /\ req[r].sub \in Submission /\ pc[r] = "upsert"
          /\ votes' = [votes EXCEPT ![req[r].sub][req[r].user] =
                          [vote |-> req[r].vote, inkWeight |-> req[r].inkWeight]]
          /\ UNCHANGED <<status, ledger>>
      BY <1>6 DEF upsertVote, RequestMatchesTx, Waiting
    <2>2. \A s \in Submission : s # req[r].sub => votes'[s] = votes[s]
      BY <2>1 DEF TypeOK
    <2>3. Moved(r) /\ req'[r] = req[r]
      BY <1>6, OtherMoves DEF KeepsCase
    <2> QED
      BY <2>1, <2>2, <2>3 DEF Moved
  <1>7. ASSUME NEW r \in Request, finalise(r) \/ approvalReply(r) \/ Fail(r)
        PROVE  RowsInOrder'
    <2>1. OnlyRequests /\ Moved(r) /\ req'[r] = req[r] /\ pc[r] # "idle"
      BY <1>7, OtherMoves DEF KeepsCase, finalise, approvalReply, Fail, submitFails,
                              approvalReplyLost, recordFails
    <2> QED
      BY <2>1 DEF Moved
  <1>8. ASSUME NEW r \in Request, writeRejected(r) PROVE RowsInOrder'
    <2>1. /\ req[r].sub \in Submission
          /\ status' = [status EXCEPT ![req[r].sub] = "REJECTED"]
          /\ UNCHANGED <<votes, ledger>> /\ pc[r] = "reject"
      BY <1>8 DEF writeRejected, RequestMatchesTx, Waiting
    <2>2. Moved(r) /\ req'[r] = req[r]
      BY <1>8, OtherMoves DEF KeepsCase
    <2> QED
      BY <2>1, <2>2 DEF Moved, TypeOK
  <1>9. ASSUME NEW r \in Request, readBadgeMirror(r) PROVE RowsInOrder'
    BY <1>9, BadgeMoves DEF Moved
  <1>10. ASSUME NEW r \in Request, submitApproval(r) PROVE RowsInOrder'
    <2>1. Moved(r) /\ req'[r] = req[r] /\ pc[r] = "submit"
      BY <1>10, OtherMoves DEF KeepsCase, submitApproval
    <2>2. UNCHANGED <<status, votes, ledger>>
      BY <1>10 DEF submitApproval
    <2> QED
      BY <2>1, <2>2 DEF Moved
  <1>11. ASSUME NEW r \in Request, recordApproval(r) PROVE RowsInOrder'
    <2>1. /\ req[r].sub \in Submission
          /\ status' = [status EXCEPT ![req[r].sub] = "APPROVED"]
          /\ ledger' = ledger \cup {req[r].sub}
          /\ votes' = votes
      BY <1>11, RecordEffects
    <2>2. Moved(r) /\ req'[r] = req[r] /\ pc[r] = "record"
      BY <1>11, OtherMoves DEF KeepsCase, recordApproval
    <2>3. \A s \in Submission : \/ status'[s] = status[s] /\ s # req[r].sub
                                \/ status'[s] = "APPROVED" /\ s = req[r].sub
      BY <2>1 DEF TypeOK
    <2>4. ledger \subseteq Submission
      BY DEF TypeOK
    <2>5. \A s \in ledger' : status'[s] \in {"APPROVED", "REJECTED"}
      BY <2>1, <2>3, <2>4
    <2>6. \A q \in Request : pc'[q] # "idle" =>
             req'[q].sub \in Submission /\ status'[req'[q].sub] # "none"
      BY <2>1, <2>2, <2>3 DEF Moved
    <2> QED
      BY <2>1, <2>3, <2>5, <2>6
  <1>12. ASSUME NEW r \in Request, Chain(r) PROVE RowsInOrder'
    BY <1>12 DEF Chain, approvalExecutes, approvalAborts
  <1>13. CASE Crash \/ UNCHANGED vars
    <2>1. /\ UNCHANGED <<status, votes, ledger, req>>
          /\ \A q \in Request : pc'[q] # "idle" => pc[q] # "idle"
      BY <1>13 DEF Crash, Waiting, vars
    <2> QED
      BY <2>1
  <1> QED
    BY <1>1, <1>2, <1>3, <1>4, <1>5, <1>6, <1>7, <1>8, <1>9, <1>10, <1>11,
       <1>12, <1>13 DEF Next, Proceed

\* A request whose PTB has been submitted keeps its case and its reading of the
\* badge mirror, and only the chain changes what is on it.
LEMMA CasesKept ==
    ASSUME IInv, [Next]_vars
    PROVE  \/ /\ UNCHANGED <<registry, badges, tx>>
              /\ \A r \in Request : tx[r] # "none" =>
                    /\ req'[r].sub = req[r].sub
                    /\ req'[r].alreadyHasBadge = req[r].alreadyHasBadge
           \/ \E r \in Request :
                 /\ tx[r] = "none" /\ tx' = [tx EXCEPT ![r] = "submitted"]
                 /\ UNCHANGED <<registry, badges>>
                 /\ \A q \in Request : req'[q] = req[q]
           \/ \E r \in Request : Chain(r)
  <1> USE DEF IInv, rowVars, inkVars, chainVars, OnlyRequests
  <1>1. ASSUME NEW r \in Request, Arrive(r) \/ weighVote(r) \/ tallyVotes(r)
                                     \/ readBadgeMirror(r)
        PROVE  /\ UNCHANGED <<registry, badges, tx>> /\ Moved(r) /\ tx[r] = "none"
    <2>1. pc[r] \in {"idle", "weigh", "tally", "approve"} /\ OnlyRequests /\ Moved(r)
      BY <1>1, ArriveMoves, WeighMoves, TallyMoves, BadgeMoves DEF KeepsCase
    <2> QED
      BY <2>1 DEF RequestMatchesTx
  <1>2. ASSUME NEW r \in Request, upsertVote(r) \/ finalise(r) \/ writeRejected(r)
                                     \/ approvalReply(r) \/ recordApproval(r) \/ Fail(r)
        PROVE  UNCHANGED <<registry, badges, tx>> /\ \A q \in Request : req'[q] = req[q]
    <2>1. \A q \in Request : req'[q] = req[q]
      BY <1>2, OtherMoves DEF KeepsCase, Moved
    <2>2. UNCHANGED <<registry, badges, tx>>
      BY <1>2 DEF upsertVote, finalise, writeRejected, approvalReply, recordApproval,
                  Fail, submitFails, approvalReplyLost, recordFails
    <2> QED
      BY <2>1, <2>2
  <1>3. ASSUME NEW r \in Request, submitApproval(r)
        PROVE  /\ tx[r] = "none" /\ tx' = [tx EXCEPT ![r] = "submitted"]
               /\ UNCHANGED <<registry, badges>>
               /\ \A q \in Request : req'[q] = req[q]
    BY <1>3, OtherMoves DEF submitApproval, KeepsCase, Moved, RequestMatchesTx
  <1>4. CASE \/ \E s \in Submission : create(s) \/ votingEnds(s)
             \/ \E u \in User : earnByReading(u)
             \/ Crash \/ UNCHANGED vars
    <2>1. UNCHANGED <<registry, badges, tx, req>>
      BY <1>4 DEF create, votingEnds, earnByReading, Crash, vars
    <2> QED
      BY <2>1
  <1> QED
    BY <1>1, <1>2, <1>3, <1>4 DEF Next, Proceed, Moved

\* Registry and badges only grow, with the PTB that executes.
LEMMA AbortsHaveReasonsKept ==
    IInv /\ TallyInv /\ [Next]_vars => AbortsHaveReasons'
  <1> SUFFICES ASSUME IInv, AbortsHaveReasons, [Next]_vars PROVE AbortsHaveReasons'
    BY DEF TallyInv
  <1> USE DaoAssumption DEF IInv, AbortsHaveReasons
  <1>1. CASE /\ UNCHANGED <<registry, badges, tx>>
             /\ \A r \in Request : tx[r] # "none" =>
                   /\ req'[r].sub = req[r].sub
                   /\ req'[r].alreadyHasBadge = req[r].alreadyHasBadge
    BY <1>1
  <1>2. ASSUME NEW r \in Request,
               tx[r] = "none", tx' = [tx EXCEPT ![r] = "submitted"],
               UNCHANGED <<registry, badges>>,
               \A q \in Request : req'[q] = req[q]
        PROVE  AbortsHaveReasons'
    <2>1. \A q \in Request : /\ tx[q] = "executed" <=> tx'[q] = "executed"
                             /\ tx[q] = "aborted" <=> tx'[q] = "aborted"
      BY <1>2 DEF TypeOK
    <2> QED
      BY <1>2, <2>1
  <1>3. ASSUME NEW r \in Request, approvalExecutes(r) PROVE AbortsHaveReasons'
    <2>1. /\ tx[r] = "submitted"
          /\ registry' = registry \cup {req[r].sub}
          /\ tx' = [tx EXCEPT ![r] = "executed"]
          /\ req' = req
      BY <1>3 DEF approvalExecutes
    <2>2. badges' = badges \/ badges' = badges \cup {SubmitterOf[req[r].sub]}
      BY <1>3 DEF approvalExecutes
    <2>3. \A q \in Request : q # r => tx'[q] = tx[q]
      BY <2>1 DEF TypeOK
    <2>4. tx'[r] = "executed"
      BY <2>1 DEF TypeOK
    <2>5. \A s \in registry' : \E q \in Request : tx'[q] = "executed" /\ req'[q].sub = s
      BY <2>1, <2>3, <2>4
    <2>6. \A u \in badges' : \E s \in registry' : SubmitterOf[s] = u
      BY <2>1, <2>2
    <2> QED
      BY <2>1, <2>2, <2>3, <2>4, <2>5, <2>6
  <1>4. ASSUME NEW r \in Request, approvalAborts(r) PROVE AbortsHaveReasons'
    <2>1. /\ tx[r] = "submitted" /\ tx' = [tx EXCEPT ![r] = "aborted"]
          /\ UNCHANGED <<registry, badges, req>>
          /\ \/ req[r].sub \in registry
             \/ ~req[r].alreadyHasBadge /\ SubmitterOf[req[r].sub] \in badges
      BY <1>4 DEF approvalAborts, approvalAllowed, chainVars
    <2> QED
      BY <2>1 DEF TypeOK
  <1> QED
    BY <1>1, <1>2, <1>3, <1>4, CasesKept DEF Chain

\* Whoever changes the votes of a submission tallies them next, and a request
\* that is on its way to a decision leaves that way with the decision written,
\* or by failing.
LEMMA DecisiveIsHandledKept ==
    IInv /\ TallyInv /\ [Next]_vars => DecisiveIsHandled'
  <1> SUFFICES ASSUME IInv, TallyInv, [Next]_vars,
                      NEW s \in Submission, finalisable(votes'[s]), status'[s] = "PENDING"
               PROVE  \E r \in Request : req'[r].sub = s /\ pc'[r] \in Handling
    BY DEF DecisiveIsHandled
  <1> USE DaoAssumption DEF IInv, rowVars, inkVars, chainVars
  \* The request that answers for s before the step.
  <1>0. ASSUME votes'[s] = votes[s], status[s] = "PENDING"
        PROVE  \E r \in Request : req[r].sub = s /\ pc[r] \in Handling
    BY <1>0 DEF TallyInv, DecisiveIsHandled
  <1>1. ASSUME NEW c \in Submission, create(c)
        PROVE  status[s] = "PENDING" /\ UNCHANGED <<votes, pc, req>>
    <2>1. /\ status[c] = "none" /\ status' = [status EXCEPT ![c] = "PENDING"]
          /\ UNCHANGED <<votes, pc, req>>
      BY <1>1 DEF create
    <2>2. s # c
      <3>1. ASSUME s = c PROVE FALSE
        <4>1. votes'[s] = [u \in User |-> NoVote]
          BY <2>1, <3>1 DEF TallyInv, RowsInOrder
        <4> QED
          BY <4>1, NoVotesNoQuorum
      <3> QED
        BY <3>1
    <2> QED
      BY <2>1, <2>2 DEF TypeOK
  <1>2. CASE \/ \E c \in Submission : create(c) \/ votingEnds(c)
             \/ \E u \in User : earnByReading(u)
             \/ \E r \in Request : Chain(r)
             \/ UNCHANGED vars
    <2>1. status[s] = "PENDING" /\ UNCHANGED <<votes, pc, req>>
      BY <1>1, <1>2 DEF votingEnds, earnByReading, Chain, approvalExecutes,
                        approvalAborts, vars
    <2> QED
      BY <1>0, <2>1
  <1>3. ASSUME NEW r \in Request, Arrive(r) \/ weighVote(r)
        PROVE  \E q \in Request : req'[q].sub = s /\ pc'[q] \in Handling
    <2>1. OnlyRequests /\ Moved(r) /\ pc[r] \in {"idle", "weigh"}
      BY <1>3, ArriveMoves, WeighMoves DEF KeepsCase
    <2>2. PICK q \in Request : req[q].sub = s /\ pc[q] \in Handling
      BY <1>0, <2>1 DEF OnlyRequests
    <2>3. q # r
      BY <2>1, <2>2 DEF Handling
    <2> QED
      BY <2>1, <2>2, <2>3 DEF Moved
  <1>4. ASSUME NEW r \in Request, upsertVote(r)
        PROVE  \E q \in Request : req'[q].sub = s /\ pc'[q] \in Handling
    <2>1. /\ Moved(r) /\ req'[r] = req[r] /\ pc[r] = "upsert" /\ pc'[r] = "tally"
          /\ status' = status
          /\ votes' = [votes EXCEPT ![req[r].sub][req[r].user] =
                          [vote |-> req[r].vote, inkWeight |-> req[r].inkWeight]]
      BY <1>4, OtherMoves DEF KeepsCase, upsertVote
    <2>2. CASE req[r].sub = s
      BY <2>1, <2>2 DEF Handling
    <2>3. CASE req[r].sub # s
      <3>1. votes'[s] = votes[s]
        BY <2>1, <2>3 DEF TypeOK
      <3>2. PICK q \in Request : req[q].sub = s /\ pc[q] \in Handling
        BY <1>0, <2>1, <3>1
      <3> QED
        BY <2>1, <2>3, <3>2 DEF Moved
    <2> QED
      BY <2>2, <2>3
  <1>5. ASSUME NEW r \in Request,
               \/ tallyVotes(r) \/ finalise(r) \/ readBadgeMirror(r) \/ submitApproval(r)
               \/ approvalReply(r) \/ Fail(r)
        PROVE  \E q \in Request : req'[q].sub = s /\ pc'[q] \in Handling
    <2>1. UNCHANGED <<status, votes>> /\ Moved(r) /\ req'[r].sub = req[r].sub
      BY <1>5, TallyMoves, BadgeMoves, OtherMoves
         DEF KeepsCase, OnlyRequests, finalise, submitApproval, approvalReply, Fail,
             submitFails, approvalReplyLost, recordFails
    <2>2. PICK q \in Request : req[q].sub = s /\ pc[q] \in Handling
      BY <1>0, <2>1
    <2>3. ASSUME q = r PROVE pc'[r] \in Handling
      <3>1. CASE tallyVotes(r)
        BY <2>1, <2>2, <2>3, <3>1, TallyMoves DEF Handling
      <3>2. CASE readBadgeMirror(r)
        BY <3>2, BadgeMoves DEF Handling
      <3>3. CASE finalise(r)
        <4>1. pc[r] = "finalise" /\ status[req[r].sub] = "PENDING"
          BY <2>1, <2>2, <2>3, <3>3 DEF finalise
        <4> QED
          BY <3>3, <4>1, OtherMoves DEF Handling
      <3>4. CASE submitApproval(r) \/ approvalReply(r) \/ Fail(r)
        <4>1. pc'[r] \in {"await", "record", "failed"}
          <5>1. CASE submitApproval(r) \/ approvalReply(r)
            BY <5>1, OtherMoves DEF submitApproval, approvalReply, Move, TypeOK
          <5>2. CASE Fail(r)
            BY <5>2 DEF Fail, submitFails, approvalReplyLost, recordFails, Move, TypeOK
          <5> QED
            BY <3>4, <5>1, <5>2
        <4> QED
          BY <4>1 DEF Handling
      <3> QED
        BY <1>5, <3>1, <3>2, <3>3, <3>4
    <2> QED
      BY <2>1, <2>2, <2>3 DEF Moved
  <1>6. ASSUME NEW r \in Request, writeRejected(r) \/ recordApproval(r)
        PROVE  \E q \in Request : req'[q].sub = s /\ pc'[q] \in Handling
    <2>1. /\ req[r].sub \in Submission /\ votes' = votes
          /\ \/ status' = [status EXCEPT ![req[r].sub] = "REJECTED"]
             \/ status' = [status EXCEPT ![req[r].sub] = "APPROVED"]
      BY <1>6, RecordEffects DEF writeRejected, RequestMatchesTx, Waiting
    <2>2. req[r].sub # s /\ status[s] = "PENDING"
      BY <2>1 DEF TypeOK
    <2>3. Moved(r)
      BY <1>6, OtherMoves DEF KeepsCase
    <2>4. PICK q \in Request : req[q].sub = s /\ pc[q] \in Handling
      BY <1>0, <2>1, <2>2
    <2> QED
      BY <2>2, <2>3, <2>4 DEF Moved
  <1>7. CASE Crash
    <2>1. UNCHANGED <<status, votes, req>>
             /\ \A q \in Request : pc'[q] \in {pc[q], "crashed"}
      BY <1>7 DEF Crash
    <2>2. PICK q \in Request : req[q].sub = s /\ pc[q] \in Handling
      BY <1>0, <2>1
    <2> QED
      BY <2>1, <2>2 DEF Handling
  <1> QED
    BY <1>2, <1>3, <1>4, <1>5, <1>6, <1>7 DEF Next, Proceed

\* Balances change with the ledger and with reading only.
LEMMA InkCountedKept ==
    IInv /\ TallyInv /\ [Next]_vars => InkCounted'
  <1> SUFFICES ASSUME IInv, InkCounted, [Next]_vars PROVE InkCounted'
    BY DEF TallyInv
  <1> USE DaoAssumption DEF IInv, rowVars, inkVars, chainVars
  <1> DEFINE Paid(u) == {s \in ledger : SubmitterOf[s] = u}
  <1>0. \A u \in User : IsFiniteSet(Paid(u)) /\ Cardinality(Paid(u)) \in Nat
    <2>1. \A u \in User : Paid(u) \subseteq ledger
      OBVIOUS
    <2> QED
      BY <2>1, FS_Subset, FS_CardinalityType DEF InkCounted
  <1>1. CASE UNCHANGED <<ledger, balance, totalInkEarned, earned>>
    BY <1>1 DEF InkCounted, InkAddsUp
  <1>2. ASSUME NEW u \in User, earnByReading(u) PROVE InkCounted'
    <2>1. /\ earned' = [earned EXCEPT ![u] = @ + 1]
          /\ balance' = [balance EXCEPT ![u] = @ + READING_CREDIT]
          /\ totalInkEarned' = [totalInkEarned EXCEPT ![u] = @ + READING_CREDIT]
          /\ ledger' = ledger
      BY <1>2 DEF earnByReading
    <2>2. ASSUME NEW v \in User
          PROVE  /\ balance'[v] = InitialInk[v] + READING_CREDIT * earned'[v]
                                   + inkAmount * Cardinality(Paid(v)')
                 /\ totalInkEarned'[v] = balance'[v]
      <3>1. /\ balance[v] = InitialInk[v] + READING_CREDIT * earned[v]
                                 + inkAmount * Cardinality(Paid(v))
            /\ totalInkEarned[v] = balance[v]
            /\ earned[v] \in Nat /\ InitialInk[v] \in Nat
            /\ Cardinality(Paid(v)) \in Nat /\ Paid(v)' = Paid(v)
        BY <1>0, <2>1 DEF InkCounted, InkAddsUp, TypeOK
      <3> HIDE DEF Paid
      <3>2. CASE v = u
        <4>1. /\ balance'[v] = balance[v] + READING_CREDIT
              /\ totalInkEarned'[v] = totalInkEarned[v] + READING_CREDIT
              /\ earned'[v] = earned[v] + 1
          BY <2>1, <3>2 DEF TypeOK
        <4> QED
          BY <3>1, <4>1 DEF READING_CREDIT, inkAmount
      <3>3. CASE v # u
        <4>1. /\ balance'[v] = balance[v] /\ totalInkEarned'[v] = totalInkEarned[v]
              /\ earned'[v] = earned[v]
          BY <2>1, <3>3 DEF TypeOK
        <4> QED
          BY <3>1, <4>1
      <3> QED
        BY <3>2, <3>3
    <2> QED
      BY <2>1, <2>2 DEF InkCounted, InkAddsUp
  <1>3. ASSUME NEW r \in Request, recordApproval(r) PROVE InkCounted'
    <2> DEFINE s == req[r].sub
               w == SubmitterOf[s]
    <2>1. /\ s \in Submission /\ w \in User /\ pc[r] = "record" /\ s \notin ledger
      BY <1>3, RecordEffects DEF RequestMatchesTx
    <2>2. /\ ledger' = ledger \cup {s} /\ earned' = earned
          /\ balance' = [balance EXCEPT ![w] = @ + inkAmount]
          /\ totalInkEarned' = [totalInkEarned EXCEPT ![w] = @ + inkAmount]
      BY <1>3 DEF recordApproval
    <2> HIDE DEF s
    <2>3. IsFiniteSet(ledger')
      BY <2>2, FS_AddElement DEF InkCounted
    <2>4. ASSUME NEW v \in User
          PROVE  /\ balance'[v] = InitialInk[v] + READING_CREDIT * earned'[v]
                                   + inkAmount * Cardinality(Paid(v)')
                 /\ totalInkEarned'[v] = balance'[v]
      <3>1. /\ balance[v] = InitialInk[v] + READING_CREDIT * earned[v]
                                 + inkAmount * Cardinality(Paid(v))
            /\ totalInkEarned[v] = balance[v]
            /\ earned[v] \in Nat /\ InitialInk[v] \in Nat
            /\ Cardinality(Paid(v)) \in Nat
        BY <1>0 DEF InkCounted, InkAddsUp, TypeOK
      <3>2. CASE v = w
        <4>1. Paid(v)' = Paid(v) \cup {s} /\ s \notin Paid(v)
          BY <2>1, <2>2, <3>2
        <4>2. Cardinality(Paid(v)') = Cardinality(Paid(v)) + 1
          BY <1>0, <4>1, FS_AddElement
        <4>3. /\ balance'[v] = balance[v] + inkAmount
              /\ totalInkEarned'[v] = totalInkEarned[v] + inkAmount
          BY <2>1, <2>2, <3>2 DEF TypeOK
        <4> HIDE DEF Paid
        <4> QED
          BY <2>2, <3>1, <4>2, <4>3 DEF READING_CREDIT, inkAmount
      <3>3. CASE v # w
        <4>1. Paid(v)' = Paid(v)
          BY <2>1, <2>2, <3>3
        <4>2. balance'[v] = balance[v] /\ totalInkEarned'[v] = totalInkEarned[v]
          BY <2>2, <3>3 DEF TypeOK
        <4> HIDE DEF Paid
        <4> QED
          BY <2>2, <3>1, <4>1, <4>2
      <3> QED
        BY <3>2, <3>3
    <2> QED
      BY <2>3, <2>4 DEF InkCounted, InkAddsUp
  <1>4. CASE \/ \E s \in Submission : create(s) \/ votingEnds(s)
             \/ \E r \in Request : \/ Arrive(r) \/ Chain(r) \/ Fail(r) \/ weighVote(r)
                                   \/ upsertVote(r) \/ tallyVotes(r) \/ finalise(r)
                                   \/ writeRejected(r) \/ readBadgeMirror(r)
                                   \/ submitApproval(r) \/ approvalReply(r)
             \/ Crash \/ UNCHANGED vars
    <2>1. UNCHANGED <<ledger, balance, totalInkEarned, earned>>
      BY <1>4 DEF create, votingEnds, Arrive, castVote, adminApprove, adminReject, Chain,
                  approvalExecutes, approvalAborts, Fail, submitFails, approvalReplyLost,
                  recordFails, weighVote, upsertVote, tallyVotes, finalise, writeRejected,
                  readBadgeMirror, submitApproval, approvalReply, Crash, vars, OnlyRequests
    <2> QED
      BY <1>1, <2>1
  <1> QED
    BY <1>2, <1>3, <1>4 DEF Next, Proceed

\* The two invariants together are inductive.
LEMMA AlwaysTallyInv == Spec => [](IInv /\ TallyInv)
  <1>1. Init => IInv /\ TallyInv
    BY InitIInv, InitTallyInv
  <1>2. IInv /\ TallyInv /\ [Next]_vars => IInv' /\ TallyInv'
    BY NextIInv, RowsInOrderKept, AbortsHaveReasonsKept, DecisiveIsHandledKept,
       InkCountedKept DEF TallyInv
  <1> QED
    BY <1>1, <1>2, PTL DEF Spec

\* When every request has ended without a fault, the one that answered for a
\* decisive tally has decided it or was turned down by the chain: for the key,
\* and then whoever registered it has recorded the approval, or for the badge.
LEMMA HandledMeansFinalised == IInv /\ TallyInv => DecisiveTallyFinalises
  <1> SUFFICES ASSUME IInv, TallyInv,
                      \A r \in Request : \/ pc[r] \in {"idle", "done", "refused"}
                                         \/ pc[r] = "failed" /\ tx[r] = "aborted",
                      NEW s \in Submission, finalisable(votes[s]), status[s] = "PENDING"
               PROVE  \E q, r \in Request : req[r].sub = s /\ BadgeTakenBy(q, r)
    BY DEF DecisiveTallyFinalises
  <1> USE DEF IInv, TallyInv
  <1>1. PICK r \in Request : req[r].sub = s /\ pc[r] \in Handling
    BY DEF DecisiveIsHandled
  <1>2. tx[r] = "aborted"
    BY <1>1 DEF Handling
  <1>3. s \notin registry
    <2>1. ASSUME s \in registry PROVE FALSE
      <3>1. s \notin ledger
        BY DEF RowsInOrder
      <3>2. PICK q \in Request : /\ tx[q] = "executed"
                                 /\ pc[q] \in {"await", "record", "failed", "crashed"}
        BY <2>1, <3>1 DEF PaidByOneRequest, UnrecordedOnlyByFault
      <3> QED
        BY <3>2
    <2> QED
      BY <2>1
  <1>4. ~req[r].alreadyHasBadge /\ SubmitterOf[s] \in badges
    BY <1>1, <1>2, <1>3 DEF AbortsHaveReasons
  <1>5. PICK other \in registry : SubmitterOf[other] = SubmitterOf[s]
    BY <1>4 DEF AbortsHaveReasons
  <1>6. PICK q \in Request : tx[q] = "executed" /\ req[q].sub = other
    BY <1>5 DEF AbortsHaveReasons
  <1> QED
    BY <1>1, <1>2, <1>3, <1>4, <1>5, <1>6 DEF BadgeTakenBy

\* Every reader's INK is accounted for, whatever is approved, voted, lost or
\* rolled back, and a decisive tally is acted on: without a fault only a badge
\* taken by the reader's other submission keeps it PENDING.
THEOREM DaoTallyIsSound == Spec => []TallySound
  <1>1. IInv /\ TallyInv => TallySound
    BY HandledMeansFinalised DEF TallyInv, InkCounted, TallySound
  <1> QED
    BY AlwaysTallyInv, <1>1, PTL

-----------------------------------------------------------------------------
(***************************************************************************)
(* The DAO page.                                                           *)
(***************************************************************************)
Side  == {0, 1, Nothing}
Tally == [approve : Int, reject : Int, mine : Side]
DaoRequest == [kind : {"list", "vote", "submit"}, proposal : Proposal \cup {Nothing}, vote : Side,
               answer : {"none", "ok", "refused"}, ink : Nat, final : BOOLEAN,
               list : [Proposal -> Tally \cup {Nothing}], number : Nat]

DaoTypes ==
    /\ ink \in Weight /\ ballots \in [Proposal -> [Voter -> [vote : Side, ink : Nat]]]
    /\ decided \subseteq Proposal /\ proposed \subseteq Proposal /\ voting \subseteq Proposal
    /\ shown \in [Proposal -> Tally \cup {Nothing}]
    /\ wire \subseteq DaoRequest /\ cast \in Nat /\ lists \in Nat
    /\ \A p \in Proposal, v \in Voter :
          (ballots[p][v].vote = Nothing) = (ballots[p][v].ink = 0)

VotesOn(p) == {r \in wire : r.kind = "vote" /\ r.proposal = p}
Fetches    == {r \in wire : r.kind = "list"}

\* A vote in flight is one that its card waits for, and the only one; before the first list
\* there is none.
OneVote ==
    /\ \A r \in wire : r.kind = "vote" => r.proposal \in voting /\ r.vote \in {0, 1}
    /\ \A r \in wire : r.kind # "list" => r.proposal \in Proposal
    /\ \A p \in Proposal : \A q, r \in VotesOn(p) : q = r
    /\ lists = 0 => shown = [p \in Proposal |-> Nothing] /\ wire = {} /\ dialog = "closed"

\* Not decided, but by others or by a vote that came too late.
Open(p) == p \notin decided \ closed

\* A submission whose tally the page was told of: no list is fetched beside a vote on it, a
\* list on its way tells the tally of now, and so does the page, once it has counted the
\* vote that was answered.
ToldOf(p) ==
    /\ Fetches = {} \/ VotesOn(p) = {}
    /\ \A r \in Fetches : r.answer = "ok" /\ r.list[p] # Nothing =>
          r.list[p] = buildTally(p) /\ Open(p)
    /\ shown[p] # Nothing =>
          /\ (\A r \in VotesOn(p) : r.answer # "ok") => shown[p] = buildTally(p) /\ Open(p)
          /\ \A r \in VotesOn(p) : r.answer = "ok" /\ ~r.final =>
                counted(shown[p], r.vote, r.ink) = buildTally(p) /\ Open(p)

DaoInv == DaoTypes /\ OneVote /\ \A p \in Proposal \ apart : ToldOf(p)

LEMMA DaoShows == ASSUME DaoInv PROVE TallyTold
  BY DEF DaoInv, ToldOf, Open, Fetches, VotesOn, TallyTold

LEMMA TallyType == ASSUME DaoTypes, NEW p \in Proposal PROVE buildTally(p) \in Tally
  BY DEF DaoTypes, buildTally, side, Tally, Side, Voter

\* A vote that is the reader's first, or weighs what her last one did, is counted by the
\* page as the server counts it.
LEMMA CountedRight ==
    ASSUME DaoTypes, NEW p \in Proposal, NEW v \in {0, 1}, NEW w \in Nat,
           ballots[p]["me"].ink \in {0, w},
           ballots' = [ballots EXCEPT ![p]["me"] = [vote |-> v, ink |-> w]]
    PROVE  counted(buildTally(p), v, w) = buildTally(p)'
  <1>1. /\ ballots'[p]["me"] = [vote |-> v, ink |-> w]
        /\ ballots'[p]["others"] = ballots[p]["others"]
    BY DEF DaoTypes, Voter
  <1>2. /\ ballots[p]["me"] \in [vote : Side, ink : Nat]
        /\ ballots[p]["others"] \in [vote : Side, ink : Nat]
        /\ (ballots[p]["me"].vote = Nothing) = (ballots[p]["me"].ink = 0)
    BY DEF DaoTypes, Voter
  <1> DEFINE me == ballots[p]["me"]
             others == ballots[p]["others"]
             t == buildTally(p)
  <1>3. /\ t = [approve |-> (IF me.vote = 1 THEN me.ink ELSE 0) + (IF others.vote = 1 THEN others.ink ELSE 0),
               reject  |-> (IF me.vote = 0 THEN me.ink ELSE 0) + (IF others.vote = 0 THEN others.ink ELSE 0),
               mine    |-> me.vote]
        /\ buildTally(p)' = [approve |-> (IF v = 1 THEN w ELSE 0) + (IF others.vote = 1 THEN others.ink ELSE 0),
                             reject  |-> (IF v = 0 THEN w ELSE 0) + (IF others.vote = 0 THEN others.ink ELSE 0),
                             mine    |-> v]
    BY <1>1 DEF buildTally, side
  <1>4. undone(t, w) = [approve |-> IF others.vote = 1 THEN others.ink ELSE 0,
                        reject  |-> IF others.vote = 0 THEN others.ink ELSE 0,
                        mine    |-> me.vote]
    <2> DEFINE o1 == IF others.vote = 1 THEN others.ink ELSE 0
               o0 == IF others.vote = 0 THEN others.ink ELSE 0
    <2>0. o1 \in Nat /\ o0 \in Nat /\ me.vote \in Side /\ me.ink \in Nat
      BY <1>2
    <2>1. CASE me.vote = 1
      <3>1. me.ink = w
        BY <1>2, <2>1, DaoPageAssumption
      <3>2. t = [approve |-> w + o1, reject |-> o0, mine |-> 1]
        BY <1>3, <2>0, <2>1, <3>1
      <3>3. undone(t, w) = [t EXCEPT !.approve = @ - w]
        BY <3>2 DEF undone
      <3> HIDE DEF t, o1, o0, others
      <3>4. [t EXCEPT !.approve = @ - w] = [approve |-> o1, reject |-> o0, mine |-> 1]
        BY <2>0, <3>2
      <3> QED
        BY <2>1, <3>3, <3>4 DEF o1, o0
    <2>2. CASE me.vote = 0
      <3>1. me.ink = w
        BY <1>2, <2>2, DaoPageAssumption
      <3>2. t = [approve |-> o1, reject |-> w + o0, mine |-> 0]
        BY <1>3, <2>0, <2>2, <3>1
      <3>3. undone(t, w) = [t EXCEPT !.reject = @ - w]
        BY <3>2 DEF undone
      <3> HIDE DEF t, o1, o0, others
      <3>4. [t EXCEPT !.reject = @ - w] = [approve |-> o1, reject |-> o0, mine |-> 0]
        BY <2>0, <3>2
      <3> QED
        BY <2>2, <3>3, <3>4 DEF o1, o0
    <2>3. CASE me.vote = Nothing
      <3>1. me.ink = 0
        BY <1>2, <2>3
      <3>2. t = [approve |-> o1, reject |-> o0, mine |-> Nothing]
        BY <1>3, <2>0, <2>3, <3>1, DaoPageAssumption
      <3>3. undone(t, w) = t
        BY <3>2, DaoPageAssumption DEF undone
      <3> QED
        BY <2>3, <3>2, <3>3
    <2> QED
      BY <1>2, <2>1, <2>2, <2>3 DEF Side
  <1>5. CASE v = 1
    BY <1>2, <1>3, <1>4, <1>5 DEF counted
  <1>6. CASE v = 0
    BY <1>2, <1>3, <1>4, <1>6 DEF counted
  <1> QED
    BY <1>5, <1>6

\* Nothing the page or the server keeps of p moves, and what is new in flight is not about
\* p: a list served now tells the tally of now.
LEMMA ElsewhereTold ==
    ASSUME NEW p \in Proposal, ToldOf(p), ballots'[p] = ballots[p], shown'[p] = shown[p],
           Open(p) => Open(p)', VotesOn(p)' = VotesOn(p),
           Fetches' = {} \/ VotesOn(p) = {},
           \A r \in Fetches' : \/ r \in Fetches \/ r.answer = "none" \/ r.list[p] = Nothing
                               \/ (r.list[p] = buildTally(p) /\ Open(p))
    PROVE  ToldOf(p)'
  <1>1. buildTally(p)' = buildTally(p)
    BY DEF buildTally, side
  <1> QED
    BY <1>1 DEF ToldOf

LEMMA AskedType ==
    ASSUME DaoTypes, NEW k \in {"list", "vote", "submit"}, NEW p \in Proposal \cup {Nothing},
           NEW v \in Side
    PROVE  Asked(k, p, v) \in DaoRequest
  BY DEF DaoTypes, Asked, DaoRequest

LEMMA DaoStarts == DaoInit => DaoInv
  <1> SUFFICES ASSUME DaoInit PROVE DaoInv
    OBVIOUS
  <1>1. DaoTypes
    BY DaoPageAssumption DEF DaoInit, DaoTypes, NoBallot, Side, Tally, Voter
  <1>2. OneVote
    BY DEF DaoInit, OneVote, VotesOn
  <1>3. \A p \in Proposal : ToldOf(p)
    BY DEF DaoInit, ToldOf, VotesOn, Fetches
  <1> QED
    BY <1>1, <1>2, <1>3 DEF DaoInv

-----------------------------------------------------------------------------
\* The list is asked for, when the page opens or once a suggestion was taken.
LEMMA ListAsked ==
    ASSUME DaoInv, openDao \/ \E r \in wire : submitAnswered(r) PROVE DaoInv'
  <1> USE DEF DaoInv
  <1>1. PICK gone \in SUBSET wire :
          /\ \A r \in gone : r.kind = "submit"
          /\ wire' = (wire \ gone) \cup {Asked("list", Nothing, Nothing)}
          /\ lists' = lists + 1
          /\ apart' = apart \cup {r.proposal : r \in {q \in wire : q.kind = "vote"}}
          /\ UNCHANGED <<daoServer, shown, voting, cast>>
    <2>1. CASE openDao
      <3>1. /\ {} \in SUBSET wire /\ \A r \in {} : r.kind = "submit"
            /\ wire' = (wire \ {}) \cup {Asked("list", Nothing, Nothing)}
        BY <2>1 DEF openDao, fetchDao
      <3> QED
        BY <2>1, <3>1 DEF openDao, fetchDao
    <2>2. ASSUME NEW r \in wire, submitAnswered(r)
          PROVE  \E gone \in SUBSET wire :
                   /\ \A q \in gone : q.kind = "submit"
                   /\ wire' = (wire \ gone) \cup {Asked("list", Nothing, Nothing)}
                   /\ lists' = lists + 1
                   /\ apart' = apart \cup {q.proposal : q \in {q \in wire : q.kind = "vote"}}
                   /\ UNCHANGED <<daoServer, shown, voting, cast>>
      <3>1. {r} \in SUBSET wire /\ \A q \in {r} : q.kind = "submit"
        BY <2>2 DEF submitAnswered
      <3> QED
        BY <2>2, <3>1 DEF submitAnswered
    <2> QED
      BY <2>1, <2>2
  <1>2. Asked("list", Nothing, Nothing) \in DaoRequest
    BY AskedType DEF Side
  <1>3. Asked("list", Nothing, Nothing).kind = "list" /\ Asked("list", Nothing, Nothing).answer = "none"
    BY DEF Asked
  <1>4. DaoTypes'
    BY <1>1, <1>2 DEF DaoTypes, daoServer
  <1>5. OneVote'
    BY <1>1, <1>3 DEF OneVote, VotesOn, DaoTypes
  <1>6. ASSUME NEW p \in Proposal \ apart' PROVE ToldOf(p)'
    <2>1. ToldOf(p) /\ VotesOn(p) = {}
      BY <1>1, <1>6 DEF VotesOn
    <2>2. VotesOn(p)' = {}
      BY <1>1, <1>3, <2>1 DEF VotesOn
    <2>3. \A r \in Fetches' : r \in Fetches \/ r.answer = "none"
      BY <1>1, <1>3 DEF Fetches
    <2> QED
      BY <1>1, <2>1, <2>2, <2>3, ElsewhereTold DEF daoServer, Open
  <1> QED
    BY <1>4, <1>5, <1>6

LEMMA VoteAsked ==
    ASSUME DaoInv, NEW p \in Proposal, NEW v \in {0, 1}, vote(p, v) PROVE DaoInv'
  <1> USE DEF DaoInv, vote
  <1> DEFINE new == Asked("vote", p, v)
  <1>1. /\ new \in DaoRequest /\ new.kind = "vote" /\ new.answer = "none" /\ new.proposal = p
        /\ new.vote = v
    BY AskedType DEF Side, Asked
  <1> HIDE DEF new
  <1>2. wire' = wire \cup {new}
    BY DEF new
  <1>3. DaoTypes'
    BY <1>1, <1>2 DEF DaoTypes, daoServer
  <1>4. VotesOn(p) = {} /\ VotesOn(p)' = {new} /\ lists # 0
    BY <1>1, <1>2 DEF OneVote, VotesOn
  <1>5. ASSUME NEW q \in Proposal, q # p PROVE VotesOn(q)' = VotesOn(q)
    BY <1>1, <1>2, <1>5 DEF VotesOn
  <1>6. OneVote'
    BY <1>1, <1>2, <1>4, <1>5 DEF OneVote
  <1>7. ASSUME NEW q \in Proposal \ apart' PROVE ToldOf(q)'
    <2>1. ToldOf(q) /\ Fetches' = Fetches /\ (q = p => Fetches = {})
      BY <1>1, <1>2, <1>7 DEF Fetches
    <2>2. CASE q = p
      <3>1. buildTally(p)' = buildTally(p)
        BY DEF buildTally, side, daoServer
      <3> QED
        BY <1>1, <1>4, <2>1, <2>2, <3>1 DEF ToldOf, Open, daoServer
    <2>3. CASE q # p
      <3>1. Fetches = {} \/ VotesOn(q) = {}
        BY <2>1 DEF ToldOf
      <3> QED
        BY <1>5, <2>1, <2>3, <3>1, ElsewhereTold DEF daoServer, Open
    <2> QED
      BY <2>2, <2>3
  <1> QED
    BY <1>3, <1>6, <1>7

\* A suggestion is written and sent, and the dialog moves; neither is about a tally.
BesideTallies ==
    /\ UNCHANGED <<ballots, decided, closed, shown, voting, cast, lists, apart>>
    /\ ink' \in Weight /\ proposed' \subseteq Proposal /\ wire' \subseteq DaoRequest
    /\ \A r \in wire' : r \in wire \/ (r.kind = "submit" /\ r.proposal \in Proposal)
    /\ \A r \in wire : r \in wire' \/ r.kind = "submit"
    /\ lists = 0 => wire' = {} /\ dialog' = "closed"

LEMMA BesideKeeps == ASSUME DaoInv, BesideTallies PROVE DaoInv'
  <1> USE DEF DaoInv, BesideTallies
  <1>1. \A p \in Proposal : VotesOn(p)' = VotesOn(p)
    BY DEF VotesOn
  <1>2. Fetches' = Fetches
    BY DEF Fetches
  <1>3. DaoTypes'
    BY DEF DaoTypes
  <1>4. OneVote'
    BY <1>1 DEF OneVote
  <1>5. ASSUME NEW p \in Proposal \ apart' PROVE ToldOf(p)'
    <2>1. ToldOf(p) /\ (Fetches = {} \/ VotesOn(p) = {})
      BY <1>5 DEF ToldOf
    <2> QED
      BY <1>1, <1>2, <2>1, ElsewhereTold DEF Open
  <1> QED
    BY <1>3, <1>4, <1>5

LEMMA DialogMoves ==
    ASSUME DaoInv, \/ openDialog \/ closeDialog \/ \E p \in Proposal : submit(p)
                   \/ \E w \in Weight : earnInk(w)
                   \/ \E r \in wire : serveSubmit(r)
    PROVE  DaoInv'
  <1>1. ASSUME openDialog \/ closeDialog PROVE BesideTallies
    BY <1>1 DEF BesideTallies, DaoInv, openDialog, closeDialog, daoServer, daoStore, daoCount,
          DaoTypes, OneVote
  <1>4. ASSUME NEW w \in Weight, earnInk(w) PROVE BesideTallies
    BY <1>4 DEF BesideTallies, DaoInv, earnInk, daoStore, daoCount, DaoTypes, OneVote
  <1>2. ASSUME NEW p \in Proposal, submit(p) PROVE BesideTallies
    <2> DEFINE n == Asked("submit", p, Nothing)
    <2>1. n \in DaoRequest /\ n.kind = "submit" /\ n.proposal = p
      BY AskedType DEF Side, Asked, DaoInv
    <2> HIDE DEF n
    <2>2. wire' = wire \cup {n}
      BY <1>2 DEF submit, n
    <2>3. lists # 0
      BY <1>2 DEF submit, DaoInv, OneVote
    <2>4. wire' \subseteq DaoRequest
      BY <2>1, <2>2 DEF DaoInv, DaoTypes
    <2> QED
      BY <1>2, <2>1, <2>2, <2>3, <2>4 DEF BesideTallies, submit, daoServer, daoStore, daoCount, DaoInv,
            DaoTypes
  <1>3. ASSUME NEW r \in wire, serveSubmit(r) PROVE BesideTallies
    <2> DEFINE n == [r EXCEPT !.answer = "ok"]
    <2>1. r \in DaoRequest /\ r.proposal \in Proposal
      BY <1>3 DEF DaoInv, DaoTypes, OneVote, serveSubmit
    <2>2. n \in DaoRequest /\ n.kind = r.kind /\ n.proposal = r.proposal
      BY <2>1 DEF DaoRequest
    <2>3. wire' = (wire \ {r}) \cup {n}
      BY <1>3 DEF serveSubmit, Told
    <2> HIDE DEF n
    <2>4. lists # 0
      BY <1>3 DEF DaoInv, OneVote
    <2>5. wire' \subseteq DaoRequest /\ r.kind = "submit"
      BY <1>3, <2>2, <2>3 DEF DaoInv, DaoTypes, serveSubmit
    <2> QED
      BY <1>3, <2>1, <2>2, <2>3, <2>4, <2>5 DEF BesideTallies, serveSubmit, daoServer, daoStore,
            daoCount, DaoInv, DaoTypes
  <1> QED
    BY <1>1, <1>2, <1>3, <1>4, BesideKeeps

-----------------------------------------------------------------------------
\* A request the server answers, or one that leaves the wire.
LEMMA DaoAnswered ==
    ASSUME DaoTypes, NEW r \in wire, NEW n \in DaoRequest, Told(r, n), n.kind = r.kind,
           n.proposal = r.proposal, n.vote = r.vote, OneVote
    PROVE  /\ wire' \subseteq DaoRequest
           /\ \A q \in wire' : q.kind = "vote" => q.proposal \in voting /\ q.vote \in {0, 1}
           /\ \A q \in wire' : q.kind # "list" => q.proposal \in Proposal
           /\ lists # 0
           /\ \A p \in Proposal : p # r.proposal \/ r.kind # "vote" => VotesOn(p)' = VotesOn(p)
           /\ r.kind = "vote" => VotesOn(r.proposal)' = {n}
           /\ r.kind # "list" => Fetches' = Fetches
           /\ r.kind = "list" => Fetches' = (Fetches \ {r}) \cup {n}
  <1>1. wire' = (wire \ {r}) \cup {n}
    BY DEF Told
  <1> QED
    BY <1>1 DEF DaoTypes, OneVote, VotesOn, Fetches

LEMMA ListServed == ASSUME DaoInv, NEW r \in wire, serveList(r) PROVE DaoInv'
  <1> USE DEF DaoInv
  <1> DEFINE told == [p \in Proposal |-> IF p \in proposed \ decided THEN buildTally(p) ELSE Nothing]
             n == [r EXCEPT !.answer = "ok", !.list = told]
  <1>1. told \in [Proposal -> Tally \cup {Nothing}]
    BY TallyType
  <1> HIDE DEF told
  <1>2. r \in DaoRequest /\ r.kind = "list"
    BY DEF DaoTypes, serveList
  <1>3. /\ n \in DaoRequest /\ n.kind = r.kind /\ n.proposal = r.proposal /\ n.vote = r.vote
        /\ n.list = told
    BY <1>1, <1>2 DEF DaoRequest
  <1>4. Told(r, n) /\ UNCHANGED <<daoServer, daoStore, dialog, daoCount, apart>>
    BY DEF serveList, told
  <1> HIDE DEF n
  <1>5. DaoTypes'
    BY <1>3, <1>4, DaoAnswered DEF DaoTypes, daoServer, daoStore, daoCount
  <1>6. OneVote'
    BY <1>2, <1>3, <1>4, DaoAnswered DEF OneVote, daoStore, daoCount
  <1>7. ASSUME NEW p \in Proposal \ apart' PROVE ToldOf(p)'
    <2>1. ToldOf(p) /\ VotesOn(p)' = VotesOn(p) /\ VotesOn(p) = {}
      BY <1>2, <1>3, <1>4, <1>7, DaoAnswered DEF ToldOf, Fetches
    <2> p \in Proposal
      OBVIOUS
    <2>2. told[p] = Nothing \/ (told[p] = buildTally(p) /\ Open(p))
      BY DEF told, Open
    <2>3. \A q \in Fetches' : q \in Fetches \/ q = n
      BY <1>2, <1>3, <1>4, DaoAnswered
    <2> QED
      BY <1>3, <1>4, <2>1, <2>2, <2>3, ElsewhereTold DEF daoServer, daoStore, Open
  <1> QED
    BY <1>5, <1>6, <1>7

LEMMA VoteServed == ASSUME DaoInv, NEW r \in wire, serveVote(r) PROVE DaoInv'
  <1> USE DEF DaoInv
  <1> DEFINE p == r.proposal
             final == decisive(buildTally(p)')
             n == [r EXCEPT !.answer = "ok", !.ink = ink, !.final = final]
  <1>1. r \in DaoRequest /\ r.kind = "vote" /\ p \in Proposal /\ r.vote \in {0, 1} /\ p \notin decided
    BY DEF DaoTypes, serveVote, OneVote
  <1>2. ink \in Nat \ {0}
    BY DaoPageAssumption DEF DaoTypes
  <1>3. /\ n \in DaoRequest /\ n.kind = r.kind /\ n.proposal = r.proposal /\ n.vote = r.vote
        /\ n.answer = "ok" /\ n.ink = ink /\ n.final = final
    <2>1. final \in BOOLEAN
      BY DEF decisive
    <2> HIDE DEF final
    <2> QED
      BY <1>1, <1>2, <2>1 DEF DaoRequest
  <1>4. /\ Told(r, n) /\ decided' = (IF final THEN decided \cup {p} ELSE decided)
        /\ ballots' = [ballots EXCEPT ![p]["me"] = [vote |-> r.vote, ink |-> ink]]
        /\ apart' = (IF ballots[p]["me"].ink \in {0, ink} THEN apart ELSE apart \cup {p})
        /\ UNCHANGED <<ink, proposed, closed, daoStore, dialog, daoCount>>
    BY DEF serveVote
  <1> HIDE DEF n, final
  <1>5. DaoTypes'
    <2>1. ballots' \in [Proposal -> [Voter -> [vote : Side, ink : Nat]]]
      BY <1>1, <1>2, <1>4 DEF DaoTypes, Side
    <2>2. \A q \in Proposal, v \in Voter : (ballots'[q][v].vote = Nothing) = (ballots'[q][v].ink = 0)
      BY <1>1, <1>2, <1>4, DaoPageAssumption DEF DaoTypes
    <2>3. wire' \subseteq DaoRequest /\ decided' \subseteq Proposal
      BY <1>1, <1>3, <1>4, DaoAnswered DEF DaoTypes
    <2> QED
      BY <1>4, <2>1, <2>2, <2>3 DEF DaoTypes, daoStore, daoCount
  <1>6. OneVote'
    BY <1>1, <1>3, <1>4, DaoAnswered DEF OneVote, daoStore, daoCount
  <1>7. ASSUME NEW q \in Proposal \ apart' PROVE ToldOf(q)'
    <2>1. ToldOf(q) /\ Fetches' = Fetches
      BY <1>1, <1>3, <1>4, <1>7, DaoAnswered
    <2>2. CASE q # p
      <3>1. VotesOn(q)' = VotesOn(q) /\ (Fetches = {} \/ VotesOn(q) = {})
        BY <1>1, <1>3, <1>4, <2>1, <2>2, DaoAnswered DEF ToldOf
      <3>2. ballots'[q] = ballots[q] /\ (Open(q) => Open(q)')
        BY <1>1, <1>4, <2>2 DEF DaoTypes, Open
      <3> QED
        BY <1>4, <2>1, <3>1, <3>2, ElsewhereTold DEF daoStore
    <2>3. CASE q = p
      <3>1. VotesOn(p)' = {n} /\ VotesOn(p) = {r} /\ Fetches = {}
        BY <1>1, <1>3, <1>4, <2>1, <2>3, DaoAnswered DEF ToldOf, VotesOn, OneVote
      <3>2. r.answer = "none" /\ ballots[p]["me"].ink \in {0, ink}
        BY <1>4, <1>7, <2>3 DEF serveVote
      <3>3. counted(buildTally(p), r.vote, ink) = buildTally(p)'
        BY <1>1, <1>2, <1>4, <3>2, CountedRight
      <3>4. shown[p] # Nothing => shown[p] = buildTally(p)
        BY <2>1, <2>3, <3>1, <3>2 DEF ToldOf
      <3>5. ~final => Open(p)'
        BY <1>1, <1>4 DEF Open
      <3> QED
        BY <1>3, <1>4, <2>1, <2>3, <3>1, <3>3, <3>4, <3>5 DEF ToldOf, daoStore
    <2> QED
      BY <2>2, <2>3
  <1> QED
    BY <1>5, <1>6, <1>7

LEMMA VoteNotTaken == ASSUME DaoInv, NEW r \in wire, refuseVote(r) PROVE DaoInv'
  <1> USE DEF DaoInv
  <1> DEFINE n == [r EXCEPT !.answer = "refused"]
  <1>1. r \in DaoRequest /\ r.kind = "vote" /\ r.answer = "none"
    BY DEF DaoTypes, refuseVote
  <1>2. /\ n \in DaoRequest /\ n.kind = r.kind /\ n.proposal = r.proposal /\ n.vote = r.vote
        /\ n.answer = "refused"
    BY <1>1 DEF DaoRequest
  <1>3. Told(r, n) /\ UNCHANGED <<daoServer, daoStore, dialog, daoCount, apart>>
    BY DEF refuseVote
  <1> HIDE DEF n
  <1>4. DaoTypes'
    BY <1>2, <1>3, DaoAnswered DEF DaoTypes, daoServer, daoStore, daoCount
  <1>5. OneVote'
    BY <1>1, <1>2, <1>3, DaoAnswered DEF OneVote, daoStore, daoCount
  <1>6. ASSUME NEW p \in Proposal \ apart' PROVE ToldOf(p)'
    <2>1. ToldOf(p) /\ Fetches' = Fetches /\ (Fetches = {} \/ VotesOn(p) = {})
      BY <1>1, <1>2, <1>3, <1>6, DaoAnswered DEF ToldOf
    <2>2. CASE p # r.proposal
      <3>1. VotesOn(p)' = VotesOn(p)
        BY <1>1, <1>2, <1>3, <2>2, DaoAnswered
      <3> QED
        BY <1>3, <2>1, <3>1, ElsewhereTold DEF daoServer, daoStore, Open
    <2>3. CASE p = r.proposal
      <3>1. VotesOn(p)' = {n} /\ VotesOn(p) = {r}
        BY <1>1, <1>2, <1>3, <2>3, DaoAnswered DEF VotesOn, OneVote
      <3>2. buildTally(p)' = buildTally(p)
        BY <1>3 DEF buildTally, side, daoServer
      <3> QED
        BY <1>1, <1>2, <1>3, <2>1, <3>1, <3>2 DEF ToldOf, Open, daoServer, daoStore
    <2> QED
      BY <2>2, <2>3
  <1> QED
    BY <1>4, <1>5, <1>6

\* Someone else votes: unseen, once a list was fetched, and too early to be unseen before.
LEMMA OthersCounted ==
    ASSUME DaoInv, NEW p \in Proposal, NEW v \in {0, 1}, NEW w \in Weight, othersVote(p, v, w)
    PROVE  DaoInv'
  <1> USE DEF DaoInv
  <1>1. /\ ballots' = [ballots EXCEPT ![p]["others"] = [vote |-> v, ink |-> w]]
        /\ decided' \in {decided, decided \cup {p}}
        /\ apart' = (IF lists = 0 THEN apart ELSE apart \cup {p})
        /\ UNCHANGED <<ink, proposed, closed, daoStore, dialog, wire, daoCount>>
    BY DEF othersVote
  <1>2. w \in Nat \ {0} /\ v \in Side /\ v # Nothing
    BY DaoPageAssumption DEF Side
  <1>3. DaoTypes'
    <2>1. ballots' \in [Proposal -> [Voter -> [vote : Side, ink : Nat]]]
      BY <1>1, <1>2 DEF DaoTypes
    <2>2. \A q \in Proposal, x \in Voter : (ballots'[q][x].vote = Nothing) = (ballots'[q][x].ink = 0)
      BY <1>1, <1>2 DEF DaoTypes
    <2> QED
      BY <1>1, <2>1, <2>2 DEF DaoTypes, daoStore, daoCount
  <1>4. OneVote'
    BY <1>1 DEF OneVote, VotesOn, daoStore, daoCount
  <1>5. ASSUME NEW q \in Proposal \ apart' PROVE ToldOf(q)'
    <2>1. ToldOf(q) /\ VotesOn(q)' = VotesOn(q) /\ Fetches' = Fetches
      BY <1>1, <1>5 DEF VotesOn, Fetches
    <2>2. CASE q = p
      <3>1. wire' = {} /\ shown'[q] = Nothing
        BY <1>1, <1>5, <2>2 DEF OneVote, daoStore
      <3> QED
        BY <3>1 DEF ToldOf, VotesOn, Fetches
    <2>3. CASE q # p
      <3>1. ballots'[q] = ballots[q] /\ (Open(q) => Open(q)')
        BY <1>1, <2>3 DEF DaoTypes, Open
      <3>2. Fetches = {} \/ VotesOn(q) = {}
        BY <2>1 DEF ToldOf
      <3> QED
        BY <1>1, <2>1, <3>1, <3>2, ElsewhereTold DEF daoStore
    <2> QED
      BY <2>2, <2>3
  <1> QED
    BY <1>3, <1>4, <1>5

\* The decision a vote would take fails: the page has not heard of the vote.
LEMMA VoteLeft == ASSUME DaoInv, NEW r \in wire, decisionFails(r) PROVE DaoInv'
  <1> USE DEF DaoInv
  <1> DEFINE p == r.proposal
             n == [r EXCEPT !.answer = "refused"]
  <1>1. r \in DaoRequest /\ r.kind = "vote" /\ p \in Proposal /\ r.vote \in {0, 1}
    BY DEF DaoTypes, decisionFails, OneVote
  <1>2. ink \in Nat \ {0}
    BY DaoPageAssumption DEF DaoTypes
  <1>3. n \in DaoRequest /\ n.kind = r.kind /\ n.proposal = r.proposal /\ n.vote = r.vote
    BY <1>1 DEF DaoRequest
  <1>4. /\ Told(r, n) /\ apart' = apart \cup {p}
        /\ ballots' = [ballots EXCEPT ![p]["me"] = [vote |-> r.vote, ink |-> ink]]
        /\ UNCHANGED <<ink, decided, proposed, closed, daoStore, dialog, cast, lists>>
    BY DEF decisionFails
  <1> HIDE DEF n
  <1>5. DaoTypes'
    <2>1. ballots' \in [Proposal -> [Voter -> [vote : Side, ink : Nat]]]
      BY <1>1, <1>2, <1>4 DEF DaoTypes, Side
    <2>2. \A q \in Proposal, v \in Voter : (ballots'[q][v].vote = Nothing) = (ballots'[q][v].ink = 0)
      BY <1>1, <1>2, <1>4, DaoPageAssumption DEF DaoTypes
    <2>3. wire' \subseteq DaoRequest
      BY <1>1, <1>3, <1>4, DaoAnswered DEF DaoTypes
    <2> QED
      BY <1>4, <2>1, <2>2, <2>3 DEF DaoTypes, daoStore
  <1>6. OneVote'
    BY <1>1, <1>3, <1>4, DaoAnswered DEF OneVote, daoStore
  <1>7. ASSUME NEW q \in Proposal \ apart' PROVE ToldOf(q)'
    <2>1. ToldOf(q) /\ Fetches' = Fetches /\ q # p
      BY <1>1, <1>3, <1>4, <1>7, DaoAnswered
    <2>2. VotesOn(q)' = VotesOn(q) /\ (Fetches = {} \/ VotesOn(q) = {})
      BY <1>1, <1>3, <1>4, <2>1, DaoAnswered DEF ToldOf
    <2>3. ballots'[q] = ballots[q] /\ (Open(q) => Open(q)')
      BY <1>1, <1>4, <2>1 DEF DaoTypes, Open
    <2> QED
      BY <1>4, <2>1, <2>2, <2>3, ElsewhereTold DEF daoStore
  <1> QED
    BY <1>5, <1>6, <1>7

\* A vote comes too late: no tally moves, and what it decides it decides unseen.
LEMMA VoteLate == ASSUME DaoInv, NEW r \in wire, lateVote(r) PROVE DaoInv'
  <1> USE DEF DaoInv
  <1> DEFINE p == r.proposal
             n == [r EXCEPT !.answer = "refused"]
  <1>1. r \in DaoRequest /\ r.kind = "vote" /\ r.answer = "none" /\ p \in Proposal
    BY DEF DaoTypes, lateVote, OneVote
  <1>2. /\ n \in DaoRequest /\ n.kind = r.kind /\ n.proposal = r.proposal /\ n.vote = r.vote
        /\ n.answer = "refused"
    BY <1>1 DEF DaoRequest
  <1>3. /\ Told(r, n) /\ UNCHANGED <<ink, ballots, proposed, daoStore, dialog, cast, lists, apart>>
        /\ decided' \subseteq decided \cup {p}
        /\ \A q : Open(q) => Open(q)'
    BY DEF lateVote, Open
  <1> HIDE DEF n
  <1>4. DaoTypes'
    BY <1>1, <1>2, <1>3, DaoAnswered DEF DaoTypes, daoStore
  <1>5. OneVote'
    BY <1>1, <1>2, <1>3, DaoAnswered DEF OneVote, daoStore
  <1>6. ASSUME NEW q \in Proposal \ apart' PROVE ToldOf(q)'
    <2>1. ToldOf(q) /\ Fetches' = Fetches /\ (Fetches = {} \/ VotesOn(q) = {})
      BY <1>1, <1>2, <1>3, <1>6, DaoAnswered DEF ToldOf
    <2>2. CASE q # p
      <3>1. VotesOn(q)' = VotesOn(q)
        BY <1>1, <1>2, <1>3, <2>2, DaoAnswered
      <3> QED
        BY <1>3, <2>1, <3>1, ElsewhereTold DEF daoStore
    <2>3. CASE q = p
      <3>1. VotesOn(p)' = {n} /\ VotesOn(p) = {r}
        BY <1>1, <1>2, <1>3, <2>3, DaoAnswered DEF VotesOn, OneVote
      <3>2. buildTally(p)' = buildTally(p)
        BY <1>3 DEF buildTally, side
      <3> QED
        BY <1>1, <1>2, <1>3, <2>1, <2>3, <3>1, <3>2 DEF ToldOf, daoStore
    <2> QED
      BY <2>2, <2>3
  <1> QED
    BY <1>4, <1>5, <1>6

\* The voting time ends, or others decide: no tally moves.
LEMMA OthersDecided ==
    ASSUME DaoInv, NEW p \in Proposal, timeIsUp(p) \/ othersDecide(p) PROVE DaoInv'
  <1> USE DEF DaoInv
  <1>1. /\ UNCHANGED <<ink, ballots, proposed, daoStore, dialog, wire, daoCount, apart>>
        /\ decided' \subseteq decided \cup {p}
        /\ \A q : Open(q) => Open(q)'
    BY DEF timeIsUp, othersDecide, Open
  <1>2. DaoTypes'
    BY <1>1 DEF DaoTypes, daoStore, daoCount
  <1>3. OneVote'
    BY <1>1 DEF OneVote, VotesOn, daoStore, daoCount
  <1>4. ASSUME NEW q \in Proposal \ apart' PROVE ToldOf(q)'
    <2>1. ToldOf(q) /\ VotesOn(q)' = VotesOn(q) /\ Fetches' = Fetches
      BY <1>1, <1>4 DEF VotesOn, Fetches
    <2>2. Fetches = {} \/ VotesOn(q) = {}
      BY <2>1 DEF ToldOf
    <2> QED
      BY <1>1, <2>1, <2>2, ElsewhereTold DEF daoStore
  <1> QED
    BY <1>2, <1>3, <1>4

-----------------------------------------------------------------------------
\* A request that leaves the wire, answered or lost.
LEMMA DaoGone ==
    ASSUME DaoTypes, OneVote, NEW r \in wire, Gone(r), lists' = lists,
           voting' = (IF r.kind = "vote" THEN voting \ {r.proposal} ELSE voting)
    PROVE  /\ wire' \subseteq DaoRequest /\ voting' \subseteq Proposal /\ OneVote'
           /\ \A p \in Proposal : p # r.proposal \/ r.kind # "vote" => VotesOn(p)' = VotesOn(p)
           /\ r.kind = "vote" => VotesOn(r.proposal) = {r} /\ VotesOn(r.proposal)' = {}
           /\ r.kind # "list" => Fetches' = Fetches
           /\ Fetches' \subseteq Fetches
           /\ \A p \in Proposal : buildTally(p)' = buildTally(p)
  <1>1. wire' = wire \ {r} /\ lists # 0
    BY DEF Gone, OneVote
  <1>2. wire' \subseteq DaoRequest /\ voting' \subseteq Proposal
    BY <1>1 DEF DaoTypes
  <1>3. /\ \A p \in Proposal : p # r.proposal \/ r.kind # "vote" => VotesOn(p)' = VotesOn(p)
        /\ \A p \in Proposal : VotesOn(p)' \subseteq VotesOn(p)
    BY <1>1 DEF VotesOn
  <1>4. r.kind = "vote" => r.proposal \in Proposal /\ VotesOn(r.proposal) = {r} /\ VotesOn(r.proposal)' = {}
    BY <1>1 DEF VotesOn, OneVote
  <1>5. OneVote'
    <2>1. \A q \in wire' : q.kind = "vote" => q.proposal \in voting' /\ q.vote \in {0, 1}
      <3> SUFFICES ASSUME NEW q \in wire', q.kind = "vote"
                   PROVE  q.proposal \in voting' /\ q.vote \in {0, 1}
        OBVIOUS
      <3>1. q \in wire /\ q # r /\ q.proposal \in voting /\ q.vote \in {0, 1} /\ q.proposal \in Proposal
        BY <1>1 DEF OneVote
      <3>2. r.kind = "vote" => q.proposal # r.proposal
        BY <1>4, <3>1 DEF VotesOn
      <3> QED
        BY <3>1, <3>2
    <2>2. \A q \in wire' : q.kind # "list" => q.proposal \in Proposal
      BY <1>1 DEF OneVote
    <2>3. \A p \in Proposal : \A x, y \in VotesOn(p)' : x = y
      BY <1>3 DEF OneVote
    <2> QED
      BY <1>1, <2>1, <2>2, <2>3 DEF OneVote
  <1>6. /\ r.kind # "list" => Fetches' = Fetches
        /\ Fetches' \subseteq Fetches
    BY <1>1 DEF Fetches
  <1>7. \A p \in Proposal : buildTally(p)' = buildTally(p)
    BY DEF Gone, daoServer, buildTally, side
  <1> QED
    BY <1>2, <1>3, <1>4, <1>5, <1>6, <1>7

LEMMA ListShown == ASSUME DaoInv, NEW r \in wire, listAnswered(r) PROVE DaoInv'
  <1> USE DEF DaoInv
  <1>1. /\ r \in DaoRequest /\ r \in Fetches /\ r.kind = "list" /\ r.answer = "ok"
        /\ Gone(r) /\ shown' = r.list /\ UNCHANGED <<voting, lists, apart>>
    BY DEF DaoTypes, listAnswered, Fetches
  <1>2. DaoTypes'
    BY <1>1, DaoGone DEF DaoTypes, DaoRequest, Gone, daoServer
  <1>3. ASSUME NEW p \in Proposal \ apart' PROVE ToldOf(p)'
    <2>1. ToldOf(p) /\ VotesOn(p) = {} /\ VotesOn(p)' = {} /\ Fetches' \subseteq Fetches
      BY <1>1, <1>3, DaoGone DEF ToldOf
    <2>2. buildTally(p)' = buildTally(p) /\ Open(p)' = Open(p)
      BY <1>1, DaoGone DEF Gone, daoServer, Open
    <2>3. shown'[p] # Nothing => shown'[p] = buildTally(p) /\ Open(p)
      BY <1>1, <2>1 DEF ToldOf
    <2> QED
      BY <2>1, <2>2, <2>3 DEF ToldOf
  <1> QED
    BY <1>1, <1>2, <1>3, DaoGone

LEMMA CountedType == ASSUME NEW t \in Tally, NEW v \in {0, 1}, NEW w \in Nat
                     PROVE  counted(t, v, w) \in Tally
  <1>1. undone(t, w) \in Tally
    BY DEF undone, Tally
  <1> QED
    BY <1>1 DEF counted, Tally, Side

LEMMA VoteCounted == ASSUME DaoInv, NEW r \in wire, voteAnswered(r) PROVE DaoInv'
  <1> USE DEF DaoInv
  <1> DEFINE p == r.proposal
             now == IF r.final \/ shown[p] = Nothing THEN Nothing ELSE counted(shown[p], r.vote, r.ink)
  <1>1. /\ r \in DaoRequest /\ r.kind = "vote" /\ r.answer = "ok" /\ p \in Proposal /\ r.vote \in {0, 1}
        /\ Gone(r) /\ voting' = voting \ {p} /\ UNCHANGED <<lists, apart>>
        /\ shown' = [shown EXCEPT ![p] = now]
    BY DEF DaoTypes, voteAnswered, OneVote
  <1>2. r.ink \in Nat /\ shown[p] \in Tally \cup {Nothing}
    BY <1>1 DEF DaoTypes, DaoRequest
  <1>3. now \in Tally \cup {Nothing}
    BY <1>1, <1>2, CountedType
  <1> HIDE DEF now
  <1>4. DaoTypes'
    BY <1>1, <1>3, DaoGone DEF DaoTypes, Gone, daoServer
  <1>5. ASSUME NEW q \in Proposal \ apart' PROVE ToldOf(q)'
    <2>1. ToldOf(q) /\ Fetches' = Fetches /\ buildTally(q)' = buildTally(q) /\ Open(q)' = Open(q)
      BY <1>1, <1>5, DaoGone DEF Gone, daoServer, Open
    <2>2. CASE q # p
      <3>1. VotesOn(q)' = VotesOn(q) /\ shown'[q] = shown[q]
        BY <1>1, <2>2, DaoGone DEF DaoTypes
      <3> QED
        BY <2>1, <3>1 DEF ToldOf
    <2>3. CASE q = p
      <3>1. VotesOn(p)' = {} /\ VotesOn(p) = {r} /\ shown'[p] = now
        BY <1>1, DaoGone DEF DaoTypes
      <3>2. now # Nothing => now = buildTally(p) /\ Open(p)
        BY <1>1, <2>1, <2>3, <3>1 DEF ToldOf, now
      <3> QED
        BY <2>1, <2>3, <3>1, <3>2 DEF ToldOf
    <2> QED
      BY <2>2, <2>3
  <1> QED
    BY <1>1, <1>4, <1>5, DaoGone

LEMMA RefusalTold == ASSUME DaoInv, NEW r \in wire, voteRefused(r) PROVE DaoInv'
  <1> USE DEF DaoInv
  <1>1. /\ r.kind = "vote" /\ r.answer = "refused" /\ r.proposal \in Proposal
        /\ Gone(r) /\ voting' = voting \ {r.proposal} /\ UNCHANGED <<shown, lists, apart>>
    BY DEF voteRefused, OneVote
  <1>2. DaoTypes'
    BY <1>1, DaoGone DEF DaoTypes, Gone, daoServer
  <1>3. ASSUME NEW q \in Proposal \ apart' PROVE ToldOf(q)'
    <2>1. ToldOf(q) /\ Fetches' = Fetches /\ buildTally(q)' = buildTally(q) /\ Open(q)' = Open(q)
      BY <1>1, <1>3, DaoGone DEF Gone, daoServer, Open
    <2>2. \/ VotesOn(q)' = VotesOn(q)
          \/ VotesOn(q)' = {} /\ VotesOn(q) = {r}
      BY <1>1, DaoGone
    <2> QED
      BY <1>1, <2>1, <2>2 DEF ToldOf
  <1> QED
    BY <1>1, <1>2, <1>3, DaoGone

LEMMA DaoLost == ASSUME DaoInv, NEW r \in wire, loseDao(r) PROVE DaoInv'
  <1> USE DEF DaoInv
  <1>1. /\ Gone(r) /\ UNCHANGED <<shown, lists>>
        /\ voting' = (IF r.kind = "vote" THEN voting \ {r.proposal} ELSE voting)
        /\ apart' = apart \cup (IF r.kind = "vote" THEN {r.proposal} ELSE {})
    BY DEF loseDao
  <1>2. DaoTypes'
    BY <1>1, DaoGone DEF DaoTypes, Gone, daoServer
  <1>3. ASSUME NEW q \in Proposal \ apart' PROVE ToldOf(q)'
    <2>1. /\ ToldOf(q) /\ Fetches' \subseteq Fetches /\ buildTally(q)' = buildTally(q)
          /\ Open(q)' = Open(q) /\ VotesOn(q)' = VotesOn(q)
      BY <1>1, <1>3, DaoGone DEF Gone, daoServer, Open
    <2> QED
      BY <1>1, <2>1 DEF ToldOf
  <1> QED
    BY <1>1, <1>2, <1>3, DaoGone

LEMMA DaoStep == ASSUME DaoInv, [DaoNext]_daoVars PROVE DaoInv'
  <1>1. CASE openDao \/ \E r \in wire : submitAnswered(r)
    BY <1>1, ListAsked
  <1>2. CASE \/ openDialog \/ closeDialog \/ \E p \in Proposal : submit(p)
             \/ \E w \in Weight : earnInk(w)
             \/ \E r \in wire : serveSubmit(r)
    BY <1>2, DialogMoves
  <1>3. CASE \E p \in Proposal, v \in {0, 1} : vote(p, v)
    BY <1>3, VoteAsked
  <1>4. CASE \E p \in Proposal, v \in {0, 1}, w \in Weight : othersVote(p, v, w)
    BY <1>4, OthersCounted
  <1>8. CASE \E p \in Proposal : timeIsUp(p) \/ othersDecide(p)
    BY <1>8, OthersDecided
  <1>5. CASE \E r \in wire : \/ serveList(r) \/ serveVote(r) \/ refuseVote(r)
                            \/ decisionFails(r) \/ lateVote(r)
    BY <1>5, ListServed, VoteServed, VoteNotTaken, VoteLeft, VoteLate
  <1>6. CASE \E r \in wire : listAnswered(r) \/ voteAnswered(r) \/ voteRefused(r) \/ loseDao(r)
    BY <1>6, ListShown, VoteCounted, RefusalTold, DaoLost
  <1>7. CASE UNCHANGED daoVars
    <2>1. /\ UNCHANGED <<ink, ballots, decided, proposed, closed, shown, voting, dialog, wire>>
          /\ UNCHANGED <<cast, lists, apart>>
      BY <1>7 DEF daoVars, daoServer, daoStore, daoCount
    <2>2. \A p \in Proposal : /\ buildTally(p)' = buildTally(p) /\ Open(p)' = Open(p)
                             /\ VotesOn(p)' = VotesOn(p) /\ Fetches' = Fetches
      BY <2>1 DEF buildTally, side, Open, VotesOn, Fetches
    <2>3. DaoTypes' /\ OneVote'
      BY <2>1, <2>2 DEF DaoInv, DaoTypes, OneVote
    <2> QED
      BY <2>1, <2>2, <2>3 DEF DaoInv, ToldOf
  <1> QED
    BY <1>1, <1>2, <1>3, <1>4, <1>5, <1>6, <1>7, <1>8 DEF DaoNext

\* The tally the DAO page keeps is the one the server would build, and what it lists is open,
\* but for what others do, votes that come too late and decisions that fail, for any
\* submissions, balances and number of votes (DaoPage, stores/submission.store.ts against submission.service.ts).
THEOREM ThePageCountsAsTheServer == DaoSpec => []TallyTold
  <1>1. DaoInv /\ [DaoNext]_daoVars => DaoInv'
    BY DaoStep
  <1>2. DaoInv => TallyTold
    BY DaoShows
  <1> QED
    BY <1>1, <1>2, DaoStarts, PTL DEF DaoSpec
=============================================================================
