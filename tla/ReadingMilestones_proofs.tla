----------------------- MODULE ReadingMilestones_proofs -----------------------
(***************************************************************************)
(* Proofs about a reader's library, for any number of requests, series and *)
(* chapters: completed records reached the end, badges are mirrored once,  *)
(* no INK without a reason, no milestone lost without a fault, and how far *)
(* Passport.seriesTracked may be off.                                      *)
(*                                                                         *)
(* The argument for milestones: a reward is settled when minted, owed by a *)
(* request under way, or when a request has failed; settled is for ever.   *)
(* What a request read of a record was settled then (Fits); what it writes *)
(* beyond that it owes itself.  The counter of series is compared with the *)
(* rows by an invariant of its own (CountInv), which counts the requests   *)
(* that are on their way to it.                                            *)
(***************************************************************************)
EXTENDS ReadingMilestones, SequenceTheorems, FiniteSetTheorems, TLAPS

Locals == [series : Series \cup {"none"}, chapter : Nat, status : Status \cup {"none"},
           prevChapter : Nat, newChapter : Nat, isNew : BOOLEAN, wasCompleted : BOOLEAN,
           rewards : Seq(Key), badge : Badge \cup {"none"}]
Records == [status : Status \cup {"none"}, currentChapter : Nat, completedAt : BOOLEAN]
Rewarding == {"track", "reward", "mint"}

\* Some request reported this chapter of the series, or a later one.
Reported(s, n) == \E r \in Request : pc[r] # "idle" /\ req[r].series = s /\ req[r].chapter >= n

IsEarned(key) == \E r \in Request : pc[r] # "idle" /\ earns(req[r], key)

\* A chapter at or after the end of a series that has chapters.
AtEnd(s, n) == lastChapter[s] # NoChapter /\ n >= InitialLast[s]

Has(rewards, key) == \E i \in 1 .. Len(rewards) : rewards[i] = key

\* A request at a place will mint this reward, or the completion badge.
OwesAt(place, q, key) == place \in Rewarding /\ Has(q.rewards, key)
CompletesAt(place, q) ==
    \/ place \in Rewarding \cup {"complete"} /\ completes(q)
    \/ place \in {"badge", "badgeMint"} /\ q.badge = "SERIES_COMPLETIONIST"

Faulty == \E r \in Request : pc[r] \in {"failed", "crashed"}

Settled(key) ==
    key \in registry \/ Faulty \/ \E r \in Request : OwesAt(pc[r], req[r], key)
BadgeSettled ==
    \/ "SERIES_COMPLETIONIST" \in badges \/ Faulty
    \/ \E r \in Request : CompletesAt(pc[r], req[r])

\* All a record at a chapter is worth, and a completed one.
SettledUpTo(s, n) ==
    /\ Settled(Chapter1(s))
    /\ \A m \in 1 .. (n \div CHAPTER_MILESTONE_INTERVAL) :
          Settled(Milestone(s, m * CHAPTER_MILESTONE_INTERVAL))
SettledComplete(s) == Settled(Complete(s)) /\ BadgeSettled

Shelved(s) == record[s] # NoRecord =>
    /\ Reported(s, record[s].currentChapter)
    /\ SettledUpTo(s, record[s].currentChapter)
    /\ record[s].status = "COMPLETED" =>
          SettledComplete(s) /\ AtEnd(s, record[s].currentChapter)
Library == \A s \in Series : Shelved(s)

\* What a request at a place may rely on.
Fits(place, q) ==
    /\ place # "idle" => q.series \in Series
    /\ place \in {"lastChapter", "upsert"} =>
          /\ q.newChapter >= q.prevChapter
          /\ q.chapter >= q.newChapter \/ Reported(q.series, q.newChapter)
          /\ q.isNew => q.prevChapter = 0 /\ ~q.wasCompleted
          /\ ~q.isNew => SettledUpTo(q.series, q.prevChapter)
          /\ q.wasCompleted =>
                SettledComplete(q.series) /\ AtEnd(q.series, q.newChapter)
    /\ place = "upsert" /\ q.status = "COMPLETED" => AtEnd(q.series, q.newChapter)
    /\ place \in Rewarding =>
          q.rewards # <<>> /\ \A i \in 1 .. Len(q.rewards) : IsEarned(q.rewards[i])
    /\ place \in Rewarding \cup {"complete"} =>
          q.badge = IF completes(q) THEN "SERIES_COMPLETIONIST" ELSE "FIRST_CHAPTER"
    /\ place = "complete" => completes(q)
    /\ place \in {"badge", "badgeMint", "badgeRow", "chapters"} => q.badge \in Badge

Placed == \A r \in Request : Fits(pc[r], req[r])

\* One request at most is about to mirror a badge, which has no row yet.
Mirrored == \A b \in Badge :
    /\ badgeRows[b] <= 1 /\ (badgeRows[b] = 1 => b \in badges)
    /\ \A r \in Request : pc[r] = "badgeRow" /\ req[r].badge = b =>
          b \in badges /\ badgeRows[b] = 0
    /\ \A r, q \in Request :
          pc[r] = "badgeRow" /\ pc[q] = "badgeRow" /\ req[r].badge = b /\ req[q].badge = b
          => r = q

Earned == \A key \in registry : IsEarned(key)

IInv ==
    /\ TypeOK /\ req \in [Request -> Locals]
    /\ Library /\ Placed /\ Mirrored /\ Earned
    /\ ledger \subseteq registry
    /\ \A s \in Series : lastChapter[s] >= InitialLast[s]

-----------------------------------------------------------------------------
(***************************************************************************)
(* Lists of rewards.                                                       *)
(***************************************************************************)
LEMMA KeysAreKeys ==
    ASSUME NEW s \in Series, NEW n \in Nat
    PROVE  Chapter1(s) \in Key /\ Milestone(s, n) \in Key /\ Complete(s) \in Key
  BY DEF Chapter1, Milestone, Complete, Key

\* What a list of rewards made of two contains.
LEMMA ConcatHas ==
    ASSUME NEW s \in Seq(Key), NEW t \in Seq(Key)
    PROVE  /\ s \o t \in Seq(Key) /\ Len(s \o t) = Len(s) + Len(t)
           /\ Len(s) \in Nat /\ Len(t) \in Nat
           /\ \A key : Has(s \o t, key) <=> Has(s, key) \/ Has(t, key)
  <1>1. /\ Len(s) \in Nat /\ Len(t) \in Nat /\ Len(s \o t) = Len(s) + Len(t)
        /\ s \o t \in Seq(Key)
        /\ \A i \in 1 .. Len(s) + Len(t) :
              (s \o t)[i] = IF i <= Len(s) THEN s[i] ELSE t[i - Len(s)]
    BY ConcatProperties, LenProperties
  <1>2. ASSUME NEW key, Has(s \o t, key) PROVE Has(s, key) \/ Has(t, key)
    <2>1. PICK i \in 1 .. Len(s) + Len(t) : (s \o t)[i] = key
      BY <1>1, <1>2 DEF Has
    <2>2. CASE i <= Len(s)
      BY <1>1, <2>1, <2>2 DEF Has
    <2>3. CASE ~(i <= Len(s))
      <3>1. i - Len(s) \in 1 .. Len(t)
        BY <1>1, <2>3
      <3> QED
        BY <1>1, <2>1, <2>3, <3>1 DEF Has
    <2> QED
      BY <2>2, <2>3
  <1>3. ASSUME NEW key, Has(s, key) PROVE Has(s \o t, key)
    <2>1. PICK i \in 1 .. Len(s) : s[i] = key
      BY <1>3 DEF Has
    <2>2. i \in 1 .. Len(s) + Len(t) /\ i <= Len(s)
      BY <1>1
    <2> QED
      BY <1>1, <2>1, <2>2 DEF Has
  <1>4. ASSUME NEW key, Has(t, key) PROVE Has(s \o t, key)
    <2>1. PICK i \in 1 .. Len(t) : t[i] = key
      BY <1>4 DEF Has
    <2>2. /\ i + Len(s) \in 1 .. Len(s) + Len(t) /\ ~(i + Len(s) <= Len(s))
          /\ (i + Len(s)) - Len(s) = i
      BY <1>1
    <2>3. (s \o t)[i + Len(s)] = key
      BY <1>1, <2>1, <2>2
    <2> QED
      BY <1>1, <2>2, <2>3 DEF Has
  <1> QED
    BY <1>1, <1>2, <1>3, <1>4

\* What is left of a list when its first reward is handled.
LEMMA TailHas ==
    ASSUME NEW s \in Seq(Key), s # <<>>
    PROVE  /\ Tail(s) \in Seq(Key) /\ Head(s) \in Key
           /\ \A key : Has(s, key) => key = Head(s) \/ Has(Tail(s), key)
           /\ \A i \in 1 .. Len(Tail(s)) : \E j \in 1 .. Len(s) : Tail(s)[i] = s[j]
           /\ \E j \in 1 .. Len(s) : Head(s) = s[j]
           /\ \A key : ~Has(<<>>, key)
  <1>1. /\ Head(s) \in Key /\ Tail(s) \in Seq(Key) /\ Len(Tail(s)) = Len(s) - 1
        /\ \A i \in 1 .. Len(Tail(s)) : Tail(s)[i] = s[i + 1]
        /\ Len(s) \in Nat \ {0} /\ Head(s) = s[1]
    BY HeadTailProperties, EmptySeq
  <1>2. ASSUME NEW key, Has(s, key) PROVE key = Head(s) \/ Has(Tail(s), key)
    <2>1. PICK i \in 1 .. Len(s) : s[i] = key
      BY <1>2 DEF Has
    <2>2. CASE i = 1
      BY <1>1, <2>1, <2>2
    <2>3. CASE i # 1
      <3>1. i - 1 \in 1 .. Len(Tail(s)) /\ (i - 1) + 1 = i
        BY <1>1, <2>3
      <3> QED
        BY <1>1, <2>1, <3>1 DEF Has
    <2> QED
      BY <2>2, <2>3
  <1>3. \A i \in 1 .. Len(Tail(s)) : i + 1 \in 1 .. Len(s)
    BY <1>1
  <1>4. \A key : ~Has(<<>>, key)
    BY EmptySeq DEF Has
  <1> QED
    BY <1>1, <1>2, <1>3, <1>4

\* What checkAndFireMilestones mints.
LEMMA RewardsAre ==
    ASSUME NEW q \in Locals, q.series \in Series, q.newChapter >= q.prevChapter
    PROVE  LET p == q.prevChapter \div CHAPTER_MILESTONE_INTERVAL
               n == q.newChapter \div CHAPTER_MILESTONE_INTERVAL
           IN  /\ rewardsOf(q) \in Seq(Key)
               /\ q.isNew => rewardsOf(q) # <<>>
               /\ \A key : Has(rewardsOf(q), key) <=>
                     \/ q.isNew /\ key = Chapter1(q.series)
                     \/ \E i \in 1 .. (n - p) :
                           key = Milestone(q.series, (p + i) * CHAPTER_MILESTONE_INTERVAL)
                     \/ completes(q) /\ key = Complete(q.series)
  <1> DEFINE s == q.series
             p == q.prevChapter \div CHAPTER_MILESTONE_INTERVAL
             n == q.newChapter \div CHAPTER_MILESTONE_INTERVAL
             first == IF q.isNew THEN <<Chapter1(s)>> ELSE <<>>
             marks == [i \in 1 .. (n - p) |-> Milestone(s, (p + i) * CHAPTER_MILESTONE_INTERVAL)]
             last == IF completes(q) THEN <<Complete(s)>> ELSE <<>>
  <1>1. p \in Nat /\ n \in Nat /\ n - p \in Nat
    BY DEF Locals, CHAPTER_MILESTONE_INTERVAL
  <1>2. rewardsOf(q) = first \o marks \o last
    BY DEF rewardsOf
  <1>3. /\ first \in Seq(Key) /\ (q.isNew => Len(first) = 1)
        /\ \A key : Has(first, key) <=> q.isNew /\ key = Chapter1(s)
    <2>1. CASE q.isNew
      <3>1. first = <<Chapter1(s)>> /\ Chapter1(s) \in Key
        BY <2>1, KeysAreKeys
      <3>2. first \in Seq(Key) /\ Len(first) = 1 /\ first[1] = Chapter1(s)
        BY <3>1
      <3> HIDE DEF first
      <3> QED
        BY <2>1, <3>2 DEF Has
    <2>2. CASE ~q.isNew
      BY <2>2, EmptySeq DEF Has
    <2> QED
      BY <2>1, <2>2
  <1>4. /\ marks \in Seq(Key) /\ Len(marks) = n - p
        /\ \A i \in 1 .. (n - p) : marks[i] = Milestone(s, (p + i) * CHAPTER_MILESTONE_INTERVAL)
    <2>1. \A i \in 1 .. (n - p) : Milestone(s, (p + i) * CHAPTER_MILESTONE_INTERVAL) \in Key
      <3> SUFFICES ASSUME NEW i \in 1 .. (n - p)
                   PROVE  Milestone(s, (p + i) * CHAPTER_MILESTONE_INTERVAL) \in Key
        OBVIOUS
      <3> HIDE DEF p, n
      <3>1. (p + i) * CHAPTER_MILESTONE_INTERVAL \in Nat
        BY <1>1 DEF CHAPTER_MILESTONE_INTERVAL
      <3> QED
        BY <3>1, KeysAreKeys
    <2> HIDE DEF p, n
    <2>2. marks \in [1 .. (n - p) -> Key]
      BY <2>1
    <2>3. marks \in Seq(Key)
      BY <1>1, <2>2
    <2>4. Len(marks) = n - p
      BY <1>1, <2>2, <2>3
    <2> QED
      BY <2>3, <2>4
  <1>5. /\ last \in Seq(Key)
        /\ \A key : Has(last, key) <=> completes(q) /\ key = Complete(s)
    <2>1. CASE completes(q)
      <3>1. last = <<Complete(s)>> /\ Complete(s) \in Key
        BY <2>1, KeysAreKeys
      <3>2. last \in Seq(Key) /\ Len(last) = 1 /\ last[1] = Complete(s)
        BY <3>1
      <3> HIDE DEF last
      <3> QED
        BY <2>1, <3>2 DEF Has
    <2>2. CASE ~completes(q)
      BY <2>2, EmptySeq DEF Has
    <2> QED
      BY <2>1, <2>2
  <1> HIDE DEF s, p, n, first, marks, last
  <1>6. \A key : Has(marks, key) <=>
           \E i \in 1 .. (n - p) : key = Milestone(s, (p + i) * CHAPTER_MILESTONE_INTERVAL)
    BY <1>4 DEF Has
  <1>7. /\ first \o marks \in Seq(Key) /\ Len(first \o marks) = Len(first) + Len(marks)
        /\ Len(first) \in Nat /\ Len(marks) \in Nat
        /\ \A key : Has(first \o marks, key) <=> Has(first, key) \/ Has(marks, key)
    <2>1. first \in Seq(Key) /\ marks \in Seq(Key)
      BY <1>3, <1>4
    <2> QED
      BY <2>1, ConcatHas
  <1>8. /\ rewardsOf(q) \in Seq(Key) /\ Len(last) \in Nat
        /\ Len(rewardsOf(q)) = Len(first \o marks) + Len(last)
        /\ \A key : Has(rewardsOf(q), key) <=> Has(first \o marks, key) \/ Has(last, key)
    <2>1. first \o marks \in Seq(Key) /\ last \in Seq(Key)
      BY <1>5, <1>7
    <2> DEFINE both == first \o marks
    <2>2. rewardsOf(q) = both \o last
      BY <1>2
    <2>3. both \in Seq(Key) /\ last \in Seq(Key)
      BY <2>1
    <2> HIDE DEF both
    <2>4. /\ both \o last \in Seq(Key) /\ Len(both \o last) = Len(both) + Len(last)
          /\ Len(last) \in Nat
          /\ \A key : Has(both \o last, key) <=> Has(both, key) \/ Has(last, key)
      BY <2>3, ConcatHas
    <2>5. /\ rewardsOf(q) \in Seq(Key) /\ Len(rewardsOf(q)) = Len(both) + Len(last)
          /\ \A key : Has(rewardsOf(q), key) <=> Has(both, key) \/ Has(last, key)
      BY <2>2, <2>4, Zenon
    <2> QED
      BY <2>4, <2>5 DEF both
  <1>9. q.isNew => rewardsOf(q) # <<>>
    <2> SUFFICES ASSUME q.isNew, rewardsOf(q) = <<>> PROVE FALSE
      OBVIOUS
    <2>1. Len(rewardsOf(q)) = 0
      OBVIOUS
    <2>2. Len(first) = 1
      BY <1>3
    <2>3. Len(rewardsOf(q)) = Len(first) + Len(marks) + Len(last)
      BY <1>7, <1>8
    <2> QED
      BY <1>7, <1>8, <2>1, <2>2, <2>3
  <1>10. \A key : Has(rewardsOf(q), key) <=>
            \/ q.isNew /\ key = Chapter1(s)
            \/ \E i \in 1 .. (n - p) : key = Milestone(s, (p + i) * CHAPTER_MILESTONE_INTERVAL)
            \/ completes(q) /\ key = Complete(s)
    <2>1. \A key : Has(first, key) <=> q.isNew /\ key = Chapter1(s)
      BY <1>3
    <2>2. \A key : Has(last, key) <=> completes(q) /\ key = Complete(s)
      BY <1>5
    <2>3. \A key : Has(rewardsOf(q), key) <=> Has(first, key) \/ Has(marks, key) \/ Has(last, key)
      BY <1>7, <1>8
    <2> QED
      BY <1>6, <2>1, <2>2, <2>3
  <1> QED
    BY <1>8, <1>9, <1>10 DEF s, p, n

-----------------------------------------------------------------------------
(***************************************************************************)
(* One step of a request.                                                  *)
(***************************************************************************)

\* A request moves and forgets nothing it owes.
Moves(r, place, q) ==
    /\ place \in Waiting \cup Ended /\ q \in Locals /\ Move(r, place, q)
    /\ pc[r] \notin Ended
    /\ \/ pc[r] = "idle"
       \/ q.series = req[r].series /\ q.chapter = req[r].chapter /\ q.isNew = req[r].isNew
    /\ lastChapter' = lastChapter
    /\ registry \subseteq registry' /\ badges \subseteq badges'
    /\ \A key \in Key : OwesAt(pc[r], req[r], key) =>
          key \in registry' \/ place = "failed" \/ OwesAt(place, q, key)
    /\ CompletesAt(pc[r], req[r]) =>
          \/ "SERIES_COMPLETIONIST" \in badges' \/ place = "failed"
          \/ CompletesAt(place, q)

\* What is settled or reported stays so.
Stands ==
    /\ \A s \in Series, n \in Int : Reported(s, n) => Reported(s, n)'
    /\ \A key \in Key : IsEarned(key) => IsEarned(key)'
    /\ \A s \in Series, n \in Int : AtEnd(s, n) => AtEnd(s, n)'
    /\ \A key \in Key : Settled(key) => Settled(key)'
    /\ BadgeSettled => BadgeSettled'

\* A move of one request unsettles nothing, and settles what the request owes now.
LEMMA MovesStand ==
    ASSUME IInv, NEW r \in Request, NEW place, NEW q, Moves(r, place, q)
    PROVE  /\ pc'[r] = place /\ req'[r] = q
           /\ \A m \in Request \ {r} : pc'[m] = pc[m] /\ req'[m] = req[m]
           /\ pc' \in [Request -> {"idle"} \cup Waiting \cup Ended]
           /\ req' \in [Request -> Locals]
           /\ Stands
           /\ \A key \in Key : OwesAt(place, q, key) => Settled(key)'
           /\ CompletesAt(place, q) => BadgeSettled'
           /\ \A n \in Int : q.chapter >= n => Reported(q.series, n)'
  <1> USE DEF IInv
  <1>1. /\ pc'[r] = place /\ req'[r] = q
        /\ \A m \in Request \ {r} : pc'[m] = pc[m] /\ req'[m] = req[m]
        /\ pc' \in [Request -> {"idle"} \cup Waiting \cup Ended]
        /\ req' \in [Request -> Locals]
    BY DEF Moves, Move, TypeOK
  <1>2. place # "idle" /\ place \in Waiting \cup Ended
    BY DEF Moves, Waiting, Ended
  <1>3. \A n \in Int : q.chapter >= n => Reported(q.series, n)'
    BY <1>1, <1>2 DEF Reported
  <1>4. ASSUME NEW s \in Series, NEW n \in Int, Reported(s, n) PROVE Reported(s, n)'
    <2>1. PICK m \in Request : pc[m] # "idle" /\ req[m].series = s /\ req[m].chapter >= n
      BY <1>4 DEF Reported
    <2>2. pc'[m] # "idle" /\ req'[m].series = s /\ req'[m].chapter >= n
      BY <1>1, <1>2, <2>1 DEF Moves
    <2> QED
      BY <2>2 DEF Reported
  <1>5. Faulty => Faulty'
    BY <1>1 DEF Faulty, Moves, Ended
  <1>6. place = "failed" => Faulty'
    BY <1>1 DEF Faulty
  <1>7. \A key \in Key : OwesAt(place, q, key) => Settled(key)'
    BY <1>1 DEF Settled, OwesAt
  <1>8. ASSUME NEW key \in Key, Settled(key) PROVE Settled(key)'
    <2>1. CASE key \in registry \/ Faulty
      BY <1>5, <2>1 DEF Settled, Moves
    <2>2. CASE \E m \in Request : OwesAt(pc[m], req[m], key)
      <3>1. PICK m \in Request : OwesAt(pc[m], req[m], key)
        BY <2>2
      <3>2. CASE m = r
        BY <1>6, <1>7, <3>1, <3>2 DEF Settled, Moves
      <3>3. CASE m # r
        <4>1. pc'[m] = pc[m] /\ req'[m] = req[m]
          BY <1>1, <3>3
        <4>2. OwesAt(pc[m], req[m], key)'
          BY <3>1, <4>1 DEF OwesAt
        <4> QED
          BY <4>2 DEF Settled
      <3> QED
        BY <3>2, <3>3
    <2> QED
      BY <1>8, <2>1, <2>2 DEF Settled
  <1>9. CompletesAt(place, q) => BadgeSettled'
    BY <1>1 DEF BadgeSettled, CompletesAt, completes
  <1>10. BadgeSettled => BadgeSettled'
    <2>1. CASE "SERIES_COMPLETIONIST" \in badges \/ Faulty
      BY <1>5, <2>1 DEF BadgeSettled, Moves
    <2>2. CASE \E m \in Request : CompletesAt(pc[m], req[m])
      <3>1. PICK m \in Request : CompletesAt(pc[m], req[m])
        BY <2>2
      <3>2. CASE m = r
        BY <1>6, <1>9, <3>1, <3>2 DEF BadgeSettled, Moves
      <3>3. CASE m # r
        <4>1. pc'[m] = pc[m] /\ req'[m] = req[m]
          BY <1>1, <3>3
        <4>2. CompletesAt(pc[m], req[m])'
          BY <3>1, <4>1 DEF CompletesAt, completes
        <4> QED
          BY <4>2 DEF BadgeSettled
      <3> QED
        BY <3>2, <3>3
    <2> QED
      BY <2>1, <2>2 DEF BadgeSettled
  <1>11. ASSUME NEW key \in Key, IsEarned(key) PROVE IsEarned(key)'
    <2>1. PICK m \in Request : pc[m] # "idle" /\ earns(req[m], key)
      BY <1>11 DEF IsEarned
    <2>2. pc'[m] # "idle" /\ earns(req[m], key)'
      BY <1>1, <1>2, <2>1 DEF Moves, earns
    <2> QED
      BY <2>2 DEF IsEarned
  <1>12. \A s \in Series, n \in Int : AtEnd(s, n) => AtEnd(s, n)'
    BY DEF Moves, AtEnd
  <1> QED
    BY <1>1, <1>3, <1>4, <1>7, <1>8, <1>9, <1>10, <1>11, <1>12 DEF Stands

\* So stand the claims about whole records, earned keys and places.
LEMMA ClaimsStand ==
    ASSUME Stands, ReadingAssumption
    PROVE  /\ \A s \in Series, n \in Nat : SettledUpTo(s, n) => SettledUpTo(s, n)'
           /\ \A s \in Series : SettledComplete(s) => SettledComplete(s)'
           /\ \A key \in Key : IsEarned(key) => IsEarned(key)'
  <1>1. ASSUME NEW s \in Series, NEW n \in Nat, SettledUpTo(s, n)
        PROVE  SettledUpTo(s, n)'
    <2>1. Settled(Chapter1(s))'
      <3>1. Chapter1(s) \in Key /\ Settled(Chapter1(s))
        BY <1>1, KeysAreKeys DEF SettledUpTo
      <3> QED
        BY <3>1 DEF Stands, Chapter1
    <2>2. ASSUME NEW m \in 1 .. (n \div CHAPTER_MILESTONE_INTERVAL)
          PROVE  Settled(Milestone(s, m * CHAPTER_MILESTONE_INTERVAL))'
      <3>1. m * CHAPTER_MILESTONE_INTERVAL \in Nat
        BY <2>2 DEF CHAPTER_MILESTONE_INTERVAL
      <3>2. /\ Milestone(s, m * CHAPTER_MILESTONE_INTERVAL) \in Key
            /\ Settled(Milestone(s, m * CHAPTER_MILESTONE_INTERVAL))
        BY <1>1, <2>2, <3>1, KeysAreKeys DEF SettledUpTo
      <3> QED
        BY <3>2 DEF Stands, Milestone
    <2> QED
      BY <2>1, <2>2 DEF SettledUpTo
  <1>2. ASSUME NEW s \in Series, SettledComplete(s) PROVE SettledComplete(s)'
    <2>1. Complete(s) \in Key /\ Settled(Complete(s)) /\ BadgeSettled
      <3>1. 0 \in Nat
        OBVIOUS
      <3> QED
        BY <1>2, <3>1, KeysAreKeys DEF SettledComplete
    <2> QED
      BY <2>1 DEF Stands, SettledComplete, Complete
  <1>3. \A key \in Key : IsEarned(key) => IsEarned(key)'
    BY DEF Stands
  <1> QED
    BY <1>1, <1>2, <1>3

\* What a request relies on stands while others move.
LEMMA FitsStand ==
    ASSUME Stands, NEW m \in Request, NEW place, NEW q \in Locals,
           pc'[m] = place, req'[m] = q, Fits(place, q)
    PROVE  Fits(pc[m], req[m])'
  <1>1. /\ \A s \in Series, n \in Nat : SettledUpTo(s, n) => SettledUpTo(s, n)'
        /\ \A s \in Series : SettledComplete(s) => SettledComplete(s)'
        /\ \A key \in Key : IsEarned(key) => IsEarned(key)'
    BY ReadingAssumption, ClaimsStand
  <1>2. /\ q.newChapter \in Nat /\ q.prevChapter \in Nat /\ q.rewards \in Seq(Key)
        /\ \A s \in Series : AtEnd(s, q.newChapter) => AtEnd(s, q.newChapter)'
        /\ \A i \in 1 .. Len(q.rewards) : q.rewards[i] \in Key
    BY LenProperties DEF Locals, Stands
  <1>3. place \in Rewarding =>
           req'[m].rewards # <<>>
               /\ \A i \in 1 .. Len(req'[m].rewards) : IsEarned(req[m].rewards[i])'
    <2> SUFFICES ASSUME place \in Rewarding, NEW i \in 1 .. Len(q.rewards)
                 PROVE  IsEarned(req[m].rewards[i])'
      BY DEF Fits
    <2>1. q.rewards[i] \in Key /\ IsEarned(q.rewards[i])
      BY <1>2 DEF Fits
    <2> QED
      BY <1>1, <2>1 DEF IsEarned
  <1>4. place \in {"lastChapter", "upsert"} =>
           /\ q.chapter >= q.newChapter \/ Reported(req[m].series, req[m].newChapter)'
           /\ ~q.isNew => SettledUpTo(req[m].series, req[m].prevChapter)'
           /\ q.wasCompleted => SettledComplete(req[m].series)'
    <2> SUFFICES ASSUME place \in {"lastChapter", "upsert"}
                 PROVE  /\ q.chapter >= q.newChapter \/ Reported(req[m].series, req[m].newChapter)'
                        /\ ~q.isNew => SettledUpTo(req[m].series, req[m].prevChapter)'
                        /\ q.wasCompleted => SettledComplete(req[m].series)'
      OBVIOUS
    <2>1. /\ q.series \in Series
          /\ q.chapter >= q.newChapter \/ Reported(q.series, q.newChapter)
          /\ ~q.isNew => SettledUpTo(q.series, q.prevChapter)
          /\ q.wasCompleted => SettledComplete(q.series)
      BY DEF Fits
    <2>2. Reported(q.series, q.newChapter) => Reported(q.series, q.newChapter)'
      BY <1>2, <2>1 DEF Stands
    <2>3. SettledUpTo(q.series, q.prevChapter) => SettledUpTo(q.series, q.prevChapter)'
      BY <1>1, <1>2, <2>1
    <2>4. SettledComplete(q.series) => SettledComplete(q.series)'
      BY <1>1, <2>1
    <2> QED
      BY <2>1, <2>2, <2>3, <2>4
  <1>5. /\ place \in {"lastChapter", "upsert"} /\ q.wasCompleted =>
              AtEnd(req[m].series, req[m].newChapter)'
        /\ place = "upsert" /\ q.status = "COMPLETED" =>
              AtEnd(req[m].series, req[m].newChapter)'
    BY <1>2 DEF Fits, AtEnd
  <1> QED
    BY <1>3, <1>4, <1>5 DEF Fits, completes

\* A record nobody wrote is worth only what is settled, as before.
LEMMA ShelvedStands ==
    ASSUME IInv, Stands, NEW s \in Series, record'[s] = record[s]
    PROVE  Shelved(s)'
  <1> SUFFICES ASSUME record'[s] # NoRecord
               PROVE  /\ Reported(s, record[s].currentChapter)'
                      /\ SettledUpTo(s, record[s].currentChapter)'
                      /\ record'[s].status = "COMPLETED" =>
                            SettledComplete(s)' /\ AtEnd(s, record[s].currentChapter)'
    BY DEF Shelved
  <1> DEFINE n == record[s].currentChapter
  <1>1. /\ n \in Nat /\ Reported(s, n) /\ SettledUpTo(s, n)
        /\ record[s].status = "COMPLETED" => SettledComplete(s) /\ AtEnd(s, n)
    BY DEF IInv, TypeOK, Library, Shelved
  <1>2. Reported(s, n) => Reported(s, n)'
    BY <1>1 DEF Stands, Reported
  <1>3. (SettledUpTo(s, n) => SettledUpTo(s, n)') /\ (SettledComplete(s) => SettledComplete(s)')
    BY <1>1, ReadingAssumption, ClaimsStand DEF SettledUpTo
  <1>4. AtEnd(s, n) => AtEnd(s, record[s].currentChapter)'
    BY <1>1 DEF Stands, AtEnd
  <1> QED
    BY <1>1, <1>2, <1>3, <1>4

\* And so is the library when no record was written.
LEMMA LibraryStands == ASSUME IInv, Stands, UNCHANGED record PROVE Library'
  <1>1. ASSUME NEW s \in Series PROVE Shelved(s)'
    BY ShelvedStands
  <1> QED
    BY <1>1 DEF Library

\* The mirror of badges stands when no request comes to write it.
LEMMA MirrorStands ==
    ASSUME IInv, UNCHANGED badgeVars,
           \A m \in Request : pc'[m] = "badgeRow" => pc[m] = "badgeRow" /\ req'[m] = req[m]
    PROVE  Mirrored'
  BY DEF IInv, badgeVars, Mirrored

\* A request moves to a place where it fits: all that is left to show is what it wrote.
LEMMA RequestMoves ==
    ASSUME IInv, NEW r \in Request, NEW place, NEW q, Moves(r, place, q), Fits(place, q),
           UNCHANGED lastChapter, record' \in [Series -> Records], Library',
           seriesTracked' \in Int, seriesCompleted' \in Nat, chaptersRead' \in Nat,
           registry' \subseteq Key, ledger' \subseteq registry',
           \A key \in registry' \ registry : IsEarned(key),
           badgeRows' \in [Badge -> Nat], badges' \subseteq Badge, Mirrored'
    PROVE  IInv'
  <1>1. /\ pc'[r] = place /\ req'[r] = q
        /\ \A m \in Request \ {r} : pc'[m] = pc[m] /\ req'[m] = req[m]
        /\ pc' \in [Request -> {"idle"} \cup Waiting \cup Ended]
        /\ req' \in [Request -> Locals] /\ Stands /\ q \in Locals
    BY MovesStand DEF Moves
  <1>2. TypeOK'
    <2>1. \A m \in Request :
             /\ req'[m].series \in Series \cup {"none"} /\ req'[m].status \in Status \cup {"none"}
             /\ req'[m].badge \in Badge \cup {"none"} /\ req'[m].rewards \in Seq(Key)
      BY <1>1 DEF Locals
    <2>2. lastChapter' \in [Series -> Nat \cup {NoChapter}] /\ ledger' \subseteq Key
      BY DEF IInv, TypeOK
    <2> QED
      BY <1>1, <2>1, <2>2 DEF TypeOK, Records
  <1>3. Placed'
    <2> SUFFICES ASSUME NEW m \in Request PROVE Fits(pc[m], req[m])'
      BY DEF Placed
    <2>1. CASE m = r
      BY <1>1, <2>1, FitsStand
    <2>2. CASE m # r
      <3>1. /\ pc'[m] = pc[m] /\ req'[m] = req[m] /\ req[m] \in Locals
            /\ Fits(pc[m], req[m])
        BY <1>1, <2>2 DEF IInv, Placed
      <3> QED
        BY <1>1, <3>1, FitsStand
    <2> QED
      BY <2>1, <2>2
  <1>4. Earned'
    <2> SUFFICES ASSUME NEW key \in registry' PROVE IsEarned(key)'
      BY DEF Earned
    <2>1. IsEarned(key) /\ key \in Key
      BY DEF IInv, Earned
    <2> QED
      BY <1>1, <2>1, ReadingAssumption, ClaimsStand
  <1>5. \A s \in Series : lastChapter'[s] >= InitialLast[s]
    BY DEF IInv
  <1> QED
    BY <1>1, <1>2, <1>3, <1>4, <1>5 DEF IInv

\* The steps that leave the rows and the chain alone.
LEMMA RequestMovesOnly ==
    ASSUME IInv, NEW r \in Request, NEW place, NEW q,
           place \in (Waiting \cup Ended) \ {"badgeRow"}, q \in Locals, Move(r, place, q),
           pc[r] \notin Ended, Fits(place, q),
           \/ pc[r] = "idle"
           \/ q.series = req[r].series /\ q.chapter = req[r].chapter /\ q.isNew = req[r].isNew,
           \A key \in Key : OwesAt(pc[r], req[r], key) =>
              key \in registry \/ place = "failed" \/ OwesAt(place, q, key),
           CompletesAt(pc[r], req[r]) =>
              "SERIES_COMPLETIONIST" \in badges \/ place = "failed" \/ CompletesAt(place, q),
           UNCHANGED <<record, lastChapter, passport, inkVars, badgeVars>>
    PROVE  IInv'
  <1>1. UNCHANGED <<record, lastChapter, seriesTracked, seriesCompleted, chaptersRead, ledger,
                    registry, badgeRows, badges>>
    BY DEF passport, inkVars, badgeVars
  <1>2. Moves(r, place, q)
    BY <1>1 DEF Moves
  <1>3. /\ pc'[r] = place /\ Stands
        /\ \A m \in Request \ {r} : pc'[m] = pc[m] /\ req'[m] = req[m]
    BY <1>2, MovesStand
  <1>4. Library'
    BY <1>1, <1>3, LibraryStands
  <1>5. Mirrored'
    BY <1>1, <1>3, MirrorStands
  <1>6. /\ record' \in [Series -> Records] /\ seriesTracked' \in Int /\ seriesCompleted' \in Nat
        /\ chaptersRead' \in Nat /\ registry' \subseteq Key /\ ledger' \subseteq registry'
        /\ badgeRows' \in [Badge -> Nat] /\ badges' \subseteq Badge
    BY <1>1 DEF IInv, TypeOK, Records
  <1> QED
    BY <1>1, <1>2, <1>4, <1>5, <1>6, RequestMoves

-----------------------------------------------------------------------------
(***************************************************************************)
(* The actions.                                                            *)
(***************************************************************************)
LEMMA MaxOfTwo ==
    ASSUME NEW a \in Nat, NEW b \in Nat
    PROVE  Max({a, b}) = IF a >= b THEN a ELSE b
  <1> DEFINE m == IF a >= b THEN a ELSE b
  <1>1. m \in {a, b} /\ \A y \in {a, b} : m >= y
    OBVIOUS
  <1>2. \A x \in {a, b} : (\A y \in {a, b} : x >= y) => x = m
    OBVIOUS
  <1> HIDE DEF m
  <1>3. Max({a, b}) = m
    BY <1>1, <1>2 DEF Max
  <1> QED
    BY <1>3 DEF m

\* What the invariant says of one request.
LEMMA RequestFacts ==
    ASSUME IInv, NEW r \in Request
    PROVE  /\ req[r] \in Locals /\ Fits(pc[r], req[r]) /\ NoRequest \in Locals
           /\ pc[r] \in {"idle"} \cup Waiting \cup Ended
           /\ \A s \in Series : record[s] \in Records
  <1>1. NoRequest \in Locals
    BY EmptySeq DEF NoRequest, Locals
  <1> QED
    BY <1>1 DEF IInv, Placed, TypeOK, Records

\* upsertRecord reads the record: what the record is worth is settled.
LEMMA UpsertBegins ==
    ASSUME IInv, NEW r \in Request, NEW s \in Series, NEW chapter \in Chapter,
           NEW status \in StatusInput, upsertRecord(r, s, chapter, status)
    PROVE  IInv'
  <1> DEFINE old == record[s]
             was == old.status = "COMPLETED"
             q == [series |-> s, chapter |-> chapter,
                   status |-> IF was /\ status = "READING" THEN "COMPLETED" ELSE status,
                   prevChapter |-> old.currentChapter,
                   newChapter |-> Max({old.currentChapter, chapter}),
                   isNew |-> old = NoRecord, wasCompleted |-> was,
                   rewards |-> <<>>, badge |-> "none"]
             place == IF status = "COMPLETED" /\ ~was THEN "lastChapter" ELSE "upsert"
  <1>1. /\ pc[r] = "idle" /\ Move(r, place, q)
        /\ UNCHANGED <<record, lastChapter, passport, inkVars, badgeVars>>
    BY DEF upsertRecord
  <1>2. /\ chapter \in Nat /\ status \in Status /\ old \in Records /\ old.currentChapter \in Nat
    BY ReadingAssumption, RequestFacts DEF Status, Records
  <1>3. q.newChapter = IF old.currentChapter >= chapter THEN old.currentChapter ELSE chapter
    BY <1>2, MaxOfTwo
  <1>4. q \in Locals
    BY <1>2, <1>3, EmptySeq DEF Locals, Status
  <1>5. old # NoRecord => /\ Reported(s, old.currentChapter)
                          /\ SettledUpTo(s, old.currentChapter)
                          /\ was => SettledComplete(s) /\ AtEnd(s, old.currentChapter)
    BY DEF IInv, Library, Shelved
  <1>6. InitialLast[s] \in Int
    BY ReadingAssumption DEF NoChapter
  <1>7. old = NoRecord => old.currentChapter = 0 /\ ~was
    BY DEF NoRecord
  <1>8. /\ q.series = s /\ q.chapter = chapter /\ q.prevChapter = old.currentChapter
        /\ (q.isNew <=> old = NoRecord) /\ (q.wasCompleted <=> was)
        /\ q.status = IF was /\ status = "READING" THEN "COMPLETED" ELSE status
    OBVIOUS
  <1>9. place = "upsert" /\ q.status = "COMPLETED" => was
    BY <1>8
  <1>10. place \in {"lastChapter", "upsert"}
    OBVIOUS
  <1> HIDE DEF q, place, old, was
  <1>11. Fits(place, q)
    <2>1. /\ q.newChapter >= q.prevChapter
          /\ q.newChapter = q.chapter \/ q.newChapter = old.currentChapter
          /\ q.newChapter >= old.currentChapter /\ q.newChapter \in Nat
          /\ q.chapter \in Nat
      BY <1>2, <1>3, <1>8
    <2>2. q.chapter >= q.newChapter \/ Reported(s, q.newChapter)
      BY <1>2, <1>3, <1>5, <1>7, <1>8, <2>1
    <2>3. was => AtEnd(s, q.newChapter)
      BY <1>2, <1>5, <1>6, <1>7, <2>1 DEF AtEnd
    <2> QED
      BY <1>5, <1>7, <1>8, <1>9, <1>10, <2>1, <2>2, <2>3 DEF Fits, Rewarding
  <1>12. place \in (Waiting \cup Ended) \ {"badgeRow"} /\ pc[r] \notin Ended
    BY <1>1, <1>10 DEF Waiting, Ended
  <1> QED
    BY <1>1, <1>4, <1>11, <1>12, RequestMovesOnly DEF OwesAt, CompletesAt, Rewarding

\* A place where a request owes nothing.
LEMMA NothingOwed ==
    ASSUME NEW place \in {"idle", "lastChapter", "upsert", "delete", "badgeRow", "chapters"}
    PROVE  \A q : ~CompletesAt(place, q) /\ \A key : ~OwesAt(place, q, key)
  BY DEF OwesAt, CompletesAt, Rewarding

\* A request ends: it failed, or it owes nothing more.
LEMMA RequestEnds ==
    ASSUME IInv, NEW r \in Request, NEW place \in {"failed", "refused", "aborted", "done"},
           pc[r] \in Waiting, Move(r, place, req[r]),
           \/ place = "failed"
           \/ pc[r] \in {"delete", "badgeRow", "chapters", "upsert"}
           \/ pc[r] \in {"badge", "badgeMint"} /\ req[r].badge \in badges,
           UNCHANGED <<record, lastChapter, passport, inkVars, badgeVars>>
    PROVE  IInv'
  <1>1. req[r] \in Locals /\ Fits(pc[r], req[r]) /\ pc[r] \notin Ended /\ pc[r] # "idle"
    BY RequestFacts DEF Waiting, Ended
  <1>2. Fits(place, req[r])
    BY <1>1 DEF Fits, Rewarding
  <1>3. place \in (Waiting \cup Ended) \ {"badgeRow"}
    BY DEF Ended
  <1>4. place # "failed" => \A key : ~OwesAt(pc[r], req[r], key)
    BY DEF OwesAt, Rewarding
  <1>5. CompletesAt(pc[r], req[r]) => "SERIES_COMPLETIONIST" \in badges \/ place = "failed"
    BY DEF CompletesAt, Rewarding
  <1> QED
    BY <1>1, <1>2, <1>3, <1>4, <1>5, RequestMovesOnly

\* deleteRecord is called.
LEMMA DeleteBegins ==
    ASSUME IInv, NEW r \in Request, NEW s \in Series, deleteRecord(r, s)
    PROVE  IInv'
  <1> DEFINE q == [NoRequest EXCEPT !.series = s]
  <1>1. q \in Locals /\ q.series = s
    BY RequestFacts DEF Locals
  <1>2. PICK place \in {"refused", "delete"} : Move(r, place, q)
    BY DEF deleteRecord
  <1>3. pc[r] = "idle" /\ UNCHANGED <<record, lastChapter, passport, inkVars, badgeVars>>
    BY DEF deleteRecord
  <1>4. Fits(place, q)
    BY <1>1 DEF Fits, Rewarding
  <1>5. place \in (Waiting \cup Ended) \ {"badgeRow"} /\ pc[r] \notin Ended
    BY <1>3 DEF Waiting, Ended
  <1> HIDE DEF q
  <1> QED
    BY <1>1, <1>2, <1>3, <1>4, <1>5, NothingOwed, RequestMovesOnly

\* upsertRecord: only who is at the last chapter becomes COMPLETED.
LEMMA EndChecked == ASSUME IInv, NEW r \in Request, checkReachedEnd(r) PROVE IInv'
  <1> DEFINE last == lastChapter[req[r].series]
             reachedEnd == last # NoChapter /\ req[r].newChapter >= last
             q == [req[r] EXCEPT !.status = IF reachedEnd THEN "COMPLETED" ELSE "READING"]
  <1>1. /\ pc[r] = "lastChapter" /\ Move(r, "upsert", q)
        /\ UNCHANGED <<record, lastChapter, passport, inkVars, badgeVars>>
    BY DEF checkReachedEnd
  <1>2. req[r] \in Locals /\ Fits(pc[r], req[r])
    BY RequestFacts
  <1>3. /\ q \in Locals /\ q.series = req[r].series /\ q.chapter = req[r].chapter
        /\ q.newChapter = req[r].newChapter /\ q.prevChapter = req[r].prevChapter
        /\ q.isNew = req[r].isNew /\ q.wasCompleted = req[r].wasCompleted
        /\ q.status = IF reachedEnd THEN "COMPLETED" ELSE "READING"
    BY <1>2 DEF Locals, Status
  <1>4. req[r].series \in Series
    BY <1>1, <1>2 DEF Fits
  <1>5. reachedEnd => AtEnd(req[r].series, req[r].newChapter)
    <2>1. /\ last \in Int /\ InitialLast[req[r].series] \in Int /\ req[r].newChapter \in Nat
          /\ last >= InitialLast[req[r].series]
      BY <1>2, <1>4, ReadingAssumption DEF IInv, TypeOK, Locals, NoChapter
    <2> QED
      BY <2>1 DEF AtEnd
  <1> HIDE DEF q, reachedEnd
  <1>6. Fits("upsert", q)
    BY <1>1, <1>2, <1>3, <1>5 DEF Fits, Rewarding
  <1>7. "upsert" \in (Waiting \cup Ended) \ {"badgeRow"} /\ pc[r] \notin Ended
    BY <1>1 DEF Waiting, Ended
  <1> QED
    BY <1>1, <1>3, <1>6, <1>7, NothingOwed, RequestMovesOnly

\* The record is written, and what it is worth beyond the one read before is owed.
LEMMA RecordWritten == ASSUME IInv, NEW r \in Request, writeRecord(r) PROVE IInv'
  <1>0. PICK q \in Locals : q = req[r]
    BY RequestFacts
  <1> DEFINE s == q.series
             rewards == rewardsOf(q)
             p == q.prevChapter \div CHAPTER_MILESTONE_INTERVAL
             n == q.newChapter \div CHAPTER_MILESTONE_INTERVAL
             new == [q EXCEPT !.rewards = rewards, !.badge =
                        IF completes(q) THEN "SERIES_COMPLETIONIST" ELSE "FIRST_CHAPTER"]
             place == IF q.isNew THEN "track" ELSE IF rewards # <<>> THEN "reward"
                                                   ELSE afterRewards(q)
  <1>1. /\ pc[r] = "upsert" /\ Move(r, place, new)
        /\ UNCHANGED <<lastChapter, passport, inkVars, badgeVars>>
    BY <1>0 DEF writeRecord
  <1>2. /\ q \in Locals /\ s \in Series /\ q.newChapter >= q.prevChapter
        /\ q.chapter >= q.newChapter \/ Reported(s, q.newChapter)
        /\ q.isNew => q.prevChapter = 0 /\ ~q.wasCompleted
        /\ ~q.isNew => SettledUpTo(s, q.prevChapter)
        /\ q.wasCompleted => SettledComplete(s)
        /\ q.status = "COMPLETED" => AtEnd(s, q.newChapter)
    BY <1>0, <1>1, RequestFacts DEF Fits
  <1>3. /\ q.newChapter \in Nat /\ q.prevChapter \in Nat /\ q.chapter \in Nat
        /\ p \in Nat /\ n \in Nat /\ InitialLast[s] \in Int /\ q.isNew \in BOOLEAN
        /\ n * CHAPTER_MILESTONE_INTERVAL <= q.newChapter
    BY <1>2, ReadingAssumption DEF Locals, CHAPTER_MILESTONE_INTERVAL, NoChapter
  <1>4. /\ rewards \in Seq(Key) /\ (q.isNew => rewards # <<>>)
        /\ \A key : Has(rewards, key) <=>
              \/ q.isNew /\ key = Chapter1(s)
              \/ \E i \in 1 .. (n - p) : key = Milestone(s, (p + i) * CHAPTER_MILESTONE_INTERVAL)
              \/ completes(q) /\ key = Complete(s)
    BY <1>2, RewardsAre
  <1>5. /\ new \in Locals /\ new.series = s /\ new.chapter = q.chapter /\ new.isNew = q.isNew
        /\ new.rewards = rewards /\ (completes(new) <=> completes(q))
        /\ new.badge = IF completes(q) THEN "SERIES_COMPLETIONIST" ELSE "FIRST_CHAPTER"
    BY <1>2, <1>4 DEF Locals, completes, Badge
  <1>6. Reported(s, q.newChapter)
    <2>1. /\ pc[r] # "idle" /\ req[r].series = s /\ req[r].chapter = q.chapter
          /\ q.chapter >= 0
      BY <1>0, <1>1, <1>3
    <2> QED
      BY <1>2, <2>1 DEF Reported
  <1>7. \A m \in Int : m <= q.newChapter => Reported(s, m)
    <2> SUFFICES ASSUME NEW m \in Int, m <= q.newChapter PROVE Reported(s, m)
      OBVIOUS
    <2>1. PICK b \in Request : /\ pc[b] # "idle" /\ req[b].series = s
                               /\ req[b].chapter >= q.newChapter
      BY <1>6 DEF Reported
    <2>2. req[b].chapter \in Nat
      BY DEF IInv, Locals
    <2> QED
      BY <1>3, <2>1, <2>2 DEF Reported
  <1>8. ASSUME rewards = <<>> PROVE ~completes(q) /\ ~q.isNew /\ place = "done"
    <2>1. ~Has(rewards, Complete(s))
      BY <1>8, EmptySeq DEF Has
    <2> QED
      BY <1>4, <1>8, <2>1 DEF afterRewards
  <1>9. place \in {"track", "reward", "done"} /\ (place = "done" <=> rewards = <<>>)
    BY <1>4, <1>8
  <1> HIDE DEF s, rewards, p, n, new, place
  <1>10. ASSUME NEW i \in 1 .. Len(rewards) PROVE IsEarned(rewards[i])
    <2>1. Has(rewards, rewards[i])
      BY DEF Has
    <2>2. CASE q.isNew /\ rewards[i] = Chapter1(s)
      <3>1. pc[r] # "idle" /\ req[r].series = s /\ req[r].isNew
        BY <1>0, <1>1, <2>2 DEF s
      <3> QED
        BY <2>2, <3>1 DEF IsEarned, earns, Chapter1
    <2>3. CASE \E k \in 1 .. (n - p) :
                  rewards[i] = Milestone(s, (p + k) * CHAPTER_MILESTONE_INTERVAL)
      <3>1. PICK k \in 1 .. (n - p) :
               rewards[i] = Milestone(s, (p + k) * CHAPTER_MILESTONE_INTERVAL)
        BY <2>3
      <3> DEFINE m == (p + k) * CHAPTER_MILESTONE_INTERVAL
      <3>2. m \in Nat /\ m <= q.newChapter
        BY <1>3 DEF CHAPTER_MILESTONE_INTERVAL
      <3> HIDE DEF m
      <3>3. Reported(s, m)
        BY <1>7, <3>2
      <3>4. rewards[i] = Milestone(s, m)
        BY <3>1 DEF m
      <3> QED
        BY <3>3, <3>4 DEF IsEarned, earns, Milestone, Reported
    <2>4. CASE completes(q) /\ rewards[i] = Complete(s)
      <3>1. Reported(s, InitialLast[s]) /\ lastChapter[s] # NoChapter
        BY <1>2, <1>3, <1>7, <2>4 DEF completes, AtEnd
      <3> QED
        BY <2>4, <3>1 DEF IsEarned, earns, Complete, Reported
    <2> QED
      BY <1>4, <2>1, <2>2, <2>3, <2>4
  <1>11. Fits(place, new)
    BY <1>2, <1>5, <1>9, <1>10 DEF Fits, Rewarding
  <1>12. \A key : ~OwesAt(pc[r], req[r], key) /\ ~CompletesAt(pc[r], req[r])
    BY <1>1 DEF OwesAt, CompletesAt, Rewarding
  <1>13. UNCHANGED <<lastChapter, seriesTracked, seriesCompleted, chaptersRead, ledger,
                     registry, badgeRows, badges>>
    BY <1>1 DEF passport, inkVars, badgeVars
  <1>14. Moves(r, place, new)
    <2>1. place \in Waiting \cup Ended /\ pc[r] \notin Ended
      BY <1>1, <1>9 DEF Waiting, Ended
    <2> QED
      BY <1>0, <1>1, <1>5, <1>12, <1>13, <2>1 DEF Moves, s
  <1>15. /\ pc'[r] = place /\ Stands
         /\ \A m \in Request \ {r} : pc'[m] = pc[m] /\ req'[m] = req[m]
         /\ \A key \in Key : OwesAt(place, new, key) => Settled(key)'
         /\ CompletesAt(place, new) => BadgeSettled'
    BY <1>14, MovesStand
  <1>16. \A key \in Key : Has(rewards, key) => Settled(key)'
    <2>1. ASSUME rewards = <<>>, NEW key PROVE ~Has(rewards, key)
      BY <2>1, EmptySeq DEF Has
    <2> QED
      BY <1>5, <1>9, <1>15, <2>1 DEF OwesAt, Rewarding
  <1>17. Shelved(s)'
    <2>1. /\ record'[s].status = q.status /\ record'[s].currentChapter = q.newChapter
      BY <1>0, <1>2 DEF writeRecord, s, IInv, TypeOK
    <2>2. Reported(s, q.newChapter)'
      BY <1>2, <1>3, <1>6, <1>15 DEF Stands
    <2>3. ~q.isNew => SettledUpTo(s, q.prevChapter)'
      BY <1>2, <1>3, <1>15, ReadingAssumption, ClaimsStand
    <2>4. Settled(Chapter1(s))'
      <3>1. CASE q.isNew
        <4>1. Has(rewards, Chapter1(s)) /\ Chapter1(s) \in Key
          BY <1>2, <1>4, <3>1 DEF Chapter1, Key
        <4> QED
          BY <1>16, <4>1
      <3>2. CASE ~q.isNew
        BY <2>3, <3>2 DEF SettledUpTo
      <3> QED
        BY <3>1, <3>2
    <2>5. ASSUME NEW m \in 1 .. n PROVE Settled(Milestone(s, m * CHAPTER_MILESTONE_INTERVAL))'
      <3>1. CASE m <= p
        <4>1. ~q.isNew
          BY <1>2, <3>1 DEF p, CHAPTER_MILESTONE_INTERVAL
        <4> QED
          BY <1>3, <2>3, <3>1, <4>1 DEF SettledUpTo, p
      <3>2. CASE ~(m <= p)
        <4>1. m - p \in 1 .. (n - p) /\ p + (m - p) = m
          BY <1>3, <3>2
        <4>2. Has(rewards, Milestone(s, m * CHAPTER_MILESTONE_INTERVAL))
          BY <1>4, <4>1
        <4>3. Milestone(s, m * CHAPTER_MILESTONE_INTERVAL) \in Key
          <5>1. m * CHAPTER_MILESTONE_INTERVAL \in Nat
            BY DEF CHAPTER_MILESTONE_INTERVAL
          <5> QED
            BY <1>2, <5>1, KeysAreKeys
        <4> QED
          BY <1>16, <4>2, <4>3
      <3> QED
        BY <3>1, <3>2
    <2>6. q.status = "COMPLETED" => SettledComplete(s)'
      <3>1. CASE q.wasCompleted
        BY <1>2, <1>15, <3>1, ReadingAssumption, ClaimsStand
      <3>2. CASE q.status = "COMPLETED" /\ ~q.wasCompleted
        <4>1. completes(q) /\ Complete(s) \in Key
          BY <1>2, <3>2 DEF completes, Complete, Key
        <4>2. Has(rewards, Complete(s))
          BY <1>4, <4>1
        <4>3. rewards # <<>>
          BY <1>8, <4>1
        <4>4. CompletesAt(place, new)
          BY <1>5, <1>9, <4>1, <4>3 DEF CompletesAt, Rewarding
        <4> QED
          BY <1>15, <1>16, <4>1, <4>2, <4>4 DEF SettledComplete
      <3> QED
        BY <3>1, <3>2
    <2>7. q.status = "COMPLETED" => AtEnd(s, record[s].currentChapter)'
      <3>1. q.status = "COMPLETED" => AtEnd(s, q.newChapter)'
        BY <1>2, <1>3, <1>15 DEF Stands
      <3> QED
        BY <2>1, <3>1 DEF AtEnd
    <2> QED
      BY <1>2, <2>1, <2>2, <2>4, <2>5, <2>6, <2>7 DEF Shelved, SettledUpTo, n
  <1>18. Library'
    <2>1. \A t \in Series \ {s} : record'[t] = record[t]
      BY <1>0 DEF writeRecord, s, IInv, TypeOK
    <2>2. ASSUME NEW t \in Series PROVE Shelved(t)'
      <3>1. CASE t = s
        BY <1>17, <3>1
      <3>2. CASE t # s
        BY <1>15, <2>1, <3>2, ShelvedStands
      <3> QED
        BY <3>1, <3>2
    <2> QED
      BY <2>2 DEF Library
  <1>19. Mirrored'
    BY <1>1, <1>9, <1>15, MirrorStands
  <1>20. record' \in [Series -> Records]
    <2>1. q.status \in Status \cup {"none"} /\ q.newChapter \in Nat
      BY <1>2 DEF Locals
    <2>2. record \in [Series -> Records]
      BY DEF IInv, TypeOK, Records
    <2> DEFINE row == [status |-> q.status, currentChapter |-> q.newChapter,
                       completedAt |-> IF record[s] = NoRecord THEN q.status = "COMPLETED"
                                       ELSE record[s].completedAt \/ completes(q)]
    <2>3. row \in Records
      <3>1. record[s].completedAt \in BOOLEAN
        BY <1>2, <2>2 DEF Records
      <3> QED
        BY <2>1, <3>1 DEF Records, completes
    <2>4. record' = [record EXCEPT ![s] = row]
      BY <1>0 DEF writeRecord, s
    <2> HIDE DEF row
    <2> QED
      BY <2>2, <2>3, <2>4
  <1>21. /\ seriesTracked' \in Int /\ seriesCompleted' \in Nat
         /\ chaptersRead' \in Nat /\ registry' \subseteq Key /\ ledger' \subseteq registry'
         /\ badgeRows' \in [Badge -> Nat] /\ badges' \subseteq Badge
    BY <1>13 DEF IInv, TypeOK
  <1> QED
    BY <1>11, <1>13, <1>14, <1>18, <1>19, <1>20, <1>21, RequestMoves

\* A request that moves on from place to place with the same locals.
LEMMA SeriesTracked == ASSUME IInv, NEW r \in Request, trackSeries(r) PROVE IInv'
  <1>1. /\ pc[r] = "track" /\ Move(r, "reward", req[r]) /\ seriesTracked' = seriesTracked + 1
        /\ UNCHANGED <<record, lastChapter, seriesCompleted, chaptersRead, ledger, registry,
                      badgeRows, badges>>
    BY DEF trackSeries, inkVars, badgeVars
  <1>2. req[r] \in Locals /\ Fits(pc[r], req[r])
    BY RequestFacts
  <1>3. Fits("reward", req[r])
    BY <1>1, <1>2 DEF Fits, Rewarding
  <1>4. Moves(r, "reward", req[r])
    BY <1>1, <1>2 DEF Moves, Waiting, Ended, OwesAt, CompletesAt, Rewarding
  <1>5. /\ pc'[r] = "reward" /\ Stands
        /\ \A m \in Request \ {r} : pc'[m] = pc[m] /\ req'[m] = req[m]
    BY <1>4, MovesStand
  <1>6. Library' /\ Mirrored'
    BY <1>1, <1>5, LibraryStands, MirrorStands DEF badgeVars
  <1>7. /\ record' \in [Series -> Records] /\ seriesTracked' \in Int /\ seriesCompleted' \in Nat
        /\ chaptersRead' \in Nat /\ registry' \subseteq Key /\ ledger' \subseteq registry'
        /\ badgeRows' \in [Badge -> Nat] /\ badges' \subseteq Badge
    BY <1>1 DEF IInv, TypeOK, Records
  <1> QED
    BY <1>1, <1>3, <1>4, <1>6, <1>7, RequestMoves

\* The reward at hand is on chain: what is left is owed still.
LEMMA NextRewardMoves ==
    ASSUME IInv, NEW r \in Request, pc[r] \in {"reward", "mint"}, NextReward(r),
           registry \subseteq registry', Head(req[r].rewards) \in registry', badges' = badges,
           lastChapter' = lastChapter
    PROVE  /\ Head(req[r].rewards) \in Key /\ IsEarned(Head(req[r].rewards))
           /\ \E place \in (Waiting \cup Ended) \ {"badgeRow"}, q \in Locals :
                 Moves(r, place, q) /\ Fits(place, q)
  <1>0. PICK old \in Locals : old = req[r]
    BY RequestFacts
  <1> DEFINE q == [old EXCEPT !.rewards = Tail(@)]
             place == IF q.rewards = <<>> THEN afterRewards(q) ELSE "reward"
  <1>1. Move(r, place, q)
    BY <1>0 DEF NextReward
  <1>2. /\ old.rewards # <<>> /\ old.rewards \in Seq(Key) /\ old.series \in Series
        /\ \A i \in 1 .. Len(old.rewards) : IsEarned(old.rewards[i])
        /\ old.badge = IF completes(old) THEN "SERIES_COMPLETIONIST" ELSE "FIRST_CHAPTER"
    BY <1>0, RequestFacts DEF Fits, Rewarding, Locals
  <1>3. /\ Tail(old.rewards) \in Seq(Key) /\ Head(old.rewards) \in Key
        /\ \A key : Has(old.rewards, key) => key = Head(old.rewards) \/ Has(Tail(old.rewards), key)
        /\ \A i \in 1 .. Len(Tail(old.rewards)) :
              \E j \in 1 .. Len(old.rewards) : Tail(old.rewards)[i] = old.rewards[j]
        /\ \E j \in 1 .. Len(old.rewards) : Head(old.rewards) = old.rewards[j]
        /\ \A key : ~Has(<<>>, key)
    BY <1>2, TailHas
  <1>4. /\ q \in Locals /\ q.rewards = Tail(old.rewards) /\ q.series = old.series
        /\ q.chapter = old.chapter /\ q.badge = old.badge /\ (completes(q) <=> completes(old))
        /\ q.isNew = old.isNew
    BY <1>3 DEF Locals, completes
  <1>5. place \in {"complete", "badge", "done", "reward"}
    BY DEF afterRewards
  <1>6. /\ place = "reward" <=> q.rewards # <<>>
        /\ place = "complete" => completes(q)
        /\ place \in {"badge", "done"} => ~completes(q)
    BY DEF afterRewards
  <1> HIDE DEF q, place
  <1>7. ASSUME NEW i \in 1 .. Len(q.rewards) PROVE IsEarned(q.rewards[i])
    BY <1>2, <1>3, <1>4
  <1>8. Fits(place, q)
    BY <1>2, <1>4, <1>5, <1>6, <1>7 DEF Fits, Rewarding, Badge
  <1>9. \A key \in Key : OwesAt(pc[r], req[r], key) => key \in registry' \/ OwesAt(place, q, key)
    <2> SUFFICES ASSUME NEW key \in Key, Has(old.rewards, key), key \notin registry'
                 PROVE  OwesAt(place, q, key)
      BY <1>0 DEF OwesAt
    <2>1. key # Head(old.rewards)
      BY <1>0
    <2>2. Has(q.rewards, key)
      BY <1>3, <1>4, <2>1
    <2>3. q.rewards # <<>>
      BY <1>3, <2>2
    <2> QED
      BY <1>6, <2>2, <2>3 DEF OwesAt, Rewarding
  <1>10. CompletesAt(pc[r], req[r]) => CompletesAt(place, q)
    BY <1>0, <1>4, <1>5, <1>6 DEF CompletesAt, Rewarding
  <1>11. place \in (Waiting \cup Ended) \ {"badgeRow"} /\ pc[r] \notin Ended
    BY <1>5 DEF Waiting, Ended
  <1>12. Moves(r, place, q)
    BY <1>0, <1>1, <1>4, <1>9, <1>10, <1>11 DEF Moves
  <1>13. Head(old.rewards) \in Key /\ IsEarned(Head(old.rewards))
    BY <1>2, <1>3
  <1> QED
    BY <1>0, <1>4, <1>8, <1>11, <1>12, <1>13

\* mintEarning for the first reward of the list: found, minted, or minted before.
LEMMA RewardHandled ==
    ASSUME IInv, NEW r \in Request, findLedgerEntry(r) \/ alreadyMinted(r) \/ mintReward(r)
    PROVE  IInv'
  <1>1. CASE pc[r] = "reward" /\ Move(r, "mint", req[r]) /\ findLedgerEntry(r)
    <2>1. req[r] \in Locals /\ Fits(pc[r], req[r])
      BY RequestFacts
    <2>2. Fits("mint", req[r])
      BY <1>1, <2>1 DEF Fits, Rewarding
    <2>3. /\ "mint" \in (Waiting \cup Ended) \ {"badgeRow"} /\ pc[r] \notin Ended
      BY <1>1 DEF Waiting, Ended
    <2>4. UNCHANGED <<record, lastChapter, passport, inkVars, badgeVars>>
      BY <1>1 DEF findLedgerEntry
    <2>5. /\ \A key : OwesAt(pc[r], req[r], key) => OwesAt("mint", req[r], key)
          /\ CompletesAt(pc[r], req[r]) => CompletesAt("mint", req[r])
      BY <1>1 DEF OwesAt, CompletesAt, Rewarding
    <2> QED
      BY <1>1, <2>1, <2>2, <2>3, <2>4, <2>5, RequestMovesOnly
  <1>2. CASE ~(pc[r] = "reward" /\ Move(r, "mint", req[r]) /\ findLedgerEntry(r))
    <2> DEFINE key == Head(req[r].rewards)
    <2>1. /\ pc[r] \in {"reward", "mint"} /\ NextReward(r)
          /\ registry \subseteq registry' /\ registry' \subseteq registry \cup {key}
          /\ key \in registry' /\ ledger' \subseteq registry'
          /\ UNCHANGED <<record, lastChapter, seriesTracked, seriesCompleted, chaptersRead,
                        badgeRows, badges>>
      BY <1>2 DEF findLedgerEntry, alreadyMinted, mintReward, passport, inkVars, badgeVars, IInv
    <2>2. /\ key \in Key /\ IsEarned(key)
          /\ \E place \in (Waiting \cup Ended) \ {"badgeRow"}, q \in Locals :
                Moves(r, place, q) /\ Fits(place, q)
      BY <2>1, NextRewardMoves
    <2>3. PICK place \in (Waiting \cup Ended) \ {"badgeRow"}, q \in Locals :
             Moves(r, place, q) /\ Fits(place, q)
      BY <2>2
    <2>4. /\ pc'[r] = place /\ Stands
          /\ \A m \in Request \ {r} : pc'[m] = pc[m] /\ req'[m] = req[m]
      BY <2>3, MovesStand
    <2>5. Library' /\ Mirrored'
      BY <2>1, <2>4, LibraryStands, MirrorStands DEF badgeVars
    <2>6. /\ record' \in [Series -> Records] /\ seriesTracked' \in Int /\ seriesCompleted' \in Nat
          /\ chaptersRead' \in Nat /\ registry' \subseteq Key
          /\ badgeRows' \in [Badge -> Nat] /\ badges' \subseteq Badge
      BY <2>1, <2>2 DEF IInv, TypeOK, Records
    <2>7. \A k \in registry' \ registry : IsEarned(k)
      BY <2>1, <2>2
    <2> QED
      BY <2>1, <2>3, <2>5, <2>6, <2>7, RequestMoves
  <1> QED
    BY <1>1, <1>2

\* earn executes and nothing mirrors it.
LEMMA RewardUnmirrored == ASSUME IInv, NEW r \in Request, mintUnmirrored(r) PROVE IInv'
  <1> DEFINE key == Head(req[r].rewards)
  <1>1. /\ pc[r] = "mint" /\ Move(r, "failed", req[r]) /\ registry' = registry \cup {key}
        /\ UNCHANGED <<record, lastChapter, seriesTracked, seriesCompleted, chaptersRead, ledger,
                      badgeRows, badges>>
    BY DEF mintUnmirrored, passport, badgeVars
  <1>2. req[r] \in Locals /\ Fits(pc[r], req[r])
    BY RequestFacts
  <1>3. key \in Key /\ IsEarned(key)
    <2>1. /\ req[r].rewards \in Seq(Key) /\ req[r].rewards # <<>>
          /\ \A i \in 1 .. Len(req[r].rewards) : IsEarned(req[r].rewards[i])
      BY <1>1, <1>2 DEF Fits, Rewarding, Locals
    <2>2. key \in Key /\ \E j \in 1 .. Len(req[r].rewards) : key = req[r].rewards[j]
      BY <2>1, TailHas
    <2> QED
      BY <2>1, <2>2
  <1>4. Fits("failed", req[r])
    BY <1>1, <1>2 DEF Fits, Rewarding
  <1>5. Moves(r, "failed", req[r])
    BY <1>1, <1>2 DEF Moves, Waiting, Ended
  <1>6. /\ pc'[r] = "failed" /\ Stands
        /\ \A m \in Request \ {r} : pc'[m] = pc[m] /\ req'[m] = req[m]
    BY <1>5, MovesStand
  <1>7. Library' /\ Mirrored'
    BY <1>1, <1>6, LibraryStands, MirrorStands DEF badgeVars
  <1>8. /\ record' \in [Series -> Records] /\ seriesTracked' \in Int /\ seriesCompleted' \in Nat
        /\ chaptersRead' \in Nat /\ registry' \subseteq Key /\ ledger' \subseteq registry'
        /\ badgeRows' \in [Badge -> Nat] /\ badges' \subseteq Badge
    BY <1>1, <1>3 DEF IInv, TypeOK, Records
  <1>9. \A k \in registry' \ registry : IsEarned(k)
    BY <1>1, <1>3
  <1> QED
    BY <1>1, <1>4, <1>5, <1>7, <1>8, <1>9, RequestMoves

-----------------------------------------------------------------------------
\* The completion is counted, then the badges.
LEMMA SeriesCompleted ==
    ASSUME IInv, NEW r \in Request, completeSeries(r) \/ countChapters(r)
    PROVE  IInv'
  <1>0. PICK old \in Locals : old = req[r] /\ Fits(pc[r], old)
    BY RequestFacts
  <1> DEFINE q == IF pc[r] = "complete" THEN old ELSE [old EXCEPT !.badge = "FIRST_CHAPTER"]
  <1>1. /\ pc[r] \in {"complete", "chapters"}
        /\ UNCHANGED <<record, lastChapter, seriesTracked, ledger, registry, badgeRows, badges>>
        /\ seriesCompleted' \in Nat /\ chaptersRead' \in Nat
    <2>1. old.newChapter \in Nat
      BY DEF Locals
    <2> QED
      BY <1>0, <2>1 DEF completeSeries, countChapters, inkVars, badgeVars, IInv, TypeOK
  <1>2. \E place \in {"badge", "done"} : Move(r, place, q) /\ (pc[r] = "complete" => place = "badge")
    BY <1>0 DEF completeSeries, countChapters
  <1>3. PICK place \in {"badge", "done"} :
           Move(r, place, q) /\ (pc[r] = "complete" => place = "badge")
    BY <1>2
  <1>4. /\ q \in Locals /\ q.series = old.series /\ q.chapter = old.chapter /\ q.badge \in Badge
        /\ q.isNew = old.isNew
        /\ pc[r] = "complete" => q.badge = "SERIES_COMPLETIONIST"
    BY <1>0, <1>1 DEF Locals, Badge, Fits, Rewarding
  <1> HIDE DEF q
  <1>5. Fits(place, q)
    BY <1>0, <1>1, <1>4 DEF Fits, Rewarding
  <1>6. Moves(r, place, q)
    <2>1. place \in Waiting \cup Ended /\ pc[r] \notin Ended
      BY <1>1 DEF Waiting, Ended
    <2>2. \A key : ~OwesAt(pc[r], req[r], key)
      BY <1>1 DEF OwesAt, Rewarding
    <2>3. CompletesAt(pc[r], req[r]) => CompletesAt(place, q)
      BY <1>1, <1>3, <1>4 DEF CompletesAt, Rewarding
    <2> QED
      BY <1>0, <1>1, <1>3, <1>4, <2>1, <2>2, <2>3 DEF Moves
  <1>7. /\ pc'[r] = place /\ Stands
        /\ \A m \in Request \ {r} : pc'[m] = pc[m] /\ req'[m] = req[m]
    BY <1>6, MovesStand
  <1>8. Library' /\ Mirrored'
    BY <1>1, <1>7, LibraryStands, MirrorStands DEF badgeVars
  <1>9. /\ record' \in [Series -> Records] /\ seriesTracked' \in Int
        /\ registry' \subseteq Key /\ ledger' \subseteq registry'
        /\ badgeRows' \in [Badge -> Nat] /\ badges' \subseteq Badge
    BY <1>1 DEF IInv, TypeOK, Records
  <1> QED
    BY <1>1, <1>5, <1>6, <1>8, <1>9, RequestMoves

\* BadgesService.mint looks for the badge in its mirror.
LEMMA BadgeFound == ASSUME IInv, NEW r \in Request, findBadge(r) PROVE IInv'
  <1>1. /\ req[r] \in Locals /\ Fits(pc[r], req[r]) /\ pc[r] = "badge" /\ req[r].badge \in Badge
        /\ UNCHANGED <<record, lastChapter, passport, inkVars, badgeVars>>
    BY RequestFacts DEF findBadge, Fits
  <1>2. badgeRows[req[r].badge] > 0 => req[r].badge \in badges
    <2>1. badgeRows[req[r].badge] \in Nat
      BY <1>1 DEF IInv, TypeOK
    <2> QED
      BY <1>1, <2>1 DEF IInv, Mirrored
  <1>3. CASE badgeRows[req[r].badge] > 0
    <2>1. PICK place \in {"chapters", "done"} : Move(r, place, req[r])
      BY <1>3 DEF findBadge, afterBadge
    <2>2. Fits(place, req[r])
      BY <1>1 DEF Fits, Rewarding
    <2>3. place \in (Waiting \cup Ended) \ {"badgeRow"} /\ pc[r] \notin Ended
      BY <1>1 DEF Waiting, Ended
    <2>4. /\ \A key : ~OwesAt(pc[r], req[r], key)
          /\ CompletesAt(pc[r], req[r]) => "SERIES_COMPLETIONIST" \in badges
      BY <1>1, <1>2, <1>3 DEF OwesAt, CompletesAt, Rewarding
    <2> QED
      BY <1>1, <2>1, <2>2, <2>3, <2>4, RequestMovesOnly
  <1>4. CASE ~(badgeRows[req[r].badge] > 0)
    <2>1. Move(r, "badgeMint", req[r])
      BY <1>4 DEF findBadge
    <2>2. Fits("badgeMint", req[r])
      BY <1>1 DEF Fits, Rewarding
    <2>3. "badgeMint" \in (Waiting \cup Ended) \ {"badgeRow"} /\ pc[r] \notin Ended
      BY <1>1 DEF Waiting, Ended
    <2>4. /\ \A key : ~OwesAt(pc[r], req[r], key)
          /\ CompletesAt(pc[r], req[r]) => CompletesAt("badgeMint", req[r])
      BY <1>1 DEF OwesAt, CompletesAt, Rewarding
    <2> QED
      BY <1>1, <2>1, <2>2, <2>3, <2>4, RequestMovesOnly
  <1> QED
    BY <1>3, <1>4

\* The badge registry and its mirror.
LEMMA BadgeMoves ==
    ASSUME IInv, NEW r \in Request, mintBadge(r) \/ badgeUnmirrored(r) \/ createBadgeRow(r)
    PROVE  IInv'
  <1>0. PICK q \in Locals, b \in Badge : q = req[r] /\ b = q.badge /\ Fits(pc[r], q)
    BY RequestFacts DEF mintBadge, badgeUnmirrored, createBadgeRow, Fits
  <1>1. /\ pc[r] \in {"badgeMint", "badgeRow"}
        /\ UNCHANGED <<record, lastChapter, seriesTracked, seriesCompleted, chaptersRead, ledger,
                      registry>>
    BY DEF mintBadge, badgeUnmirrored, createBadgeRow, passport, inkVars
  <1>2. /\ \/ /\ pc[r] = "badgeMint" /\ b \notin badges /\ badges' = badges \cup {b}
              /\ badgeRows' = badgeRows
           \/ /\ pc[r] = "badgeRow" /\ badges' = badges
              /\ badgeRows' = [badgeRows EXCEPT ![b] = @ + 1]
    BY <1>0 DEF mintBadge, badgeUnmirrored, createBadgeRow
  <1>3. PICK place \in {"badgeRow", "failed", "chapters", "done"} :
           Move(r, place, q) /\ (place = "badgeRow" => pc[r] = "badgeMint")
    <2>1. CASE mintBadge(r)
      BY <1>0, <2>1 DEF mintBadge
    <2>2. CASE badgeUnmirrored(r)
      BY <1>0, <2>2 DEF badgeUnmirrored
    <2>3. CASE createBadgeRow(r)
      BY <1>0, <2>3 DEF createBadgeRow, afterBadge
    <2> QED
      BY <2>1, <2>2, <2>3
  <1>4. Fits(place, q)
    BY <1>0, <1>1 DEF Fits, Rewarding
  <1>5. Moves(r, place, q)
    <2>1. place \in Waiting \cup Ended /\ pc[r] \notin Ended
      BY <1>1 DEF Waiting, Ended
    <2>2. \A key : ~OwesAt(pc[r], req[r], key)
      BY <1>1 DEF OwesAt, Rewarding
    <2>3. CompletesAt(pc[r], req[r]) => "SERIES_COMPLETIONIST" \in badges'
      BY <1>0, <1>2 DEF CompletesAt, Rewarding
    <2> QED
      BY <1>0, <1>1, <1>2, <1>3, <2>1, <2>2, <2>3 DEF Moves
  <1>6. /\ pc'[r] = place /\ req'[r] = q /\ Stands
        /\ \A m \in Request \ {r} : pc'[m] = pc[m] /\ req'[m] = req[m]
    BY <1>5, MovesStand
  <1>7. Library'
    BY <1>1, <1>6, LibraryStands
  <1>8. badgeRows \in [Badge -> Nat] /\ badges \subseteq Badge /\ Mirrored
    BY DEF IInv, TypeOK
  <1>9. badgeRows' \in [Badge -> Nat] /\ badges' \subseteq Badge
    BY <1>2, <1>8
  <1>10. Mirrored'
    <2>1. CASE pc[r] = "badgeMint"
      <3>1. badges' = badges \cup {b} /\ badgeRows' = badgeRows /\ b \notin badges
        BY <1>2, <2>1
      <3>2. badgeRows[b] = 0
        BY <1>8, <3>1 DEF Mirrored
      <3>3. \A m \in Request : pc'[m] = "badgeRow" /\ req'[m].badge = b => m = r
        BY <1>6, <1>8, <3>1 DEF Mirrored
      <3>4. \A m \in Request \ {r} : pc'[m] = pc[m] /\ req'[m].badge = req[m].badge
        BY <1>6
      <3>5. req'[r].badge = b
        BY <1>0, <1>6
      <3> QED
        BY <1>8, <3>1, <3>2, <3>3, <3>4, <3>5 DEF Mirrored
    <2>2. CASE pc[r] = "badgeRow"
      <3>1. badges' = badges /\ badgeRows' = [badgeRows EXCEPT ![b] = @ + 1] /\ place # "badgeRow"
        BY <1>2, <1>3, <2>2
      <3>2. b \in badges /\ badgeRows[b] = 0
        BY <1>0, <1>8, <2>2 DEF Mirrored
      <3>3. badgeRows'[b] = 1 /\ \A c \in Badge \ {b} : badgeRows'[c] = badgeRows[c]
        BY <1>8, <3>1, <3>2
      <3>4. \A m \in Request : pc'[m] = "badgeRow" =>
               pc[m] = "badgeRow" /\ req'[m] = req[m] /\ m # r
        BY <1>6, <3>1
      <3>5. \A m \in Request : pc'[m] = "badgeRow" => req[m].badge # b
        BY <1>0, <1>8, <2>2, <3>4 DEF Mirrored
      <3> QED
        BY <1>8, <3>1, <3>2, <3>3, <3>4, <3>5 DEF Mirrored
    <2> QED
      BY <1>1, <2>1, <2>2
  <1>11. /\ record' \in [Series -> Records] /\ seriesTracked' \in Int /\ seriesCompleted' \in Nat
         /\ chaptersRead' \in Nat /\ registry' \subseteq Key /\ ledger' \subseteq registry'
    BY <1>1 DEF IInv, TypeOK, Records
  <1> QED
    BY <1>1, <1>4, <1>5, <1>7, <1>9, <1>10, <1>11, RequestMoves

\* deleteRecord: a record that is gone is worth nothing.
LEMMA RecordRemoved == ASSUME IInv, NEW r \in Request, removeRecord(r) PROVE IInv'
  <1>1. /\ pc[r] = "delete" /\ pc[r] \in Waiting
        /\ UNCHANGED <<lastChapter, seriesCompleted, chaptersRead, ledger, registry, badgeRows,
                      badges>>
    BY DEF removeRecord, inkVars, badgeVars, Waiting
  <1>2. CASE record[req[r].series] = NoRecord
    <2>1. /\ Move(r, "refused", req[r])
          /\ UNCHANGED <<record, lastChapter, passport, inkVars, badgeVars>>
      BY <1>1, <1>2 DEF removeRecord, passport, inkVars, badgeVars
    <2> QED
      BY <1>1, <2>1, RequestEnds
  <1>3. CASE record[req[r].series] # NoRecord
    <2>0. PICK s \in Series : s = req[r].series
      BY <1>1, RequestFacts DEF Fits
    <2>1. /\ Move(r, "done", req[r]) /\ record' = [record EXCEPT ![s] = NoRecord]
          /\ seriesTracked' = seriesTracked - 1
      BY <1>3, <2>0 DEF removeRecord
    <2>2. req[r] \in Locals /\ Fits(pc[r], req[r])
      BY RequestFacts
    <2>3. Fits("done", req[r])
      BY <1>1, <2>2 DEF Fits, Rewarding
    <2>4. Moves(r, "done", req[r])
      <3>1. "done" \in Waiting \cup Ended /\ pc[r] \notin Ended
        BY <1>1 DEF Waiting, Ended
      <3> QED
        BY <1>1, <2>1, <2>2, <3>1, NothingOwed DEF Moves
    <2>5. /\ pc'[r] = "done" /\ Stands
          /\ \A m \in Request \ {r} : pc'[m] = pc[m] /\ req'[m] = req[m]
      BY <2>4, MovesStand
    <2>6. Library'
      <3>1. ASSUME NEW t \in Series PROVE Shelved(t)'
        <4>1. CASE t = s
          BY <2>1, <4>1 DEF Shelved, IInv, TypeOK
        <4>2. CASE t # s
          <5>1. record'[t] = record[t]
            BY <2>1, <4>2 DEF IInv, TypeOK
          <5> QED
            BY <2>5, <5>1, ShelvedStands
        <4> QED
          BY <4>1, <4>2
      <3> QED
        BY <3>1 DEF Library
    <2>7. Mirrored'
      BY <1>1, <2>5, MirrorStands DEF badgeVars
    <2>8. NoRecord \in Records
      BY DEF NoRecord, Records
    <2>9. /\ record' \in [Series -> Records] /\ seriesTracked' \in Int /\ seriesCompleted' \in Nat
          /\ chaptersRead' \in Nat /\ registry' \subseteq Key /\ ledger' \subseteq registry'
          /\ badgeRows' \in [Badge -> Nat] /\ badges' \subseteq Badge
      BY <1>1, <2>1, <2>8 DEF IInv, TypeOK, Records
    <2> QED
      BY <1>1, <2>3, <2>4, <2>6, <2>7, <2>9, RequestMoves
  <1> QED
    BY <1>2, <1>3

\* A query fails, or the mint of a badge aborts: the request settles what it owed by failing.
LEMMA RequestFails ==
    ASSUME IInv, NEW r \in Request, stepFails(r) \/ badgeAborts(r)
    PROVE  IInv'
  <1>1. UNCHANGED <<record, lastChapter, passport, inkVars, badgeVars>> /\ pc[r] \in Waiting
    BY DEF stepFails, badgeAborts, Waiting
  <1>2. CASE stepFails(r)
    BY <1>1, <1>2, RequestEnds DEF stepFails
  <1>3. CASE badgeAborts(r)
    BY <1>1, <1>3, RequestEnds DEF badgeAborts
  <1> QED
    BY <1>2, <1>3

-----------------------------------------------------------------------------
\* A crash fails every request under way.
LEMMA ServerDies == ASSUME IInv, Crash PROVE IInv'
  <1>1. /\ UNCHANGED <<record, lastChapter, seriesTracked, seriesCompleted, chaptersRead, ledger,
                      registry, badgeRows, badges, req>>
        /\ pc' = [r \in Request |-> IF pc[r] \in Waiting THEN "crashed" ELSE pc[r]]
        /\ \E r \in Request : pc[r] \in Waiting
    BY DEF Crash, passport, inkVars, badgeVars
  <1>2. \A r \in Request : pc'[r] = IF pc[r] \in Waiting THEN "crashed" ELSE pc[r]
    BY <1>1
  <1>3. Faulty'
    BY <1>1, <1>2 DEF Faulty
  <1>4. /\ \A key : Settled(key)'
        /\ BadgeSettled'
        /\ \A s : SettledComplete(s)' /\ \A n : SettledUpTo(s, n)'
    BY <1>3 DEF Settled, BadgeSettled, SettledUpTo, SettledComplete
  <1>5. /\ \A s, n : Reported(s, n) => Reported(s, n)'
        /\ \A key : IsEarned(key) => IsEarned(key)'
        /\ \A s, n : AtEnd(s, n) => AtEnd(s, n)'
    BY <1>1, <1>2 DEF Reported, IsEarned, earns, AtEnd, Waiting
  <1>6. TypeOK' /\ req' \in [Request -> Locals]
    BY <1>1 DEF IInv, TypeOK, Ended
  <1>7. Library'
    <2>1. ASSUME NEW s \in Series PROVE Shelved(s)'
      BY <1>1, <1>4, <1>5 DEF IInv, Library, Shelved
    <2> QED
      BY <2>1 DEF Library
  <1>8. Placed'
    <2> SUFFICES ASSUME NEW m \in Request PROVE Fits(pc[m], req[m])'
      BY DEF Placed
    <2>1. Fits(pc[m], req[m]) /\ pc[m] \in {"idle"} \cup Waiting \cup Ended
      BY RequestFacts
    <2>2. CASE pc[m] \in Waiting
      BY <1>1, <1>2, <2>1, <2>2 DEF Fits, Rewarding, Waiting
    <2>3. CASE pc[m] \notin Waiting
      BY <1>1, <1>2, <2>1, <2>3 DEF Fits, Rewarding, Ended
    <2> QED
      BY <2>2, <2>3
  <1>9. Mirrored'
    <2>1. \A m \in Request : pc'[m] # "badgeRow"
      BY <1>2 DEF Waiting
    <2> QED
      BY <1>1, <2>1 DEF IInv, Mirrored
  <1>10. Earned'
    BY <1>1, <1>5 DEF IInv, Earned, IsEarned
  <1> QED
    BY <1>1, <1>6, <1>7, <1>8, <1>9, <1>10 DEF IInv

\* Chapters are added; or nothing happens.
LEMMA WorldMoves ==
    ASSUME IInv, (\E s \in Series : chaptersAdded(s)) \/ UNCHANGED vars
    PROVE  IInv'
  <1>1. /\ UNCHANGED <<record, seriesTracked, seriesCompleted, chaptersRead, ledger,
                      registry, badgeRows, badges, pc, req>>
    BY DEF chaptersAdded, vars, passport, inkVars, badgeVars
  <1>2. /\ lastChapter' \in [Series -> Nat \cup {NoChapter}]
        /\ \A s \in Series : lastChapter'[s] >= InitialLast[s]
        /\ \A s \in Series : lastChapter[s] # NoChapter => lastChapter'[s] # NoChapter
    <2>1. /\ lastChapter \in [Series -> Nat \cup {NoChapter}]
          /\ \A s \in Series : InitialLast[s] \in Nat \cup {NoChapter}
          /\ \A s \in Series : lastChapter[s] >= InitialLast[s]
      BY ReadingAssumption DEF IInv, TypeOK
    <2>2. CASE UNCHANGED vars
      BY <2>1, <2>2 DEF vars
    <2>3. CASE \E s \in Series : chaptersAdded(s)
      <3>1. PICK s \in Series : /\ lastChapter[s] < MaxLast
                                /\ lastChapter' = [lastChapter EXCEPT ![s] = MaxLast]
        BY <2>3 DEF chaptersAdded
      <3> QED
        BY <2>1, <3>1, ReadingAssumption DEF NoChapter
    <2> QED
      BY <2>2, <2>3
  <1>3. TypeOK' /\ req' \in [Request -> Locals] /\ ledger' \subseteq registry'
    BY <1>1, <1>2 DEF IInv, TypeOK
  <1>4. /\ \A s, n : Reported(s, n)' <=> Reported(s, n)
        /\ Faulty' <=> Faulty
        /\ \A s \in Series : \A n : AtEnd(s, n) => AtEnd(s, n)'
        /\ \A key \in Key : IsEarned(key) => IsEarned(key)'
    <2>1. \A key \in Key : key[1] \in Series
      BY DEF Key
    <2> QED
      BY <1>1, <1>2, <2>1 DEF Reported, Faulty, AtEnd, IsEarned, earns
  <1>5. /\ \A key : Settled(key)' <=> Settled(key)
        /\ BadgeSettled' <=> BadgeSettled
    BY <1>1, <1>4 DEF Settled, BadgeSettled, OwesAt, CompletesAt, completes
  <1>6. /\ \A s, n : SettledUpTo(s, n)' <=> SettledUpTo(s, n)
        /\ \A s : SettledComplete(s)' <=> SettledComplete(s)
    BY <1>5 DEF SettledUpTo, SettledComplete
  <1>7. Library'
    <2>1. ASSUME NEW s \in Series PROVE Shelved(s)'
      BY <1>1, <1>4, <1>6 DEF IInv, Library, Shelved
    <2> QED
      BY <2>1 DEF Library
  <1>8. Placed'
    <2> SUFFICES ASSUME NEW m \in Request PROVE Fits(pc[m], req[m])'
      BY DEF Placed
    <2>1. Fits(pc[m], req[m]) /\ req[m] \in Locals /\ pc'[m] = pc[m] /\ req'[m] = req[m]
      BY <1>1, RequestFacts
    <2>2. Stands
      BY <1>4, <1>5 DEF Stands
    <2> QED
      BY <2>1, <2>2, FitsStand
  <1>9. Mirrored'
    BY <1>1 DEF IInv, Mirrored
  <1>10. Earned'
    BY <1>1, <1>4 DEF IInv, TypeOK, Earned
  <1> QED
    BY <1>2, <1>3, <1>7, <1>8, <1>9, <1>10 DEF IInv

-----------------------------------------------------------------------------
\* The library is empty and nothing is under way at first.
LEMMA InitSound == Init => IInv
  <1> SUFFICES ASSUME Init PROVE IInv
    OBVIOUS
  <1>1. NoRequest \in Locals /\ NoRecord \in Records
    BY EmptySeq DEF NoRequest, NoRecord, Locals, Records
  <1>2. \A r \in Request : pc[r] = "idle" /\ req[r] = NoRequest
    BY DEF Init
  <1>3. req \in [Request -> Locals]
    BY <1>1 DEF Init
  <1>4. TypeOK
    <2>1. record \in [Series -> Records] /\ badgeRows \in [Badge -> Nat]
      BY <1>1 DEF Init
    <2>2. /\ pc \in [Request -> {"idle"} \cup Waiting \cup Ended]
          /\ lastChapter \in [Series -> Nat \cup {NoChapter}]
      BY ReadingAssumption DEF Init
    <2>3. \A r \in Request :
             /\ req[r].series \in Series \cup {"none"} /\ req[r].status \in Status \cup {"none"}
             /\ req[r].badge \in Badge \cup {"none"} /\ req[r].rewards \in Seq(Key)
      BY <1>3 DEF Locals
    <2> QED
      BY <2>1, <2>2, <2>3 DEF Init, TypeOK, Records
  <1>5. Library /\ Mirrored /\ Earned /\ ledger \subseteq registry
    BY <1>2 DEF Init, Library, Shelved, Mirrored, Earned
  <1>6. Placed
    BY <1>2 DEF Placed, Fits, Rewarding
  <1>7. \A s \in Series : lastChapter[s] >= InitialLast[s]
    BY ReadingAssumption DEF Init, NoChapter
  <1> QED
    BY <1>3, <1>4, <1>5, <1>6, <1>7 DEF IInv

\* Every step keeps the invariant.
LEMMA StepKeeps == IInv /\ [Next]_vars => IInv'
  <1> SUFFICES ASSUME IInv, [Next]_vars PROVE IInv'
    OBVIOUS
  <1>1. CASE (\E s \in Series : chaptersAdded(s)) \/ UNCHANGED vars
    BY <1>1, WorldMoves
  <1>2. CASE Crash
    BY <1>2, ServerDies
  <1>3. ASSUME NEW r \in Request, Arrive(r) PROVE IInv'
    BY <1>3, UpsertBegins, DeleteBegins DEF Arrive
  <1>4. ASSUME NEW r \in Request, Proceed(r) PROVE IInv'
    BY <1>4, EndChecked, RecordWritten, SeriesTracked, RewardHandled, SeriesCompleted, BadgeFound,
       BadgeMoves, RequestFails, RecordRemoved DEF Proceed
  <1>5. ASSUME NEW r \in Request, Fail(r) PROVE IInv'
    BY <1>5, RewardUnmirrored, BadgeMoves, RequestFails DEF Fail
  <1> QED
    BY <1>1, <1>2, <1>3, <1>4, <1>5 DEF Next

\* The invariant holds in every behaviour.
LEMMA AlwaysSound == Spec => []IInv
  <1> QED
    BY InitSound, StepKeeps, PTL DEF Spec

-----------------------------------------------------------------------------
(***************************************************************************)
(* Passport.seriesTracked against the rows.                                *)
(***************************************************************************)
Tracked  == {s \in Series : record[s] # NoRecord}
Tracking == {r \in Request : pc[r] = "track"}
New(s)   == {r \in Request : req[r].series = s /\ req[r].isNew}
Deletes  == {r \in Request : req[r].series # "none" /\ req[r].status = "none"}
OneNew   == \A s \in Series : \A r, q \in New(s) : r = q

BeforeWrite == {"idle", "lastChapter", "upsert"}
\* An update that found the series in the library.
Updates(r, s) == req[r].series = s /\ req[r].status # "none" /\ ~req[r].isNew

\* What the fields of a request say of its kind.
Kinds == \A r \in Request :
    /\ pc[r] = "idle" => req[r] = NoRequest
    /\ pc[r] = "delete" => req[r].status = "none" /\ req[r].series \in Series
    /\ pc[r] \in {"lastChapter", "upsert"} =>
          req[r].status # "none" /\ req[r].series \in Series
    /\ req[r].isNew => req[r].status # "none" /\ req[r].series \in Series

\* Before a request that found a series new has written it, nobody has found it.
FirstIsNew == \A s \in Series :
    (\A r \in New(s) : pc[r] \in BeforeWrite) =>
       record[s] = NoRecord /\ \A r \in Request : ~Updates(r, s)

\* Without a deletion, what was found stays.
FoundStays == Deletes = {} =>
    \A r \in Request, s \in Series : Updates(r, s) => record[s] # NoRecord

CountInv ==
    /\ Kinds /\ FirstIsNew /\ FoundStays
    /\ OneNew => seriesTracked + Cardinality(Tracking) <= Cardinality(Tracked)
    /\ Deletes = {} /\ ~Faulty => seriesTracked + Cardinality(Tracking) >= Cardinality(Tracked)

\* The sets that are counted are finite, before and after a step.
LEMMA Finite ==
    /\ IsFiniteSet(Tracked) /\ IsFiniteSet(Tracking)
    /\ IsFiniteSet(Tracked') /\ IsFiniteSet(Tracking')
    /\ Cardinality(Tracked) \in Nat /\ Cardinality(Tracking) \in Nat
    /\ Cardinality(Tracked') \in Nat /\ Cardinality(Tracking') \in Nat
  <1>1. /\ Tracked \in SUBSET Series /\ Tracking \in SUBSET Request
        /\ Tracked' \in SUBSET Series /\ Tracking' \in SUBSET Request
    BY DEF Tracked, Tracking
  <1>2. /\ IsFiniteSet(Tracked) /\ IsFiniteSet(Tracking)
        /\ IsFiniteSet(Tracked') /\ IsFiniteSet(Tracking')
    BY <1>1, ReadingAssumption, FS_Subset
  <1> QED
    BY <1>2, FS_CardinalityType

\* One request more, or fewer, on its way to the counter.
LEMMA CountMoves ==
    ASSUME NEW r \in Request, \A m \in Request \ {r} : pc'[m] = pc[m]
    PROVE  Cardinality(Tracking') = Cardinality(Tracking)
              + (IF pc'[r] = "track" THEN 1 ELSE 0) - (IF pc[r] = "track" THEN 1 ELSE 0)
  <1>1. CASE pc'[r] = "track" /\ pc[r] # "track"
    <2>1. Tracking' = Tracking \cup {r} /\ r \notin Tracking
      BY <1>1 DEF Tracking
    <2> QED
      BY <1>1, <2>1, Finite, FS_AddElement
  <1>2. CASE pc'[r] # "track" /\ pc[r] = "track"
    <2>1. Tracking' = Tracking \ {r} /\ r \in Tracking
      BY <1>2 DEF Tracking
    <2> QED
      BY <1>2, <2>1, Finite, FS_RemoveElement
  <1>3. CASE (pc'[r] = "track") <=> (pc[r] = "track")
    <2>1. Tracking' = Tracking
      BY <1>3 DEF Tracking
    <2> QED
      BY <1>3, <2>1, Finite
  <1> QED
    BY <1>1, <1>2, <1>3

\* A request goes on and keeps its kind, and the library is left alone.
LEMMA OthersKeepCount ==
    ASSUME IInv, CountInv, NEW r \in Request,
           \A m \in Request \ {r} : pc'[m] = pc[m] /\ req'[m] = req[m],
           req'[r].series = req[r].series, req'[r].isNew = req[r].isNew,
           (req'[r].status = "none") <=> (req[r].status = "none"),
           pc[r] # "idle", pc[r] \notin Ended, pc[r] # "track" \/ Faulty', pc'[r] # "track",
           pc'[r] \notin {"idle", "delete", "lastChapter"},
           pc'[r] = "upsert" => pc[r] = "lastChapter",
           UNCHANGED <<record, seriesTracked>>
    PROVE  CountInv'
  <1>1. /\ \A s : New(s)' = New(s)
        /\ \A m \in Request, s \in Series : Updates(m, s)' <=> Updates(m, s)
        /\ Deletes' = Deletes /\ (OneNew' <=> OneNew) /\ Tracked' = Tracked
    <2>1. \A m \in Request : /\ req'[m].series = req[m].series /\ req'[m].isNew = req[m].isNew
                             /\ (req'[m].status = "none") <=> (req[m].status = "none")
      OBVIOUS
    <2>2. /\ \A s : New(s)' = New(s)
          /\ \A m \in Request, s \in Series : Updates(m, s)' <=> Updates(m, s)
          /\ Deletes' = Deletes
      BY <2>1 DEF New, Updates, Deletes
    <2> QED
      BY <2>2 DEF OneNew, Tracked
  <1>2. Kinds'
    BY DEF CountInv, Kinds
  <1>3. FirstIsNew'
    <2>1. \A m \in Request : pc'[m] \in BeforeWrite => pc[m] \in BeforeWrite
      BY DEF BeforeWrite
    <2> QED
      BY <1>1, <2>1 DEF CountInv, FirstIsNew, New
  <1>4. FoundStays'
    BY <1>1 DEF CountInv, FoundStays
  <1>5. Faulty => Faulty'
    BY DEF Faulty, Ended
  <1>6. Cardinality(Tracking') <= Cardinality(Tracking)
        /\ (pc[r] # "track" => Cardinality(Tracking') = Cardinality(Tracking))
    BY CountMoves, Finite
  <1> QED
    BY <1>1, <1>2, <1>3, <1>4, <1>5, <1>6, Finite DEF CountInv, IInv, TypeOK

\* upsertRecord finds the series new, or finds it in the library.
LEMMA UpsertCounts ==
    ASSUME IInv, CountInv, NEW r \in Request, NEW s \in Series, NEW chapter \in Chapter,
           NEW status \in StatusInput, upsertRecord(r, s, chapter, status)
    PROVE  CountInv'
  <1>1. /\ pc[r] = "idle" /\ pc'[r] \in {"lastChapter", "upsert"}
        /\ \A m \in Request \ {r} : pc'[m] = pc[m] /\ req'[m] = req[m]
        /\ req'[r].series = s /\ (req'[r].isNew <=> record[s] = NoRecord)
        /\ req'[r].status # "none" /\ req[r] = NoRequest
        /\ UNCHANGED <<record, seriesTracked>>
    BY ReadingAssumption DEF upsertRecord, Move, IInv, TypeOK, CountInv, Kinds, passport
  <1>2. /\ \A m \in Request : m # r => \A t \in Series : Updates(m, t)' <=> Updates(m, t)
        /\ \A t : New(t) \subseteq New(t)'
        /\ Deletes' = Deletes /\ Tracked' = Tracked /\ s # "none"
    BY <1>1, ReadingAssumption DEF Updates, New, Deletes, Tracked, NoRequest
  <1>3. OneNew' => OneNew
    BY <1>2 DEF OneNew
  <1>4. Kinds'
    BY <1>1 DEF CountInv, Kinds
  <1>5. FirstIsNew'
    <2> SUFFICES ASSUME NEW t \in Series, \A m \in New(t)' : pc'[m] \in BeforeWrite
                 PROVE  record'[t] = NoRecord /\ \A m \in Request : ~Updates(m, t)'
      BY DEF FirstIsNew
    <2>1. \A m \in New(t) : pc[m] \in BeforeWrite
      BY <1>1, <1>2 DEF BeforeWrite, New
    <2>2. record[t] = NoRecord /\ \A m \in Request : ~Updates(m, t)
      BY <2>1 DEF CountInv, FirstIsNew
    <2>3. ~Updates(r, t)'
      BY <1>1, <2>2 DEF Updates
    <2> QED
      BY <1>1, <1>2, <2>2, <2>3
  <1>6. FoundStays'
    <2> SUFFICES ASSUME Deletes' = {}, NEW m \in Request, NEW t \in Series, Updates(m, t)'
                 PROVE  record'[t] # NoRecord
      BY DEF FoundStays
    <2>1. CASE m = r
      BY <1>1, <2>1 DEF Updates
    <2>2. CASE m # r
      BY <1>1, <1>2, <2>2 DEF CountInv, FoundStays
    <2> QED
      BY <2>1, <2>2
  <1>7. Cardinality(Tracking') = Cardinality(Tracking)
    BY <1>1, CountMoves, Finite
  <1>8. Faulty => Faulty'
    BY <1>1 DEF Faulty
  <1> QED
    BY <1>1, <1>2, <1>3, <1>4, <1>5, <1>6, <1>7, <1>8 DEF CountInv

\* deleteRecord is called.
LEMMA DeleteCounts ==
    ASSUME IInv, CountInv, NEW r \in Request, NEW s \in Series, deleteRecord(r, s)
    PROVE  CountInv'
  <1>1. /\ pc[r] = "idle" /\ pc'[r] \in {"refused", "delete"}
        /\ \A m \in Request \ {r} : pc'[m] = pc[m] /\ req'[m] = req[m]
        /\ req'[r].series = s /\ ~req'[r].isNew
        /\ req'[r].status = "none" /\ req[r] = NoRequest
        /\ UNCHANGED <<record, seriesTracked>>
    BY DEF deleteRecord, Move, IInv, TypeOK, CountInv, Kinds, passport, NoRequest
  <1>2. /\ \A m \in Request, t \in Series : Updates(m, t)' <=> Updates(m, t)
        /\ \A t : New(t) = New(t)' /\ Tracked' = Tracked
    BY <1>1 DEF Updates, New, Tracked, NoRequest
  <1>3. Deletes' # {}
    BY <1>1, ReadingAssumption DEF Deletes
  <1>4. OneNew' => OneNew
    BY <1>2 DEF OneNew
  <1>5. Kinds'
    BY <1>1 DEF CountInv, Kinds
  <1>6. FirstIsNew'
    BY <1>1, <1>2 DEF CountInv, FirstIsNew, New, NoRequest
  <1>7. Cardinality(Tracking') = Cardinality(Tracking)
    BY <1>1, CountMoves, Finite
  <1> QED
    BY <1>1, <1>2, <1>3, <1>4, <1>5, <1>6, <1>7 DEF CountInv, FoundStays

\* What writeRecord does to the count: the series is in the library, and a request that
\* found it new goes to count it.
LEMMA WriteDoes ==
    ASSUME IInv, CountInv, NEW r \in Request, writeRecord(r)
    PROVE  /\ pc[r] = "upsert" /\ req[r].series \in Series /\ req[r].status # "none"
           /\ \A m \in Request \ {r} : pc'[m] = pc[m] /\ req'[m] = req[m]
           /\ pc'[r] \in {"track", "reward", "complete", "badge", "done"}
           /\ (pc'[r] = "track" <=> req[r].isNew)
           /\ req'[r].series = req[r].series /\ req'[r].isNew = req[r].isNew
           /\ req'[r].status = req[r].status
           /\ record'[req[r].series] # NoRecord
           /\ \A t \in Series \ {req[r].series} : record'[t] = record[t]
           /\ seriesTracked' = seriesTracked
  <1>0. PICK q \in Locals : q = req[r]
    BY RequestFacts
  <1> DEFINE rewards == rewardsOf(q)
             place == IF q.isNew THEN "track"
                      ELSE IF rewards # <<>> THEN "reward" ELSE afterRewards(q)
             badge == IF completes(q) THEN "SERIES_COMPLETIONIST" ELSE "FIRST_CHAPTER"
             new == [q EXCEPT !.rewards = rewards, !.badge = badge]
             old == record[q.series]
             row == [status |-> q.status, currentChapter |-> q.newChapter,
                     completedAt |-> IF old = NoRecord THEN q.status = "COMPLETED"
                                     ELSE old.completedAt \/ completes(q)]
  <1>1. /\ pc[r] = "upsert" /\ Move(r, place, new)
        /\ record' = [record EXCEPT ![q.series] = row] /\ seriesTracked' = seriesTracked
    BY <1>0 DEF writeRecord, passport
  <1>2. q.series \in Series /\ q.status # "none" /\ q.isNew \in BOOLEAN
    BY <1>0, <1>1 DEF CountInv, Kinds, Locals
  <1>3. row # NoRecord
    BY <1>2 DEF NoRecord
  <1>4. place \in {"track", "reward", "complete", "badge", "done"} /\ (place = "track" <=> q.isNew)
    BY <1>2 DEF afterRewards
  <1>5. new.series = q.series /\ new.isNew = q.isNew /\ new.status = q.status
    BY DEF Locals
  <1> HIDE DEF place, new, row
  <1>6. /\ pc'[r] = place /\ req'[r] = new
        /\ \A m \in Request \ {r} : pc'[m] = pc[m] /\ req'[m] = req[m]
    BY <1>1 DEF Move, IInv, TypeOK
  <1>7. /\ record'[q.series] = row
        /\ \A t \in Series \ {q.series} : record'[t] = record[t]
    BY <1>1, <1>2 DEF IInv, TypeOK
  <1> QED
    BY <1>0, <1>1, <1>2, <1>3, <1>4, <1>5, <1>6, <1>7

\* The record is written: a first one by the only request that found it new, any other
\* over one that is there, unless it was deleted meanwhile.
LEMMA WriteCounts ==
    ASSUME IInv, CountInv, NEW r \in Request, writeRecord(r)
    PROVE  CountInv'
  <1> DEFINE s == req[r].series
  <1>1. /\ pc[r] = "upsert" /\ s \in Series /\ req[r].status # "none"
        /\ \A m \in Request \ {r} : pc'[m] = pc[m] /\ req'[m] = req[m]
        /\ pc'[r] \in {"track", "reward", "complete", "badge", "done"}
        /\ (pc'[r] = "track" <=> req[r].isNew)
        /\ req'[r].series = s /\ req'[r].isNew = req[r].isNew
        /\ req'[r].status = req[r].status
        /\ record'[s] # NoRecord
        /\ \A t \in Series \ {s} : record'[t] = record[t]
        /\ seriesTracked' = seriesTracked
    BY WriteDoes
  <1> HIDE DEF s
  <1>2. s = req[r].series
    BY DEF s
  <1>3. /\ \A t : New(t)' = New(t)
        /\ \A m \in Request, t \in Series : Updates(m, t)' <=> Updates(m, t)
        /\ Deletes' = Deletes /\ (OneNew' <=> OneNew)
    <2>1. \A m \in Request : /\ req'[m].series = req[m].series /\ req'[m].isNew = req[m].isNew
                             /\ req'[m].status = req[m].status
      BY <1>1, <1>2
    <2>2. /\ \A t : New(t)' = New(t)
          /\ \A m \in Request, t \in Series : Updates(m, t)' <=> Updates(m, t)
          /\ Deletes' = Deletes
      BY <2>1 DEF New, Updates, Deletes
    <2> QED
      BY <2>2 DEF OneNew
  <1>4. Kinds'
    BY <1>1, <1>2 DEF CountInv, Kinds
  <1>5. \A m \in Request : pc'[m] \in BeforeWrite => m # r /\ pc[m] \in BeforeWrite
    BY <1>1 DEF BeforeWrite
  <1>6. FirstIsNew'
    <2> SUFFICES ASSUME NEW t \in Series, \A m \in New(t)' : pc'[m] \in BeforeWrite
                 PROVE  record'[t] = NoRecord /\ \A m \in Request : ~Updates(m, t)'
      BY DEF FirstIsNew
    <2>1. \A m \in New(t) : pc[m] \in BeforeWrite /\ m # r
      BY <1>3, <1>5 DEF New
    <2>2. record[t] = NoRecord /\ \A m \in Request : ~Updates(m, t)
      BY <2>1 DEF CountInv, FirstIsNew
    <2>3. t # s
      BY <1>1, <1>2, <2>1, <2>2 DEF New, Updates
    <2> QED
      BY <1>1, <1>3, <2>2, <2>3
  <1>7. FoundStays'
    BY <1>1, <1>3 DEF CountInv, FoundStays
  <1>8. Tracked' = Tracked \cup {s} /\ (s \in Tracked <=> record[s] # NoRecord)
    BY <1>1 DEF Tracked
  <1>9. Cardinality(Tracked') = Cardinality(Tracked) + (IF record[s] # NoRecord THEN 0 ELSE 1)
    BY <1>8, Finite, FS_AddElement
  <1>10. Cardinality(Tracking') = Cardinality(Tracking) + (IF req[r].isNew THEN 1 ELSE 0)
    BY <1>1, CountMoves, Finite
  <1>11. OneNew /\ req[r].isNew => record[s] = NoRecord
    BY <1>1, <1>2 DEF OneNew, New, CountInv, FirstIsNew, BeforeWrite
  <1>12. Deletes = {} /\ ~req[r].isNew => record[s] # NoRecord
    BY <1>1, <1>2 DEF CountInv, FoundStays, Updates
  <1>13. Faulty => Faulty'
    BY <1>1 DEF Faulty
  <1>14. seriesTracked \in Int
    BY DEF IInv, TypeOK
  <1> QED
    BY <1>1, <1>3, <1>4, <1>6, <1>7, <1>9, <1>10, <1>11, <1>12, <1>13, <1>14, Finite
       DEF CountInv

\* The counter takes what was on its way to it.
LEMMA TrackCounts ==
    ASSUME IInv, CountInv, NEW r \in Request, trackSeries(r)
    PROVE  CountInv'
  <1>1. /\ pc[r] = "track" /\ pc'[r] = "reward" /\ req' = req
        /\ \A m \in Request \ {r} : pc'[m] = pc[m]
        /\ seriesTracked' = seriesTracked + 1 /\ record' = record
    BY DEF trackSeries, Move, IInv, TypeOK
  <1>2. /\ \A t : New(t)' = New(t)
        /\ \A m \in Request, t \in Series : Updates(m, t)' <=> Updates(m, t)
        /\ Deletes' = Deletes /\ (OneNew' <=> OneNew) /\ Tracked' = Tracked
    BY <1>1 DEF New, Updates, Deletes, OneNew, Tracked
  <1>3. Kinds'
    BY <1>1 DEF CountInv, Kinds
  <1>4. FirstIsNew'
    BY <1>1, <1>2 DEF CountInv, FirstIsNew, New, BeforeWrite
  <1>5. FoundStays'
    BY <1>1, <1>2 DEF CountInv, FoundStays
  <1>6. Cardinality(Tracking') = Cardinality(Tracking) - 1
    BY <1>1, CountMoves, Finite
  <1>7. Faulty => Faulty'
    BY <1>1 DEF Faulty
  <1>8. seriesTracked \in Int
    BY DEF IInv, TypeOK
  <1> QED
    BY <1>1, <1>2, <1>3, <1>4, <1>5, <1>6, <1>7, <1>8, Finite DEF CountInv

\* deleteRecord takes the row and one off the counter, or finds the row gone.
LEMMA RemoveCounts ==
    ASSUME IInv, CountInv, NEW r \in Request, removeRecord(r)
    PROVE  CountInv'
  <1> DEFINE s == req[r].series
  <1>1. /\ pc[r] = "delete" /\ pc'[r] \in {"refused", "done"} /\ req' = req
        /\ \A m \in Request \ {r} : pc'[m] = pc[m]
        /\ s \in Series /\ req[r].status = "none"
        /\ \/ record' = record /\ seriesTracked' = seriesTracked
           \/ /\ record[s] # NoRecord /\ record' = [record EXCEPT ![s] = NoRecord]
              /\ seriesTracked' = seriesTracked - 1
    BY DEF removeRecord, Move, IInv, TypeOK, CountInv, Kinds
  <1> HIDE DEF s
  <1>2. /\ \A t : New(t)' = New(t)
        /\ \A m \in Request, t \in Series : Updates(m, t)' <=> Updates(m, t)
        /\ (OneNew' <=> OneNew) /\ Deletes' # {}
    BY <1>1, ReadingAssumption DEF s, New, Updates, Deletes, OneNew
  <1>3. Kinds'
    BY <1>1 DEF CountInv, Kinds
  <1>4. FirstIsNew'
    <2>1. \A t \in Series : record[t] = NoRecord => record'[t] = NoRecord
      BY <1>1 DEF IInv, TypeOK
    <2> QED
      BY <1>1, <1>2, <2>1 DEF CountInv, FirstIsNew, New, BeforeWrite
  <1>5. Cardinality(Tracking') = Cardinality(Tracking)
    BY <1>1, CountMoves, Finite
  <1>6. OneNew => seriesTracked' + Cardinality(Tracking') <= Cardinality(Tracked')
    <2>1. CASE record' = record /\ seriesTracked' = seriesTracked
      <3>1. Tracked' = Tracked
        BY <2>1 DEF Tracked
      <3> QED
        BY <1>5, <2>1, <3>1 DEF CountInv
    <2>2. CASE /\ record[s] # NoRecord /\ record' = [record EXCEPT ![s] = NoRecord]
               /\ seriesTracked' = seriesTracked - 1
      <3>1. Tracked' = Tracked \ {s} /\ s \in Tracked
        BY <1>1, <2>2 DEF Tracked, IInv, TypeOK
      <3>2. Cardinality(Tracked') = Cardinality(Tracked) - 1
        BY <3>1, Finite, FS_RemoveElement
      <3> QED
        BY <1>5, <2>2, <3>2, Finite DEF CountInv, IInv, TypeOK
    <2> QED
      BY <1>1, <2>1, <2>2
  <1> QED
    BY <1>2, <1>3, <1>4, <1>6 DEF CountInv, FoundStays

\* A crash: from here on the counter may lag behind.
LEMMA CrashCounts == ASSUME IInv, CountInv, Crash PROVE CountInv'
  <1>1. /\ req' = req /\ record' = record /\ seriesTracked' = seriesTracked
        /\ \A m \in Request : pc'[m] = IF pc[m] \in Waiting THEN "crashed" ELSE pc[m]
        /\ \E m \in Request : pc[m] \in Waiting
    BY DEF Crash, passport
  <1>2. /\ \A t : New(t)' = New(t)
        /\ \A m \in Request, t \in Series : Updates(m, t)' <=> Updates(m, t)
        /\ Deletes' = Deletes /\ (OneNew' <=> OneNew) /\ Tracked' = Tracked
    BY <1>1 DEF New, Updates, Deletes, OneNew, Tracked
  <1>3. Kinds'
    BY <1>1 DEF CountInv, Kinds, Waiting
  <1>4. FirstIsNew'
    <2>1. \A m \in Request : pc'[m] \in BeforeWrite => pc[m] \in BeforeWrite
      BY <1>1 DEF BeforeWrite, Waiting
    <2> QED
      BY <1>1, <1>2, <2>1 DEF CountInv, FirstIsNew, New
  <1>5. FoundStays'
    BY <1>1, <1>2 DEF CountInv, FoundStays
  <1>6. Cardinality(Tracking') = 0
    <2>1. Tracking' = {}
      BY <1>1 DEF Tracking, Waiting
    <2> QED
      BY <2>1, FS_EmptySet
  <1>7. Faulty'
    BY <1>1 DEF Faulty
  <1> QED
    BY <1>1, <1>2, <1>3, <1>4, <1>5, <1>6, <1>7, Finite DEF CountInv, IInv, TypeOK

\* All other steps of a request leave its kind, the library and the counter alone.
LEMMA OthersCount ==
    ASSUME IInv, CountInv, NEW r \in Request,
           \/ checkReachedEnd(r) \/ findLedgerEntry(r) \/ mintReward(r) \/ alreadyMinted(r)
           \/ completeSeries(r) \/ findBadge(r) \/ mintBadge(r) \/ badgeAborts(r)
           \/ createBadgeRow(r) \/ countChapters(r) \/ Fail(r)
    PROVE  CountInv'
  <1>1. PICK q \in Locals : q = req[r]
    BY RequestFacts
  <1>2. UNCHANGED <<record, seriesTracked>>
    BY DEF checkReachedEnd, findLedgerEntry, mintReward, alreadyMinted, completeSeries, findBadge,
           mintBadge, badgeAborts, createBadgeRow, countChapters, Fail, mintUnmirrored,
           badgeUnmirrored, stepFails, passport
  <1> DEFINE place == {"reward", "mint", "complete", "badge", "badgeMint", "badgeRow", "chapters",
                       "done", "aborted"}
  <1>3. \/ /\ pc[r] = "lastChapter"
           /\ \E x \in {"COMPLETED", "READING"} : Move(r, "upsert", [q EXCEPT !.status = x])
        \/ /\ pc[r] \in {"reward", "mint", "complete", "badge", "badgeMint", "badgeRow", "chapters"}
           /\ \E p \in place, x \in {q, [q EXCEPT !.rewards = Tail(@)],
                                       [q EXCEPT !.badge = "FIRST_CHAPTER"]} : Move(r, p, x)
        \/ pc[r] \in Waiting /\ Move(r, "failed", q)
    <2>1. CASE checkReachedEnd(r)
      BY <1>1, <2>1 DEF checkReachedEnd
    <2>2. CASE findLedgerEntry(r) \/ mintReward(r) \/ alreadyMinted(r)
      BY <1>1, <2>2 DEF findLedgerEntry, mintReward, alreadyMinted, NextReward, afterRewards
    <2>3. CASE completeSeries(r) \/ findBadge(r) \/ mintBadge(r) \/ badgeAborts(r)
      BY <1>1, <2>3 DEF completeSeries, findBadge, mintBadge, badgeAborts, afterBadge
    <2>4. CASE createBadgeRow(r) \/ countChapters(r)
      BY <1>1, <2>4 DEF createBadgeRow, countChapters, afterBadge
    <2>5. CASE Fail(r)
      BY <1>1, <2>5 DEF Fail, mintUnmirrored, badgeUnmirrored, stepFails, Waiting
    <2> QED
      BY <2>1, <2>2, <2>3, <2>4, <2>5
  <1>4. /\ \A m \in Request \ {r} : pc'[m] = pc[m] /\ req'[m] = req[m]
        /\ req'[r].series = q.series /\ req'[r].isNew = q.isNew
        /\ \/ req'[r].status = q.status
           \/ pc[r] = "lastChapter" /\ req'[r].status # "none"
        /\ pc[r] \in Waiting /\ pc'[r] \in place \cup {"failed", "upsert"}
        /\ pc'[r] = "upsert" => pc[r] = "lastChapter"
        /\ pc[r] = "track" => pc'[r] = "failed"
    <2>1. ASSUME NEW p, NEW x, Move(r, p, x)
          PROVE  /\ \A m \in Request \ {r} : pc'[m] = pc[m] /\ req'[m] = req[m]
                 /\ pc'[r] = p /\ req'[r] = x
      BY <2>1 DEF Move, IInv, TypeOK
    <2>2. CASE \E x \in {"COMPLETED", "READING"} :
                  pc[r] = "lastChapter" /\ Move(r, "upsert", [q EXCEPT !.status = x])
      <3>1. PICK x \in {"COMPLETED", "READING"} :
               pc[r] = "lastChapter" /\ Move(r, "upsert", [q EXCEPT !.status = x])
        BY <2>2
      <3>2. LET l == [q EXCEPT !.status = x]
            IN  l.series = q.series /\ l.isNew = q.isNew /\ l.status = x
        BY DEF Locals
      <3> QED
        BY <2>1, <3>1, <3>2 DEF Waiting
    <2>3. CASE \E p \in place : \E x \in {q, [q EXCEPT !.rewards = Tail(@)],
                                            [q EXCEPT !.badge = "FIRST_CHAPTER"]} :
                  /\ Move(r, p, x)
                  /\ pc[r] \in {"reward", "mint", "complete", "badge", "badgeMint", "badgeRow",
                               "chapters"}
      <3>1. PICK p \in place, x \in {q, [q EXCEPT !.rewards = Tail(@)],
                                      [q EXCEPT !.badge = "FIRST_CHAPTER"]} :
               /\ Move(r, p, x)
               /\ pc[r] \in {"reward", "mint", "complete", "badge", "badgeMint", "badgeRow",
                            "chapters"}
        BY <2>3
      <3>2. x.series = q.series /\ x.isNew = q.isNew /\ x.status = q.status
        BY <3>1 DEF Locals
      <3> QED
        BY <2>1, <3>1, <3>2 DEF Waiting
    <2>4. CASE pc[r] \in Waiting /\ Move(r, "failed", q)
      BY <2>1, <2>4
    <2> QED
      BY <1>3, <2>2, <2>3, <2>4
  <1>5. pc[r] = "lastChapter" => req[r].status # "none"
    BY DEF CountInv, Kinds
  <1>6. pc[r] = "track" => Faulty'
    BY <1>4 DEF Faulty
  <1> QED
    BY <1>1, <1>2, <1>4, <1>5, <1>6, OthersKeepCount DEF Waiting, Ended

\* The library is empty, nobody has asked for anything.
LEMMA InitCounts == Init => CountInv
  <1> SUFFICES ASSUME Init PROVE CountInv
    OBVIOUS
  <1>1. Tracked = {} /\ Tracking = {} /\ Deletes = {} /\ seriesTracked = 0
    BY DEF Init, Tracked, Tracking, Deletes, NoRequest
  <1>2. \A r \in Request : pc[r] = "idle" /\ req[r] = NoRequest
    BY DEF Init
  <1>3. Kinds /\ FirstIsNew /\ FoundStays
    BY <1>2 DEF Kinds, FirstIsNew, FoundStays, Updates, Init, NoRequest
  <1> QED
    BY <1>1, <1>3, FS_EmptySet DEF CountInv

\* Every step keeps the count.
LEMMA StepCounts == IInv /\ CountInv /\ [Next]_vars => CountInv'
  <1> SUFFICES ASSUME IInv, CountInv, [Next]_vars PROVE CountInv'
    OBVIOUS
  <1>1. CASE (\E s \in Series : chaptersAdded(s)) \/ UNCHANGED vars
    <2>1. UNCHANGED <<record, seriesTracked, pc, req>>
      BY <1>1 DEF chaptersAdded, vars, passport
    <2> QED
      BY <2>1 DEF CountInv, Kinds, FirstIsNew, FoundStays, Updates, New, Deletes, OneNew, Tracked,
                  Tracking, Faulty
  <1>2. ASSUME NEW r \in Request, Arrive(r) PROVE CountInv'
    BY <1>2, UpsertCounts, DeleteCounts DEF Arrive
  <1>3. ASSUME NEW r \in Request, Proceed(r) \/ Fail(r) PROVE CountInv'
    BY <1>3, WriteCounts, TrackCounts, RemoveCounts, OthersCount DEF Proceed
  <1> QED
    BY <1>1, <1>2, <1>3, CrashCounts DEF Next

\* In every behaviour the counter agrees with the rows.
LEMMA AlwaysCounts == Spec => []CountInv
  BY InitCounts, StepCounts, AlwaysSound, PTL DEF Spec

-----------------------------------------------------------------------------
\* Types; "Completed" is earned, whatever races for it (upsertRecord); each badge is mirrored
\* once at most, and only when it is on chain (BadgesService.mint); and seriesTracked is off
\* only by two requests that both found a series new, or by a deletion (deleteRecord).
THEOREM LibraryIsSound == Spec => []RecordsSound
  <1>1. IInv => TypeOK /\ BadgeMirrorSound
    BY DEF IInv, Mirrored, BadgeMirrorSound
  <1>2. IInv => CompletedReachedEnd
    <2> SUFFICES ASSUME IInv, NEW s \in Series, record[s].status = "COMPLETED"
                 PROVE  lastChapter[s] # NoChapter /\ record[s].currentChapter >= InitialLast[s]
      BY DEF CompletedReachedEnd
    <2>1. record[s] # NoRecord
      BY DEF NoRecord
    <2> QED
      BY <2>1 DEF IInv, Library, Shelved, AtEnd
  <1>3. IInv /\ CountInv => TrackedSeriesCounted
    <2> SUFFICES ASSUME IInv, CountInv, NoFault
                 PROVE  /\ (\A s \in Series : Cardinality(New(s)) <= 1) =>
                              seriesTracked <= Cardinality(Tracked)
                        /\ Deletes = {} => seriesTracked >= Cardinality(Tracked)
      BY DEF TrackedSeriesCounted, New, Deletes, Tracked
    <2>1. Tracking = {} /\ ~Faulty
      BY DEF Tracking, Faulty, NoFault
    <2>2. Cardinality(Tracking) = 0 /\ seriesTracked \in Int
      BY <2>1, FS_EmptySet DEF IInv, TypeOK
    <2>3. ASSUME \A s \in Series : Cardinality(New(s)) <= 1 PROVE OneNew
      <3> SUFFICES ASSUME NEW s \in Series, NEW r \in New(s), NEW q \in New(s), r # q
                   PROVE  FALSE
        BY DEF OneNew
      <3>1. IsFiniteSet(New(s)) /\ IsFiniteSet(New(s) \ {r}) /\ q \in New(s) \ {r}
            /\ Cardinality(New(s) \ {r}) = Cardinality(New(s)) - 1
        <4>1. IsFiniteSet(New(s))
          BY ReadingAssumption, FS_Subset DEF New
        <4> QED
          BY <4>1, FS_RemoveElement
      <3>2. Cardinality(New(s)) = 1
        BY <2>3, <3>1, FS_EmptySet, FS_CardinalityType
      <3> QED
        BY <3>1, <3>2, FS_EmptySet
    <2> QED
      BY <2>1, <2>2, <2>3, Finite DEF CountInv
  <1>4. IInv /\ CountInv => RecordsSound
    BY <1>1, <1>2, <1>3 DEF RecordsSound
  <1> QED
    BY <1>4, AlwaysSound, AlwaysCounts, PTL

\* No INK without a reason: whoever gets the reward of a new series found it new, and the
\* rewards of milestones and completions follow chapters reported (checkAndFireMilestones).
THEOREM InkHasAReason == Spec => []InkIsEarned
  <1>1. IInv => InkIsEarned
    BY DEF IInv, Earned, IsEarned, InkIsEarned
  <1> QED
    BY <1>1, AlwaysSound, PTL

\* Without a fault no milestone is lost: when every request has ended, what each
\* record is worth has been minted, however the requests interleaved.
THEOREM NoMilestoneIsLost == Spec => []MilestonesPaid
  <1>1. IInv => MilestonesPaid
    <2> SUFFICES ASSUME IInv, NoFault, NEW s \in Series, record[s] # NoRecord
                 PROVE  /\ Chapter1(s) \in registry
                        /\ \A m \in 1 .. (record[s].currentChapter \div CHAPTER_MILESTONE_INTERVAL) :
                              Milestone(s, m * CHAPTER_MILESTONE_INTERVAL) \in registry
                        /\ record[s].status = "COMPLETED" =>
                              Complete(s) \in registry /\ "SERIES_COMPLETIONIST" \in badges
      BY DEF MilestonesPaid
    <2>1. \A r \in Request : pc[r] \in {"idle", "done", "refused", "aborted"}
      BY DEF NoFault
    <2>2. \A key : Settled(key) => key \in registry
      BY <2>1 DEF Settled, Faulty, OwesAt, Rewarding
    <2>3. BadgeSettled => "SERIES_COMPLETIONIST" \in badges
      BY <2>1 DEF BadgeSettled, Faulty, CompletesAt, Rewarding
    <2>4. /\ SettledUpTo(s, record[s].currentChapter)
          /\ record[s].status = "COMPLETED" => SettledComplete(s)
      BY DEF IInv, Library, Shelved
    <2> QED
      BY <2>2, <2>3, <2>4 DEF SettledUpTo, SettledComplete
  <1> QED
    BY <1>1, AlwaysSound, PTL
=============================================================================
