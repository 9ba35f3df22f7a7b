---------------------------- MODULE ChainRewards ----------------------------
(***************************************************************************)
(* The on-chain objects that authorise and pay: admin, ink, ink_earning,   *)
(* badges (the Contributor badge) and submission, as the Move package      *)
(* publishes them.  One action per entry of a transaction; an assertion    *)
(* that fails undoes the whole transaction, so it is a guard here.         *)
(*                                                                         *)
(* A transaction is signed by one address, and may use the capabilities    *)
(* and coins that address owns.  AdminCap, TreasuryCap and coins have      *)
(* `store`: their owner may hand them to anyone without a call of the      *)
(* package.  The backend of this commit pays approved suggestions with a   *)
(* PTB of its own (SubmissionDao); claim_reward is the package's way.      *)
(***************************************************************************)
EXTENDS Integers

CONSTANTS
    Address,
    Deployer,      \* signs the publication
    Suggestion,    \* ids of Submission objects
    RecordKey,     \* idempotency keys
    Amount,        \* amounts of INK that may be sent, minted directly or burned
    MaxHandovers,  \* bound: times a capability or coins change hands
    Nobody

ASSUME RewardsAssumption ==
    /\ Deployer \in Address /\ Nobody \notin Address
    /\ Amount \subseteq Nat /\ MaxHandovers \in Nat

VARIABLES
    caps,        \* address -> AdminCaps it owns
    admins,      \* AdminRegistry
    treasury,    \* owner of the TreasuryCap
    wallet,      \* address -> INK it owns
    supply,      \* total supply in the TreasuryCap
    earning,     \* key -> the EarningRecord under it; a key with one is locked
    contributor, \* BadgeRegistry: owners of the Contributor badge for a submission
    suggestion,  \* the Submission objects
    direct, burned,  \* history: INK minted by ink::mint alone, INK burned
    handovers    \* counter for the bound

authority   == <<caps, admins, treasury>>
money       == <<wallet, supply, direct, burned>>
rewardsVars == <<authority, money, earning, contributor, suggestion, handovers>>

-----------------------------------------------------------------------------
\* The triggers, and what each pays.
Trigger  == {"chapter", "complete", "submission"}
amount(t) == CASE t = "chapter" -> 10 [] t = "complete" -> 100 [] t = "submission" -> 50

NoRecord     == [user |-> Nobody, trigger |-> "none"]
NoSuggestion == [submitter |-> Nobody, status |-> "none", reviewed |-> FALSE, claimed |-> FALSE]

\* init of admin, ink and ink_earning, at publication.
RewardsInit ==
    /\ caps = [a \in Address |-> IF a = Deployer THEN 1 ELSE 0] /\ admins = {Deployer}
    /\ treasury = Deployer
    /\ wallet = [a \in Address |-> 0] /\ supply = 0 /\ direct = 0 /\ burned = 0
    /\ earning = [k \in RecordKey |-> NoRecord]
    /\ contributor = {} /\ handovers = 0
    /\ suggestion = [s \in Suggestion |-> NoSuggestion]

holdsCap(a) == caps[a] > 0

-----------------------------------------------------------------------------
\* grant: a cap for someone who is not in the registry.
grant(a, b) ==
    /\ holdsCap(a) /\ b \notin admins
    /\ caps' = [caps EXCEPT ![b] = @ + 1] /\ admins' = admins \cup {b}
    /\ UNCHANGED <<treasury, money, earning, contributor, suggestion, handovers>>

\* revoke: the registry forgets the address; its cap stays and still opens every gate.
revoke(a, b) ==
    /\ holdsCap(a) /\ b \in admins
    /\ admins' = admins \ {b}
    /\ UNCHANGED <<caps, treasury, money, earning, contributor, suggestion, handovers>>

\* The owner of an AdminCap, of the TreasuryCap or of coins hands it on.
handOver == handovers < MaxHandovers /\ handovers' = handovers + 1

transferCap(a, b) ==
    /\ a # b /\ holdsCap(a) /\ handOver
    /\ caps' = [caps EXCEPT ![a] = @ - 1, ![b] = @ + 1]
    /\ UNCHANGED <<admins, treasury, money, earning, contributor, suggestion>>

transferTreasury(a, b) ==
    /\ a # b /\ treasury = a /\ treasury' = b /\ handOver
    /\ UNCHANGED <<caps, admins, money, earning, contributor, suggestion>>

sendInk(a, b, n) ==
    /\ a # b /\ wallet[a] >= n /\ handOver
    /\ wallet' = [wallet EXCEPT ![a] = @ - n, ![b] = @ + n]
    /\ UNCHANGED <<authority, supply, direct, burned, earning, contributor, suggestion>>

-----------------------------------------------------------------------------
\* ink::mint needs both capabilities, whoever calls it, and takes any amount.
minted(u, n) == wallet' = [wallet EXCEPT ![u] = @ + n] /\ supply' = supply + n

mint(a, u, n) ==
    /\ holdsCap(a) /\ treasury = a
    /\ minted(u, n) /\ direct' = direct + n
    /\ UNCHANGED <<authority, burned, earning, contributor, suggestion, handovers>>

\* burn: a coin of the signer, who must own the TreasuryCap too.
burn(a, n) ==
    /\ treasury = a /\ wallet[a] >= n
    /\ wallet' = [wallet EXCEPT ![a] = @ - n] /\ supply' = supply - n
    /\ burned' = burned + n
    /\ UNCHANGED <<authority, direct, earning, contributor, suggestion, handovers>>

\* What earn and claim_reward share: the key is fresh, it is locked, and the trigger's
\* amount is minted.
earned(a, u, t, k) ==
    /\ holdsCap(a) /\ treasury = a
    /\ earning[k] = NoRecord
    /\ earning' = [earning EXCEPT ![k] = [user |-> u, trigger |-> t]]
    /\ minted(u, amount(t))

\* ink_earning::earn
earnEntry(a, u, t, k) ==
    /\ earned(a, u, t, k)
    /\ UNCHANGED <<authority, direct, burned, contributor, suggestion, handovers>>

\* badges::mint of the Contributor badge: one per owner.
badged(a, u) == /\ holdsCap(a) /\ u \notin contributor
                /\ contributor' = contributor \cup {u}

mintBadge(a, u) == badged(a, u) /\ UNCHANGED <<authority, money, earning, suggestion, handovers>>

-----------------------------------------------------------------------------
create(u, s) ==
    /\ suggestion[s] = NoSuggestion
    /\ suggestion' = [suggestion EXCEPT ![s] =
          [submitter |-> u, status |-> "pending", reviewed |-> FALSE, claimed |-> FALSE]]
    /\ UNCHANGED <<authority, money, earning, contributor, handovers>>

\* (mutant) a decision may be taken again
decide_again(a, s, d) ==
    /\ holdsCap(a) /\ suggestion[s].status # "none"
    /\ suggestion' = [suggestion EXCEPT ![s].status = d, ![s].reviewed = TRUE]
    /\ UNCHANGED <<authority, money, earning, contributor, handovers>>

\* approve and reject.
decide(a, s, d) ==
    /\ holdsCap(a) /\ suggestion[s].status = "pending"
    /\ suggestion' = [suggestion EXCEPT ![s] =
          [submitter |-> @.submitter, status |-> d, reviewed |-> TRUE, claimed |-> @.claimed]]
    /\ UNCHANGED <<authority, money, earning, contributor, handovers>>

\* (mutant) the badge is left out when the reader has one, and nothing is marked
claim_reward_unmarked(a, s, k) ==
    /\ suggestion[s].status = "approved" /\ ~suggestion[s].claimed
    /\ earned(a, suggestion[s].submitter, "submission", k)
    /\ contributor' = contributor \cup {suggestion[s].submitter}
    /\ suggestion' = [suggestion EXCEPT ![s].claimed = TRUE]
    /\ UNCHANGED <<authority, direct, burned, handovers>>

\* claim_reward: 50 INK and the badge together, or nothing.
claim_reward(a, s, k) ==
    /\ suggestion[s].status = "approved" /\ ~suggestion[s].claimed
    /\ suggestion' = [suggestion EXCEPT ![s].claimed = TRUE]
    /\ earned(a, suggestion[s].submitter, "submission", k)
    /\ badged(a, suggestion[s].submitter)
    /\ UNCHANGED <<authority, direct, burned, handovers>>

RewardsNext ==
    \E a \in Address :
       \/ \E b \in Address : grant(a, b) \/ revoke(a, b) \/ transferCap(a, b) \/ transferTreasury(a, b)
       \/ \E b \in Address, n \in Amount : sendInk(a, b, n) \/ mint(a, b, n)
       \/ \E n \in Amount : burn(a, n)
       \/ \E b \in Address, t \in Trigger, k \in RecordKey : earnEntry(a, b, t, k)
       \/ \E b \in Address : mintBadge(a, b)
       \/ \E s \in Suggestion : \/ create(a, s)
                                \/ \E d \in {"approved", "rejected"} : decide(a, s, d)
                                \/ \E k \in RecordKey : claim_reward(a, s, k)

RewardsSpec == RewardsInit /\ [][RewardsNext]_rewardsVars

-----------------------------------------------------------------------------
\* What every reachable state is made of.
RewardsTypeOK ==
    /\ caps \in [Address -> Nat] /\ admins \subseteq Address /\ treasury \in Address
    /\ wallet \in [Address -> Nat] /\ {direct, burned, handovers} \subseteq Nat /\ supply \in Int
    /\ earning \in [RecordKey -> {NoRecord} \cup [user : Address, trigger : Trigger]]
    /\ contributor \subseteq Address
    /\ suggestion \in [Suggestion -> {NoSuggestion} \cup
          [submitter : Address, status : {"pending", "approved", "rejected"},
           reviewed : BOOLEAN, claimed : BOOLEAN]]

\* A claimed reward was approved, its submitter holds the badge and an EarningRecord of 50
\* INK.
ClaimBacked ==
    \A s \in Suggestion : suggestion[s].claimed =>
        /\ suggestion[s].status = "approved"
        /\ suggestion[s].submitter \in contributor
        /\ \E k \in RecordKey : earning[k] = [user |-> suggestion[s].submitter, trigger |-> "submission"]

\* No reader is ever paid for two suggestions this way: the badge that comes with the first
\* claim makes every later one abort, whatever key it brings.
OneClaimPerReader ==
    \A s, t \in Suggestion :
        (suggestion[s].claimed /\ suggestion[t].claimed /\ s # t)
            => suggestion[s].submitter # suggestion[t].submitter

\* A review is dated exactly when there is one.
ReviewDated ==
    \A s \in Suggestion : suggestion[s].reviewed <=> suggestion[s].status \in {"approved", "rejected"}

ClaimSound == RewardsTypeOK /\ ClaimBacked /\ OneClaimPerReader /\ ReviewDated

\* A decision stands, a claim stands, a key once locked stays with its record and a
\* badge stays.
RewardsKept ==
    /\ \A s \in Suggestion :
          /\ suggestion[s].reviewed => /\ suggestion'[s].status = suggestion[s].status
                                       /\ suggestion'[s].reviewed
          /\ suggestion[s].claimed => suggestion'[s] = suggestion[s]
    /\ \A k \in RecordKey : earning[k] # NoRecord => earning'[k] = earning[k]
    /\ contributor \subseteq contributor'
=============================================================================
