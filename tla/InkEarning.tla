----------------------------- MODULE InkEarning -----------------------------
(***************************************************************************)
(* INK minting: the Move gate ink_earning::earn (with ink::mint under it), *)
(* and InkService.mintEarning, which checks the Postgres ledger, runs the  *)
(* gate through GasService.executeAsAdmin and mirrors the result.          *)
(*                                                                         *)
(* A call is one invocation of mintEarning; the callers are the reading    *)
(* milestones, which retry a key by making another call.  A call's         *)
(* transaction lives on the chain's side: once submitted it may execute    *)
(* after the call that sent it has failed or the server has restarted.     *)
(*                                                                         *)
(* The idempotency key embeds the user, the trigger and the context        *)
(* (ink:{userId}:{trigger}:{series}:{context}), so a key determines its    *)
(* user and trigger: UserOf and TriggerOf.                                 *)
(***************************************************************************)
EXTENDS Naturals, InkTotals

CONSTANTS
    Call,       \* invocations of mintEarning, each used once
    User,       \* users; a user has one wallet address
    Key,        \* idempotency keys
    UserOf,     \* the user a key belongs to
    TriggerOf,  \* the trigger a key is for
    NoRow       \* no ledger row for the key

ASSUME KeyAssumption ==
    /\ UserOf \in [Key -> User]
    /\ TriggerOf \in [Key -> 0..2]

ASSUME NoRowAssumption == NoRow \notin [amount : Nat, digest : Call]

VARIABLES
    \* --- Sui ---
    registry,   \* EarningRegistry: the processed keys
    coins,      \* INK coins minted to each user's wallet
    tx,         \* fate of the transaction each call submitted
    \* --- Postgres ---
    ledger,     \* InkLedgerEntry rows, by idempotencyKey
    balance,    \* InkBalance.balance
    totalInkEarned, \* Passport.totalInkEarned
    \* --- the server ---
    pc,         \* where each call stands
    keyOf       \* the idempotencyKey each call was given

chainVars == <<registry, coins, tx>>
dbVars    == <<ledger, balance, totalInkEarned>>
vars      == <<chainVars, dbVars, pc, keyOf>>

-----------------------------------------------------------------------------
CHAPTER_READ        == 0
SERIES_COMPLETE     == 1
SUBMISSION_APPROVED == 2

\* ink_earning::get_amount_for_trigger
get_amount_for_trigger(t) ==
    CASE t = CHAPTER_READ        -> 10
      [] t = SERIES_COMPLETE     -> 100
      [] t = SUBMISSION_APPROVED -> 50

\* The backend's own copy of the amounts.
INK_AMOUNTS == [t \in 0..2 |-> CASE t = CHAPTER_READ        -> 10
                                 [] t = SERIES_COMPLETE     -> 100
                                 [] t = SUBMISSION_APPROVED -> 50]

\* A call ends with a cached or a fresh result, with a ConflictException, with
\* any other error, or with the server's crash.
Ended  == {"cached", "minted", "conflict", "error", "crashed"}
Active == {"execute", "await", "mirror", "reads"}

Row == [amount : Nat, digest : Call]

Init ==
    /\ registry = {}
    /\ coins = [u \in User |-> 0]
    /\ tx = [c \in Call |-> "none"]
    /\ ledger = [k \in Key |-> NoRow]
    /\ balance = [u \in User |-> 0]
    /\ totalInkEarned = [u \in User |-> 0]
    /\ pc = [c \in Call |-> "idle"]
    /\ keyOf \in [Call -> Key]

-----------------------------------------------------------------------------
(***************************************************************************)
(* The server's steps.                                                     *)
(***************************************************************************)

\* mintEarning begins: a ledger row with a digest answers the call.
findLedgerEntry(c) ==
    /\ pc[c] = "idle"
    /\ pc' = [pc EXCEPT ![c] = IF ledger[keyOf[c]] # NoRow THEN "cached"
                                                           ELSE "execute"]
    /\ UNCHANGED <<chainVars, dbVars, keyOf>>

\* executeAsAdmin: the treasury check refuses, or its RPC fails, before
\* anything is submitted.
assertTreasuryHealthyFails(c) ==
    /\ pc[c] = "execute"
    /\ pc' = [pc EXCEPT ![c] = "error"]
    /\ UNCHANGED <<chainVars, dbVars, keyOf>>

\* executeAsAdmin signs and submits the transaction.
signAndExecuteTransaction(c) ==
    /\ pc[c] = "execute"
    /\ pc' = [pc EXCEPT ![c] = "await"]
    /\ tx' = [tx EXCEPT ![c] = "submitted"]
    /\ UNCHANGED <<registry, coins, dbVars, keyOf>>

\* (mutant) The result is returned without awaiting the mirror.
replySuccess_notMirrored(c) ==
    /\ pc[c] = "await" /\ tx[c] = "executed"
    /\ pc' = [pc EXCEPT ![c] = "minted"]
    /\ UNCHANGED <<chainVars, dbVars, keyOf>>

\* The node reports success: the digest is known and the mirror comes next.
replySuccess(c) ==
    /\ pc[c] = "await" /\ tx[c] = "executed"
    /\ pc' = [pc EXCEPT ![c] = "mirror"]
    /\ UNCHANGED <<chainVars, dbVars, keyOf>>

\* (mutant) A duplicate key is taken for a success and mirrored.
replyAbort_mirrored(c) ==
    /\ pc[c] = "await" /\ tx[c] = "aborted"
    /\ pc' = [pc EXCEPT ![c] = "mirror"]
    /\ UNCHANGED <<chainVars, dbVars, keyOf>>

\* The node reports the abort of earn.  mintEarning looks for the name of the
\* error constant in the message; whether a node's message carries the name
\* is the node's choice, so the error may also be rethrown as it is.
replyAbort(c) ==
    /\ pc[c] = "await" /\ tx[c] = "aborted"
    /\ \E answer \in {"conflict", "error"} : pc' = [pc EXCEPT ![c] = answer]
    /\ UNCHANGED <<chainVars, dbVars, keyOf>>

\* (mutant) Any error is reported as "INK already minted".
replyLost_conflict(c) ==
    /\ pc[c] = "await"
    /\ pc' = [pc EXCEPT ![c] = "conflict"]
    /\ UNCHANGED <<chainVars, dbVars, keyOf>>

\* The RPC fails; the transaction may already have executed, or may still do
\* so.  (The client sets no time-out: a call may also wait for ever.)
replyLost(c) ==
    /\ pc[c] = "await"
    /\ pc' = [pc EXCEPT ![c] = "error"]
    /\ UNCHANGED <<chainVars, dbVars, keyOf>>

\* (mutant) The passport is left out of the transaction.
mirrorEarning_noPassport(c) ==
    LET k == keyOf[c]
        u == UserOf[k]
        amount == INK_AMOUNTS[TriggerOf[k]]
    IN  /\ pc[c] = "mirror"
        /\ ledger' = [ledger EXCEPT ![k] = [amount |-> amount, digest |-> c]]
        /\ balance' = [balance EXCEPT ![u] = @ + amount]
        /\ pc' = [pc EXCEPT ![c] = "reads"]
        /\ UNCHANGED <<chainVars, keyOf, totalInkEarned>>

\* The Prisma transaction: ledger, balance and passport move together.  The
\* increments are applied whether the ledger upsert creates or updates.
mirrorEarning(c) ==
    LET k      == keyOf[c]
        u      == UserOf[k]
        amount == INK_AMOUNTS[TriggerOf[k]]
    IN  /\ pc[c] = "mirror"
        /\ ledger' = [ledger EXCEPT ![k] =
                        IF @ = NoRow THEN [amount |-> amount, digest |-> c]
                                     ELSE [@ EXCEPT !.digest = c]]
        /\ balance' = [balance EXCEPT ![u] = @ + amount]
        /\ totalInkEarned' = [totalInkEarned EXCEPT ![u] = @ + amount]
        /\ pc' = [pc EXCEPT ![c] = "reads"]
        /\ UNCHANGED <<chainVars, keyOf>>

\* The Prisma transaction is rolled back and mintEarning throws.
mirrorFails(c) ==
    /\ pc[c] = "mirror"
    /\ pc' = [pc EXCEPT ![c] = "error"]
    /\ UNCHANGED <<chainVars, dbVars, keyOf>>

\* The balance and the total are read back for the answer; an error there is
\* thrown although the INK is minted and recorded.
readBack(c) ==
    /\ pc[c] = "reads"
    /\ \E answer \in {"minted", "error"} : pc' = [pc EXCEPT ![c] = answer]
    /\ UNCHANGED <<chainVars, dbVars, keyOf>>

\* The server process dies: every call in progress is gone.
Crash ==
    /\ \E c \in Call : pc[c] \in Active
    /\ pc' = [c \in Call |-> IF pc[c] \in Active THEN "crashed" ELSE pc[c]]
    /\ UNCHANGED <<chainVars, dbVars, keyOf>>

-----------------------------------------------------------------------------
(***************************************************************************)
(* The chain's steps.                                                      *)
(***************************************************************************)

\* (mutant) The registry is not consulted.
earnAllowed_noKeyCheck(k) == TriggerOf[k] <= SUBMISSION_APPROVED

\* The assertions of ink_earning::earn that a key can fail.
earnAllowed(k) == TriggerOf[k] <= SUBMISSION_APPROVED /\ k \notin registry

\* (mutant) The key is not locked.
earn_noLock(c) ==
    LET k == keyOf[c]
        u == UserOf[k]
    IN  /\ tx[c] = "submitted"
        /\ earnAllowed(k)
        /\ coins' = [coins EXCEPT ![u] = @ + get_amount_for_trigger(TriggerOf[k])]
        /\ tx' = [tx EXCEPT ![c] = "executed"]
        /\ UNCHANGED <<registry, dbVars, pc, keyOf>>

\* ink_earning::earn commits: the key is locked and the INK minted.
earn(c) ==
    LET k == keyOf[c]
        u == UserOf[k]
    IN  /\ tx[c] = "submitted"
        /\ earnAllowed(k)
        /\ registry' = registry \cup {k}
        /\ coins' = [coins EXCEPT ![u] = @ + get_amount_for_trigger(TriggerOf[k])]
        /\ tx' = [tx EXCEPT ![c] = "executed"]
        /\ UNCHANGED <<dbVars, pc, keyOf>>

\* earn aborts: the transaction leaves no trace but its failure.
earnAborts(c) ==
    /\ tx[c] = "submitted"
    /\ ~earnAllowed(keyOf[c])
    /\ tx' = [tx EXCEPT ![c] = "aborted"]
    /\ UNCHANGED <<registry, coins, dbVars, pc, keyOf>>

\* The validators never execute it (a stale AdminCap version, no quorum).
txRejected(c) ==
    /\ tx[c] = "submitted"
    /\ tx' = [tx EXCEPT ![c] = "rejected"]
    /\ UNCHANGED <<registry, coins, dbVars, pc, keyOf>>

-----------------------------------------------------------------------------
ServerStep(c) ==
    \/ findLedgerEntry(c)
    \/ assertTreasuryHealthyFails(c)
    \/ signAndExecuteTransaction(c)
    \/ replySuccess(c)
    \/ replyAbort(c)
    \/ replyLost(c)
    \/ mirrorEarning(c)
    \/ mirrorFails(c)
    \/ readBack(c)

ChainStep(c) == earn(c) \/ earnAborts(c) \/ txRejected(c)

Next == Crash \/ \E c \in Call : ServerStep(c) \/ ChainStep(c)

Spec == Init /\ [][Next]_vars

-----------------------------------------------------------------------------
(***************************************************************************)
(* Properties.                                                             *)
(***************************************************************************)

\* Every variable has its type: the registry and the rows range over Key, a
\* row's digest is that of a call's transaction, amounts are naturals.
TypeOK ==
    /\ registry \subseteq Key
    /\ coins \in [User -> Nat]
    /\ tx \in [Call -> {"none", "submitted", "executed", "aborted", "rejected"}]
    /\ ledger \in [Key -> Row \cup {NoRow}]
    /\ balance \in [User -> Nat]
    /\ totalInkEarned \in [User -> Nat]
    /\ pc \in [Call -> {"idle"} \cup Active \cup Ended]
    /\ keyOf \in [Call -> Key]

\* "so even if Postgres missed recording a prior success, the chain prevents
\* double-minting" (mintEarning): of all the calls ever made for a key, retries
\* and races included, at most one transaction mints, and the registry holds
\* exactly the keys some transaction minted.
NoDoubleMint ==
    /\ \A c, d \in Call :
          tx[c] = "executed" /\ tx[d] = "executed" /\ keyOf[c] = keyOf[d] => c = d
    /\ registry = {keyOf[c] : c \in {d \in Call : tx[d] = "executed"}}

\* The INK in a wallet is what the keys in the registry are worth, each
\* counted once.
SupplyMatchesRegistry ==
    \A u \in User :
        LET keys == {k \in registry : UserOf[k] = u}
        IN  coins[u] = Total([k \in keys |-> get_amount_for_trigger(TriggerOf[k])])

\* Postgres never runs ahead of the chain: a ledger row names the transaction
\* that minted its key and the amount that transaction minted.
LedgerBackedByChain ==
    \A k \in Key : ledger[k] # NoRow =>
        /\ k \in registry
        /\ keyOf[ledger[k].digest] = k
        /\ tx[ledger[k].digest] = "executed"
        /\ ledger[k].amount = get_amount_for_trigger(TriggerOf[k])

\* The three writes of the mirror agree: a user's balance and totalInkEarned
\* are both the sum of the user's ledger rows, however the calls interleave.
MirrorAddsUp ==
    \A u \in User :
        LET rows     == {k \in Key : ledger[k] # NoRow /\ UserOf[k] = u}
            credited == Total([k \in rows |-> ledger[k].amount])
        IN  balance[u] = credited /\ totalInkEarned[u] = credited

\* INK that is on chain and not in the ledger is either still being mirrored
\* by the call that minted it, or that call failed or crashed on the way: a
\* race between calls alone never loses a credit.
DriftOnlyByFault ==
    \A k \in registry : ledger[k] = NoRow =>
        \E c \in Call : /\ keyOf[c] = k
                        /\ tx[c] = "executed"
                        /\ pc[c] \in {"await", "mirror", "error", "crashed"}

\* An answer can be relied on: a call that returned a result has its row in
\* the ledger, and a call that was told "INK already minted for this action"
\* has its key on chain, minted by some other call.
AnswersAreTrue ==
    \A c \in Call :
        /\ pc[c] \in {"cached", "minted"} => ledger[keyOf[c]] # NoRow
        /\ pc[c] = "minted" => ledger[keyOf[c]].digest = c
        /\ pc[c] \in {"cached", "conflict"} =>
              \E d \in Call \ {c} : keyOf[d] = keyOf[c] /\ tx[d] = "executed"

\* A ledger row, once written, never changes: the update branch of the upsert
\* (a second credit for one key) is never taken.
LedgerRowsAreFinal ==
    [][\A k \in Key : ledger[k] # NoRow => ledger'[k] = ledger[k]]_vars

\* INK that the chain has and Postgres has missed: the call that minted it is
\* over, and left no row.
Lost(k) ==
    /\ k \in registry /\ ledger[k] = NoRow
    /\ \A c \in Call : keyOf[c] = k /\ tx[c] = "executed" => pc[c] \in {"error", "crashed"}

\* "Postgres mirror out of sync - skipping Postgres write" (mintEarning): what
\* the mirror has missed no retry makes up for, however many calls come later
\* and whatever their transactions do.  A second credit is excluded at the
\* price that the first is lost.
LostIsNeverCredited == [][\A k \in Key : Lost(k) => Lost(k)']_vars

\* The detailed specification implements the promise: minted keys are those in
\* the registry, recorded keys those with a ledger row.
Promise == INSTANCE InkPromise
               WITH minted <- registry, recorded <- {k \in Key : ledger[k] # NoRow}
ImplementsPromise == Promise!Spec

\* The three books, registry, coin and mirror, agree with one another.
BooksAgree == SupplyMatchesRegistry /\ MirrorAddsUp
=============================================================================
