# Arktion on Sui: TLA+ models, checks and proofs

Arktion is a reading platform: a NestJS backend (`src/backend`), Postgres through
Prisma, Move contracts on Sui (`src/smart-contract/arktion`), and a Next.js
frontend (`src/frontend`). Readers track series and earn INK and badges for it,
vote on community submissions with their INK, and tip creators in USDC.

The same facts live in two places. Sui holds INK, badges, passports and the keys
of what was paid. Postgres holds a *mirror* of them, plus the library, the votes
and the payment rows. Almost every service method reads Postgres, sends a
transaction, and writes Postgres again, with an `await` between each. There is no
lock, no queue and no recovery job, and most Postgres writes do not repeat the
condition they rely on. What can go wrong is therefore an interleaving of
requests, a reply that is lost after the chain has moved, or a crash between two
writes. The models take every `await` as a step.

## 1. Inventory

State, operations and difficulty of each part (the files are under `src/`).

| Component | State | Operations | What is hard | What makes it correct | Module |
|---|---|---|---|---|---|
| INK minting (`ink.service.ts`, `ink_earning.move`, `ink.move`) | `EarningRegistry`, INK coins; `InkLedgerEntry`, `InkBalance`, `Passport.totalInkEarned` | `mintEarning`, `earn` | concurrent calls for a key, lost replies, late transactions, crash before the mirror | a key mints once; Postgres never ahead of the chain; a row is written once; the sums agree | `InkEarning` |
| Submissions and the DAO vote (`submission.service.ts`, `badges.move`) | `Submission`, `SubmissionVote`; the registries on chain | `create`, `castVote`, `_finalise`, `_executeApproval`, `adminApprove`, `adminReject` | status read two awaits before it is written, badge mirror read before the PTB, finalisation only by votes | paid once, with one badge; never claimed unpaid; weights backed by balances; decisive tallies finalise | `SubmissionDao` |
| Reading records (`reading.service.ts`) | `ReadingRecord`; `Passport.seriesTracked`, `.seriesCompleted`, `.chaptersRead` | `upsertRecord`, `checkAndFireMilestones`, `deleteRecord` | lost updates of progress, rewards fired after the response, one failure ends the rest | completions and INK are earned; no milestone is lost without a fault | `ReadingMilestones` |
| Badges (`badges.service.ts`, `badges.move`) | `BadgeRegistry`; `BadgeEarned` | `mint` | a unique index that never fires (NULL `seriesId`), a mint that throws for ever after a lost mirror row | at most one row per badge, only for a badge on chain | in `ReadingMilestones`, `SubmissionDao` |
| Sign-in and bootstrap (`auth.service.ts`, `bootstrap.service.ts`) | `User.bootstrapState`, wallet and object ids; passport, library, journal objects | `completeZkLogin`: phases A, B, C, and resumption | crash in any phase, overlapping logins, an Enoki answer that changes | one wallet, one identity, nobody locked out | `AuthBootstrap` |
| Sessions (`session.service.ts`, `jwt-auth.guard.ts`) | `Session` | `issue`, `revoke`, `revokeAllForUser` | revocation against use | a session only for a complete identity | `issue` in `AuthBootstrap` |
| Tips and sends (`payment.service.ts`, `payment.store.ts`, the tip and wallet pages) | `TipTransaction`, `SendTransaction`, the page's idempotency key; USDC | build, sign, confirm | a client that times out before the server, a reply lost after the transfer, rebuilt bytes | what is confirmed was paid; what was submitted is on record; a key pays once | `Payments` |
| Gas station (`gas.service.ts`) | treasury balance, its coins | `executeAsAdmin`, `buildSponsoredBytes`, `submitSponsoredTx` | unserialised use of one `AdminCap` and one gas coin | every caller is answered | inside each module that mints; sponsored: `PassportSync` |
| Passport sync (`passport.service.ts`, `passport.store.ts`, `passport.move`) | on-chain stats, `lastSyncedAt`, `identityBlobId` | build, sign, submit, `update_stats_attested`, `takeSnapshot` | attestations submitted late or out of order, lost answers | INK never falls; what is shown was true once; success means executed | `PassportSync` |
| Administrators (`admin-users.service.ts`, `admin-auth.service.ts`) | roles, requests, sessions, TOTP, backup codes, lock-out | four-eyes role change, deactivate, login, TOTP, refresh | races of two reviewers, read-modify-write of counters and backup codes | three people per role change, a Super Admin remains, credentials are what was enrolled | `AdminAuth`, `AdminRoles` |
| Chapter cache (`series`, MangaDex adapter) | `Chapter`, `chaptersSyncedAt` | `getChapters`, background sync, `getPages` | a stampede of syncs, partial syncs, one stamp for all languages | what a sync listed is served | `Catalogue` |
| Creator studio (`creator`, its pages and store) | `Series.status`, `Page` | publish a chapter, edit a series | three copies of the status in every tab | a published chapter is out, whole and in order | `Publishing` |
| Browser sessions (`auth-context.tsx`, sign-in pages, stores) | stored token, zkLogin state, each tab's stores | sign in, verify, sign out, fetch | tabs that share a token and not their stores | a tab is one user's; no session outlives its sign-out | `ClientSession` |
| Reader and series pages (`series.store.ts`) | the store's list, detail, pages | navigate, fetch, report progress | answers out of order | completion is reported for the last chapter only | `ReaderPage` |
| Reading shelf, journal | one array per store | fetch, add, update, remove | a list answered late beside writes | the list is the server's once quiet | `ReadingShelf`, `JournalPage` |
| DAO page (`submission.store.ts`) | the page's copy of a tally | fetch, propose, vote | the tally is never fetched again after a vote | it is the server's | `DaoPage` |
| Passport page | copy of the row, snapshot, sync stage | fetch, export, anchor | the same bar drawn twice, from a level that is never raised; exports in other tabs | what is shown is the row's; both bars agree | `PassportPage` |
| Creator's application | form; status in every tab; `CreatorApplication`, `User.creatorStatus` | check, apply | a check answered late, two applications at once | the first application stays; a tab knows its creator | `CreatorApplication` |
| Wallet pages | dialog, stage, key; three cards | send, read | a dialog closed over a send that runs on | success was executed; a key pays once | `WalletPage` |
| AI assistant (`ai.store.ts`, panel, modal, DTO) | messages, suggestions | ask, suggest | answers after the series changed; limits of the DTO | every answer stands under its question | `AiAssistant` |
| Move package used directly (`admin`, `ink`, `ink_earning`, `badges`, `submission`, `reading_history`, `journal`) | shared registries, capabilities, owned objects | every entry | capabilities change hands, caller-chosen keys | claims are approved, backed, single; dates and marks stay | `ChainRewards`, `ChainShelves` |
| Users, presentation | one-statement rows, layout | profile update | - | - | not modelled |

**How they interact.** A reading update answers the client and then calls
`InkService.mintEarning` and `BadgesService.mint`, which go through
`GasService.executeAsAdmin`. An approved submission puts `ink_earning::earn` and
`badges::mint` in one PTB of its own and writes the mirrors itself. The vote's
weight is the INK balance that minting credits. The passport row that minting and
reading update is created by the bootstrap, and the passport sync attests its totals
on chain. Tips, sends and syncs are signed by the reader and relayed by the backend.
On the client, pages talk to stores, stores to the services; nothing cancels a
request, and an answer is stored in whatever state the page is in when it comes.

The list of what is hard to test, each entry at its line with the properties that
guard it, is in `PROJECT.json` under `hazards`.

## 2. What is modelled

Conventions common to all modules: `VARIABLES` are grouped by who owns them
(Postgres, Sui, the server, the page). An invocation is an element of a set
(`Call`, `Request`, `Login`, `Attempt`) that is used once; `pc` says at which
`await` it stands, and `req` holds its local variables. A transaction has a fate of
its own (`tx`): it may execute after the request that sent it has failed or the
server has restarted. A fault is an action (`stepFails`, `replyLost`, `Crash`, ...),
never a change of another action. Operators named `..._x` with `(mutant)` in their
comment are variants of an action with a plausible bug; nothing uses them except
the demonstration that each property notices its bug.

### `InkEarning` (with `InkPromise`)

`findLedgerEntry`, `assertTreasuryHealthyFails`, `signAndExecuteTransaction`,
`replySuccess`, `replyAbort`, `replyLost`, `mirrorEarning` and `mirrorFails` are the
steps of `mintEarning`; `earn`, `earnAborts` and `txRejected` are the chain's.
A key determines its user and trigger, as the key's format does. `mirrorEarning` is the
Prisma transaction with its three writes and the upsert whose update branch leaves
the amount; `readBack` reads what the answer tells. `InkPromise` is what a caller may
rely on: a key is minted once, and recorded only after that, once; `ImplementsPromise`
is the refinement. `LostIsNeverCredited` is the other side of the design: what the mirror
has missed once its call is over, no retry and no race makes up for, since every later call
is turned away by the registry.

### `SubmissionDao`

One action per await of `castVote`, `_finalise`, `_executeApproval`, `adminApprove`
and `adminReject`. The tally operators (`InkFor`, `approveBps`, `quorumMet`,
`shouldApprove`, `decisive`) are `buildTally` with its integer division.
`approvalExecutes` is the whole PTB: the INK key, the coins and, unless the mirror
showed a Contributor badge, the badge. `earnByReading` credits INK in between, as
`InkEarning` does. Expiry is lazy, as in the code: `votingEnds` changes only the
clock, and a later vote finalises.

### `ReadingMilestones`

`upsertRecord`, `checkReachedEnd`, `writeRecord` and `trackSeries` are the request; then
the rewards (`findLedgerEntry`, `mintReward`, `mintUnmirrored`, `alreadyMinted`) one
after the other, `completeSeries`, the badges (`findBadge` to `createBadgeRow`) and
`countChapters`. `rewardsOf` computes the keys as the code does, from the progress
the request read, chapter 0 (the oneshots) included: `InkIsEarned` says what the code means
by earned, and `FirstChapterIsRead` what the documentation does. `mintEarning` is used at the level of `InkPromise`: the detailed
module shows that this is what it implements.

### `AuthBootstrap`

One identity. `completeZkLogin` reads the row; `getEnokiAddress`, `createUser` (phase
A), `findExistingBootstrapObjects`, `bootstrapExecute` and `bootstrapReply` (phase B),
`finalizeBootstrap` (phase C), `updateWallet` and `issueSession` follow. The three
objects are made by one PTB and are named by the login that sent it; a resumed login
may pick each of them from a different PTB, since the node lists a wallet in any
order. `overlapped` is a history variable: it records that a login began while the
work of another was not over.

### `Payments`

The page and store (`handleSubmit`, `signAndConfirm`, `signingFails`,
`clientTimesOut`) and the two handlers (`findPayment`, `checkBalance`,
`createPayment`; `readPayment`, `executeTransaction`, the replies,
`markConfirmed`, `markFailed`). The page keeps its idempotency key until it
succeeds or the form changes. The bytes of a build are its own: each build selects
the sender's coins anew. `buildSendTransaction` and `submitSend` have the same
steps and guards on `SendTransaction`; the module states them once, with `Payable`
standing for the recipients a tip or a send accepts. A flow is the store's and a key the
page's: `openPage` gives the page a new key and a free button over flows that run on
(`left`), whose ends write the stage all the same, and `changeAmount` drops the key, while a
flow runs too, as the presets do.

### `AdminAuth` and `AdminRoles`

`AdminAuth` has the password (`login`, `passwordFails`, `passwordMatches`, around the
bcrypt that separates the read of the counter from its write), the second factor
(`validateTotp`, `consumeBackupCode`), sessions (`createSession`, `refresh`,
`revokeSession`, `logoutAll`) and enrolment. `AdminRoles` extends it with the console
behind both guards: a guard is one read (`superAdmin`), the role check another
(`findTarget`, `assertCanManage`), the transaction that applies a change a third
(`applyChange`). `overlapped` is a history variable: the accounts two calls were at work
on at once. What the code promises without a lock (`BackupCodeOnce`, `TotpUsable`,
`SessionsCurrent`, `DecidedOnce`) is stated for the other accounts; `FourEyes`,
`SuperAdminRemains` and `LockIsEarned` hold whatever overlaps.

### `PassportSync`

The store's `syncOnChain` with its five awaits, both handlers, the sponsored transaction
and the Move function; `takeSnapshot` beside it. A built transaction names the versions
of the passport and of the gas coin it was built on, so a second one built on the same
is refused; zkLogin signatures end with an epoch. `level` is computed twice as in the
code (`calculateLevel`, `calculate_level`), and `LevelsAgree` compares the two around
every threshold.

### `Catalogue` and `Publishing`

A request for chapters and the sync it starts are two processes: the request waits for
the sync only when nothing is cached. `upsertChapter`, `storePageCount` and the stamp are the
sync's and the pages request's writes. A series is taken to load in one step and to keep
its format. `Publishing` adds the studio: the new-chapter page with its uploads, one
request per page image, `createChapter`, `promoteFromDraft`, and the edit form, over the
three copies a tab keeps of the series (`statusById`, `ownSeries`, `ownChapters`), each refreshed by its
own rules. A page that is left takes its form with it and not the handler that awaits an
answer (`Leaves`, `gone`, `Back`): a chapter is published and its series promoted behind
whatever page the tab shows by then, and `push` brings it to the edit page. The two share no row; `OneAtATime` explores each with the other at rest.
What `createChapter` reads of the series does not change between its awaits, and
removing a page from the form is the creator's choice of files.

### `ClientSession`

`localStorage` is shared by the tabs, `sessionStorage` and the stores are not. Every
request carries the token found when it is *sent*; `wire` holds what is under way in
each tab. `switched`, `cutOff`, `leftover` and `strayed` are history variables: they name the
events after which the code mixes two users or leaves a session behind (a sign-in
beside another tab's user, or on a page that still keeps another's proof; a check of
the token that failed for want of a network, which wipes the token and not the proof; a
sign-out that clears whatever token is stored by then).

### The pages: `ReaderPage`, `AiAssistant`, `ReadingShelf`, `JournalPage`, `DaoPage`, `WalletPage`, `PassportPage`, `CreatorApplication`

Each is one page with its store, and the server in one step per request (the services'
own steps are in the modules above). `ClientPages` composes seven of them: they share no
state, so one takes its turn while the others rest; for TLC, `MCClientPages` chooses which
one moves, at the start. `MCPayments` has `WalletPage` beside the tips. A request in flight
is an element of a set, or of a queue (`ReaderPage` has one for each kind of request, since
an answer only overtakes those of its kind), and may be answered in any order, late, or
never. As above, a history variable names the
races after which the page is not promised to be right (`overtaken`, `disturbed`,
`crossed`, `apart`, `passed`, `strayed`), and the properties are about everything else.
In `WalletPage` a send has two clients: the dialog that started it and whatever
dialog is open when it ends. The reader's and the creator's page have the same dialog and
differ in the cards (`onPage`). `PassportPage` draws the level bar twice, as the page does in per
cent and as the image does in pixels (`levelProgress`, `imageBar`), for every level
that may stand beside a total. `CreatorApplication` has the form, the status each tab
keeps once a check has succeeded, and `CreatorService.apply` as the check and the
transaction that it is; no page of the studio asks for that status (`creatorShell`), and a
request goes on when its tab has given up or been reloaded (`Unheard`). In `DaoPage` a
submission is decided by the reader's vote, by a vote that comes too late and is refused
(`lateVote`), by others (`othersDecide`), or not, when the decision fails after the vote is
kept (`decisionFails`).

### `ChainObjects`: `ChainRewards` and `ChainShelves`

The Move package by itself, as anybody may call it with the capabilities they own:
one action per entry, a failed assertion being a guard. `AdminCap`, `TreasuryCap` and
coins have `store` and change hands without a call of the package (`transferCap`,
`transferTreasury`, `sendInk`). A revoked administrator keeps the cap, and it still
opens every gate. Libraries and journals are owned objects; an address may have several.
`ChainObjects` puts the two together: a transaction calls entries of the one or the
other. `InkTotals` has the sum of a book of INK, as the number of its units; `InkEarning`
uses it too.


## 3. The runs

| Run | Module, cfg | Bounds | Shows |
|---|---|---|---|
| `ink_safety` | `MCInk`, `Ink.cfg` | the service: 3 calls, 3 keys, 2 users; the package: 2 addresses, 2 suggestions, 2 keys, amounts of 4 and 10 INK, 1 hand-over or direct mint; 1 library, 1 journal with 2 entries, 3 epochs | no double mint or credit; answers are true; drift only by a fault, and then for good; refines `InkPromise`; claims are approved, backed and single; INK is accounted for; dates and marks stay |
| `dao_safety` | `MCSubmissionDao`, `SubmissionDao.cfg` | 3 requests, 2 submissions of one reader, 2 voters, one earning by reading, all faults | paid once with its badge; claims are paid; weights backed; a decisive tally is finalised unless a fault, or the badge of the other submission, intervened |
| `dao_decided_once` (violation) | `DaoDecidedOnce.cfg` | 2 requests, no faults | a vote's finalisation overwrites a decision |
| `first_chapter` (violation) | `FirstChapter.cfg` | 2 requests, chapters 0 and 60, no faults | the first-chapter reward is given at chapter 0 |
| `reading_safety` | `MCReadingMilestones`, `Reading.cfg` | 3 requests, 1 series, chapters 0 and 60, all faults | completions and INK are earned; one badge row; the passport miscounts series only after a race; without a fault every milestone is paid |
| `auth_bootstrap` | `MCAuthBootstrap`, `AuthBootstrap.cfg` | 3 logins, 2 addresses, 1 drift | one wallet; no session without identity; one identity when logins do not overlap; nobody locked out |
| `payments` | `MCPayments`, `Payments.cfg` | tips: 3 presses, 2 of them with a fault, 3 keys, 3 transfers, balance for two small tips, 1 tip left running; sends: 2 presses, 2 visits, 2 earnings, 1 fault | confirmed was paid; submitted is on record and settled; paying twice takes a fault or a tip left running; a send shown as sent was executed, cards are the server's |
| `admin_console` | `MCAdminRoles`, `AdminRoles.cfg` | 4 accounts, 3 calls, 2 wrong passwords lock, 1 backup code | role changes take three people; a Super Admin remains; locks are earned; second factors stay usable |
| `passport_sync` | `MCPassportSync`, `Passport.cfg` | 2 tabs, 2 jobs, 2 changes of the totals, 1 foreign transaction, 2 epochs, network and RPC faults | INK and level never fall; what is attested was true once; success means executed; a sync ends |
| `catalogue` | `MCPublishing`, `Catalogue.cfg` | 2 languages, 2 numbers, 2 jobs, 2 tabs, 2 page images, 1 save, all faults | a sync's chapters are served; a published chapter is out; rows move forward unless syncs overlap |
| `client` | `MCClientSession`, `Client.cfg` | 2 tabs, 2 users, 2 sessions, 3 requests in flight, 3 page loads, 1 fault | a tab shows one user; no session is forgotten |
| `client_pages` | `MCClientPages`, `ClientPages.cfg` | per page 2-3 visits, 1 fault, at most 3-6 requests in flight | completion reported for last chapters; answers under their questions; lists, tallies, the passport and the creator's status are the server's once quiet; an application is not replaced |

**Why the bounds are enough.** The hazards are races of two actors and what a third
finds afterwards. Three invocations give every race of two, a retry after it, and a
retry that overlaps it. Two keys, users or transfers make mixing them up visible.
The DAO's numbers (450 INK of the second voter, 100 earned by reading, a quorum of
500) put the tally on both sides of the quorum and let weights change. The reader
reports chapter 0 or 60 and the end of the series moves from 30 to 60: a request
crosses no milestone of 25 or two of them, so that a failure can come between the
two rewards, and the end that one request reached is no longer the end. The
balance of two small tips lets a transfer succeed, succeed twice and abort. In
`admin_console` two Super Admins, a Moderator and a free address allow a change made
by one, approved by the other and about the third, a deactivation beside it, and a
Super Admin that is created; a lock takes two wrong passwords. The reader of
`passport_sync` has 490 INK, one earning short of level 2. In `client_pages` two
series, one with two chapters and one with one, let every answer arrive on a page it
was not asked for; totals of 0, 498 and 600 INK are at the foot, just below and above a
threshold. Bounds on counters are constants (`MaxEarned`, `MaxLast`,
`MaxDrifts`, `MaxChanges`, `MaxFaults`, `MaxVisits`, ...). Five runs have state
constraints, named in their MC modules: `Explored` (client: three requests in flight,
one of them a page's; once two users are mixed, fewer loads and faults are followed), `Few`
(pages: requests in flight; states in which a page's excuse has occurred and its
properties say nothing more), `Few` and `Reduced` (payments: interchangeable presses and keys
are taken in order; a tip is left running while the client has given up on none and none was
hopeless; a change of the amount comes just before the press that uses it, since nothing else
looks at the key; a wallet's sends rest while a card is being read, and begin with no INK
earned since the cards were read and no failed INK card), `OneAtATime`
(catalogue) and `Bounded` (chain: one hand-over, direct mint or burn). In `client_pages` the
two tabs and the two applications are symmetric (`AppSymmetry`; no property of that run is a
liveness property). All runs
allow the system to stop (`CHECK_DEADLOCK FALSE`): invocations are used once,
so a behaviour ends when they are spent.

**Fairness.** Liveness is checked for sign-in (`LoginSucceeds`) and the sync button
(`SyncEnds`). The first assumes weak fairness of a login's next step, whichever that is, a
failing one included (`Proceed \/ stepFails`), and of the chain's decision on its
transaction: a resumed handler is run by the event loop, and what it awaits is answered or
ends with an error. For calls of the node that is an assumption about the outside, since the
code sets no time-out of its own for them (`sui.service.ts:41`); what it buys is only that a
login ends, and `LoginSucceeds` is about what a login without a fault, or one after it,
achieves. `SyncEnds` assumes weak fairness of every await of a sync, whose end by an error is
obliged by the 15 seconds of the tab's HTTP client (`lib/api/client.ts:12`). That a mint
ends is not claimed: a node that never answers leaves `mintEarning` waiting for good.
Nothing is assumed of callers:
nobody has to call, retry or vote. The other progress properties
(`TallySound`, `MilestonesPaid`, `SubmittedSound`, and the parts of the page properties
about a quiet page) are stated as invariants of the states in which every request
has ended.

**Faults.** `rpc`: the node refuses a transaction, or its reply is lost and the
transaction executes or not; `db`: a Prisma call throws, a transaction rolls back;
`crash`: the process dies and every request in progress with it; `net`: an HTTP request
or its answer is lost; `source`: the source of chapters fails; `expire`: a session
ends. Assumed of the outside: Postgres statements and Prisma transactions are atomic,
a PTB is atomic, and a query of the chain sees what has executed.

**Properties that join several.** A run's property is often a conjunction of named parts,
each with its own comment in the module: `BooksAgree` (`SupplyMatchesRegistry`,
`MirrorAddsUp`), `TallySound` (`InkAddsUp`, `DecisiveTallyFinalises`), `RecordsSound`,
`IdentitySound`, `ConfirmedSound`, `SubmittedSound`, `CredentialsSound`, `ConsoleSound`,
`PassportSound`, `NothingFallsBack`, `CatalogueSound` (`CacheServesSource`, `ChapterIsOut`), `SessionSound`,
`PagesTold`, `WalletSound`, `ClaimSound`, `ObjectsSound` (`InkAccounted`, `RecordsDated`). The type invariant of a module
is one of the parts.

## 4. What the code and its documentation disagree on

Two runs check a sentence of a comment or a document and find it broken (findings in
`PROJECT.json`): `dao_decided_once`, the status guard of `_finalise`, which does not
prevent a second decision (`submission.service.ts:268`); and `first_chapter`, the first-chapter
reward, which is given at chapter 0 too (`reading.service.ts:237`). The rest was met while modelling; each is a behaviour the models
allow, and the properties are worded around it.

*Minting, votes, reading.* The Postgres mirror does not follow a mint whose reply was
lost: the retry is told it was minted (`ink.service.ts:139`), and `passport.service.ts:136`
reads the mirror as the truth. A decisive submission can stay PENDING without any fault,
because a second approval for the same reader was built when the first one's badge was
not yet in the mirror (`submission.service.ts:321`). Concurrent updates take reading
progress back (`reading.service.ts:77`). A second concurrent Completionist mint throws
before the chapters are counted (`reading.service.ts:290`). Two first updates of a series
both count it (`:121`).

*Sign-in and payments.* Overlapping first logins mint two passports
(`auth.service.ts:205` against `:57-58`). A retried tip can pay twice
(`payment.service.ts:101` against `security.mdx:68`). The tip page frees its button when it is
opened, over a tip that is still running (`page.tsx:56`). A sign-out clears the stored token
for every tab and the proof in its own tab only (`auth-context.tsx:107`): another tab,
reloaded, offers the sign-in page with the old proof still stored, and who signs in there as
another user is shown beside it until the new proof is kept.

*Administrators.* A refresh never works: `createSession` stores the hash of a random
token and `refresh` looks for the hash of the signed one (`admin-auth.service.ts:202`,
`:322`, `:338` against `security.mdx:43`). A rejection beside an approval leaves an
applied change marked REJECTED (`admin-users.service.ts:233` against `:225`).

*Passport.* `Passport.level` is read (`passport.service.ts:135`) and never written; on-chain chapters can
fall when INK is equal, since the guard of `update_stats_attested` compares INK only. Not
every total only moves forward, as `ink-system.mdx:126` has it: a record that is deleted lowers
`seriesTracked`.

*Catalogue and studio.* The six-hour stamp is the series', so the first reader of another
language is answered with nothing while it is fresh, contrary to
`chapter.service.ts:37`. A creator's series has a random `externalId`, so every read asks the
source for it in vain. A failed upload drops a page of the chapter silently.
`promoteFromDraft` looks at a copy that is never refreshed. Users who are not approved
"should be redirected to /creator/apply on the frontend" (`creator.guard.ts:16`): no page
does, and the application form's own sidebar leads to the studio (`creator-shell.tsx:29`),
where the server refuses what the page asks for. Leaving the new-chapter page by its
back button while it publishes leads to the edit form, which still says "draft" and saves it
over the promotion. `getEarnings` totals the
last fifty tips only (`creator.service.ts:434`).

*Pages.* On the reader page a novel's marker can come into view before its text has
loaded, and progress is reported (`page.tsx:548` against `:441`). The series page shows
every error as "not found". The assistant's panel sends prompts of up to 3000 characters to a DTO that
accepts 2000 (`ai-panel.tsx:448`), and an answer that is empty or over 4000 characters
makes every later question of the chat refused. `reading.store.ts:56` expects a 404 where
the service answers 200 with an empty body, so an empty entry is put at the head of the
shelf. "Add to library" before the record has been read overwrites the status of a series that is
in the library. The journal's and the DAO's dialogs can be closed while they save;
a late success closes the next one. The DAO page's undo uses the new weight; a vote that comes too late decides the submission and
is answered 409, and one whose decision fails is kept and answered with an error, so the page
goes on listing what was decided, or the tally from before. In the
wallet, closing the dialog over a send forgets its key: a new press pays again; and after
any FAILED row "Try again" is refused for ever, although the page means to reuse the row.
On the passport page the skeleton stays for good when the first fetch fails (the
error is drawn below it, `page.tsx:252` against `:276`), and a snapshot taken in another tab is
never named once this one has exported its own. The tab that asked for the creator's
status before an approval and is answered after it offers the form again until it
is reloaded; two applications sent at once are both accepted, and the second stands.

*Move package.* A reader's second approved suggestion can never be claimed, because the
badge exists (`submission.move:4-6`; `ClaimSound` has it as `OneClaimPerReader`).
`ink::mint` is public for whoever holds both capabilities, although `ink.move` says that
INK is minted through `ink_earning` only. `set_history_blob` needs the operator's cap
and the reader's library in one transaction, so the backend cannot call it as
`reading_history.move:138` says. A chapter on chain may go back.

## 5. What is proved

TLAPS proves, for all values of the constants that satisfy the modules' assumptions:

**`InkEarning_proofs`** - `TypeCorrect`, `MintedAtMostOnce`, `LedgerIsBacked`,
`DriftNeedsAFault`, `AnswersHold`, `RowsWrittenOnce`, `LostStaysLost`, and the refinement
`EarningImplementsPromise`. The properties are not inductive: that a row is
never written twice depends on *who* can reach the mirror. The inductive
invariant `IInv` adds that the registry is the set of keys of executed
transactions, one each (`KeyMintedOnce`), what a call's place says of its
transaction (`CallMatchesTx`), and which call wrote a row (`RowMatchesCall`). From
these, the call at `mirror` is the only one whose transaction executed for its
key, and its row cannot exist yet. Assumed: `KeyAssumption` (a key has one user and
one of the three triggers) and `NoRowAssumption`.

`BooksAlwaysAgree` (`BooksAgree`) says that the three books of INK add up to one another. A
sum is written as the number of units of a book (`Units` in `InkTotals`), so that adding to
one entry adds that many units: the proof needs cardinalities of disjoint unions and no
induction over the book. What a step of the mirror adds to the ledger it adds to the
user's balance and total in the same transaction; what `earn` adds to a wallet it adds to
the registry.

The same module has the Move package's own way of paying (`ChainRewards`):
`ClaimsAreSound` (`ClaimSound`: types, every claim approved, badged and recorded, no
reader with two, reviews dated) and `DecisionsStand` (no transaction takes back a
decision, a claim, a locked key or a badge). `ClaimSound` is inductive as it stands: a
step that leaves suggestions alone and only adds keys and badges keeps what claims rest
on (`ClaimsUndisturbed`), a decision needs "pending", which no claimed suggestion is,
and a claim needs a badge not yet given, which every other claimed suggestion of that
reader would have given. Assumed: `RewardsAssumption`.

`ObjectsAreSound` (`ObjectsSound`) and `ObjectsAreKept` (`ObjectsKept`) are about the whole
package: the coins of all addresses and what was burned add up to what locked keys and
direct mints account for, by the same units; a completed reading is dated, and a date, a
mark or a decision once there stays, also when objects and capabilities change hands.

**`SubmissionDao_proofs`** - `DaoTypeCorrect`, `DaoPaysOnce`, `DaoClaimsArePaid`,
`DaoPaysWithOneBadge`, `DaoVotesAreBacked`, `DaoDriftNeedsAFault`. `IInv` adds
`RequestMatchesTx` (above all: a request that waits for an executed PTB, or records
it, finds no ledger row) and `WeightsBacked` (a weight that was read but not yet
written is backed). The proof goes by kinds of step: those that only read, those that
write Postgres, and those of the chain and the environment. Assumed: `DaoAssumption`.

`DaoTallyIsSound` (`TallySound`) adds `TallyInv`: votes stand only on rows that were created
(`RowsInOrder`), a PTB aborts only because its key or its badge was there
(`AbortsHaveReasons`), and whenever a tally is decisive and the submission PENDING some
request is acting on it or ended trying (`DecisiveIsHandled`). The last is what a lazy
finalisation amounts to: the vote that makes a tally decisive looks at it afterwards. When
all requests are over, the one that ended trying was turned down, and not for its key,
which would be a payment: so it was for a badge that the reader's other submission has
taken. A balance is the initial one, the earnings and 50 for each ledger row (`InkCounted`).

`ThePageCountsAsTheServer` (`TallyTold`) is about the page over it: there is one vote in
flight for a card, a list under way never crosses a vote the page is told of, and the
tally the page computes from a vote is the one the server builds after it (`counted`
against `buildTally`). What her vote decided is no longer listed, unless the vote came too
late or others decided (`closed`), or its decision failed (`apart`).

**`Payments_proofs`** - `ConfirmedWasPaid`, `SubmittedIsKept`, `PayingTwiceTakesAFault`
of tips, and `TheWalletIsSound` (`WalletSound`) of sends from the wallet page. None of
the first three is inductive: that a retry cannot pay again depends on the page, which
shows one attempt at a time. `IInv` says that a key stands for one transfer whoever uses
it (`KeysAgree`), what a handler's place says of its transfer and its row (`Placed`),
that one flow runs at a time, with the button shut, unless one was left running
(`OneAtATime`), and, from these, that an attempt that comes after a settled one with its
key is turned away (`SecondIsTurnedAway`). Assumed: `PaymentAssumption`.

`WalletSound` rests on `WalletInv`: a key is drawn by one press and stands for one
recipient and amount, whoever uses it again (`KeysDrawn`, `RowsHeld`), what moved is what a send at its
place may have moved (`MovedAt`), the page waits for one send at a time and that send is
the only one of its key that can still pay, unless the dialog was closed over one
(`OneWaits`, `PaysOnce`, `strayed`), and a card that was read after the last change
shows it (`CardsCurrent`). Assumed: `WalletAssumption`.

**`AuthBootstrap_proofs`** - `OneWalletEver`, `SessionsHaveAnIdentity` of the first
sign-in, `TabsAndSessionsAreSound` (`SessionSound`) of the sessions in the browser. The
wallet is chosen once, by the login that creates the row, and nobody changes it while
the bootstrap is pending; so `IInv` carries that all logins at work on the bootstrap
work on one wallet (`Agreed`), what each may rely on at its place (`Fits`), and that a
login nobody overlaps is the only one at work, and executes only when nothing is minted
(`Alone`). Assumed: `BootstrapAssumption`.

In the browser a tab has four things that are some user's: the token its requests carry,
the proof it signs with, its stores and what it shows. `ClientInv` says that they are
one user's already *before* an answer is used: of a request in flight, whose token it
carries and that nothing of another user's waits beside it (`Requested`); of a page at
the identity provider, that it has no request at all; and of the last good session, that
`localStorage` or an answer on its way holds it (`LiveSessionIsHeld`). The mixes are the
ones the history variables name, a proof left behind in another tab (`leftover`) among
them. Assumed: `ClientAssumption`.

**`ReadingMilestones_proofs`** - `LibraryIsSound` (`RecordsSound`: types, completions,
badge mirror, counter), `InkHasAReason`, `NoMilestoneIsLost`. That no milestone is lost
is about the end of the run; the invariant is about every moment of it. A reward is
*settled* when it is minted, owed by a request under way, or some request has failed,
and settled is for ever (`Stands`); a record is worth only settled rewards (`Library`);
what a request read of a record was settled when it read it (`Fits`), and what it writes
beyond that it owes itself. Lost updates of progress do not matter then: a smaller record
is worth less. The counter `seriesTracked` has an invariant of its own, `CountInv`: the
counter and the requests on their way to it together are the rows, as long as one
request found a series new and none deleted it; that needs that nobody finds a series in
the library before such a request has written it (`FirstIsNew`). Assumed:
`ReadingAssumption` (the series and the requests of a behaviour are finitely many).

**`AdminRoles_proofs`** - of the console, `RolesTypeCorrect`, `RoleChangesTakeThree`
(`FourEyes`), `ASuperAdminRemains`, `RequestsAreDecidedOnce` and, with all of them,
`TheConsoleIsSound`; of the sign-in, `LocksAreEarned`, `LiveSessionsAreCurrent`,
`BackupCodesOpenOnce`, `TotpStaysUsable` and, with all of them, `CredentialsAreSound`. Between
two awaits a call relies on what it read: `Fits` says what that is at each place,
`Backed` that requests and sessions refer to rows, and `Grows` why the steps of others
leave it true. A Super Admin remains because a call that holds an account to change it
(`Held`) has never the first administrator's. The rest is `CallsAreDisciplined`
(`Performs`: which operation a call at a place performs; `Exclusive`: calls on one
account come one at a time, unless it is in `overlapped`; `Alone`: what a lone call has
read still holds when it writes), and then per property: a counter shows no more
wrong passwords than there were (`Counted`), a code belongs to one
account (`CodesKept`) and one that was used is off its list (`CodesSpent`), and a
decision leaves a request decided. Assumed: `AdminAssumption`, `FirstAdminAssumption`
(the rows a behaviour starts from).

**`ClientPages_proofs`** - the other pages, and the passport the last of them shows. Each
page has an invariant that ties what it shows to what every request in flight has read
or will do. `OnlyTheLastCompletes`
(`CompletedIsLast`): the list is the one of the series in the URL unless it came late,
and a chapter with none after it in a list is the last; that is where a least-number
lemma is needed. `TheShelfIsTold` (`ShelfSound`): while requests are apart, an answer on
its way is true of the row it is about. `ThePassportIsShown` (`PassportShown`): a copy not
overtaken is as fresh as the row unless that has changed, and a blob that is named was
stored; the two level bars differ by less than half a per cent and half a pixel for
every total, by arithmetic on the five spans between thresholds.
`ApplicationsAreSound` (`ApplicationSound`): one application is stored unless two were
examined at once, and a tab that does not know it is `behind`. `QuietPagesAreRight`
(`QuietPageIsRight`): as long as no answer overtook an older one, the last request of a
kind decides what the reader page will show, so either it already shows what its URL names
or the last request is for that (`Expected`); a queue that loses an element keeps its last,
or lost it (`Removed`). `TheJournalIsTold` (`JournalSound`): every line of the page is the
row, or the answer of an update or of a deletion that is on its way says what becomes of it,
and every row has a line or the answer of its creation is on its way (`ListExplained`); a
page nobody disturbed has no fetch beside a write (`OneEach`). With nothing in flight, lines and
rows are the same, and a list that holds the rows in order is the server's
(`ListIsTheServers`, by `AscendingIs`: a finite set of numbers has one ascending
enumeration). `ThePagesAreTold` (`PagesTold`) joins them with `TheShelfIsTold`,
`ThePassportIsShown` and `ApplicationsAreSound`: a turn of one page is a stutter of each
other. Assumed: what each page's
module assumes of its constants, above all that ids of one kind are not ids of another.

Of the passport's server, `PassportIsSound` (`PassportSound`), `NothingIsTakenBack`
(`NothingFallsBack`) and `LevelsMatch`. The chapters counted in Postgres never fall
(`History`; the series tracked, which fall with a deletion, are not among the totals
modelled), so what a sync read is no older than the chain it saw unless the object has a
new version since (`SyncFits`), and a snapshot counts no less than the one it read of
(`SnapFits`). `LevelsMatch` goes through the two
programs' tables: they agree for every amount of INK and are monotone, which is why a
level cannot fall while the contract keeps INK from falling. Assumed:
`PassportAssumption`.

**`Publishing_proofs`** - of the catalogue, `CacheServesAlways` (`CacheServesSource`) and
`RowsGoOn` (`RowsMoveForward`); with the studio, `CatalogueIsSound` (`CatalogueSound`). `CacheInv` says
that whatever is upstream of an answer - a listing, a row, a sync under way - was listed by
the source in that language (`ListedBySource`), that a sync has stored what it is through
with (`SyncsHold`, `SyncStoresAll`), and that a lone sync is the youngest writer
(`RowsInStep`), which is why rows go forward. In the studio a tab has one page open
(`VisitsPlaced`); what it has uploaded is a selection, in order, of the files picked
(`PicksInOrder`); a copy that says public is right about that unless a form saved "draft"
(`CopiesServe`); and a tab that nobody works beside has the server's status (`LoneTabKnows`).
Assumed: `CatalogueAssumption`, and `PublishingAssumption`, by which no file is picked twice.

Of the studio's assistant, `TheChatIsPaired` (`AiSound`): the one question pending is the
last message, or the chat has been emptied since.

**Model-checked only.** Every safety and action property of a passing run is stated by a
theorem. Liveness (`LoginSucceeds`, `SyncEnds`) needs `ENABLED` and stays
with TLC.

## 6. Plan

1. A composition of reading, INK and badges over one library, to replace the use of
   `InkPromise` in `ReadingMilestones` by the detailed module; the wallet page over
   `Payments` in the same way.
2. Abstract specifications for the passport (INK that only grows, totals some row of
   Postgres held) and for a payment key (paid at most once, then known), refined by
   `PassportSync` and `Payments`.
3. The creator's series as rows of the catalogue, with `createSeries` and
   `findByExternalId`.

Theorems stay in at most eight modules: some hold two components that meet. The
runs are one per question; a new question would replace or widen one.

## 7. Not modelled, and why

Signature verification, JWTs, bcrypt and encryption are taken to work; wording,
pagination and DTO mapping are left out; queries that only read are left out unless a
page does something with a late answer. Walrus, MangaDex, Enoki, the language model and
its memory store are external. The contents of chapters, submissions and journals
are not looked at by any property.

Left out of services that are modelled: the audit log and `lastLogin` stamps (written,
never read back), the script that makes the first Super Admin, `revokeAllForUser`, `addChapterToSeries`,
`update_stats` and `set_blob_id` (no caller), profile updates (one unconditional
statement), several
readers on one page, a reload of the tip page (it drops the flow that the page had running,
as if the client had given it up). About two thirds of the frontend is presentation: components
that show their arguments, layout and static text. Nothing in them can be in a wrong
state, and the share of lines the models stand for is limited by that.

## 8. Running

    tlc -workers 2 -config Ink.cfg MCInk
    tlapm InkEarning_proofs.tla

and likewise for the other runs (section 3) and proof modules.
