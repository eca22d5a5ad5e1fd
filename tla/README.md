# TLA+ verification of the master-data (MDM) service

The service keeps *master data*: Dimension rows in eight tables (company, ...,
memory) and MasterCode rows that reference at most one Dimension per slot and
store a code composed from the codes of their references. Users authenticate
with passwords and rotating refresh tokens; they change the catalog directly or
submit change requests that administrators review. It is a FastAPI application
(`src/src/mdm`) over PostgreSQL at READ COMMITTED, with a browser front end.

This directory holds TLA+ modules translated from that code, TLC
configurations that check them on small instances, and TLAPS proofs of the
safety properties for every size. `PROJECT.json` has the index: components,
runs, the source lines behind every definition, hazards and theorems.

## 1. Inventory

| Component | State | Operations | Hard behaviour | What makes it correct |
|---|---|---|---|---|
| Dimensions (`application/*dimensions.py`, `infrastructure/repositories/*`) | eight tables: code, value, version, deleted or not | create, update, delete, restore | optimistic versions, unique keys that deleted rows keep, fan-out of a code change to every referencing MasterCode | no lost update; no deletion under an active reference; no stale composed code |
| MasterCodes (`application/master_codes.py`, `master_code_lifecycle.py`, `infrastructure/repositories/master_codes.py`) | table: references, composed code, version, state | create (with new "inline" Dimensions), reference update, delete, restore | an unlocked first read decides what to lock; many row locks in a fixed order; an aggregate ETag over several rows | every commit equals one atomic operation; the ETag covers everything shown |
| Change requests (`domain/`, `application/`, `repositories/change_requests.py`) | table: status, original and approved proposal | submit, approve (as is or modified), reject | two reviewers; a proposal that went stale while pending; catalog change and review in one transaction | applied exactly once if and only if approved; final; never stale |
| Sessions (`application/sessions.py`) | refresh families and tokens | login, refresh, logout | rotation races, retry against replay, password verified outside the transaction | rotation is linear; a revoked session stays revoked; a late replay ends it |
| Passwords (`application/password_lifecycle.py`) | hashes, reset challenges and links | change, reset request, reset completion | three unlocked phases before the deciding transaction | nothing survives the password it was opened under; a challenge is redeemed once |
| User management (`application/user_management.py`) | role and status of users, security events | change role, change status | two administrators changing each other | events explain the rows; disabled users hold nothing; no lock cycle |
| Registration and bootstrap (`application/registrations.py`, `bootstrap.py`) | registration challenges and links, users | request, complete, bootstrap command | advisory lock on one side, only a unique index on the other | an account has one origin; one open challenge per address |
| Request protection (`application/request_protection.py`, `infrastructure/rate_limits.py`) | ordered table of quota windows | check, consume | bounded table, bounded clean-up, fractions of seconds | the quota holds for what is tracked |
| Password hashing (`infrastructure/passwords.py`) | semaphore, worker threads | hash, verify | cancellation while a thread runs or a permit is under way | threads bounded, permits conserved |
| Operational events (`infrastructure/operational_events.py`) | bounded queue, writer thread | start, emit, close | close races the writer; the stream may block for ever | order, bounded close |
| Audit trail (`audit_context.py`, `domain/audit.py`, the triggers in `alembic/versions`) | transaction-local context, nine log tables | installed by every mutation; BEFORE triggers check, AFTER triggers append | the database clock may go backwards; one mutation writes many rows and fields | the triggers refuse nothing the repositories write; the logs alone give the catalog back |
| Listings (`list_*` of the repositories and routes, `repositories/audit_logs.py`, `admin_users.py`) | none on the server; a cursor at the client | next page | rows take their place at INSERT and appear at COMMIT; ties over nine log tables; visibility that changes during a walk | nothing skipped or repeated; one query per walk |
| Browser session (`frontend/src/api/session-*.ts`) | cookies, marker and lock shared by all tabs; status, profile and access token per tab | initialise, synchronise, login, registration, logout, reset, password change, profile | tabs racing for one refresh token; lost answers; closed tabs; failing storage | no request runs under another account; no tab loads for ever |
| Mail, tokens and keys, wiring | | | | not modelled, see section 9 |

How they interact: HTTP routes pass request protection, then authenticate, then
call a use case; a use case talks to its repository, whose transaction is the
unit of atomicity; approving a change request runs the catalog's statements in
the review's own transaction; password use cases hash outside any transaction
through the bounded hasher; disabling a user or changing a password revokes
sessions and reset challenges under the user's row lock; protection and sessions
emit events into the queue.

## 2. Modules and plan

In the order of the plan (the most important behaviour first):

| Module | Models | Composition |
|---|---|---|
| `MasterData` | rows, keys and the pure functions of the domain: compose, ETag, change, recompose, delete, restore | constants and operators shared by the next ones |
| `AtomicCatalog` | what the repositories promise: whole operations on the catalog as it is | extends `MasterData` |
| `Catalog` | the transactions, statement by statement, with row locks, unique keys and ORM sessions | extends `AtomicCatalog`, whose variables `dim`, `mc` it shares: the refinement mapping is the identity |
| `ChangeRequests` | submission and review | extends `Catalog`: a review is a catalog transaction that also holds a request row |
| `Credentials` | login, refresh, logout, password change, reset, role and status changes | stands alone |
| `Registrations` | registration, bootstrap | stands alone; later account changes are one action |
| `RequestProtection` | Origin, CSRF and quota checks | stands alone |
| `PasswordHasher` | semaphore, timeouts, cancellation, threads | stands alone |
| `EventQueue` | the queue's life | stands alone |
| `AuditTrail` | audit context, triggers, log tables | extends `AtomicCatalog`: a mutation is a commit of the catalog with its context and entries; a second instance of `AtomicCatalog`, over the rows replayed from the logs, is its refinement |
| `Listings` | the paged listings of master data, requests, users and logs | stands alone |
| `BrowserSession` | the session controllers of several tabs | stands alone; the server appears as what it answers |
| `AtomicCatalogProofs`, `CatalogProofs`, `ChangeRequestsProofs`, `AuditTrailProofs` | theorems about the catalog, its transactions, reviews and logs | each extends the module it is named after; `CatalogProofs` and `AuditTrailProofs` extend `AtomicCatalogProofs`, `ChangeRequestsProofs` extends `CatalogProofs` |
| `CredentialsProofs`, `RegistrationsProofs` | theorems about accounts | each extends the module it is named after |
| `LimitsProofs` | theorems about quotas, hashing permits and the event queue | extends `RequestProtection`, `PasswordHasher` and `EventQueue` |
| `ClientProofs` | theorems about walks through listings and about browser tabs | extends `Listings` and `BrowserSession` |
| `MCCatalog`, `MCChangeRequests`, `MCCredentials`, `MCRegistrations`, `MCAuditTrail`, `MCListings`, `MCBrowserSession` | instances: starting catalogs, users, log tables, symmetry | |

The plan is carried out: every invariant, action property and refinement that
a passing run checks is also a theorem; only the liveness properties are not
(section 8).

## 3. The catalog: state and actions against the code

`dim[d]` and `mc[m]` are the committed rows; a row carries its state
("absent" for an id not in use, "active", "deleted"), code, value or references,
and version. Dimension ids are numbered in the order the code locks them (slot,
then UUID). A composed code is kept as the sequence of its parts: a Dimension
code cannot contain the separator, so the joined strings are equal exactly when
the parts are. An ETag is kept as the vector its SHA-256 digest is computed from
(no collisions). Memory values compare by their capacity, so values are abstract
like all others; timestamps are left out here and are the subject of
`AuditTrail`.

Every request is a process `t \in Txs` with a program counter `pc[t]`, the
request `op[t]`, its ORM session (`seenDim`, `seenMc`, `fresh`, `bad`) and its
locks (`sharedDims`, `lockedDims`, `lockedMcs`). A client takes the version or
ETag of a conditional request in `Begin`; other transactions may commit before
the first statement.

| Actions | Code |
|---|---|
| `CreateDim` | `create` of the Dimension repositories: conflict query, insert, commit |
| `LockDimForUpdate`, `LockReferencing`, `ReadJoined`, `CommitDim` | `update_value` / `update_capacity`, then `recompose_referencing_master_codes`: the row FOR UPDATE, the referencing MasterCodes FOR UPDATE by id, the joined unlocked read, flush and commit |
| `LockDimForLifecycle`, `CheckInUse`, `CommitDim` | `DimensionLifecycleRepository` |
| `ReadTarget`, `LockReference`, `InsertInline`, `LockTarget`, `CommitTarget`, `CommitCreateMc` | the MasterCode repository: unlocked read, references FOR SHARE in slot order, inline inserts, target FOR UPDATE with the comparison of the two reads and of the ETag, flush and commit |
| `DeadlockVictim`, `ConnectionLost` | SQLSTATE 40P01 and lost connections or timeouts, reported as temporarily unavailable |

Points where the model takes a decision a reader may want to check:

* The last flush and COMMIT are one step: no statement follows that flush.
* The conflict query and the insert of a create are one step; a competing
  uncommitted key makes the insert wait (`KeyBlockers`).
* The rows a fan-out locks are those that reference the Dimension when it takes
  the lock. The statement's snapshot would give the same rows: a transaction
  that adds a reference needs FOR SHARE on the Dimension that is held FOR
  UPDATE.
* A current reference that disappeared fails the precondition when its slot's
  query returns; a row lock that query still waits for is dropped by the same
  rollback, so the model aborts at once.
* One request brings at most one inline code and value; several slots of one
  request may use it, in different tables.
* A review of a creation first locks a row with the same composed code
  (`Twins`).
* The lock order is the one documented in
  `docs/domain/mastercode-data-contract.md` (section 11) and deadlocks and
  timeouts are reported as `docs/domain/dimension-data-contract.md` says.

`ChangeRequests` adds `request` (committed rows) and `desk` (the review a
transaction carries out). `LockRequest` and `ApplyReview` are `approve`; every
step of `ApplyReview` is a step of `Catalog`, and the step that commits the
catalog also writes the request row. `Reject` is one statement under the lock.
`OriginalAccepted`, `ReviewAccepted` and `ChangeRequestBeforeWrite` are the CHECK
constraints and the trigger of the table; what they refuse would undo an
approval as an unexpected error, so `RequestTableAccepts` says they refuse
nothing.

## 4. Accounts: state and actions against the code

`Credentials` keeps users, refresh families and tokens, reset challenges and
links, security events, the database clock and the requests in progress. Each
use case has three steps: `Accept*` (the unlocked reads; the password is
verified and hashed outside any transaction), `LockUser` (the transaction's
first statement, which reads the user row) and `Finish*` (the rest, with its
COMMIT). The rest is one step because every transaction on a user's rows begins
with that user's row lock. A request carries the locks on user rows it holds until
it ends (`held`), each with its mode: FOR UPDATE, or FOR NO KEY UPDATE in user
management. A role or status change has one more step, `Audit`: the insert of its
event takes the initiator's row FOR KEY SHARE through the foreign key and waits
while somebody has it FOR UPDATE; a change that turns out to be none, or is not
allowed, ends without it. `now` is read after the first lock. Any token or
link ever issued may be presented at any time, in any number of requests: that is
what lost responses, repeated requests, delayed mails and several tabs amount to. A JWT may carry any role its user ever had. Hashes are
salted, so a new hash is a fresh number; `under` is a history field with the
hash current when a session or challenge was opened. Digest collisions end like
any failed transaction (`Abort`).

`Registrations` keeps accounts by address, registration challenges and links.
Registration transactions take an advisory lock per address (`LockEmail`); the
bootstrap command takes none, and only the unique index (`EmailTaken`,
`EmailPending`) orders the two. The new user's first session is the field
`session`. `ChangeAccount` stands for what `Credentials` does to an existing
account.

`RequestProtection`: a request is one step, since `consume` never awaits inside
its lock; time is counted in ticks finer than a second; the `OrderedDict` is a
sequence. `PasswordHasher`: one action per resumption of a coroutine, so that a
timeout or a cancellation can come between handing a permit over and taking it,
as asyncio's semaphore allows. `EventQueue`: `start`, `emit` and `aclose` run on
the event loop, the writer is a thread; `aclose` is split where it awaits.

## 5. Audit trail, listings and browser: state and actions against the code

`AuditTrail` adds the context of the last mutation (`ctx`: change set, the two
operations, timestamp), `updated_at` of every row and the log tables to the
catalog. A mutation is one step: the commit of `AtomicCatalog` that `Catalog` is
proved to implement, `Installed` (the statement of `set_context`, with the
timestamp `GREATEST(clock, minimum)`) and `Flushed` (the new `updated_at` and
what the AFTER triggers append). The clock is read at the commit: the rows stay
locked from the moment their `updated_at` is read, and the clock may show
anything in `Times`, smaller than before included. The change set id stands for
actor, role and reason, which are installed and copied with it. A plain
Dimension insert takes its timestamp from the column default and not from the
context, as the code does. The BEFORE triggers, the log tables' keys and the
validation of the context are predicates: `TriggersAccept` says that no step is
refused. `ReplayedDim` and `ReplayedMc` rebuild a row from its entries; with
them as refinement mapping the logs implement `AtomicCatalog`.

`Listings` has one walk over one listing (`kind`). A page is one statement with a
snapshot of its own and nothing is kept between pages, so `FetchActive`,
`FetchRequests`, `FetchUsers` and `FetchLogs` are single steps: statement, page
and cursor. The other transactions insert (which fixes the timestamp), commit
and change rows; a tag stands for what filters and visibility look at. `kept`
and `early` are history variables.

`BrowserSession` has one record per tab (status, profile, access token, whether
the marker it saw is still the stored one, whether a restoration is due), the
shared cookies, marker and Web Lock queue, and per tab a request of its user and
a synchronisation. JavaScript runs from one await to the next: a step begins
with an answer and ends with the next request or the release of the lock.
`Submit` and `Start` are the two halves of `locked`, before and after the wait;
`SignedIn`, `SignedOut`, `PasswordChanged`, `Refreshed`, `RefreshConflict`,
`SessionInvalid`, `Profile` and `TokenInvalid` are the answers; `Lost` is an
answer that never comes (the server may have acted), `TornAnswer` one whose
cookies were stored while its body or the marker was not, `Close` a page that is
gone, `Unavailable` and the first disjunct of `Start` a failing storage or lock.
The server is what `Credentials` allows: a token is good, was used a moment ago,
or is dead. A marker's random id is only ever compared with the stored one, so
that a remembered id is "current" or "older". Bounds: a tab has one request of
its user at a time; the account a form is for, and whether the access token has
expired, are chosen when the request gets the lock.

## 6. Runs

Every run checks deadlock unless its requests are one-shot or its clock and
pools are bounded (then the system may stop: `CHECK_DEADLOCK FALSE`). Symmetry
is used for interchangeable transactions and requests in safety runs only.

| Run | Instance | Shows |
|---|---|---|
| `catalog_pairs` | 2 transactions of all eight kinds, 2 slots with 2 Dimension ids each, 2 MasterCode ids, 3 codes, 3 starting catalogs, faults | `TypeOK`, `CodesComposed`, `ActiveReferences`, `SessionCurrent`, `RecompositionNeverConflicts`, `RowLocksAcyclic`, `CommitsAreConditional`, `EtagTracksRepresentation`, `ImplementsAtomicCatalog` (`Catalog` implements `AtomicCatalog`) |
| `catalog_progress` | 3 transactions that can deadlock through a unique key, with fairness | `EveryRequestEnds` |
| `change_requests` | 1 request, 2 transactions (reviews or direct changes), faults | `AppliedExactlyOnce`, `ApprovalsAreCurrent`, `RequestTableAccepts` |
| `credentials_accounts` | 2 requests at a time of every use case: an administrator acting on one user, or two administrators changing each other (their roles also while they log in) | `SessionTablesAccept`, `RotationIsLinear`, `RevocationIsFinal`, `ReplayEndsSession`, `DisabledHoldsNothing`, `OpenedUnderCurrentPassword`, `LinksRedeemedOnce`, `EventsExplainUsers`, `NoLockCycle` |
| `registrations` | 2 requests or commands, account changes, expiry | `AccountsComeFromOneLink`, `OneOpenChallenge`, `NoOpMeansSuperAdmin` |
| `request_quota` | 3 addresses, 2 windows, limit 2, clean-up batch 1, half-second clock | `QuotaHolds`, `UntrackedOnlyWhenFull`, `RetryAfterIsTight` |
| `hasher_cancel` | 4 callers, 2 permits | `PermitsConserved`, `NobodyStarves` (with fairness) |
| `event_queue` | capacity 2, 5 events, closed at any moment | `EventsKeepOrder`, `CloseReturns` (with fairness) |
| `audit_history` | 3 mutations of all kinds, 2 slots, 3 Dimension and 2 MasterCode ids, a clock of 2 readings in any order | `RowsReplayFromLogs`, `RecompositionsExplained`, `TriggersAccept`, `LogsImplementCatalog` (the replayed rows implement `AtomicCatalog`) |
| `listings_walk` | 4 listings, 4 rows in 2 log tables, 2 instants, pages of 1 or 2 | `WalksAreComplete`, `OneQueryPerWalk` |
| `listings_late` | the same for the active rows only | `LaterPagesAreOld`: *violated*, see below |
| `browser_tabs` | 2 tabs, 2 accounts | `TabsStayWithAccount`, `NoTabLeftLoading` |

All but `listings_late` pass. Every property of a passing run has a faulty variant of a translated definition (marked
"Faulty" in the modules, listed in `PROJECT.json`) under which its run fails.

### A documented promise the code does not keep

The descriptions of the Dimension and MasterCode listings promise that items
that appear during a walk "lie in the part already passed and do not get into
later pages" (`src/mdm/api/dimensions.py:400-401` and its siblings). The order is
by `created_at`, which the INSERT takes; the row appears at its COMMIT. A row
inserted before the first page was read and committed after it does turn up in a
later page (`listings_late`, eight steps). The contract of the change logs
(`docs/domain/dimension-data-contract.md`, "페이지 조회 중 새 로그의 커밋") describes the
same situation correctly for the logs. Nothing is lost by it: `WalksAreComplete`
holds.

### A case `TabsStayWithAccount` leaves out

The cookies of a login are stored by the browser before the controller can
publish its marker. If the answer's body is lost in between, or the page is
closed, the marker still stands for the old account, and a request of the old
account that waits for the lock runs with the new cookies
(`docs/auth/frontend-contract.md` says requests begun under one account are not
executed under another). The history variable `owner` is `Torn` from then until
the next marker, and the property speaks of all other states.

### Bounds and why they are enough to be interesting

* Two transactions reach every pairwise race, a fan-out against a change of what
  its unlocked joined read returned included; a deadlock through a unique key
  needs three, and `catalog_progress` has three. The proofs cover any number.
* The starting catalogs have a shared Dimension, a deleted MasterCode on active
  and on deleted rows, free ids for inserts, and taken keys of deleted rows. All
  satisfy `SeedAssumption`, the state the service itself maintains.
* Two overlapping requests per user with an unbounded number in sequence (up to
  the id pools and the clock): rotation, retry inside and outside the conflict
  window, expiry at the deadline, and a revocation between the snapshot and the
  lock all happen. Lifetimes keep their order: conflict window < reset < family.
  `Subjects` bounds the users an instance exercises. The
  shortest circle of transactions that hold a row and want another has two;
  longer ones are covered by the proof.
* Quota: three addresses on two windows exhaust the table; the clock passes the
  end of the first windows, so renewals, expired entries in the middle and a
  clean-up that stops at its batch all happen. The 30, 60, 256 and 100,000 of
  the code are constants here.
* Three mutations are a creation, a code change and a change of what was
  recomposed; two clock readings make every later mutation equal to, after or
  before an earlier one. The starting catalog has rows the fan-out must and must
  not touch, so that minima of several rows differ.
* Four rows at two instants in two tables put ties inside one table and across
  tables at the end of a page, with rows left in both.
* Two tabs are enough for every race: the lock makes any further tab one of
  those that wait. Two accounts distinguish "another" from "the same".

### Fairness

* `Catalog`: the server executes the statements of a request it accepted (weak
  fairness of each transaction's enabled statement), and PostgreSQL's deadlock
  detector ends one transaction of a cycle. No client and no fault is fair.
* `PasswordHasher`: ready coroutines are resumed and Argon2 terminates. The
  acquire timeout is *not* fair: nobody starves even without it.
* `EventQueue`: the shutdown timer fires and the thread runs; a write into the
  stream is *not* fair, so that `CloseReturns` covers a stream that blocks.

## 7. What is proved

`tlapm` checks the theorems below for every value of the constants that
satisfies the named assumptions, so for any number of rows, transactions, users,
tokens, addresses or events. Each is an instance-free version of a property a
run checks; before a proof was begun, TLC checked its inductive invariant on the
run's instance.

The assumptions are about what constants stand for and nothing else: ids are
numbers in lock order (`IdAssumption`) and there is a slot (`SlotAssumption`);
sentinels such as NULL are not data (`SentinelAssumption`, `KeepAssumption`,
`InlineAssumption`, `CredentialSentinel`, `RegistrationSentinel`,
`AuditSentinel`, `BrowserSentinel`, `TagsAssumption`, `CursorSentinel`); starting catalogs are consistent (`SeedAssumption`) and their
rows were inserted and at most deleted (`AuditSeedAssumption`); listed rows have
numbers as ids and log tables (`IdsAssumption`); lifetimes, limits and capacities
are positive and ordered as the settings are (`Lifetimes`,
`RegistrationLifetime`, `ProtectionAssumption`, `HasherAssumption`,
`QueueAssumption`, `LimitsAssumption`). No assumption bounds the rows of a
listing: that those committed are finitely many is part of its invariant.

### The catalog

* `AtomicCatalogInvariant` (`AtomicCatalogProofs`): whole operations keep every
  stored code composed and every active reference active. The module also proves
  of the atomic operations that keys stay unique (`AtomicKeepsKeys`), that
  versions count up, and that different references compose to different codes
  (`ComposedCodesDiffer`).
* `TypeCorrect`, `CodesStayComposed`, `ReferencesStayActive`,
  `SessionsStayCurrent` (`CatalogProofs`): the invariants `TypeOK`,
  `CodesComposed`, `ActiveReferences` and `SessionCurrent`.
* `TransactionsAreAtomic`: `Spec => ImplementsAtomicCatalog`, that is, every
  step of every interleaving is one operation of `AtomicCatalog` or none.
* `CommitsStayConditional`, `EtagsTrackRepresentations`: the action properties.
* `KeysStayUnique`, and from it `RecompositionsNeverConflict`.
* `LocksAreOrdered`, and from it `RowLocksStayAcyclic`.

They rest on `SessionsAreSound`, the inductive invariant `SessionInv`:
type correctness; the catalog invariant; `Apart` (exclusive locks and drawn ids
of different transactions are disjoint); `KeysFree` (the keys of inserted,
uncommitted Dimensions stay free in the committed table); and, for every
transaction, `SessionOK`: what its session must hold at its program counter.
`CodesComposed` alone is not inductive: a commit writes a code composed from the
session, so one has to know that what was read is still current, which holds for
locked rows because every writer holds the row (`Protected`), and for the
unlocked rows of a fan-out's joined read because a code change of such a row
would need the MasterCode rows the fan-out has already locked. The proof has one
lemma per action; frame lemmas (`OthersKeep`, `ApartKeeps`, `KeysKeep`) say what
a step of one transaction leaves of the others, and `NextKeeps` collects them
into the inductive step together with the simulation.

Keys need no further invariant on transactions: every commit is an atomic
operation, and those keep keys unique. A recomposition then cannot conflict,
because codes are compositions of unique codes over unique references. ETags
compare versions, which only count up; a representation that changes has a
version that changed, its own or a referenced Dimension's.

`RowLocksAcyclic` is a statement about cycles of any length. `OrderInv` says, of
every transaction, that each MasterCode it holds precedes each one its fan-out
still has to lock (`FanOutOrder`), and that each shared Dimension it holds
precedes each one it still has to resolve, the ones it inserted itself aside
(`ShareOrder`). A transaction waits for one Dimension at a time and, once it holds
a MasterCode, for one MasterCode at a time (`OneWanted`); what it waits for
comes after everything it holds (`HeldBeforeWanted`), so along a cycle of waiting
transactions the row waited for would have to increase for ever (`OrderIsAcyclic`).

### Reviews

`ReviewsAreAtomic` (reviews and direct requests implement the atomic catalog),
`AppliedOnce`, `ApprovalsStayCurrent` and `RequestTableAlwaysAccepts` rest on
`ReviewInv`: `SessionInv` for the catalog transaction of every review; the
proposals' shape (a proposal was made from rows that existed, and rows stay);
`Reviewing` and `OneApprover` (while a review holds its request, the request is
pending and nobody else's); `Reviewed` (which step has already been applied).

### The audit trail

`RowsAlwaysReplay`, `RecompositionsStayExplained`, `TriggersAlwaysAccept` and the
refinement `LogsAccountForCatalog` rest on `AuditTrailIsSound`. The invariant
`AuditInv` relates every row to the newest of its entries field by field
(`DimLogged`, `McLogged`): "the replayed row is the row" is not inductive, since a
newer entry must be the only newest. It adds that change sets count up
(`LogTypes`), so that a later change set cannot change what was explained
earlier; that the tables' keys are unique; and that the time stamps of the rows
are bounded (`Stamped`), so that GREATEST has a value. That the triggers accept a
replacement of references needs the uniqueness of keys: other references compose
to another code. In `LogsAccountForCatalog` the abstract variables are the tables
read back from the logs; each operation of `AtomicCatalog` is mapped to itself.

### Accounts

`SessionTablesAlwaysAccept`, `DisabledNeverHolds`, `NothingOutlivesItsPassword`,
`RotationStaysLinear`, `LinksAreRedeemedOnce`, `EventsAlwaysExplain`,
`AccountsNeverDeadlock` and the action properties `RevocationStaysFinal` and
`OnlyReplaysEndSessions` rest on `CredInv`. A request decides from a snapshot
taken without a lock and from the row it reads under the lock of its user, so
the invariant has to say what of that is still true: the row read under the
lock is the current one and held once (`RequestOK`, `HeldOnce`), what was
presented still exists and is the same user's, rows refer to rows
(`Referential`), tokens form a chain (`Chained`), a challenge and its links agree
about the redemption (`Redemption`), and a user has at most one live session and
one live challenge, under the current password, while active (`LiveRows`).

`NoLockCycle` is about what transactions hold and want at any moment, of all kinds,
those that wait for their first row included. `HeldOnce` says what they hold:
nothing before the first statement, then the row of their user, and, for
management only, the initiator's row (`LocksOK`). Whoever is waited for holds
something, and whoever waits while holding is a management transaction at its
event, kept waiting by a FOR UPDATE and so by a transaction that is not
management (`WaitingHolders`). That one waits for nothing. With FOR UPDATE in user
management, two administrators who change each other would wait for ever.

`AccountsAlwaysComeFromOneLink`, `OneChallengeStaysOpen` and the action property
`NoOpAlwaysMeansSuperAdmin` rest on `RegInv`. Two exclusions carry it and neither
alone would do: under the advisory lock what a registration has read of the
challenges stays true until it commits (`Locked`); through the unique index the
address of an uncommitted account stays free, also against the bootstrap command
(`Inserted`).

### Quotas, hashing permits and events

`QuotaAlwaysHolds`, `UntrackedMeansFull` and `RetryAfterStaysTight` rest on
`QuotaInv`. Its heart is the comment in the store: entries are in the order of
their expiry (`InOrder`, part of `Table`); that is why removing from the front
finds every expired entry. `Remembered` says that no removal forgets a running
window, `Counted` that a window counts the requests admitted in it.

`EventsStayInOrder` rests on `QueueInv`: the order alone is not inductive, since a
shutdown overwrites what an earlier one discarded and a late put would follow
the discarded events. `Admission` and `WriterState` say why neither happens.

`PermitsStayConserved` rests on `HasherInv`. Free permits and holders together
make `MaxConcurrency`, where a caller holds a permit from the moment it is handed
over, also if it is cancelled before it runs again. What has to be added is that
whoever waits, or was handed a permit and has not run yet, stands in the queue
(`InQueue`), and that a release hands out at most the free permits, to callers
that had none (`WokenIs`): then the count survives every wake-up. A thread runs
only for a caller that holds a permit, so the threads are bounded with it.

### Listings

`WalksStayComplete` and `OneQueryStays` rest on `WalkInvariant`. A page is the
rows with fewer than `limit + 1` rows before them, so the proof first needs the
order and how it counts: `Precedes` is a strict total order (`OrderIsTotal`),
the rows of a page come before all others (`FirstIsPrefix`), and a page that is
not all of the rows is full (`FirstFills`). For the logs, `FirstOfSources` shows
that cutting every log table to `limit + 1` rows before the union loses nothing,
and `ConditionIsOrder` that the three forms of the condition on the cursor, by the
table's place relative to the cursor's, are the one order.

`WalksAreComplete` says nothing of a walk under way and is not inductive. `WalkInv`
says where the cursor stands (`Halfway`): at a committed row, everything
received at or before it, and every row that matched since the first page and was
not received after it. That holds because a committed row never moves and
because the next page asks the same question: the fingerprint in the cursor is
that of the first page's query and visibility (`CursorFits`, `SameQuery`). A row
that commits late, at a position the walk has passed, did not match at the first
page and is not in `kept`.

### Browser

`TabsAlwaysStayWithAccount` and `NoTabStaysLoading` rest on `SessionInvariant`. The
lock's queue holds exactly the jobs the tabs have, each once, and only its head
is past the wait (`LockQueue`). A job past the wait runs in a tab that has seen
the current marker and was not begun under an older one (`JobOk`); since markers
are published by the head of the queue only, the marker stays what that job saw
until it ends. What a tab that has seen the marker holds, shows or was asked to
do belongs to the account the marker stands for (`ShownOk`, `JobOk`).

For the second theorem, "some job exists" is not inductive: a synchronisation
that finds nothing to restore ends without changing the status. `TabOk` adds what
that job will find, an older marker seen or a marker that says signed-in, and both
make it leave `loading`.

## 8. What is only model-checked

* Liveness under fairness (`EveryRequestEnds`, `NobodyStarves`, `CloseReturns`):
  out of the prover's reach.
* `LaterPagesAreOld` is violated (section 6).

## 9. What is not modelled

* Reads of single rows: they are one statement and change no state. The paged
  reads are `Listings`.
* Normalisation and validation of codes, values, e-mails and passwords, and all
  formatting of responses: they happen before the requests the models start
  from. Constants such as `Codes` stand for their results.
* Mail delivery (SMTP): a lost mail is a link nobody presents.
* JWT signing, key files, settings, health checks, OpenAPI, wiring: no state of
  their own that a request changes. An access token appears as the account it was
  issued for, with any role its user ever had.
* Schema migrations: run while the service is down. The triggers and constraints
  they leave behind are part of `AuditTrail` and `ChangeRequests`.
* The pages of the front end, beyond what they offer in each status.
* The cancellation of the hasher's own worker tasks when the process shuts down.
