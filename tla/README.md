# Verification of wallet-p2p

TLA+ specifications of the wallet service: the transfer and mint transactions of
`internal/store`, the HTTP routes of `internal/api`, the log ring of `internal/obs`, and
the life of a process in `cmd/wallet`, model-checked with TLC; every safety invariant the
passing runs check is also proved with TLAPS.

## The system

| component | state | operations | hard part |
|---|---|---|---|
| Transfer (`store/transfer.go`, `store.go`, `schema.sql`) | tables `wallets`, `transfers`, `ledger_entries`; row locks, unique-index entries and uncommitted rows of open transactions | `Transfer`, `inTx`, `transferByKey` | concurrent duplicates of a key, crossing transfers, deadlocks and retries, lost commit replies, pool exhaustion |
| Mint (`store/wallet.go`) | `mints`, `wallets` | `Mint` | duplicate keys behind a savepoint, overflow |
| Audit (`transfer.go`) | none | `CheckInvariants` | must be true at every instant, in the middle of anything |
| Provisioning (`store/wallet.go`) | `users`, `wallets` | `UpsertUser`, `GetOrCreateWallet` | racing first calls, half of them failing; `FOR UPDATE` locks against transfers in flight |
| HTTP API (`api/handlers.go`, `middleware.go`, `obs/metrics.go`) | what a handler has checked and what the store told it; Prometheus counters | `observe`, `authenticate`, `requireAdmin`, the handlers | checks outside the transaction they protect; counters and answers after the commit; panics |
| Log ring (`obs/log.go`, `api/server.go`) | circular buffer, subscriber channels | `Write`, `Snapshot`, `Subscribe`, cancel, `handleLogStream` | sends after the unlock, slow and leaving viewers |
| Lifecycle (`cmd/wallet/main.go`, `store/migrate.go`) | phase of `run`, pool, listener, sampler, gauges | `connectDB`, `Migrate`, serve, `sampleInvariants`, shut down | SIGTERM or a crash at any time, replicas that migrate together, a database that does not answer, grace period against open streams |
| Configuration (`config/config.go`) | none | `Load` | bounds that no pool can have |
| Web pages, burst script | - | - | - |

Handlers run one goroutine per request and call the store directly; several
replicas share nothing but Postgres. Every request logs through slog into the
ring, so every request goroutine is also a writer of the ring. The background
sampler calls `CheckInvariants` every few seconds.

What makes each part correct:

* Transfer and Mint: a key applies once; money is moved entirely or not at all, and
  never created; no balance is negative or overflows; a decline is true when it
  commits; whatever a caller is told is committed; every call returns; crossing
  transfers do not deadlock.
* Audit: it never reports a violation that is not there.
* Provisioning: one user per token, one wallet per user, one creator.
* API: only an owner moves money out of a wallet; a rejected request does not use up
  its key; counters count what happened.
* Ring: logging never blocks and never harms the goroutine that logs; viewers see lines
  in order and once.
* Lifecycle: the process comes up or gives up, stops when told to without cutting off a
  statement, never leaves half a schema, answers its probes and keeps its gauges true.

## Modules

| module | what it is |
|---|---|
| `WalletLedger` | What the store promises: each transfer or mint is one indivisible step on the committed tables. |
| `WalletStore` | What the code does: `Transfer` and `Mint` statement by statement inside `inTx`, with the parts of Postgres and pgx they rely on. States the properties and the refinement `ImplementsLedger`. |
| `WalletStoreInv` | The inductive invariants `IInv` and `MintInv` of `WalletStore`. |
| `WalletAudit` | `CheckInvariants` over the committed tables, and the status of `/invariants`. |
| `WalletProvision` | `WalletStore` with logins: `UpsertUser` and `GetOrCreateWallet` waiting for transfers, on the same pool. |
| `WalletApi` | HTTP requests on top of `WalletLedger` (INSTANCE), with provisioning and counters. |
| `LogRing` | `Ring`, `handleLogStream` and `/logs/recent`. |
| `Lifecycle` | One process: `run`, `connectDB`, `Migrate`, `sampleInvariants`, probes and shutdown. |
| `WalletStoreProofs` | Proofs about the store that hold for any spelling of wallet ids. |
| `WalletCanonicalProofs` | Proofs about the store for clients that spell wallet ids as Postgres prints them: refinement, declines, conflicts, documents, deadlocks. |
| `FiniteSums` | Lemmas on sums over finite sets. |
| `WalletAuditProofs`, `WalletProvisionProofs`, `WalletApiProofs`, `LogRingProofs`, `LifecycleProofs` | Proofs about the audit, logins, the API, the ring and the process. |
| `MCWalletStore`, `MCWalletProvision`, `MCWalletApi`, `MCLifecycle` | Small instances for TLC. |

An operator whose comment begins with "Faulty variant of" is a plausible mistake in the
code it stands next to. No specification uses it; substituting it for its original makes
a named property fail, which shows that the property depends on that piece of code.

### WalletStore and the code

A *call* is one invocation of `Transfer` or `Mint`; a client retry is another call with
the same request. `pc` is the statement a call is about to execute: `begin`
(`BeginTx`), `claim` (the `INSERT INTO transfers`), `lockLo`, `lockHi` (the batch of two
`SELECT ... FOR NO KEY UPDATE`), `decide` (the comparison in Go, then either the decline or
the conditional debit), `credit`, `post` (ledger rows and status), `commit`; `mint` and
`fund` for `Mint`; `replay` for `transferByKey`.

Postgres is modelled as far as the code relies on it, and marked external: the row locks
`KeyShare` (taken by foreign-key checks) and `NoKeyUpdate` with their conflict table,
updated row versions visible only to their transaction, unique-index entries of open
transactions on which an insert waits, rollback and commit as single steps, the waits-for
graph and a deadlock detector that may choose any call on a cycle. A statement that would
wait is not enabled. The two statements of a batch are separate steps. READ COMMITTED
is what `Visible` says: a statement sees its own writes and the last committed version.

A wallet reference is the text of the request. `RefRow` is the uuid it denotes; Go sorts,
hashes and looks up the text, so `Lo`, `Hi`, `Fingerprint` and `read` work on references,
and what Postgres prints is `Canon`. References are numbers so that they have an order.

`attempt` counts the runs of the closure in `inTx`; the state of a run (`read`,
`wTransfer`, ...) is cleared by `EndTx`, as the closure's first lines do. `ConnLost` stands
for a lost connection, a cancelled request context and a crash of the process: each leaves
an open transaction to be rolled back by Postgres. `CommitReplyLost` is the case in which
the commit took effect and nobody heard. `Missing` and malformed references are refused by
the handler before they reach the store; the store refuses them too, and that is what the
model exercises. `KEY SHARE` on the `users` row is left out: within these operations nothing
conflicts with it; `WalletProvision` derives it from the open transfer.

`Scans` is the int64 scan of the audit's sums: once more has been minted than `MaxInt`,
`/invariants` answers 500 although nothing is wrong. `AuditHolds` says that this is the only
case.

### WalletProvision and the code

A login is one more `POST /wallets` of a known user. Both of its statements are
`INSERT ... ON CONFLICT DO UPDATE SET` on a key column and hence lock the row they find
`FOR UPDATE`. That waits for the `KEY SHARE` locks which the foreign keys of an open
transfer take on the requester's row of `users` and on both rows of `wallets`. A login takes
a connection before it waits and returns it with `Scan`, between the two statements as well;
it holds nothing while it waits for a connection. First calls, which insert, are the subject
of `WalletApi`.

### WalletApi and the code

A call is one HTTP request. `pc` is the next point at which the handler touches something
shared. `Transfer` and `Mint` of the store are steps of `WalletLedger`, plus the outcomes a
caller of them can see besides: replay, conflict, an error before the commit, an error
after it. An upsert inserts a row that is open until it commits; another upsert on the same
index entry waits for it. Every log line may panic, because `LogRing` shows that it can;
the handlers count first, log second and answer last, and the model keeps that order. The
counters are those of one process, or the sum over replicas. Wallet ids are
canonical here; what other spellings do is the subject of `WalletStore`. A key of more than
255 bytes is refused by `handleCreateTransfer` and accepted by `handleMint`. The
decisions of a handler that properties depend on are operators of their own (`MayDebit`,
`SameRequest`, `TransferStatus`, `TransferOutcome`, `WalletOutcome`, `CountStatus`).

### LogRing and the code

The critical sections of `Ring.mu` are single steps; the sends of `Write` after its unlock
are one step per channel, in any order. slog serialises `Write`. `joined` and
`dropped` are history variables. Lines are numbers in the order in which they are written.
`Slots` is the clamp of `NewRing` on `LOG_RING_SIZE`, `LogsRecent` the clamp of
`/logs/recent` on its query.

### Lifecycle and the code

`phase` is where the goroutine of `run` is: `load` (`config.Load` and the pool's
configuration), `ping` and `sleep` (the loop of `connectDB`), `migrate`, `serve` (the
`select`), `failed` (`ListenAndServe` returned an error), `poll` and `wait`
(`srv.Shutdown`), `close` (the deferred `pool.Close`), `exited`, `crashed`. `at` is where
each handler and the sampler is, `held` who has a connection. Deadlines may pass at any
time the code waits with one, and never otherwise: the ping of `/readyz`, the audit of the
sampler, `Migrate`, the grace period, and `connectDB` between `MinPings` and `MaxPings`
failures. The signal ends the contexts derived from `NotifyContext` (connecting, migrating,
sampling), not those of requests, which only their client ends.

`CREATE ... IF NOT EXISTS` looks for an object, then creates it, and Postgres does not make
the two one step: a second replica that commits in between makes the catalog's index refuse
the first one, which rolls back and exits with 1. The log line at the start of the shutdown
may panic while a viewer is connected, because `LogRing` shows that it can: `run` then
unwinds with the listener open. The database may or may not have its schema when the process
starts. Without `MIGRATE_ON_START` nothing looks: the process then serves on an empty
database, where every statement but a ping ends in an error until another replica migrates.

Money is a total which each money statement raises by one, so that a gauge set from an old
audit is told from one set from a new audit.

## Runs

| run | question | distinct states |
|---|---|---|
| `contention` | three calls crossing and ringing over three wallets, mints, a mint key used twice, balances next to the end of bigint, every refusal, a failure, a pool of two: types and ranges, no deadlock, no lost debit, no trace of refused calls, a retry's document, audit and double entry at every instant | 96,183 |
| `storm` | one key over and over, another body, another user whose spelling makes the locks cross, a lost connection or commit reply: exactly once, truthful answers, refinement of the ledger through deadlocks and retries | 195,309 |
| `spelling` | upper- and lower-case uuids, so that deadlocks, retries and exhausted attempts happen, beside a login, two connections: audit, inductive invariant, everyone is answered | 109,536 |
| `api_money` | right and wrong transfers and mints, retries, an error, panics: keys, truthful 201, counters | 1,451,134 |
| `api_first` | racing first calls of a token, wallets named before and after they exist, by their owner and by others: one user, one wallet, one creator, and only owners move money | 731,270 |
| `log` | two viewers, four lines, a ring of three, channels of one: snapshots, order, drops, and a `Write` that finishes though nobody reads | 76,506 |
| `lifecycle` | environments good and bad, another replica migrating, two requests of any kind beside the sampler, a database that may never answer, signals and crashes anywhere: starting and stopping end, exit is graceful, the schema is whole, probes are answered, gauges catch up | 54,947 |

Five runs are expected to fail: what the repository says about itself is not what the code
does.

| run | what it shows |
|---|---|
| `sorted_text` | Locks are sorted by the client's text (`transfer.go:114`): an upper-case id on one side and the two rows are locked in opposite orders. Postgres kills one, `inTx` retries; `wallet_db_retries_total` does not stay at zero. |
| `false_decline` | The balance is stored under the id Postgres prints and looked up under the id the client sent (`transfer.go:135`, `142`): an upper-case source wallet reads as empty, and a covered transfer is recorded as declined. |
| `false_conflict` | `Fingerprint` hashes unnormalized ids (`store.go:109`): the same transfer spelled differently is a conflict. |
| `log_panic` | A viewer that leaves between the unlock and the send closes a channel `Write` is about to send on: the goroutine that logs panics. |
| `unbounded_request` | `main.go:130` leaves `WriteTimeout` unset since handlers bound their requests by context timeouts; only `/readyz` does. A money request or `/invariants` waits without end for a connection or a statement that never comes. |

Given such panics, one more sentence of the repository is not quite kept: `observe` logs the
recovered panic before it counts the request (`middleware.go:86`), so a request whose
recovery panics as well is missing from `http_requests_total`. `EveryRequestCounted` excepts
exactly that case.

The first three have one cause, that nobody normalizes the wallet ids of a request
(`handlers.go:190-196`), and disappear for canonical ids. So does a fourth symptom: the first
answer echoes the ids of the request and a replay prints the stored ones
(`transfer.go:108`, `253`), so that the documents are identical only if the ids are
canonical, which is how `contention` checks `IdenticalDocument`.

### Bounds

Calls: four in `storm`, since a winner, a loser, a second user and a failure need four;
three elsewhere, since three are enough for a ring over three wallets and for a crossing pair
beside a mint. Calls are interchangeable, so all runs of the store and the API but
`spelling`, which checks liveness, use symmetry. Three wallets let transfers share one wallet
or two; two users of one key text, two keys, two mint keys. `MaxInt` 9 is out of reach of any
balance of its runs; in `contention` it is 4 and balances start next to it, so that credits
and mints overflow and the minted total outgrows an int64. `MaxTxAttempts` is 2 instead of 5:
one retry and giving up both happen. `MaxConns` is below the number of calls wherever it
matters, so the pool is exhausted. `MaxFaults` is at most 1: one loss at any point; the
retries after it are further calls. `MaxPanics` is 2 in `api_money`, a panic and a panic
while recovering. `log`: four lines wrap a ring of three, and a channel of one is full as
soon as a viewer is one line behind. `lifecycle`: two requests and the sampler exceed a pool
of one; a schema of two objects can be half made; two or three pings are one retry and
giving up.

### Fairness

`ProvisionFairSpec` assumes weak fairness of every call's `CallStep` and every login's
`LoginStep`: a goroutine that can go on does, Postgres executes a statement that has its
locks, its deadlock detector runs, and a free connection goes to who waits for one. Clients
need not call, and connections need not break. Weak fairness is enough since calls and
logins are finitely many: what blocks one is eventually released for good. `WriteFinishes`
assumes only that the goroutine inside `Write` runs; viewers may never read.

`Lifecycle`'s `FairSpec` assumes that `run`, each handler and the sampler go on when they
can, and that their timers expire. The database, clients, operators and the other replica
owe nothing: `StartupEnds` and `ProbesAnswer` hold though the database never answers. Where
the code does depend on it, the property says so: `Stops` assumes that it answers what it
has been asked, if only with an error (`DbResponsive`), because `pool.Close` waits for connections in use without
a deadline, and `GaugesCatchUp` also that the sampler, in competition with the requests, is
served now and then (`SamplerServed`).

## Proofs

Every theorem is of the form `Spec => []P` (or `Spec => P` for an action property and the
refinement), for any number of calls, wallets, users, keys, viewers, lines and connections,
and any requests. None of the properties but `SchemaWhole` is inductive as it stands; what had to be known
besides is said below. Each proof has one lemma per action, which says that the inductive
invariant survives the action, over lemmas on the few kinds of step there are.

### The store, whatever clients write (`WalletStoreProofs`)

`Spec => []IInv` and from it `TypeOK`, `DebitNeverLost`, `ReplayIsDecided`, `ExactlyOnce`,
`AnswerIsCommitted`, `RefusalLeavesNoTrace` and `LedgerMatchesTransfers`. That a debit finds
its row, for instance, needs that the row version a transaction has locked is still the one
it read. `IInv` is the conjunction of

* `TxInv`: for each label, which rows the transaction holds, what it has read into the map,
  which uncommitted rows it has, and how far live and committed balances differ;
* `RowInv`: one transaction at a time holds `NoKeyUpdate` on a row, and rows nobody holds
  are as committed;
* `KeyInv`: no two rows, committed or open, share an entry of a unique index;
* `RecordInv`: committed rows are terminal, belong to calls that are over, say what their
  fingerprint says, and have their ledger rows;
* `AnswerInv`: what has been answered agrees with the tables.

The kinds of step are those that touch no transaction (`LocalStep`), rollbacks
(`RollbackStep`), commits (`InstallStep`) and statements (`OwnStep`). TLC checks `IInv` in run
`spelling`.

`MintKeyOnce` proves `MintOnce`. A mint that lost the race for its key goes back to its
savepoint and commits nothing, some steps after it has seen the other's row: `MintInv` adds
that the row is committed by then and stays.

### The store, for canonical wallet ids (`WalletCanonicalProofs`)

These theorems have a hypothesis on the requests and are false without it, as the runs
`false_decline`, `false_conflict` and `sorted_text` show. `CanonicalSources`: clients spell
source wallets as Postgres prints them; `CanonicalRequests`: both wallets. References that
denote no wallet are not restricted. Clients that use the ids the API hands out satisfy both.

* `Refinement` (`CanonicalSources`): the store implements `WalletLedger`. Commits are the steps
  of the ledger, everything else is a stutter; what a commit installs is what the decision
  under the row locks said, by `TxInv`. Run `storm` satisfies the hypothesis.
* `DeclinesJustified` (`CanonicalSources`): a decline commits only while the wallet is short.
* `SameDocument`, `ConflictsReal` (`CanonicalRequests`): `IdenticalDocument` and
  `ConflictIsReal`. `SpellingInv` adds what a document and a conflict were made from: the
  first caller's document echoes the request, a replay prints the row, and the fingerprint
  of every row is that of a request.
* `DeadlockFree` (`CanonicalRequests`): `NoDeadlock` for circles of any length. A call waits at
  a *rank*: 0 at a unique index entry, before it has any row; then the position of the row in
  the sorted order. Whoever it waits for and also waits does so at a higher rank (`WaitsUp`),
  since holders of a row wait only for their second row; a circle would have no smallest
  rank. That transfers take no lock stronger than `NO KEY UPDATE` (`NoUpdateLocks`) is what
  keeps foreign-key checks out of it, as the comment at `transfer.go:40` argues.

### The audit (`FiniteSums`, `WalletAuditProofs`)

`AuditSound` and `Reconciled` prove `AuditHolds` and `WalletsReconcile`. `BooksInv` says that
the money tables are finite, that balances add up to what was minted, that ledger rows add
up to nothing, and that each wallet is the sum of its mints and its ledger rows; `CommitEffect`
reduces a commit to two cases, money moves between two wallets or enters one. Sums are folds
of the community modules, which define them by a recursive function that takes elements in
an unspecified order. `FiniteSums` shows that this function exists, that the order does not
matter and what adding or changing one element does, each from a smallest subset for which
the claim fails, which there is since the proper subsets of a finite set are well-founded:
this takes the place of an induction rule.

### Logins (`WalletProvisionProofs`)

`WalletProvision` implements `WalletStore`, since to the store's state a login is a stutter.
So `IInv` and the audit hold beside any number of logins, though they lock the store's rows
and take its connections.

### The API (`WalletApiProofs`)

`ApiInv` is inductive: for each point of a handler, what it has checked by then and that it is
still true (wallets are never removed and never change owner, users neither), what the store
has told it, which rows are its own (`CallOf`); that committed and open rows together are
unique per token and per owner (`UniqueInv`); that rows say what was ordered (`TableInv`).
`OwnerMoves`, `OneWalletEach`, `RejectionKeepsKey` and `CreatedIsTrue` follow. It was
model-checked on the instances of `api_money` and `api_first` before it was proved.

`EveryRequestCounted` needs `ObservedInv`: the gauge is the number of requests under way and
each counter the number of requests that ended with its status. `CountersMatchTables` needs
`CountersInv`, that the counters are cardinalities and sums (`FiniteSums`) of finite sets of
counted rows; every step reports something, begins or ends a request, or is in the middle
of a handler (`MiddleStep`), and only the first kind changes what is counted. `TypeOK`
follows from both.

### The log ring (`LogRingProofs`)

`LogInv` proves `TypeOK`, `SnapshotIsRecent`, `InOrder` and `OnlyOwnBacklogDrops`, for every
`LOG_RING_SIZE`, also one that `NewRing` has to clamp. `RingInv`: the line written `k` lines
ago is `k` slots behind the write head, modulo the size. `OrderOf`: what a viewer has seen
comes before what waits in its channel, and that before the line `Write` is about to send.
The modulo of `Snapshot` is reduced to one subtraction at most.

### The process (`LifecycleProofs`)

`TypeOK`, `GracefulExit` and `SchemaWhole` of `Lifecycle` for any number of requests, any
environments and a schema of any length. Exit code 0 is chosen long before the process exits,
so `GracefulExit` needs to know that nothing is accepted in between (`Stopping`);
`SchemaWhole` is inductive as it stands (`Prepared`); the pool's bound needs that only a goroutine inside a statement has a
connection (`Holding`). `LInv` is the conjunction of these with the ranges (`Typed`,
`Reading`); the proof has one lemma per conjunct, each by cases over the actions.

### Assumptions

* `RefAssumption`, `RequestAssumption`, `BoundAssumption` (`WalletStore`): what references
  resolve to, that amounts are positive (the handlers refuse others, and so do the CHECKs),
  that bounds are naturals.
* `FiniteAssumption` (`WalletAudit`): the table of wallets is finite, or the audit's sum over
  it would mean nothing.
* `ApiAssumption` (`WalletApi`): finitely many requests; amounts are integers; the
  rows that exist beforehand satisfy the unique indexes and foreign keys of `schema.sql`, fit
  in a bigint, and have ids of their own.
* `RingAssumption` (`LogRing`), `LifecycleAssumption` (`Lifecycle`): sizes and bounds are
  numbers. `LOG_RING_SIZE` may be any integer.

TLC evaluates all of them in the runs.

### Only model-checked

Liveness under fairness (`EveryoneReturns`, `WriteFinishes`, `StartupEnds`, `Stops`,
`ProbesAnswer`, `GaugesCatchUp`), which is out of the prover's reach. All other properties of
the passing runs are proved. `WalletApi` uses the ledger's steps and not `WalletStore`'s;
that the two fit together is `Refinement`.

## Not modelled

* Backoff times of `inTx`; serialization failures (40001), which READ COMMITTED does not
  produce here.
* The index page, static files, the request histogram, the retry counter and the pool
  gauges: they are written and never read by the program.
* Parsing of environment variables, and the conversion of the pool bounds to int32.
* The `healthcheck` subcommand, a process of its own that sends one GET.
* The burst script, a client; its scenarios are among the requests of `MCWalletStore`.

## Plan

1. Done: `WalletLedger`, `WalletStore`, `WalletAudit`, `WalletProvision`, `WalletApi`,
   `LogRing`, `Lifecycle`; proofs of every safety property of the passing runs.
2. Proofs: that the tables of `WalletApi` move as `WalletLedger` says, so that conservation
   holds of the API's tables too; that no circle of waiting transactions passes through a
   login; `wallets` and `users` only grow (action properties of the API).
