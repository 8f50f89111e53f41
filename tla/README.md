# Formal models of the durable core of HBCE AI JOKER-C2

TLA+ modules that model the parts of this repository whose correctness depends
on the order in which concurrent callers, crashes and database statements
happen, the TLC configurations that check them on small instances, and TLAPS
proofs of what matters most for every instance.  `src/` below is the
repository root.

## 1. The system

The program is a Next.js application: routes under `app/api` call libraries
under `lib` and `src/runtime`, which keep their state in PostgreSQL (Neon).
Every route handler may run in several processes at once and may be killed
between any two database statements.  What one statement does is atomic;
almost nothing the program does is one statement.

| Part | State | Operations | What is hard |
|---|---|---|---|
| Level 8 workflow state machine (`lib/runtime-workflow-state-machine.ts`) | none (pure) | validate and compute a transition | the order of checkpoints, leases and counters a transition may have |
| Level 8 operation recovery (`lib/runtime-operation-recovery.ts`, `database/migrations/010_runtime_operations.sql`) | one row per operation: status, checkpoint, lease, counters, state and chain hash | create, transition, mark interrupted, mark recovery required, acquire, heartbeat, release, scan | SELECT, then UPDATE; leases that expire by the clock; crashes between two UPDATEs |
| Runtime operations ledger (`src/runtime/operations/`, `db/migrations/20260808_runtime_operations_ledger*.sql`) | an append-only table chained by hashes | append, replay of an append, verification of the chain | concurrent appends on one tip, retries, lost answers, paged reads of a growing table |
| Level 7 run (`app/api/v1/runtime/serialization-retry/self-test/route.ts`) | a contended row, an idempotency record, the checks passed | two SERIALIZABLE transactions with a barrier, a retry, concurrent inserts, cleanup | calls that fail while `Promise.all` waits, or after it has rejected |
| API rate limit and quota (`lib/rate-limit-quota.ts`) | events, quota ledger, profiles | count, decide, insert twice | check, then insert; windows that turn in between |
| Login throttling (`lib/ipr-auth-rate-limit-store.ts`, `lib/ipr-session-store.ts`, `app/api/auth/ipr-login`) | failure buckets, counter and lock of each credential | inspect, verify, record a failure, reset, prune | overlapping requests; owners locked out |
| Password recovery and sessions (`lib/ipr-password-recovery-*.ts`, `lib/ipr-session-store.ts`, `app/api/auth`) | credential, grants, sessions | issue and consume a grant, rotate, log in, touch, expire, revoke | a login in progress while a recovery revokes all sessions |
| Database transactions (`lib/ipr-database-transaction.ts`) | none | BEGIN, COMMIT, ROLLBACK | a COMMIT whose answer is lost |
| Level 9 adapter, Level 10 delivery (`src/runtime/adapters/`, `runtime/hbce-level10-delivery-*.ts`) | effects, outbox, deliveries | single updates | see section 6 |
| Onboarding replay store, scheduler, EVT and OPC ledgers, logs | nonces; plans; tables | insert; plan; insert | see section 6 |
| Chat, files, sources, memory recall, classifiers, prompts, user interface | — | text | no shared state of their own |

Every request to `POST /api/v1/chat` passes the quota; a session token is looked
up at the routes that need a subject, a login creates one, and a recovery ends
them.  The ledger and the recovery library don't call one another: a Level 8 operation
refers to EVT, OPC, audit and usage records only by identifiers that its caller
passes.  Both call the database directly and both are called by API routes; the
only callers of Level 8 in this repository are its self-test route, those of the
ledger are its self tests and `runtime-execution-persistence.service.ts`.

### What makes each part correct

* Recovery: one worker at a time owns a recovery; an owner that was taken over
  cannot write as one; recoveries are counted; hashes are those of what is stored;
  terminal states are final.
* Ledger: one gapless chain in which each hash commits to all the entries
  before; at most one entry per logical operation; an answer always names a
  stored entry of the operation that was asked for; an error says what was
  persisted; verification fails only for a ledger that is wrong.
* Level 7 run: no update is lost, the record is inserted once, and the response
  does not claim what did not happen.
* Quota: concurrent requests exceed a limit by a bounded number; nobody is
  refused without cause.
* Authentication: failures are counted and block, although they overlap; the
  owner of a credential is not locked out for good; no session outlives the
  recovery of its credential but that of a login that overlapped it; a recovery token works once.

The list of hazards, each at its line, is in `PROJECT.json`.

## 2. Modules

| Module | What it is |
|---|---|
| `RuntimeWorkflow` | the pure state machine: statuses, transitions, checkpoints, validation |
| `RuntimeOperationRecovery` | extends it with the row, the workers, leases, crashes and the clock; its properties |
| `RecoveryLease` | abstract: what the recovery lease promises the workers |
| `RuntimeOperationRecovery_proofs` | the TLAPS proofs about it, the refinement of `RecoveryLease` included |
| `RecoveryLease_proofs` | what every implementation of the lease inherits |
| `MCRuntimeOperationRecovery` | its instances for TLC |
| `AppendOnlyLedger` | abstract: what the ledger promises its clients |
| `RuntimeOperationsLedger` | the append service, the repository, the trigger and the unique indexes; refines `AppendOnlyLedger` |
| `RuntimeOperationsLedger_proofs` | the TLAPS proofs about it, the refinement included |
| `AppendOnlyLedger_proofs` | what every implementation of the log inherits |
| `MCRuntimeOperationsLedger` | its instances for TLC |
| `SerialUpdates` | abstract: a row that workers increment in one step each |
| `SerializationRetry`, `SerializationRetry_proofs`, `MCSerializationRetry` | the Level 7 run and its transactions; refines `SerialUpdates` |
| `RateLimitQuota`, `RateLimitQuota_proofs`, `MCRateLimitQuota` | the quota of API requests |
| `LoginThrottle`, `LoginThrottle_proofs`, `MCLoginThrottle` | a login with its failure buckets and the lock of the credential |
| `AtomicRecovery` | abstract: a recovery that is one step |
| `PasswordRecovery`, `PasswordRecovery_proofs`, `MCPasswordRecovery` | recovery transactions beside logins and requests with a session; refines `AtomicRecovery` |

### Conventions

A hash is modelled by what it is a hash of: two hashes are equal exactly when
what they cover is.  A database statement is one action.  A call that makes
several statements keeps its local variables in `call[w]`, and other workers act
between any two of them.  `new Date()` and the like read the state's `clock`.  A statement
may fail; a write may also commit with its answer lost, so that the row has changed
and the caller is told of an error.  Reasons, references
and payload columns are reduced to their presence.  Definitions named after what
a mutation does and announced by a comment "Mutant of X" are not used by the
models: each is the form a plausible bug would give X, and shows that a property
can fail.

### `RuntimeOperationRecovery`

| Code | Model |
|---|---|
| `runtime_operations` row | `row`: canonical columns in `state`, `lease_acquired_at` in `acquired`, the other `_at` columns that are set in `marks`, `state_hash` in `hashed`, `chain_hash` in `chain` |
| local variables of a call | `call[w]`: its step, the row it saw, its arguments, its `now` |
| the lease a worker was told it owns | `held[w]` |
| `createRuntimeOperation` | `Create` (with a taken key it changes nothing) |
| `transitionRuntimeOperation` | `BeginTransition` (SELECT and validation), then `PersistTransition` or `PersistRefused` (a CHECK fails) |
| `markRuntimeOperationInterrupted` | `BeginInterrupt`, `ContinueInterrupt` / `InterruptRefused`, then as a transition: it reads the row twice |
| `markRuntimeOperationRecoveryRequired` | `BeginRecoveryRequired` |
| `acquireRuntimeOperationRecoveryLease` | `BeginAcquire` (`now`), `AcquireLease` / `AcquireRefused`, `SealLease` / `SealRefused` |
| `heartbeatRuntimeOperation` | `BeginHeartbeat` (`now`), `Heartbeat` / `HeartbeatRefused` |
| `releaseRuntimeOperationRecoveryLease` | `Release` |
| a failed statement, a killed process, time | `DatabaseError`, `Crash`, `Tick` |

Requests are members of the constant `Requests`; the theorems hold for any set
of them.  A request has each optional argument of a transition, or leaves it to the
row's own value, the recovery count included.  The UPDATE of a seal or a heartbeat may
commit with its answer lost: `SealLease` and `Heartbeat` then leave `held` as it was.
For the other writes `DatabaseError` after the step, or `Release`, comes to the same.
`Crash` is only needed for a worker that holds a lease: for any other,
`DatabaseError` forgets as much.  The clock is shared: skew between processes
is not modelled, except that a `now` may be arbitrarily old when it is used.

`issued`, `latest` and `stale` are history variables.  `stale` becomes true when
a write lands on a row that was changed after the writer read it, or when a lease
is acquired with a `now` older than the acquisition of an earlier lease.  The
code doesn't exclude either (the UPDATE of a transition names only the
operation), and the violation runs show what goes wrong then.  The safety
properties are therefore about everything up to the first such write: they say
that those two races are the only way to lose them, in spite of crashes, expiry,
takeover, late heartbeats and lost answers.  A transition with an optimistic
version check and an acquisition that takes its time from the database would make
them unconditional.

`RecoveryLease` is what the four lease columns promise, whatever else is written to
the row: a lease is granted under the next token once the one before is gone or has
expired, only its owner learns of it, extends it or gives it up, and time passes.  A worker may not learn that it extended
its lease: the lease that stands then runs longer than the worker believes, and a
transition that passes the worker's own lease puts it back to that (`PutBack`).
The refinement maps the row's lease to `lease`, `held` to `believed` and `issued` to
`granted`; the UPDATE of an acquisition is `Grant`, its seal `Learn`, a heartbeat
`Extend`, a release or a crash `Drop`.  Transitions that pass no lease rewrite the
columns and must leave the lease as it is.

### `RuntimeOperationsLedger`

| Code | Model |
|---|---|
| `hbce_runtime_operations_ledger` table | `ledger`, the rows in the order they were committed |
| a call of the service or of the repository, or the last one | `call[w]` |
| preflight and `buildIdempotentReplayResult` | `Preflight` |
| tip read, `assertExpectedTip`, `verifyCurrentTip` | `ReadTip` |
| `appendVerifiedRuntimeOperationsLedgerEntry` | `Gate`, `ReadLatest`, then one of `Insert`, `InsertUnanswered`, `InsertDiscontinuous` (trigger), `InsertDuplicate` (index), and `Resolve` (second gate) |
| reread and its verification | `Reread` |
| tip after the append, `readFullPersistentChain`, `verifyRuntimeOperationsPersistentChain` | `ReadAfter`, `ReadPage`, `FinishChain` |
| a route that calls the repository itself | `BeginDirect` |
| any failed statement | `DatabaseFailure` |

An INSERT is one action because its trigger takes an advisory lock that is held
until the commit.  A source is a record with a `revision`, which the service
compares on a replay, and the rest, which the repository compares as part of the
hashes.  Which unique index PostgreSQL reports when several are violated is left
open.  Errors that the code distinguishes and no property does are merged.
`attempted` and `confirmed` are the two flags of the service, and at the end what the
answer or the error reports of them, which is not the same: the errors of the
preflight report the row they found although `persistenceConfirmed` was never set, a
statement that fails after them reports the flag as it is, and the errors of the
limit (`Denied`) report both as false.  `fate` is history: whether an INSERT of the
call committed and whether its row was returned to the service.

`AppendOnlyLedger` is what a client may rely on: a log that is only extended, by
an operation and a source not in it yet, and an acknowledgement that names an
entry answering the request.  The refinement maps `ledger` to `log`, the request
of a call to `asked` and the sequence a successful call returns to `told`.

### `SerializationRetry`

| Code | Model |
|---|---|
| the handler `POST`, from the seed to the last count | `pc` and `SeedInserted` / `SeedFails`, `Contended`, `Retried`, `FinalState`, `Replayed` / `ReplayRejected`, `VerifyRecord`, `DeleteRecord`, `DeleteSeed`, `CountSeed`, `CountRecord` |
| `runContentionWorker` in `withHbceDatabaseTransaction` | per worker `Begin`, `Read`, `Update`, `Commit`, `Abort`; `tx[w]` holds the version its snapshot shows |
| `createBarrier` | `arrived`, `Released` |
| SQLSTATE 40001, `isSerializationFailure` | `Unchanged` fails: the row was replaced since the snapshot |
| `runIdempotentInsert` | `InsertStep(r)`; `InsertFails` for one whose answer is an error, whether or not it inserted |
| checks with status PASS | `passed` |

Each worker and each insert is a process; `Promise.all` starts them together and
rejects at the first rejection, so the handler may clean up while inserts are in
flight.  An UPDATE of a row that another transaction has written waits for its
end.  `Faults` names the calls that may fail.

`SerialUpdates` is the contended row without transactions: `value` is its version,
`served` the workers whose update took effect.  A COMMIT that takes effect is
`Increment`, whether its answer arrives or not; everything else about the
transactions, rejections and retries is a stutter.

### `RateLimitQuota`

| Code | Model |
|---|---|
| `hbce_rate_limit_events`, `hbce_quota_ledger` | `events`, `ledger`: sets of rows with key and time |
| `validateHbceRateLimitQuota` | `Begin`, `ReadProfile`, `ReadCount` for each window in any order, `Refuse` or `Admit` |
| `insertRateLimitQuotaEvent` | `InsertEvent`, `InsertLedger`: two statements |
| `startOfMinute` and the others | the constant `StartOf`, any monotone calendar |
| a query that answers `ok: false` | a count of zero, or the default profile |

A row has the stamp of a second reading of the clock, so it may fall into a later
window than the one that was counted.  A chat request leaves the other daily
counts at zero; they are left out.

### `LoginThrottle`

| Code | Model |
|---|---|
| `ipr_auth_rate_limit_buckets`, `failed_attempts` and `locked_until` of `ipr_auth_credentials` | `count`: one record per counter, an address, an address and a subject, a credential |
| `handleLogin` | per request `Start`, `Inspect` (each bucket), `Throttle`, `ReadCredential`, `RecordFailure` and `RecordAttempt`, or `ResetAttempts` and `ResetPair`; `Abandon` where a call fails with 503 |
| `UPSERT_FAILURE_SQL`, the UPDATE of `recordFailedLoginAttemptAsync` | `Failed(c)`: they treat a block alike, and a credential has no window |
| `now()` passing `blocked_until`, `locked_until`, the end of a window | `BlockEnds`, `WindowEnds` |
| `pruneStaleBucketsAsync` | `Prune` |
| the rotation of a recovery, which clears the lock | `Rotated` |

There is no clock: what a comparison with `now()` yields changes by a step.  A
retention run prunes a bucket not written for a day, longer than any window or
block.  `since` is a history variable: the guesses recorded in a counter since it
began anew.

### `PasswordRecovery`

| Code | Model |
|---|---|
| `ipr_auth_credentials`, `ipr_password_recovery_grants`, `ipr_sessions` of one subject | `rotation` (how many passwords it has had), `grant`, `session` |
| who has a token | `told`: a token whose issue was committed with its answer lost is nobody's |
| `issueIprPasswordRecoveryGrant` | `Issue`, which revokes the grants issued before |
| `executeIprPasswordRecovery` | `Begin` (the snapshot, the grant locked and found valid), `Commit` or `Abort` |
| a login's reads and writes | `VerifyPassword`, `RefusePassword`, `ResetAttempts`, `CreateSession`, `LoginFails` |
| `verifySessionTokenAsync`, logout | `Select`, then `Touch` or `MarkExpired`; `RevokeSession`; `WriteFails` |

The recovery is a SERIALIZABLE transaction.  `stale` says that a row its snapshot
shows was written by somebody else since; its COMMIT is then refused.  Its writes
become visible at the COMMIT, so they are one step.  Logins and session requests
are statements of their own under READ COMMITTED, and update by `session_id` or
`human_ipr` whatever the row has become.

`AtomicRecovery` is what the subject sees: a COMMIT is `Recover`, which uses up the one
valid grant, changes the password and leaves of the live sessions only some that
were made beside a recovery; `Issue`, `LogIn` and `End` (a session expires or is
revoked) are the other steps.  Snapshots, tokens that are read and written back
later, and failed attempts are stutters.

## 3. Runs

| Run | Instance | Shows |
|---|---|---|
| `recovery` (pass) | 2 workers, 2 leases of 2 ticks, clock to 3, 2 attempts, requests authorize, run, complete with and without the lease, fail | the properties below |
| `recovery_ownership` (violation) | clock to 2 | two unexpired leases at once after a stale transition |
| `recovery_hash` (violation) | clock to 2 | `state_hash` is not that of the row |
| `ledger` (pass) | 2 calls at a time, 2 operations, Genesis and 3 sources in 2 revisions, pages of 2, at most 3 entries verified | the properties below |
| `ledger_concurrent` (violation) | 2 callers, one request | a loser of a race refused instead of replayed |
| `ledger_limit` (violation) | one caller, at most one entry verified | an entry is persisted and reported as not even attempted |
| `serialization` (pass) | the 2 workers and 3 inserts of the route, every call may fail | the properties below |
| `serialization_barrier` (violation) | one insert, only BEGIN may fail | the other worker waits at the barrier for ever, the rows are not removed |
| `quota` (pass) | 2 requests of one key, three moments in two minutes of a day, limits of one; reads may fail, requests die | the properties below |
| `quota_fail_closed` (violation) | one request whose counts may not be read | it is granted |
| `login` (pass) | 2 requests, one address, a subject with a credential and one without, limits 2, 1 and 2 | the properties below |
| `password_recovery` (pass) | 2 grants, 2 logins, 2 recoveries, one request with a session at a time | the properties below |

Properties of `recovery`: `ExclusiveRecovery` (no two workers believe they hold
an unexpired lease), `FencingToken` (a worker that was taken over cannot write
its lease back, although the code never compares tokens there: the
`lease_consistency` CHECK does it), `RecoveryCountExact` (if no transition passes a
count of its own, which the code accepts and no caller in this repository does),
`EvidenceSealed`
(outside recovery, the row carries the hashes of its own state),
`TerminalIsFinal`, `ChainIsLawful` (the chain replays a life the
state machine allows, from NEW on, although its links are written by different
workers from the rows they had read; only RECOVERING may be missing, where a worker
died before its seal), `ImplementsLease` (the refinement of `RecoveryLease`),
`LeaseStands` (a worker whose lease has not expired finds it on the row, under the
last token issued and for no less long than it believes, whatever others have written
and whichever of its heartbeats were not answered).

Properties of `ledger`: `ChainCommits` (gapless sequences; a hash commits to all
the sources up to its own), `ConfirmedIsPersisted` (a call that reports
`persistenceConfirmed`, whatever error ends it, names a row of its operation that is in
the ledger), `PersistedIsReported` (the other way round: a call whose INSERT committed
reports at least that it attempted it, and a call that was given its row reports it as
confirmed), `NoFalseAlarm` (concurrent appends
never make a verification fail), `ImplementsLog` (the refinement), `OneAnswer`
(calls that passed for the same operation were given the same entry).
`PersistedIsReported` leaves out the two errors of the limit, of which it is false:
`ledger_limit` shows that.  It is about what the call itself did.  A row that the preflight
found was persisted by an earlier call; if a statement fails while that row is verified,
the error reports neither flag, and the caller cannot tell from it that its operation
is in the ledger.

Properties of `serialization`: `NoLostUpdate`, `ReadBeforeWrite` (the barrier
works), `SingleCanonicalRecord`, `PassIsTruthful` (a run with every check passed
did what it says), `CleanupCheckMeansClean` (wrong at most about an insert that
was abandoned), `RespondsOnceMet` (liveness: once both workers are at the barrier,
the run ends with a response), `ImplementsSerial` (the refinement: no rejection,
retry or lost answer applies an update twice or one that was never made).

Properties of `quota`: `BoundedExcess` (the rows of a window exceed its limit by less
than the number of requests in progress.  It counts rows, not grants: the rows of
requests whose reads succeeded, since what is granted on reads that failed is
unbounded, see `quota_fail_closed`, and nothing for a request whose INSERT failed,
which is granted all the same because the result is not looked at.  In this run no
INSERT fails; the theorems hold for any set of `Faults`),
`LedgerWithinEvents` (where no statement fails, a request that dies leaves
nothing counted for the day that is not counted for the minute), `RefusedForRows` (no
failed count and no unrecorded request refuses another; the limit is that of the
profile read for the request, or of the default one where that read failed).

Properties of `login`: `BlockedAtLimit` (a counter blocks or has blocked exactly
when it is full, whatever overlaps), `GuessesBounded` (the inspection and the
record are apart, so requests that overlap guess past a limit, by less than their
number), `OwnerGetsIn` (liveness: once the others stop, an owner who tries again
and again, one request after the other, gets in again and again; to get in is here
to pass the password and reset the pair, since profile and session, which the route
sees to next, are not in the module).  The last one
is not obvious: an attempt with the right password is recorded as a failure while
the credential is locked, and may so block the buckets, whose block may end when
the credential is locked no longer.  It needs the credential's limit to be above
one, as the route's is: with a limit of one, or of attempts that overlap, each
failure locks anew.  `OwnerGetsIn` excuses what the owner cannot help (`Disturbs`):
wrong guesses by others for this subject or from this address, credential reads
that fail, attempts that overlap and requests that die.

Properties of `password_recovery`: `OneRotationPerGrant`, `GrantsEndOnce` (a
recovery that had found its grant valid does not use it once it was revoked),
`OnlyOverlappingLoginsSurvive`, `SessionsEndForGood` (a request that read a
session before it was revoked may write to it, and does not revive it).  The third
says how far "Revoke every ACTIVE persistent session" reaches: a session of the
old password that is usable afterwards was inserted while the recovery was in
progress, or after it by a login that had read the credential before.  The model
reaches both cases.  `ImplementsAtomic` is the refinement: at its COMMIT a recovery
uses the grant that is valid then, the only one, and the sessions it ends are those
of that moment, although it chose both when it began.

Bounds.  In `recovery`, two leases of two ticks within three ticks are one
takeover after expiry with a heartbeat or a release on either side of it; a third
lease repeats the second.  Requests leave out the steps between RUNNING and
COMPLETED, the compensation, the return from RECOVERING to RUNNING and a recovery count
of the caller's own, which multiply the states; the two violation runs have them all,
and the theorems hold for any requests.
`MaxClock` and `MaxLeases` are guards of the model.  `NoStaleWrite` is a
constraint: all properties of the run hold trivially after a stale write, whose
state is checked but not continued.  In `ledger`, unique sources bound the ledger
by four entries: two pages, and one more than `MaximumEntries`, so that a chain
over the limit is reached.  Two calls suffice for every pairwise race; each
worker makes any number of calls one after another, and what earlier calls left
behind stands for further callers.  `serialization` is the instance the route
runs.  In `quota`, `Horizon` is a guard of the model; its moments give a request
that counts one minute and is stamped in the next, and limits of one are exceeded
by the first overlap.  In `login`, the pair's bucket is full after one failure and
the other two after two, so that counters fill one after another and in either
order; two requests overlap, and slots are used again without end.
In `password_recovery` sessions and grants are used up: two grants are one
revocation, two sessions one login on either side of a recovery.  Symmetry is over
workers, slots and the constants of `password_recovery`, which the modules treat
alike, and not used where a liveness property is checked.  Deadlock is checked
where calls can always be made; the Level 7 run ends, `quota` stops at its
horizon, and in `password_recovery` everything may be used up.

Fairness.  `SerializationRetry` assumes that the handler, each worker and each
insert goes on while it can: every database call has a timeout
(`statement_timeout`, `lock_timeout`, connection timeout), so it answers or fails,
and the event loop runs what was answered.  Waiting at the barrier is no step, so
fairness doesn't help there.  `LoginThrottle` assumes the same of a request, and
that a block ends, because its end is a time.  It assumes neither that a request
is made nor that windows end.  The other modules assume none, and state safety
only: a recovery loop, a second recovery and retries are left to callers that this
repository does not have.

## 4. What is proved

`RuntimeOperationRecovery_proofs` proves the properties of the run `recovery`
for any set of workers, requests, lease duration and number of attempts, any
clock and any number of leases.  The assumptions are those of the modules: the
duration and the maximum are positive, and NULL is not a value of any other kind.

None of the properties is inductive.  The invariant `IInv` adds:

* `CallInv`: what a call in progress relies on: its time is not in the future,
  a transition was validated against a row that was not terminal, a call that
  seals saw its own lease with a token that was issued, one that beats holds a
  lease;
* `TokenInv`: a token belongs to one worker, whether the lease is held or still
  to be sealed, and was issued;
* `AbsentInv`: before the row exists no lease was issued and no call is under way;
* until a write is stale, `LeaseInv`: the lease in the row, if any, is the last
  one issued, was acquired at `latest`, and `recovery_count` is `issued`; a worker
  that holds the last lease holds the row's or, after a heartbeat that was not
  answered, one that ends before it (`HolderOK`), and one that holds an older
  lease holds one that had expired by `latest`.  That moment is what makes the
  CHECK constraint a fence: an old owner that writes its lease back would have it
  expire no later than `lease_acquired_at`.

The proof that a step preserves it has one lemma per action.  `TerminalStays` is
an action property that follows from the same invariant.

`ChainIsLawful` needs `ChainInv`: the last link of the chain is the row's status, or
the row is RECOVERING and unsealed, in which case the last link is one after which a
lease could be taken.  A transition is validated against the row and not against the
chain, so this is what makes its link lawful.  `LeaseRefines` shows each action to be
a step of `RecoveryLease` or a stutter, from `LeaseInv`: a heartbeat that finds its token on the row holds the row's lease but
for its end, and a transition rewrites the one it read or puts back its holder's.  That `LeaseStands` follows is then a fact about
`RecoveryLease` alone (`LiveLeaseStands`: who believes in an unexpired lease has the
standing one, the last granted, because a grant waits for the expiry), which
`LeaseIsKept` takes over through the refinement.

`RuntimeOperationsLedger_proofs` proves the properties of the run `ledger`, the
refinement too, for any set of workers, operations, sources and requests, any
page size and any limit on the entries verified.  It assumes that NULL is not an
operation, a source, a hash, a row, a request or a result, that the page size is
positive, and nothing of the limit but that it is a natural number.  The
invariant `IInv` adds to the types and to the chain (`Chained`, which is
`ChainCommits` of a given ledger) what a call in progress remembers (`CallOK`):

* before its INSERT, the row it built is of its own request and its hash is
  computed from the tip it read (which may no longer be the tip: the trigger
  decides);
* once its row was returned or found, that row is in the ledger and answers its
  request;
* from the call of the repository on, persistence is flagged as attempted, and what
  became of its INSERT agrees with the flags (`Reported`);
* while it reads the chain, what it has read is the ledger's prefix of that
  length, no longer than the tip it is to reach, which is within the limit.

Rows are only appended, so all of that stays true when others append
(`AppendPreserves`), and only the step of the call itself has to be looked at.
Each action's lemma shows that the call steps in one of four ways (`StepsTo`): it
asks, it goes on unseen, it is answered, or it appends.  The invariant
follows from that, and so does the refinement, where the four ways are `Ask`, a
stutter, `Tell` and `Extend` of `AppendOnlyLedger`.  That an operation and a
source occur once comes from the unique indexes, the position told from the
trigger.  `OneAnswerPerOperation` is not proved about the service at all:
`AgreementOnAnswers` proves it of `AppendOnlyLedger`, from the uniqueness of an
operation in the log and the truth of each answer, and the refinement carries it over.

`SerializationRetry_proofs` proves the safety properties of the run
`serialization` for any finite set of workers, any inserts and any faults.  Its
invariant adds where the transactions may be while the handler is at each step, that
who has updated holds the row's present version and is alone (`Transactions`), which
attempts are applied (`Applied`), which inserts may still create the record
(`Records`), and what each passed check implies from then on (`Verdicts`).
`RunImplementsSerial` follows from it: the row's version when a COMMIT takes effect
is the one its snapshot has, so the version it writes is one more, and it is the
worker's first (`Transactions`, `Applied`).

`RateLimitQuota_proofs` proves those of `quota` for any requests, keys, profile and
calendar.  A bound on the rows alone is not inductive: a window that is full may
still get a row from a request that has counted before.  `Bounded` counts both: from
the moment a window is full, its rows and the requests that found room in it are at
most the limit plus the other requests, because who made it full is not among
them, and nobody joins them afterwards.

`LoginThrottle_proofs` proves `TypeOK`, `BlockedAtLimit` and `GuessesBounded` for any
finite set of requests, any addresses, subjects and positive limits.  `Budget` is the
same idea for a counter: while it blocks, the guesses recorded and the requests that
have passed it, but not yet recorded (`Pending`), stay within the bound; while it
doesn't, it has counted every guess; once it may restart, the count begins anew.

`PasswordRecovery_proofs` proves all properties of `password_recovery` for any finite
set of grants and any sessions, recoveries and requests.  The invariant says what the
COMMIT of a transaction that is not stale may rely on: its grant is still issued
(`GrantHeld`), and every active session is one it has seen or was inserted beside a
recovery (`AllSeen`); an active session that was not inserted beside one was inserted
under the present password (`Present`).  The action properties follow from the step
lemmas.  `RecoveryIsAtomic`, the refinement, needs besides that at most one grant is
issued and that a request has read one session (`OneEach`): with `GrantHeld` the grant
of a COMMIT is the valid one, with `AllSeen` what it has not seen was made beside it.

The assumptions are the named ASSUMEs of the modules: sets that are counted are
finite, limits are positive, NULL is none of the other values, a window starts no
later than the moments in it.

## 5. What the runs found

Six statements of the repository's own comments and tests that the code does
not keep are runs with a violation, each with its finding in `PROJECT.json`:
exclusive ownership under stale transitions, the currency of `state_hash`,
what an append to a chain over the limit reports, replays for concurrent callers, the
removal of temporary records after a failure before the barrier, and a quota that
is not fail-closed where a count cannot be read.

## 6. What is only model-checked or not modelled

Every safety property of the passing runs is both model-checked and proved.
So are the four refinements, which state no fairness.  `ImplementsLease` and
`LeaseStands`, like the other properties of `recovery`, hold up to the first stale
write.  `RespondsOnceMet` and `OwnerGetsIn` are liveness, which is out of the prover's reach
and left to TLC, as are the violations.  ENABLED and induction over recursively
defined data are out of its reach too; the modules have no recursive operator.

Within the modelled parts: read-only operations (scan, inspection, listings),
building and verifying the formats of evidence and envelopes, headers, and the
self-test clean-up of Level 8 are left out.  Of authentication, the canonical bootstrap
(one transaction of inserts that do nothing on a conflict), the buckets of recovery
requests (the same upsert under keys of their own), the account profile and the
process-local copies of credentials and sessions (no authority where a database is
configured) are not modelled.  `LoginThrottle` and `PasswordRecovery` meet in one
step, the rotation, which appears in both; composing them would multiply counters
and sessions that do not read one another.

Not modelled:

* Level 9 adapter: two self tests call it, one call after another.  Its transition
  writes any status over any other, so that no property of concurrent callers could
  hold; the hazard listed for it is a question of progress.
* Level 10 delivery: repositories of single statements; the worker that would claim
  and retry deliveries is not in this repository.
* Onboarding replay store: nothing but its test calls it.
* Runtime brain scheduler: pure functions, no loop.
* EVT and OPC ledgers, audit and usage logs, bound memory: single upserts; the
  append to a file ledger has no caller.
* Chat, files and sources routes, classifiers, prompts, user interface: most of the
  repository's lines; text in, text out, with no state shared between requests other
  than what the parts above keep.
* Runtime kernel and bootstrap: run once by one thread.

## 7. What could come next

1. Composing a caller of the recovery library, once there is one, and liveness of
   a recovery loop (an operation whose attempts are used up; one whose worker died
   in a status the scan does not list).
2. The Level 10 worker, once there is one: an abstract exactly-once delivery that it
   implements.
3. A refinement of the login and the recovery to one abstract authenticator, and of
   the quota to a window counter with a bounded excess.
