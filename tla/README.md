# A TLA+ model of the µTandae control plane

µTandae governs machine identities: it discovers them at cloud providers, keeps
a record and an audit trail of each, rotates their credentials on request or on
schedule, delivers the new secret to vaults, and retires and deletes them. This
directory holds a model of its core, the TLC runs that check it and the TLAPS
proofs about it. Definitions keep the names of the code where TLA+ allows it;
`PROJECT.json` maps every definition to its source lines.

## 1. The system

| part | state | operations | interacts with |
|---|---|---|---|
| protocol (`pkg/protocol`) | the transition table | `CanTransition` | used by everything |
| lifecycle Store (`internal/lifecycle/lifecycle.go`) | identities, events, runs, two counters, one read-write mutex | `Provision`, `Register`, `Rotate`, `Retire`, `Delete`, `Use`, boot | HTTP handlers and sweep workers call it; it calls the adapter, the vaults, the repository |
| persistence (`persistence.go`, `redis_repository.go`) | one snapshot in Redis, a pub/sub channel | `Load`, `Save`, `Changes`, the reload goroutine | every instance of the process |
| one-time secrets (`provider/vault.go`, adapters) | one buffered secret per provider adapter | filled by `Rotate`/`Create`, emptied by `ConsumeOneTimeSecret` | Store |
| vaults (`vault.go`, `awssecrets.go`, `azurevault.go`, `gcpsecret.go`, `hashicorpvault.go`) | named secrets with versions, at the provider and in the cluster vault | `StoreSecret`, `ReadSecret`, `RevokeSecret` | Store, without its mutex |
| sweeper (`worker.go`) | leadership, last attempts, a limiter | `Run`, `Sweep`, the renewal goroutine, the worker pool | Store (`List`, `Rotate`), the lease |
| lease (`lease.go`) | one Redis key with a TTL | `TryAcquire`, `Renew`, `Release` | sweepers of all instances |
| provider adapters (`provider/*.go`) | accounts and their keys at AWS, GCP, Entra ID | `Create`, `Discover`, `Rotate`, `Retire`, the plans of dry runs | Store; `Rotate` and `Retire` under its mutex |
| integration sessions (`integration.go`) | sessions with expiry and a cap | `Connect`, `Disconnect`, `CreateSecret`, expiry loop | HTTP handlers, Azure |
| audit sink, event publisher | a file, a Redis stream | `Append`, `Publish` | Store, integration |
| web (`internal/web`) | sessions, login states, token buckets, cached documents | handlers, `allow`, `prune`, login, callback | Store, integration |

What is hard here:

- **interleaving**: operations hold the mutex in several short sections, and
  between them call vaults and reuse what they read before; the provider call of
  `Rotate` is made with the mutex held, that of `Provision` without;
- **several instances** share a snapshot, last writer wins, and replace their
  whole memory when told of a change;
- **failure**: every call to a provider, a vault or Redis can fail, before or
  after it took effect, and the process can die between two of them;
- **time**: a lease that expires while its holder works, timers that race a
  shutdown.

`PROJECT.json` lists these as hazards, each at its line, with the properties
that would catch it.

What makes each part correct: the Store follows the canonical lifecycle, shows
a key as healthy that works, never leaves an identity in `renewing`, keeps ids
unique and an audit trail that explains every run, loses nothing it has saved,
and files each secret under its own identity; the sweepers never work at the same time unaware, never
disturb the lease of another, renew every overdue identity and stop when told;
an adapter never removes the key in use before its replacement exists, leaves a
working key on record and nothing after a retirement, does what its dry run
announced, and a failed rotation can be retried; a vault that has confirmed a
secret never returns an older one, and none at all once a revocation is
confirmed; the rate limiter bounds what a
client may do and what memory it takes, the demo quota bounds the identities of
a tenant, and every request ends; an interactive session does not outlive its
time, its client is never forgotten with a tenant's secret in it, and no usable
credential is left behind unknown; a login accepts no token of a signing key long
withdrawn, knows a published one, and leaves a cookie only of a stored session.
These are aims. Sections 3 and 4 say how much of each is checked and proved and
under which conditions, section 6 where the code falls short of them.

## 2. Modules

| module | models | checked by |
|---|---|---|
| `Protocol` | the states and `AllowedTransitions` | extended by the next two |
| `Governance` | abstract specification: what the control plane promises about one identity | `FollowsLifecycle` |
| `Store` | Store, snapshot persistence, one-time secrets, vaults as named versions | `MCStore`, `StoreProofs`, `LifecycleProofs` |
| `StoreProofs` | theorems about `Store`: what holds of every memory and snapshot | TLAPS |
| `LifecycleProofs` | theorems about `Store`: the lifecycle, the keys and the vaults | TLAPS |
| `Sweeper` | sweeper, lease, worker pool, shutdown | `MCSweeper`, `SweeperProofs` |
| `SweeperProofs` | theorems about `Sweeper` | TLAPS |
| `ProviderKeys` | `Create`, `Discover`, `Rotate`, `Retire` and the plans of the AWS, GCP and Azure adapters, call by call | `MCKeys`, `KeysProofs` |
| `KeysProofs` | theorems about `ProviderKeys` | TLAPS |
| `Vaults` | deliveries, revocations and uses at the provider-native and the cluster vaults, request by request | `MCVaults`, `VaultsProofs` |
| `VaultsProofs` | theorems about `Vaults` | TLAPS |
| `Web` | a provisioning request: rate limiter, demo quota with its reclaim loop, `Provision` | `MCWeb`, `WebProofs` |
| `WebProofs` | theorems about `Web` | TLAPS |
| `Integration` | interactive Azure sessions and the credentials handled through them | `MCIntegration`, `IntegrationProofs` |
| `IntegrationProofs` | theorems about `Integration` | TLAPS |
| `Auth` | OIDC logins, the cached signing keys, browser sessions | `MCAuth`, `AuthProofs` |
| `AuthProofs` | theorems about `Auth` | TLAPS |

`Store` sees a provider operation as one call with one outcome; `ProviderKeys`
opens it. It sees a delivery, a revocation or a read as one answer of a vault;
`Vaults` opens these. `Sweeper` sees the Store as a set of records that become overdue,
fresh or retired; `Store`'s threads stand for its workers. `Web` sees the Store as
the set of active demo identities, with `List`, `Retire` and `Provision` as
separate steps.

### Store

A step is the code between two points at which another goroutine can interfere:
a critical section, or one call made without the mutex. `call[t]` is a thread's
program counter with its local variables (the copy of the record it works on,
the run, the secret in hand). `lock[i]` is the thread that keeps the mutex
across a provider call; shorter critical sections are single steps guarded by
`Unlocked`.

| code | actions |
|---|---|
| `Rotate` | `RotateBegin` (mutex taken, run started, provider called), `RotateFail`, `RotateSucceed` (mutex released), `RotateConsume`, `DeliverToVault`, `MirrorToCommonVault`, `RecordReferences`, `RotatePersist` |
| `Provision` | `ProvisionCreate`, `ProvisionReject`, `ProvisionAdopt`, the delivery steps, `ProvisionSnapshot`, `ProvisionSave` |
| `Register`, `Retire` | `Register`; `Retire`, `RetireFail`, `RevokeFromVault`, `RevokeFromCommonVault` |
| `Delete` | `DeleteBegin`, the revocations, `DeletePurge` |
| `Use` | `UseBegin`, `UseRead`, `UseAudit` |
| watcher, `newStore` | `WatchLoad`, `WatchRestore`, `LoseNotice`, `Restart` |

`Provision` calls `persistLocked` without the mutex. Reading the maps there
races with writers, so the snapshot is copied in three steps (identities,
events, runs with the counters) and saved in a fourth.

Abstractions: the secret of key *k* is *k*; times, names, owners, summaries,
actors and pinned secret versions are left out; a vault write and the critical
section that audits it are one step; a crash and the restart are one step;
requests that are refused and dry runs change nothing and are no steps; the new
name of a provisioned identity carries random letters and is fresh; the metadata
of a record is the set of vaults it refers to.

### Sweeper

What the code compares with a clock is a timer that `Elapse` advances and that
saturates where its value no longer matters: the remaining life of the Redis
key, the age of the last renewal, the wait for the tick, the time since the last
attempt on an identity. A Redis call answers, or fails before or after it took
effect; with a cancelled context it fails. `MaxDelay` bounds how late a renewal
comes after its tick, and how long a cancelled leader takes to drain (`main`
waits two seconds for it and exits); the lease lives three renewal intervals, so
this is the margin the code itself relies on. `Sweep`, the one-shot entry point,
is called by tests only and is not modelled, nor is the in-memory lease, which is
always granted.

### ProviderKeys

One identity, its account and keys at the provider, and one operation at a time
(the Store's mutex). Keys are numbered in the order of creation. `pc` is the
call at which the adapter is; each call may fail before or after its effect, and
the process may die between calls. `handed` is the key whose secret the caller
of the adapter got last, which is the one in use; `record` is the key id the
Store knows.

| code | actions |
|---|---|
| `Create` | `CreateBegin`, `CreateAccount` (`createUser`, `createServiceAccount`, `CreateApplication`), `CreateKey`, `tagUser` (AWS), `Rollback` (Azure) |
| `Rotate` | `RotateBegin`, `emailFor` (GCP), `ListKeys`, `RotateMakeRoom`, `CreateKey`, `RotateDrop` |
| `Retire` | `RetireBegin`, `emailFor`, `ListKeys`, `RetireKey`, `RetireFinish`, or `RetireApplication` (Azure) |
| the repeats of `iamJSON` | `iamJSON` |
| restart, `Discover` | `Crash`: with a snapshot (`durable`) the record is as before, without one the newest key is adopted |
| `PlanRotate`, `PlanRetire` | operators of the same names, compared with `done`, the calls made |

An account that was just created is `fresh`: some replicas of the provider know
it and some do not, until `Propagate`. The adapters repeat a call that misses it,
as often as `Again` says (once, four, five or eight attempts). AWS tolerates the
deletion of a key that is gone, GCP answers 404, Graph 400. The order in which
GCP lists keys is arbitrary. Left out: paging, signing, tokens, the failure of
the console password's removal and of the tags, which is ignored, and names:
they are random, so two identities do not collide.

### Vaults

One identity with its provider-native vault, which may be not configured, denied
to the governor or open, and the cluster vault. `secrets[w][n]` is the secret of
name `n` in vault `w`: absent, kept or scheduled for deletion, with its versions
in the order of creation, each enabled or disabled. `Reply` and `Changed` are
what the services do with a request and are external; what the clients make of
an answer (`awsError`, ..., `Told`) and where they go from it (`awsStore`,
`gcpStore`, `azureRevoke`, ...) are the code's.

| code | actions |
|---|---|
| `Rotate` or `Provision`, once the new key is on record | `Rotate`, then requests that go through `deliverToVault` and `mirrorToCommonVault` |
| `Retire`, `Delete` | `Retire`, `Delete`, then `revokeFromVault` and `revokeFromCommonVault` |
| `Use` | `Use`, then `useSecret` (the native vault, or the cluster's if that is not supported), `Return` |
| a request and its answer | `Ask`; `Lost` (no answer), `Arrive` (a request whose caller has given up is received after all), `Unsupported` (not configured, nothing is sent) |
| the operator's grants | `Permit` |

The secret of key `k` is `k`. Names are valid and in scope, and reads ask for the
current version; `Provision` of the first key is the first `Rotate`. `replaced`,
`gone` and the fields `calm`, `before` and `stale` of a call are history that the
properties refer to.

### Web

`throttle` is the middleware with `allow`, one critical section, for one class of
requests: `Denied` and `Admitted` are its two answers, `refilled` and `pruned`
what it does to the buckets. A handler then goes round `activeDemo` (list and
compare with the limit) and `reclaimDemo` (retire the oldest) until there is
room or a retirement is refused, and ends with `provisionIdentity`. The
identities of one provider are considered; identities that others retire only
make room and are left out. Tokens are whole numbers: the rate is a number of
tokens per unit of time. The clock does not step back.

### Integration

`session[s]` is a session with its client: in the map or not (`listed`), open or
closed, the life it has left, its vault references. `call[h]` is a request with
the session it found, which it keeps using after the session has left the map,
as the code does with the pointer. Taking a session out of the map and closing
its client are separate steps, because the code unlocks in between.

| code | actions |
|---|---|
| `Connect` | `allowConnection` (attempt counted, client made), `Verify`, `Connect` (cap checked, session stored) |
| `Disconnect`, `session`, `expireSessions`, `Close` | `Disconnect`, `Begin` with `Expired`, `expireSessions` with `closeExpired`, `CloseManager`; `CloseClient` |
| `CreateSecret` | `addPassword`, `Store`, `RemoveSecret` (rollback), `Refer` or `Reply` |
| `ReadSecret` | `Read`, `Refer` |
| `InvalidateSecret` | `InvalidateSecret`, `Disable`, `Unrefer` |
| `main` | `Shutdown`, the last case of `CloseManager` (exit) |

A call through a closed client fails, because it gets no token; a token obtained
before the client is closed still works, which is the same as the call preceding
the close. Any call may fail, with or without effect, any number of times. The
application that is worked on is one the client owns; a refused ownership check
changes nothing. The expiry counts from the beginning of `Connect`.

The attempts of a visitor in the window are numbered, and each has a time left. A
request that is counted and then refused, because its client cannot be made, uses
an attempt as well; one over the limit only drops the attempts that are too old.

### Auth

`auth.go` in OIDC mode. `Login` gives the browser a state cookie; `Callback` checks
it against the state in the query, `Exchange`, `VerifyIDToken`, `FetchJWKS` and
`Cached` are the calls to the identity provider, each of which may fail, and `Put`
stores the session that `Reply` gives the browser a cookie for. A document of keys
is read at the provider in one step and cached in another, up to `MaxDelay` later
(the timeout of the HTTP client), so that documents overtake each other. Answers
reach the browser in a step of their own, or never, and act on the cookies it has
by then. The identity provider is external: it takes a code once, publishes a key
before it signs with it and withdraws one only when it signs with another. A
browser may keep an expired cookie; the server does not rely on its age. State,
nonce, verifier and code of a login are one number, which leaves out answers that
mix those of two logins.

## 3. Runs

| run | bounds | shows |
|---|---|---|
| `store_sequential` | 1 caller, 2 identities, 3 operations, all outcomes | types, nobody stuck, no orphan events, vaults hold the right key, saved history is neither dropped nor overwritten |
| `store_concurrent` | 2 callers, 3 operations, no vault, no repository | the key of a healthy record dies only in a retirement that the provider broke off; the Store implements `Governance`; every call returns (liveness) |
| `store_replicas` | 2 instances, 3 operations, writes and notices lost | unique ids, explained runs, rotations undisturbed |
| `sweep` | 2 instances, 1 identity, 2 faults | no two sweep at once unaware of a loss, leases are not stolen, renewal and shutdown happen (liveness) |
| `keys` | AWS, GCP, Azure; governed at the start or created; 3 rotations, 3 faults | the key in use is kept until it is replaced, nothing is left behind, plans are kept to, retries succeed (liveness) |
| `vaults` | AWS, GCP, Azure and the cluster vault; 2 concurrent calls, 3 keys, 1 lost answer or changed grant | a secret older than a confirmed one is returned only where their deliveries overlapped; a confirmed revocation that nothing disturbed holds, except at AWS; an undisturbed delivery lands |
| `web` | 2 handlers, 3 clients, 2 buckets, a quota of 1, 4 requests, 2 time units | the map keeps its capacity, the quota holds up to overlapping requests, every request ends (liveness) |
| `integration` | 2 handlers, 2 connections, room for 1 session, 1 credential | no client forgotten, none left open, no credential left behind, `Close` returns (liveness) |
| `auth` | 1 browser with 2 requests at a time, 2 logins, 2 signing keys | withdrawn keys expire, published ones are known, cookies name sessions, requests end (liveness) |
| `store_resurrection`, `store_unlocked_persist`, `web_rate` | as small as the scenario | disagreements between the code and its documentation, see section 6 |

The bounds. Every interaction in question is between two callers, two instances
or an operation and a reload, on one identity or on two that share a provider;
three operations allow one operation to overtake another and a third to
observe it. `store_sequential` uses no notifications, because a reload between a
rotation and its persist loses the rotation (section 6, item 6); its process
restarts, and between two restarts writes are lost. `store_replicas`
leaves `Provision` out, because the snapshots it tears while others write are a
finding of their own. Two instances and two faults are enough for a lease to be
lost, taken over and lost again; a time unit is a third of the lease or less
(with two identities the run passes with one fault, and is too large with two).
Three faults and three rotations fill the two-key ceiling of AWS more than once,
and that of GCP, which is ten in the code, at three in the run: the search for
the key to remove does not depend on the number. In `vaults` a third key makes
a delivery overtake one that itself overtook another, and one fault is a lost
answer with its request arriving after any of the later ones.
In `web` two buckets for three clients fill the map and pruning happens, and a
quota of one with two handlers makes every request meet another at the limit. In
`integration` two connections compete for one place, every session expires, and
one credential is created, stored, read and invalidated by handlers that overlap.
In `auth` two logins of one browser overlap in every way, and two documents with
different keys overtake each other on their way to the cache.
The Store runs end when `MaxOps` is used up, the key and vault runs when the
rotations and keys are, the web run when the requests are and the integration run when the process
exits, so deadlock is not checked there; the sweeper and the clock of `auth` never
stop, and it is.

Symmetry is used in `vaults`, whose callers are alike and which checks no
liveness; the other runs with several equal instances do.

Fairness. `store_concurrent`: a call in progress goes on (strong fairness per
thread: goroutines are scheduled, provider and vault calls are bounded by their
contexts, and Go's mutex serves waiters in starvation mode); nobody has to call.
`sweep`: time passes, tickers fire, goroutines run, provider calls return
and the platform restarts what was shut down; faults and shutdowns are finitely
many; other callers owe nothing. `keys`: an operation goes on, an identity
in attention is rotated again, by its owner or by the next sweep, and an account
is known to all replicas of its provider in the end, which the repetitions in the
adapters suppose; nobody has to create or retire. `web`: handlers
are scheduled and their calls return; nobody has to send a request and time need
not pass. `integration`: handlers and the expiry loop run, calls return or time
out, time passes, and a `Close` that was begun goes on; nobody has to shut down.
`auth`: handlers run and calls to the identity provider return; nobody has to log
in, and time need not pass.

Each property has a mutant in `PROJECT.json`: a definition of the model changed
as a plausible bug would change the code (they are marked *Fault* in the
modules), under which TLC finds the property violated.

## 4. Proofs

Every theorem holds for every value of the constants that satisfies the module's
`ASSUME` (`StoreAssumption`, `SweeperAssumption` and so on), which TLC evaluates
in every run; further hypotheses are stated with the theorem. The bounds of
the runs (`MaxKeys`, `MaxFaults`, ...) stay constants: a theorem holds whatever they are.

### Store

`StoreProofs` proves for every choice of the constants (any number of
identities, instances, threads and operations):

- `TypeCorrect`: type correctness;
- `IdsStayUnique`: event and run ids stay unique in every memory and in the
  snapshot, whatever is lost, reloaded, purged or restarted;
- `RunsStayExplained`: each rotation run has its one `rotation.started` and the
  terminal event of its outcome, and no event names a run that is not there;
- `NoneEverStuck`: a rotation in progress is visible only while its thread holds
  the mutex, and is never persisted;
- `RotationUndisturbed`: nobody changes the memory of an instance that is inside
  the provider's `Rotate`.

The second to the fourth assume `LockedPersists \/ Sequential`. `Provision` persists
without the mutex, and the run `store_unlocked_persist` shows that `NoneStuck` is
false when another call writes meanwhile. `LockedPersists` says that nobody
provisions or there is no repository (`store_concurrent`, `store_replicas`);
`Sequential` that a process serves one call at a time and is told of no changes
(`store_sequential`).

None of the invariants is inductive. The inductive invariant (`Invariant`) is the
conjunction of `TypeInv` (the types, and that a call in progress has an identity),
`CallInv` (what the program counter says of a call's local copies, and that a
rotating thread is the one holding its instance's mutex) and `MemInv`: every memory,
the snapshot and every copy loaded by a watcher is `Numbered` and `Explained`, and
everything is settled in the snapshot, in those copies and in the memory of an
instance whose mutex is free; in one whose mutex is held there is one open run, that
of the rotating thread (`OnlyRun`). `CallInv` is needed because a failed rotation
settles exactly the identity it started; the clause on loaded copies because
`WatchRestore` makes such a copy the memory. `SequentialInvariant` adds `CopyInv`: what
a call has copied so far is what its memory holds. There is one lemma per group of
actions for each part, lemmas on `addEvent`, `startRun`, `finishRun`, `purge` and
`restoreLocked` that say how they keep a memory numbered, settled and explained
(`Safe`), and `CallEffects`, which reduces the steps of a call to the few ways in which
memory and snapshot change.

`LifecycleProofs` proves what depends on the configuration. For the in-memory store
without vaults (`InMemory`, the configuration of `store_concurrent`) and any number of
concurrent callers and identities:

- `ImplementsLifecycle`: it implements `Governance`, so a record moves only along
  `AllowedTransitions` and is dropped only when retired; `RetiredStaysRetired` follows;
- `EventsAreOwned`: no audit event outlives its record;
- `SuccessIsRecorded`: from the end of its critical section until its caller is told, a
  successful rotation is on record, or the whole record was purged (`RotationRecorded`).
  Calls that overlap do not drop it; a reload would (section 6, item 6);
- `HealthyKeysWork`: a healthy record gets a dead key only from a retirement that the
  provider broke off (`KeysDieByRetirement`). This one also assumes `OneStore`: there
  is one process, because another would not hear of a rotation. A provider may remove
  any keys before it fails, in a rotation and in a retirement.

`InMemory` also excludes `Register`: a record whose `Delete` is under way may be
deleted by a second call and registered anew, and is then purged while active
(section 6, item 7). The invariant is `LifeInv`: nothing is reloaded; a rotating call
finds its record in `renewing`; a `Delete` past its check works on a record that is
retired or gone and cannot come back, because its name was used (`Doomed`); an identity
that is being provisioned is governed nowhere, and no other call provisions or deletes
it (`Unborn`). `Steps` first reduces `Next` to the ways in which a record changes
(`Begins`, `Ends`, `Retires`, `Adopts`, `Purges`, ...); each of these is a step of
`Governance` (`Refines`), and the other properties are proved over them
(`ListedStep`, `RecordedStep`, `KeysLiveStep`). The last needs `KeysHanded`: the key
that a provision is about to put on record works.

For a process that serves one call at a time, with every operation, vault and
repository answer and restarts (the configuration of `store_sequential`):

- `VaultsHoldTheirKeys` (`OneCaller`, and with reloads): a vault holds under the name
  of an identity, and of a key, the secret issued for it. `InHand` follows the secret
  from the adapter's buffer through the call's hands to the vault. With two callers it
  is false, because they share the buffer (section 6, item 2);
- `EventsAreOwnedInTurn` (`Sequential`): with `AuditInv`, by which a call that will
  audit something for its identity finds it governed (`Owned`), and the snapshot a
  restart reads lists governed identities only;
- `SavedHistorySurvives` (`Sequential`, `OneStore`): a run or an event that is in memory
  and in the snapshot leaves neither before `Delete` purges its identity, whatever
  writes are lost and wherever the process dies. A call only adds to the history
  (`Remembers`) but for the one run that a rotation finishes, which is running and
  therefore not saved (`UnsavedRun`); what `Provision` copies without the mutex is what
  the memory holds (`CopyInv`); and a restart counts on from the snapshot, so that no
  saved run has the number of a new one. A second process would overwrite the snapshot
  with a memory that has not seen the run;

- `ImplementsLifecycleInTurn` (`Sequential`, `Kept`): it implements `Governance`, now
  with every operation, `Register` included, and every answer of a vault. A call knows
  the state of its record, because nobody else changes it (`Turning`), so what a
  delivery writes back or a `Delete` purges is what it read. `Kept` says that there is
  no repository, or that there is one process, every write of it lands, and nobody
  provisions. In the second case the snapshot is behind the memory by at most the
  rotation in progress (`Behind`), and a restart takes that one back from `renewing` to
  `active`. After a lost write a restart would take back a retirement, and `Provision`
  governs an identity before it persists it, so that a restart in between drops an
  active record: neither is a step of `Governance`;
- `HealthyKeysWorkInTurn` (`Sequential`, `OneStore`, and `Unrestarted`: no repository,
  so nothing to restart from): as `HealthyKeysWork`, now with vaults and every
  operation; a delivery that writes back the record writes a key that still works,
  which is what `Handing` says. A record may be registered with a dead key. With a
  repository a restart can bring one back (section 6, item 33).

In every configuration, and with no hypothesis:

- `OnlyCopiesRevive`: a retired record comes back only by a call that writes back its
  own copy of that record (`RecordReferences`, `ProvisionAdopt`), or by a reload or a
  restart. `store_resurrection` shows that the first does happen (section 6, item 1);
  this theorem, that a repair of those two write-backs is enough within a process. The
  other steps are harmless because they check the state with the mutex held, and a
  rotation that ends finds its record as it left it, in `renewing` (`RenewedInv`, from
  `UndisturbedStep`, the step behind `RotationUndisturbed`).

For each property, the hypotheses of its theorems together cover the configuration of
every passing run that checks it.

### Web

`WebProofs` proves, for any number of clients and handlers and every rate, burst,
capacity and limit:

- `WebTypeCorrect`: type correctness, and with it that the map of buckets never
  outgrows its capacity and no bucket its burst. The lemmas follow `allow`:
  `RefilledType`, `PutType`, `PrunedType`;
- `QuotaAlwaysHeld`: active identities and requests past the check together stay
  below the limit, the handlers and the reclaims that gave up. It is inductive
  with `TypeOK`: a request passes the check when there are fewer than `Limit`
  identities, whatever number of handlers has passed already; every other step
  keeps or lowers the sum, or raises `gaveUp` with it.

### Integration

`IntegrationProofs` proves, for any number of handlers, visitors, sessions and
credentials:

- `ClientNeverForgotten`: a client that is open, and so holds the secret of a
  tenant, is in the map, is being connected, or is about to be closed by the
  handler, the loop or the `Close` that took it out;
- `NoneEverLeftBehind`: a usable credential that nobody was told of is left only by
  the failures `NoneLeftBehind` lists;
- `IntegrationTypeCorrect`: type correctness, and with it that the map never holds
  more sessions than `MaxSessions` and that no visitor has more attempts in the window
  than `MaxConnections`.

The inductive invariant adds to the two the shapes the steps rely on (`Shape`) and
that `drained` is empty until `Close` drains the map; without this clause the drain
could overwrite sessions it has yet to close. A step of a handler can only disturb
what this handler answers for: `NoneForgotten` and `KnownKept` reduce every handler
step to the session or the credential in its hands, `BackgroundInv` every step of
the loop, the manager and time to the entries they rewrite.

The types need an invariant of their own, `TypeInv`: a handler past `Connect` has a
session and one that works on a credential has the credential (`Calls`), without which
updates of `session` and `creds` could not be typed. The cap is kept although a client
is verified between the count of attempts and the store, because `Connect` looks for
room in the critical section that stores; the limit of attempts because below it, by a
count of numbers (`CountedAttempts`), there is one that no attempt in the window has.

### Sweeper

`SweeperProofs` proves, for any number of instances and identities and any
timing:

- `SweeperTypeCorrect`: type correctness; with it, that the Redis key lives exactly
  as long as it has a holder, and no timer runs past the point where it stops
  mattering;
- `LeaseNeverStolen`: a live lease changes hands only because its holder gives it
  up;
- `NeverTwoSweepers`: two instances sweep at once only if one was told that it lost
  the lease. The hypothesis `RenewEvery + MaxDelay < Ttl` says that a renewal comes
  before the lease runs out; the code renews at a third of the lease, so it allows a
  renewal to be late by less than two thirds.

`OneSweeper` is not inductive. `LeadersInv` adds that a leader which has not been
told of a loss holds the lease, and that the life left to the lease and the age of
the leader's last renewal together make at least the TTL; the hypothesis then
keeps the life positive until the next renewal.

### Adapters

`KeysProofs` proves, for every ceiling of keys, any number of rotations, failed and
repeated calls and crashes, and every adapter:

- `KeysTypeCorrect`: type correctness, and no provider ever holds more keys than
  its ceiling;
- `KeyInUseKept`: the key that was handed over last stops working only when its
  replacement exists or the identity is retired, with the two exceptions of section 6;
- `RetirementLeavesNoKey`, `RecordedKeysWork`: a retirement that succeeds leaves no
  key, and what is put on record works;
- `RotationLeavesOneKey`: a rotation at AWS that completes leaves the key on record
  and no other. The hypothesis `Ceiling["aws"] = 2` is the limit of AWS, which
  `Rotate` relies on: it removes one key at most, so with three a leftover survives;
- `CallsAsPlanned`: the changes made are those that the plan of a dry run announces.

The inductive invariant says of each step what the adapter knows there: `Placed`
(which operation is where), `Recorded` (a durable governor has on record the key it
handed over), `Holding` (the key just created works and is newer than the one to
drop), `Emptying` (the keys a retirement has listed are all there are) and `MakingRoom`
(the key that AWS removes first is not the one on record). `RotationLeavesOneKey`
adds `TwoKeys`, `CallsAsPlanned` adds what was called by each step
(`RotateCalls`, `RetireCalls`). That there is an oldest or a newest key, which the
adapters look for, is proved from the well-foundedness of the natural numbers
(`LeastNatural`).

### Vaults

`VaultsProofs` proves, for any number of concurrent calls, keys, lost answers and
changes of permission:

- `VaultsTypeCorrect`: type correctness, and a name that AWS has per key never
  holds another key;
- `StaleOnlyAfterOverlap`: a use returns a secret older than one the vault had confirmed
  only where their deliveries overlapped: if the confirmed delivery found the older one
  over and done with when it began, the older secret is not returned, whatever else is
  on its way. It says nothing of deliveries that overlap, of which either may land last
  (section 6, item 9);
- `LoneDeliveriesLand`: a delivery that nothing disturbed can be read back, with
  every provider, also the first, which creates the secret;
- `RevocationIsFinal`: after a confirmed revocation that nothing disturbed no name
  can be read again where an identity has one name; at AWS the revocation misses
  (section 6).

The inductive invariant has four parts. `Shape`: the types, what is filed under
which name, what a request on its way can ask for and what a call works on at each
step. `Fresh`: a key counts as old only once it is *settled* (no call delivers it, no
late request carries it), so nothing can file it again; the newest version of a vault
with one name is never an old key, and the keys `before` a delivery are settled
already. `SettledStays` is the heart of it: a settled key stays so because every new
delivery is of a key just issued and every late request is that of a delivery.
`Calm`: a call that nothing disturbed is the only one that changes the vaults, no
late request can file anything, and it knows what it will find (`Landing`,
`Located`). `Gone`: a vault with a confirmed revocation belongs to an identity that is
withdrawn, with no delivery left. The steps of `Next` are first reduced
to what they amount to (`NextSteps`: a rotation, a withdrawal, a quiet step or a `Turn`
of a call, an arrival, a permission), with `Effect` for what a request
does to a secret; the parts are then proved over these.

### Auth

`AuthProofs` proves, for any number of browsers, handlers, logins and signing
keys and any lives and delays:

- `AuthTypeCorrect`: type correctness;
- `CookiesNameSessions`: a browser has a cookie only of a session that was stored,
  and that is there until its logout or its time;
- `NobodyLockedOut`: a token is refused for an unknown key only when the provider
  has withdrawn the key;
- `WithdrawnKeysExpire`: a token that is accepted is signed by a key that is
  published, or was within the life of the cache and the delay of a document.

The last needs ages: a document forgets a key before the key has been withdrawn for
longer than the document has been on its way (`Aged`), and the cache before the time
since the withdrawal and the life left to the cache exceed the sum of both
bounds (`CacheAged`). The other parts say what a handler works on (`Working`), that a key
its document lacks is withdrawn (`Refusing`), and that the signing key is published
(`Publishing`).

### Only model-checked

Liveness and everything under fairness (`CallsReturn`, `EventuallyRenewed`,
`ShutdownCompletes`, `RetrySucceeds`, `RequestsEnd` of `Web` and `Auth`,
`ClientsClosed`, `CloseReturns`) is out of reach of the installed provers.
Every invariant, action property and refinement that a passing run checks is stated by
a theorem.

## 5. Not modelled

Roles, CSRF checks and bearer tokens, which decide on a request and change nothing;
the audit sink and the event publisher, which only receive; `CreateApplication` of
an integration session; the rest of the HTTP layer, logging, metrics, templates,
configuration and the evaluation harness (no state that matters here); scope and
validation functions (pure functions on strings, a refused request changes
nothing); the encoding, signing, paging and tokens of provider and vault calls;
reads of a vault pinned to a version; two instances rotating one identity at the
same time; the fixtures of the simulators; discovery after boot, which the code
does not do.

## 6. Where code and documentation disagree

Items 1, 3 and 4 have a run and a finding; the rest were met on the way. Those of
`Store`, `ProviderKeys` and `Vaults` can be reproduced by changing constants, or by
dropping the exception that the property named makes.

1. `store_resurrection`: `Rotate` writes its copy of the record back after the
   vault delivery; a `Retire` in between is undone (`RetiredIsFinal`).
2. Two rotations at one provider swap their one-time secrets, because the buffer is
   read after the mutex is released (lifecycle.go:608; `store_sequential` with
   `Threads = {t1, t2}` violates `VaultHoldsItsKey`).
3. `store_unlocked_persist`: `Provision` saves a rotation in progress; after a
   restart the identity stays in `renewing` (`NoneStuck`).
4. `web_rate`: `allow` never moves `b.last` on, so every call adds the tokens of
   the bucket's whole life, and a client is not limited any more once its bucket
   is older than a full refill takes (`RateBounded`).
5. At AWS a retirement blanks the key id from which the secret's name is derived;
   the revocation deletes the name `current`, which nothing was filed under,
   reports success and removes nothing (`RevokedIsUnreadable` leaves AWS out). `lifecycle.go:694` says that retirement must not leave a
   usable copy of the credential in the vault.
6. A reload between the end of a rotation's critical section and its persist
   drops its run, while its caller is told that it succeeded (lifecycle.go:600;
   `SuccessIsRecorded` supposes that there is no repository).
7. `Delete` checks the state before the revocation and existence after it; an id
   deleted and registered again meanwhile is deleted while active
   (`FollowsLifecycle` with `register` in `Ops`).
8. `Use` audits a retrieval after its identity was deleted (`NoOrphanEvents` with
   two threads and a vault).
9. `Use` may return an older secret under the new key id, where lifecycle.go:808 says
   that it retrieves the current credential version: after a failed delivery, and after
   deliveries that overlapped, because the Store delivers without its mutex. The older
   of two rotations may write to the vault when the younger has already been
   confirmed. `StaleOnlyByOverlap` is about deliveries that do not overlap.
10. A sweep goes on after its lease is lost; the signal is read when it is over.
    `OneSweeper` allows for exactly this.
11. A renewal due at the moment of a shutdown fails with the cancelled context,
    is taken for a loss, and the lease is left to expire instead of being
    released.
12. At Azure, a removal that took effect while its answer was lost makes every
    later rotation fail on the missing password. `RetrySucceeds` excludes Azure
    for this reason.
13. At its ceiling of ten keys the GCP adapter starts its search for the oldest
    key from the first one listed, which may be the one in use
    (`oldestNonCurrentGCP`), and removes it before the new key exists.
    `InUseUntilReplaced` makes an exception for it.
14. When the limiter's map is full, a new client is refused without pruning; only
    a denied request of a known client prunes. The comment on `allow` says it
    prunes at capacity.
15. The demo quota is not a bound on the active identities: requests that overlap
    pass it together, and with three of them a reclaim that finds its identity
    already retired gives up and creates one more. `QuotaHeld` says by how much.
    docs/live-demo.md:306 promises at most the limit.
16. The form `/identities/provision` creates identities at the rate of writes, not
    of creations: `isProvisionRequest` knows the API path only.
17. A session closed between `addPassword` and the vault write leaves a usable
    credential that nobody knows: the vault client is gone, and that path has no
    rollback (fate `"abandoned"`; the comment on `CreateSecret` says none is left).
18. A session closed between `removePassword` and the disabling of the vault
    version makes `InvalidateSecret` succeed with the version enabled.
19. `ReadSecret` restores a vault reference that `InvalidateSecret` deleted
    meanwhile.
20. auth.go:107 says that expired sessions are removed during reads and writes and
    memory is bounded by live sessions. `Put` removes none and `Get` only the one it
    is asked for, whose browser has dropped the cookie by then: the map grows with
    every login.
21. Every callback clears the state cookie (auth.go:675), also one that is refused
    because another tab has begun a newer login; the newer one then fails too.
22. The answer of a logout clears the session cookie of a login that was completed
    meanwhile; that session stays in the store until the process ends.
23. After a rotation that failed past the creation of its key, a restart without a
    snapshot adopts the newest key, whose secret was lost. The next rotation at AWS
    takes the key in use for the one to remove, before it creates another
    (`InUseUntilReplaced` with `~durable`).
24. gcp.go:781 says that DELETEs are safe to repeat. A DELETE that took effect before
    its connection broke gets a 404 when it is repeated, and the rotation or
    retirement fails; the next attempt, which lists the keys anew, succeeds.
25. A retirement at Azure whose answer was lost can never complete: the application
    is gone, and each repetition gets a 404 and fails.
26. The rollback of `Create` at Azure gives up after four attempts on an application
    that is not visible yet, and leaves it behind; at AWS and GCP a `Create` that
    fails leaves its account, and maybe a key, which the governor does not know as
    long as it has a snapshot.
27. At GCP and AWS two first deliveries under one name both find no secret and both
    create it; the second creation is refused and that delivery fails, although the
    vault is sound. `LoneDeliveryLands` is about deliveries nothing disturbs.
28. The revocation at Azure reads the current version, which a disabled secret refuses,
    so the second revocation that `Delete` makes always fails; and a delivery between
    its two requests leaves the newer version enabled.
29. The revocations at GCP and Azure disable the latest version only; older ones can
    still be read by their number.
30. awssecrets.go:52 says that the name of a secret keeps rotations under one
    auditable secret. The name contains the key id, so at AWS every rotation makes a
    new secret; one that pinned a version of the old name is stranded.
31. The simulators start with the same fixtures at every restart, so that key ids
    repeat.
32. A retirement deletes the keys one by one (aws.go:463-470, gcp.go:525) and may fail
    after the first; `Retire` then returns the error and leaves the record as it was
    (lifecycle.go:674-677), active and healthy with a key that is gone. A rotation that
    fails in the same way flags its record. `KeysDieByRetirement` makes an exception
    for it.
33. A process that dies between the provider's rotation and the persist leaves the old
    record in the snapshot: after the restart it is shown as active and healthy with
    the key that was removed.

## 7. Plan

1. *Done:* `Protocol`, `Governance`, `Store` with its runs and first theorems;
   `Sweeper`; `ProviderKeys` with creation, discovery and plans; `Vaults`; `Web` and
   `Integration` with their theorems; `Auth`.
2. *Done:* the safety properties of `Store`, `Sweeper`, `ProviderKeys`, `Vaults` and
   `Auth` as theorems, the types of `Integration`, and that `Store` without vaults
   implements `Governance`.
3. *Done:* which of the theorems about `Store` still hold with a vault. One call at a
   time: all of them, under the hypotheses of section 4. Concurrent calls: a record
   retired during a delivery comes back to life, and only the write-backs can do that.
4. More of the system: two instances rotating one identity at AWS, as a composition of
   `ProviderKeys` with itself; `CreateApplication` of a session; reads pinned to a
   version; the audit sink with a file that fails in the middle of a line.
