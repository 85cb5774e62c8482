# MispFleet: specifications, model checking and proofs

MispFleet (`src/mispfleet`, Python, asyncio) drives several MISP servers as one
fleet: it fans operations out over the servers, copies events between them
through reviewed plans, and keeps a local database of plans and operations.
This directory specifies the parts of it whose correctness depends on
interleaving, cancellation, failure and order, checks them with TLC on small
instances, and proves the most important properties with TLAPS for instances of
any size.

In short, paths below are relative to `src/mispfleet/`.

## 1. The system

| Component | State it keeps | Operations | Modelled |
|---|---|---|---|
| fleet client lifecycle (`fleet/fleet.py`) | `_clients`, `_discarded`, `_closed`, `_building`, under `_clients_lock` | `client()`, the prebuild worker of `_fan_out`, `aclose()` | yes |
| fleet executor (`fleet/executor.py`) | results, errors, semaphore, task group | `run()` | yes |
| copy planning and applying (`services/copy.py`, `fleet/fleet.py`) | plans, writes under way, audit records | `plan_copy()`, `apply()` | yes |
| event merge and renumbering (`services/copy.py`) | none | `merge_events()`, `renumber_event()` | yes |
| policy engine (`policies/`) | none | `ConfigPolicy.evaluate()` and its rules | yes |
| event diff (`services/diff.py`) | none | `diff_events()` | yes |
| synchronization jobs (`services/sync.py`, `fleet/fleet.py`) | plans of the copies of one job | `plan_sync()`, `apply_sync()` | yes |
| HTTP transport (`client/transport.py`) | `_semaphore`, `_rate_lock`, `_last_request_at`, attempts | `request()` | yes |
| per-server client (`client/client.py`) | cached capabilities | `require_capability()`, `Fleet.server_capabilities()` | yes |
| endpoint namespaces (`client/namespaces/`) | none | one method per endpoint | yes |
| pagination and raw streaming (`client/pagination.py`, `fleet/fleet.py`) | page, seen pages, counters | `paginate()`, `_iter_raw()`, `search()`, `iter_search()` | yes |
| state backends (`state/`) | a SQLite or MariaDB connection, a lock, worker threads | `save_*`, `load_*`, `list_*`, `prune()`, `close()` | yes |
| events, attributes, queries, results (`models/`) | none | parsing, canonical fingerprint | the fingerprint |
| fleet facade: search, diff, health, audit, sightings | none of its own | fan-out of every operation | all but pure summaries |
| selector and registry, settings, credentials, plugins, attachments, observability, output and integrations, command line | see section 5 | lookups, parsing, rendering | no |

How they interact: an operation of the facade resolves a selection of servers
(selector), builds the missing clients on a worker thread (client lifecycle),
runs one task per server (executor), each of which sends requests (transport).
A copy reads both servers into a plan (policy engine, diff), hands the plan to a
person or a file, and later checks it again and writes once (merge, renumbering).
A job does that for every event that two listings say has to move. A search pages
through every server and books what it delivered. Closing the fleet races all of that.

### What is hard here, and what makes each part correct

- *Client lifecycle.* Worker threads and the loop build for the same server at
  the same time; an `await` that is cancelled does not stop its worker;
  `aclose()` can be called twice and be cancelled. Correct when no transport is
  left open that nothing will close, nobody is handed a client that is closed or
  about to be, a fan-out never resolves a credential on the loop, and closing
  ends.
- *Executor.* Tasks finish, fail and are cancelled between the group noticing
  any of it; the caller may cancel the whole. Correct when the envelope accounts
  for every server, honours the chosen failure policy, isolates failures, never
  has more operations under way than allowed, and ends.
- *Copy.* Minutes or days pass between review and apply; both servers have
  analysts; a request may be handled after its sender gave up; the plan may be
  applied twice; the database may refuse a record. Correct when the destination
  only ever becomes what a reviewed plan says, an edit made after the review is
  not overwritten, and the audit trail is true.
- *Transport.* Coroutines share permits and a rate limiter that one of them
  sleeps under; retries, `Retry-After` and cancellation meet. Correct when a
  mutation reaches the server at most once, rate and waits are kept, and every
  request ends.
- *State backends.* A statement runs on a worker thread while its coroutine is
  cancelled, and every task shares one connection with one implicit transaction;
  a MariaDB server is shared by hosts, and a connection to it can be lost with a
  commit under way. Correct when a call takes effect entirely or not at all,
  nothing of one call is committed by another, and one thread at a time uses a
  connection.
- *Synchronization.* A job lists both sides and then reads event after event while
  both are edited; copies fail between others; the policy transforms what is
  compared. Correct when what is written, the direction, strategy and policy of the
  job allow, the result names every copy once, and applying a plan brings the next
  one to rest.
- *Search.* Records come and go between two pages, a server may repeat, alternate or
  ignore pages, a filter drops what a limit counts, the caller may stop at any
  record. Correct when streaming ends, a stable server's answer is complete, and
  metrics and query record tell what was delivered.
- *Per-server client and namespaces.* Some hundred and sixty methods each decide whether their
  request may be sent again and what shape of answer they accept; the server is
  upgraded while its capabilities are cached. Correct when no method's change is
  sent twice, no unexpected shape escapes as a raw error, and neither gate nor cache
  says what the server never was.
- *Content of a copy.* Twenty rules run in an order that matters, over spellings that
  are folded in one place and kept in another; merge and renumbering deal in UUIDs
  that must stay unique across the server. Correct when nothing a policy bans leaves,
  every change of a marking is told, a merge loses nothing and is idempotent, no
  UUID is used twice, and the diff agrees with the fingerprint that decides about
  copies.

The hazards, each at its line, are listed in `PROJECT.json` with the properties
that would catch them.

## 2. The modules

| Module | Models | Theorems |
|---|---|---|
| `FleetClients` | client lifecycle | `FleetProofs` |
| `FleetExecutor` | executor | `FleetProofs` |
| `EventCopy` | planning, applying, audit record, the two servers | `EventCopyProofs` |
| `ReviewedCopy` | abstract: what a copy promises its destination | the refinement, in `EventCopyProofs` |
| `Transport` | requests of one server's transport | `TransportProofs` |
| `SqliteState` | SQLite state backend and its worker thread | `SqliteStateProofs` |
| `MariaDBState` | MariaDB state backend, its threads, the server | `MariaDBStateProofs` |
| `StateStore` | abstract: what a state backend promises | the refinements, in `SqliteStateProofs` and `MariaDBStateProofs` |
| `Sync` | jobs: planning and applying, over two servers | `SyncProofs` |
| `FederatedSearch` | pagination, `search()`, `iter_search()`, metrics, query record | `FleetProofs` |
| `Endpoints` | a row per namespace method, the readers of answers | |
| `ServerClient` | one client in use: `Endpoints`, the gate, the capability cache; extends `Endpoints` | `ServerClientProofs` |
| `EventContent` | events, their members, the canonical fingerprint | |
| `PolicyRules` | `ConfigPolicy.evaluate()` | |
| `MergeEvents` | `merge_events()`, `renumber_event()` | |
| `EventDiff` | `diff_events()` | |
| `CopyPipeline` | content that is copied again and again; composes the four above | `CopyPipelineProofs` |

Each `MC...` module gives the constants small values for TLC.

### FleetClients

The variables of the first group are the fleet's own fields; a client is the
number of its construction, and `open` holds those whose transport is open.
A section under `_clients_lock` is one step, so `client()` is: `Invoke` (registry
lookup), then `Refuse`, `HitCache` or `Announce` (first section), `Construct` or
`FailBuild` (the construction, outside the lock), `Publish` (second section) and
a return. On the loop's thread no coroutine runs in between (`LoopFree`); a
fan-out's worker runs it in parallel with everything. `StartFanOut`,
`StartWorker`, `BuildNext`, `Resume`, `RunTask` and `EndFanOut` are `_fan_out`;
`CancelFanOut` and `DetachWorker` cancel it at its awaits, and a worker that
runs goes on. `ShutGate`, `Drain`, `CloseOne`, `EndClose` and `CancelClose` are
`aclose()`. The model lets coroutines run between the flag being set and the
first look at `_building`, where the code has no await: more behaviours, never
fewer.

### FleetExecutor

A step is what a coroutine does between two awaits. `Start` takes a permit,
`Succeed`, `Fail` and `GiveUp` are the three ways a task ends, `Notice` is the
group's done callback (one step later: a waiter the semaphore woke may run in
between), `CancelRun` cancels `run()` from outside, `EndRun` is the end of the
`async with`, the `except*` and `_enforce_failure_policy`.

### EventCopy and ReviewedCopy

An event is the set of its members, which is also what its canonical fingerprint
tells apart. Renumbering a copy is a fresh UUID; a merge is the union of members
(its algorithm has a module of its own in the plan below). A policy is what it
removes and what makes it reject; a rejected event is proposed untransformed, in
a plan that is blocked. `PlanSource` to `DropPlan` are `plan_copy()`;
`StartApply` to `Cancel` are `apply()`, one step per await. `StartApply` takes
the plan's blocking errors from the plan and leaves expiry and a destination that
became read-only to a choice.

The servers are outside the repository's package. `Serve` is what its tests take
them to do (`tests/fake_misp.py`: an add of an event that exists is a 409, an
edit of one that does not is a 404, an edit replaces the content). A request is
served at any time, also after its sender gave up, at most once: `Transport`'s
`MutatesAtMostOnce` is what justifies that.

`ReviewedCopy` states the promise without plans-in-progress, requests or
failures: apart from its analysts' edits the destination changes only by a
creation where nothing was, or by an update or merge that a reviewed plan spells
out. `EventCopy` implements it: `store` is `store`, and the abstract `plans` are
the plans that are ready and not blocked.

### Transport

Time is in ticks. `timer` is what is left of a sleep, which may last longer.
`Admit` is the semaphore; `Pass`, `Throttle` and `EndThrottle` are `_throttle`;
`Succeed`, `FailRetryably` and `FailFinally` are what `_send_once` does with an
answer or a failure, sorted by whether `request()` tries again; `Retry` ends the
backoff. `Delays` is `_backoff_delay` with every jitter. `Handle` is the server,
which may handle an attempt whatever its sender was told. `owed` remembers what
the server asked for, and is used by a property alone.

### StateStore, SqliteState and MariaDBState

`StateStore` is the `StateBackend` protocol with the effects of the in-memory
backend, which the repository keeps as the reference the durable ones must agree
with: a call lands at one moment between being asked and being answered, or not
at all. A record is its table, key and instant; payloads are left out, and every
`load_*` and `list_*` is one `read` that is given all rows.

`SqliteState` has the commands that `_write` and `_read` send to the one
connection as a queue, because that is what `aiosqlite` keeps: a coroutine that is
cancelled stops waiting for its command, and the command is executed all the
same. `Begin`, `Proceed`, `Answer`, `Fail` and `Undone` are the steps of `_write`
and `_read` between two awaits; `Cancel` is a `CancelledError` at any of them,
again while `_write` waits for its rollback too; `Execute` to `CloseConnection` are
the worker thread and SQLite. `work` is what the connection sees, `rows` what is
on the disk; a crash keeps `rows`. `fetchall()` is a part of its `execute()`: the
lock is held over both. A `commit` that fails commits nothing, which is SQLite's
own promise. `Initialize` is one step: nobody has the backend before it ends.

`MariaDBState` has a thread per call and one connection per host. `StartThread`,
`Return` and `Cancel` are `_run()` between two awaits: a cancelled call waits for
its thread (`draining`), a second cancellation ends that wait and gives the lock
up. From then on the next call, or `Close`, may use the connection while the thread
does: `shared`, a history variable, notes the hosts where two have met. PyMySQL
promises nothing about two threads on one socket, and `Garble` is the reading of it
that the model has: either may take the other's answer for its own. Nothing is
claimed of such a host any more, and it is followed until that connection is gone. `NextCommand` and `CommandFailed` are what the thread does with an answer,
which for a prune is `begin()`, four `DELETE`s and `commit()` or `rollback()`; any
other call is one statement under autocommit. `Serve` and `Decline` are the
server. `Lose`, `Close` and `Crash` end a connection: the server rolls its
transaction back, except that a statement or a commit that was already sent may
still be executed, by `ServeLate`, when nobody waits for it. InnoDB's locks are
coarse (`Unlocked`: no other statement changes anything while a prune has its
transaction, whose scans without an index lock every row); they cannot
deadlock, and a wait that is too long is a `Decline`. `Collated` is the collation
of the key columns; `utf8mb4_unicode_ci`, which the schema asks for, takes names that
differ in case or accents for one. `Connect` stands for all of `initialize()`. `Close` comes when
the host's calls are over, which is what `open_backend` in `cli/context.py` sees
to.

Both implement `StateStore`: `SqliteState` with `Certain`, since its database is on
the same machine, so that what was refused is not and will not be written;
`MariaDBState` without it, since its refusal may be a lost answer, with the names that
the collation equates as one key (`Folded`), and for as long as nothing is `shared`.

### Sync

`ListLeft` and `ListRight` are the two indexes and `Start` the run of the job; every
`PlanSingle` and `PlanConflict` reads the source and `PlanDestination` (or
`PlanUnreachable`) compares with the destination, one event after the other in the
order of `sorted()`; `ReadLeft` and `ReadRight` are the two reads that a strategy
compares, from which `Resolution` takes the side that wins. `Apply` begins the
application, `CheckCopy`, `LookAtDestination` and `Serve` are one copy, `FailCopy`
its failure, after which the job goes on; `Record` is the operation record, and
`Cancel`, `FailRead` and `FailRecord` raise. `Edit` is an analyst on either side, at
any moment. That a write is not sent twice, and what a cancelled sender's write
does, is `Transport`'s and `EventCopy`'s matter and not repeated. `quiet` and
`settled` are history for `ComesToRest` alone.

### FederatedSearch

`Read` is the reading of one server: `Fetch` is a page (`StopAt` or `TakePage`),
`Give` a record that is filtered and delivered, `TurnPage` the end of a page. In
`search()` the servers are read side by side, in `iter_search()` one after the
other. `FailFetch` is a request that fails, `Abandon` a caller that stops at a
record, `EndSearch` the return with the query record. `Change` inserts or removes a
record of a dutiful server between two pages. A wayward server answers with any
page. A page is its own fingerprint.

### Endpoints and ServerClient

A row of `Endpoints` is a method of a namespace, with its reader and whether it
leaves `idempotent` at its default; which of them change the server is stated
separately, from the API's side, so that a row that is wrong about it shows.
`ServerClient` lets two coroutines call them: `Send`, `Answer` and `Lose` are a
request with its retries, and an answer may have any of the shapes the readers tell
apart. `Gate`, `ServeProbe`, `Probe` and `FailProbe` are `require_capability()`;
`Load`, `Ask`, `Save` and `FailAsking` are `server_capabilities()` with its cache in
the state backend. `Upgrade` is a new version of the server, and a request reads the
version at one moment and is answered at a later one.

### EventContent, PolicyRules, MergeEvents, EventDiff and CopyPipeline

The first four are pure: one operator per function of the source, over events that
are records of sets (sightings and proposals are bags). A tag is a name in a
spelling, because some rules fold the spelling and others do not. The rules run in
the order of `evaluate()`, and the account of what they did to tags is kept.
`CopyPipeline` makes a system of them: `Plan` puts the source's event through the
policy, `Add`, `Merge` and `CreateNewUuid` write the result, `Again` copies the next
time, and `EditSource` and `EditDestination` are the analysts; an edit makes the plan
void, as `apply()`'s checks do in `EventCopy`. `held` is what the destination has of the
event: the event under its own UUID, then the copies with fresh ones. `Stored` is the
server, which gives an unused UUID to each attribute that comes without one. Renumbered
members that are alike in every field get one fresh UUID, where the code gives each its
own: sets cannot tell them apart. `IdentitiesHold` speaks of attributes and objects: the
server does not keep the UUIDs of references unique, and a merge does not reserve them.

`_merge_attributes`, `_merge_object` and `_merge_objects` go through lists and claim
UUIDs as they go. `MergeEvents` says what comes of it without the loop: whatever is
merged is an offer, an attribute with the holder that it goes to; the three groups of
offers (loose, paired, adopted) come one after the other, and `Reserve` lets the first of
the offers with one UUID keep it, if nothing before had it. Proposals that share an object
UUID become one `Twin`. The events of a MISP server have no such duplicates, and a UUID
and one place for each attribute and object (`CasesAssumption`), so that `Twin` of
several objects and the adoption of an object without a UUID are translated but never
come up in a run, and no theorem speaks of them.

## 3. What is checked

| Run | Instance | Question |
|---|---|---|
| `clients` | 1 enabled server and a disabled one, 2 fan-outs, 1 direct call, 2 closes | who builds, keeps and is handed what; nothing is left open; closing ends |
| `executor` | 4 servers, 2 permits, all policies | envelope, policy, isolation, termination |
| `event_copy` | 1 plan, 2 applications, 2 facts, 1 edit | implements `ReviewedCopy`; no lost edit; true audit |
| `transport` | 2 reads, 1 write, 2 permits, 2 attempts | at most one mutation; rate, waits, termination |
| `sqlite_state` | 2 calls of any of the 10 kinds, 1 crash | implements `StateStore`; no transaction left open; termination |
| `mariadb_state` | 2 calls of one kind per statement, 1 or 2 hosts, 2 cancellations each, 2 names that are one to the collation | implements `StateStore`; threads meet only after a second cancellation; no inherited transaction |
| `sync` | 10 jobs, 2 events, 2 rounds, 1 edit | what is written; every copy named; comes to rest |
| `federated_search` | a dutiful and a wayward server, both ways to search, limits, 1 change | complete answers, true books, termination |
| `server_client` | every method once; 2 callers at the gate; 2 at the cache; 1 upgrade | changed at most once; gate and cache tell the truth |
| `server_client_shapes` | the same | a statement of two comments that does not hold |
| `event_pipeline` | 14 policies over small events, 1 copy of its own, 1 edit | policy, merge, renumbering and diff keep their promises |
| `copy_references` | the same | a statement of the documentation that does not hold |

Why the bounds are enough:

- *Clients.* A build race needs two threads and one server; a leak needs a close
  during a build; what a cancelled close leaves behind needs a second one. The
  proofs remove the bounds: any number of servers, fan-outs, callers and closes.
- *Executor.* With four servers and two permits, some run, some wait, some have
  ended and some were noticed, in one state.
- *Copy.* Two applications of one plan cover a plan applied twice, at once or one
  after the other, and a late write after the other's. One edit is enough to fall
  in any window (before planning, between review and apply, between apply's read
  and its write); two facts are one that the policy removes and one that it
  rejects. UUIDs and applications are interchangeable, hence the symmetry. The
  proofs remove the bounds here too, `MaxEdits` included.
- *Transport.* Three requests over two permits: one in flight, one asleep or
  throttled, one waiting. `MaxAttempts` of two is one retry; more only repeats it
  with a longer delay. The delay (2, at most 3), the interval (2) and the
  `Retry-After` values (3 and 9, cap 4) are ordered so that each bound is once the
  one that counts.

- *SQLite.* Two calls are a writer and whoever might commit for it; each of them may
  be cancelled twice, so that the second one's commands come behind the first
  one's rollback. Every pair of methods on one key: the same record twice, a record
  and its prune, a write and a read. Times are 1 for what is saved and 2 for a
  prune, which removes it. `MaxCrashes` of one is a run and its successor.
- *MariaDB.* Two calls on one host compete for lock and connection, on two for rows.
  Of the upserts, deletes and inserts, one each is kept, for `_execute` is the same; of
  the inserts it is `save_operation`, whose key may be taken, where a query's never is. `save_capabilities` is there under two names
  that `UnicodeCi` takes for one. Hosts and calls are interchangeable. The first
  cancellation makes a call wait for its thread and the second lets it go; a third one
  finds nothing to cancel, so that `MaxCancels` of two leaves nothing out. Losses, closes
  and crashes are not bounded.

- *Sync.* The first event is on either side, on both or on none, with or without the
  filter's tag and the fact that the policy removes, and is the one that is edited;
  the second is there so that copies have others before and behind them, one of
  which may be rejected. Ten jobs pair each direction with the strategies that decide
  anything in it. The second round is what `ComesToRest` is about.
- *Search.* Pages of two and datasets of two, three and four records: the last page is
  short, full, or there is a record behind a limit. One change moves a record across
  a page boundary. The wayward server has four pages, two of which are permutations.
- *Server client.* A retry needs two attempts; a gate that is overtaken needs two
  callers and a version of the server before and after. The clock runs to 3 with a
  time to live of 1, so a record is written, valid, expired and replaced. Either
  one caller calls any method, or two of them race through gate or cache.
- *Pipeline.* Each case puts together a few rules and the events that they bear on:
  texts, places of indicators (on the event or in one of two objects) with references
  and observations, markings in both spellings, audiences, and clusters. One edit
  falls on either side of a copy; two copies of one event need one identity of their
  own. `Known` are the UUIDs of the cases, `Copied` a fresh one for each of them and each
  copy, and the six of `Given` are more than a server ever has to give here: `Takes`
  never holds up a write. The proofs remove these bounds, `MaxCopies` included.

### Fairness

Only weak fairness, only of what the system itself schedules: the event loop runs
a coroutine that is ready, the operating system runs a worker thread, time
passes, and a request ends because `httpx.Timeout` ends it. A credential provider
answers or raises; a database executes or refuses what it is sent. Nobody is
obliged to call, cancel or close, no server is obliged to handle or answer anything,
and a retry, a failure or a success is a choice the environment makes.
`FederatedSearch` takes from it
that the reading of each server goes on (`Read`: its request ends, as `RequestsEnd`
says, and the consumer of `iter_search()` asks for its next record) and that the
state backend answers (`EndSearch`). Under this, `AcloseTerminates`, `RunEnds`,
`RequestsEnd`, `CallsEnd` and `SearchEnds` hold. `Sync` has no liveness property: its
steps are requests, each of which ends, over a list that is finite, and what a job
should lead to is the safety property `ComesToRest`.

### Disagreements between documentation and code

Two are runs, each of which TLC ends with a counterexample:

- `UnexpectedShapesAreTyped` (`server_client_shapes`): comments in
  `models/common.py` and `client/namespaces/_base.py` say that an answer of an
  unexpected shape surfaces as `InvalidResponseError`. `attributes.list()` calls
  `.get()` on the items of a list (`content.py:128`) before anything is parsed: a
  list of scalars ends in an `AttributeError`.
- `CopyPointsInside` (`copy_references`): `docs/copy.md` and a docstring say that the
  references of a renumbered copy still point inside it. When the policy removed what
  a reference or a sighting names, `copy.py:190` keeps the original's UUID.

The others have a configuration each, to be run on demand (`tlc -config
EventCopyConflict.cfg MCEventCopy` and so on: `EventCopyConflict`, `EventCopyOnce`,
`EventCopyAudit` with `MCEventCopy`, `MariaDBCancel` and `MariaDBKeys` with
`MCMariaDBState`, `SyncNewer` with `MCSync`, `SearchLimit` with `MCFederatedSearch`,
`PolicyBodies` with `MCCopyPipeline`), in this order:

1. `ConflictSituationHolds`: `docs/copy.md` says that the destination's conflict
   situation is validated again before applying. When the event that a plan was
   reviewed to update or merge has been deleted meanwhile, the comparison is
   skipped and the plan creates it.
2. `OneCopyPerPlan`: `apply_copy_plan` says it executes a plan exactly once. A
   create-new-uuid plan applied twice, as after a lost response, leaves two
   copies.
3. `EveryApplyIsAudited`: `docs/copy.md` says that every apply writes an audit
   record. One that is cancelled while its write is under way leaves none, though
   the write may land.
4. `OneThreadOnConnection`: a comment in `_run()` of `state/mariadb.py` and a test
   say that a cancelled call does not release the lock while its thread runs. A
   second cancellation ends the wait for the thread, and it does. What is true, and
   checked and proved, is `SharesOnlyAfterSecondCancel`.
5. `KeepsEveryName`: `docs/state.md` says that the backends work identically, and a
   docstring that a record is that of one server. The key columns of MariaDB are
   compared case- and accent-insensitively: two such names share one row, and the
   capabilities of one are found under the other. The refinement says that this is all
   the backend does differently.
6. `NewerWins`: `docs/sync.md` says that newer-wins copies the side with the newer
   timestamp. The events that the copy is planned from are read again after the
   comparison: with an edit in between, the older one is proposed. (What `apply()`
   checks is that plan, so it is written.)
7. `LimitCapsWhatIsSent`: `docs/search.md` says that `--limit` caps what each server
   sends, so that a run whose filter drops records may return fewer than the limit.
   The code counts what it hands out, as the comment in `_iter_raw()` says (and a test
   expects), and reads on until that reaches the limit. `AnswersTheQuery` states what
   the code does: a server that has enough matching records fills the limit.
8. `BodiesGoWithComments`: a comment in `_apply_redactions` (`policies/builtins.py`) says
   that the body of an attachment is just as secret when only its comment matched.
   `remove_comments` is applied before `redact_values`: a policy with both sends the
   body. `NothingForbiddenLeaves` asks for the body to go where the comment is still
   there to be matched.

Remarks on the code that no property states:

- `client.py:103` and `docs/compatibility.md` say that capabilities are probed once
  per client. Two operations that find the cache empty at once each probe; the later
  answer stays. `GateTellsTheTruth` holds all the same.
- A merge reserves the UUIDs of attributes and objects, not those of object
  references.

## 4. What is proved

All of it from each module's
`ConstantsAssumption` (`RunAssumption`, `SearchAssumption`, `CasesAssumption`)
alone: constants that denote different things differ, the sets TLC would call finite
are finite, and subsets are subsets. Nothing is assumed of sizes. Each module also
proves its `TypeOK`, which is therefore in no run.

- `FleetProofs`, of `FleetClients`: `Spec => []IndInv` (`Invariance`), and from it
  `TypeCorrect`, `ClientsOwned`, `NoLeak`, `HandedOut`, `LoopNotBlocked` and
  `CacheStable`. `NoClientLeaked` is not inductive: it needs that a shut gate and
  a `_building` of zero leave no thread between the two locked sections
  (`BuildsCounted`, a cardinality; `GateBeforeDrain`), and that every open client
  is owned by somebody (`OpenClientsAreOwned`). `FanOutNeverBlocksLoop` needs
  that each server of a fan-out is covered by the cache, a remembered failure, or
  its worker (`PrebuildCovers`), and that the task's own `client()` therefore
  finds the cache filled or the gate shut.
- `EventCopyProofs`: `Spec => []IndInv` (`Invariance`), and from it
  `AuditTruthful`, `OverwritesInWindow` and `Refinement`, the implementation of
  `ReviewedCopy`. The invariant ties four things together that are written at
  different times: a plan that passed the review is clean (`PlansAreClean`), an
  application past its start runs such a plan (`RunsReviewedPlan`), what it sent
  is what that plan says about what it had seen (`SendsWhatThePlanSays`), and what
  it records is true of what it sent (`ResultIsTrue`). With that, `Serve` maps to
  `Create` or `Rewrite` of the plan the request came from, `SavePlan` to `Review`,
  `EditDestination` to `Analyst`, and every other step to a stutter.
- `FleetProofs`, of `FleetExecutor`: `RunSpec => []RunInv`, and from it `Bounded`,
  `EnvelopeComplete`, `PolicyKept`, `Isolated`, `CancelledNeverReturns` and
  `NothingStartsLate`. `NoSilentGap` speaks of the end of a run; what makes it true
  is that a task that is over left something or was cancelled
  (`EndedIsAccounted`), and that a group that cancelled anybody has a reason that
  the verdict cannot turn into an envelope (`AbortsForAReason`, `VerdictStands`).
- `FleetProofs`, of `FederatedSearch`: `SearchSpec => []SearchInv` (`SearchInvariance`),
  and from it `SearchTypeCorrect`, `Complete` and `BooksKept`, for any data, page size,
  limits and order of failures, changes and abandonment. The assumption says what
  TLC evaluates of the data: no record is twice in what a server begins with. As
  long as a dutiful server's data stays, its pages are slices in order (`InPlace`):
  the buffer continues where the records yielded end, and every page seen began with
  a record before that. A new page therefore is never one that was seen, so that
  `paginate()` does not take it for a repetition and stop early. What was yielded and
  wanted was delivered at its rank among the wanted ones (`Delivers`), and a server
  that is still read has room below the limit (`HasRoom`), which makes the two ways
  of stopping, short page and limit, the right moments. The records counted are the
  places in the pages seen (`Counts`): cardinalities, where the code adds up numbers.
- `TransportProofs`: `Spec => []IndInv`, and from it `AtMostOnce`, `Bounded`,
  `RateKept` and `WaitsOutRetryAfter`. The rate is kept because the one who sleeps
  out the interval has the lock and wakes no sooner than the interval ends
  (`LockIsSleptUnder`); a mutation is handled once because every attempt leaves
  once (`AttemptsLeaveOnce`) and a mutation has one (`MutationsTryOnce`).
  `RetryAfterHonoured` has two halves: the server's wait is slept out (`OwedIsSlept`), and
  nobody sleeps for longer than the configuration allows, whatever a server asks for
  (`NobodyIsParked`, by `SleepsBounded`): of the exponential delay the proof uses nothing
  but the cap.
- `SqliteStateProofs`: `Spec => []IndInv`, and from it `TypeCorrect` and
  `NothingLeft`; `Spec => [](IndInv /\ StoreInv)` (`StoreInvariance`), and from it
  `Implementation`, that the backend is a `StateStore`. The idea of `_write` becomes an invariant of the queue: whatever was
  executed, or is queued to be, has a rollback behind it, or the commit that the
  holder of the lock still waits for, unless that holder is between its statements
  or is about to learn that its commit failed (`Accounted`). It needs that the
  holder is the one call at work (`HolderAtWork`) and that a call never has two
  commands in the queue before it is cancelled (`OneAtATime`). The assumption says in
  addition what a request is: a method, a key and an instant.
  `StoreInv` says, place by place in the queue, what each command will find when the
  worker thread comes to it: a commit, also one of a call that was cancelled meanwhile,
  finds all the statements of its call and nothing else (`CommitsWhole`), because they
  are executed one after the other (`ExecutesInTurn`) on a connection on which the call
  before it left a rollback, or nothing (`NextIsClean`); a read finds what is committed
  (`ReadsCommitted`); and an answer or an error tells what happened (`ToldTruly`).
  `Commit` and `Select` then map to `Land`, with `AfterAll`: the statements of each
  method have together the effect that the in-memory backend has at once. TLC checks
  `StoreInv` too, when it is added to `SqliteState.cfg`.
- `MariaDBStateProofs`: `Spec => []IndInv`, and from it `TypeCorrect`, `OneThread` and
  `NothingInherited`, for any number of cancellations and any collation. A thread that
  is not over has a coroutine that holds the lock, unless its call was cancelled again
  (`ThreadIsWaitedFor`): two threads therefore meet only after a second cancellation, and
  when they do it is noted (`SharedIsTold`). On a connection that is not shared, a
  transaction that the server has open has a thread that is before, at or behind a
  refused commit (`TransactionHasThread`); that such a thread never gives up without a
  rollback needs that a command is only sent on an open connection
  (`SentOnOpenConnection`), since without one it ends at once.
  Then `Spec => [](IndInv /\ StoreInvUnshared)` (`StoreInvariance`), and from it
  `Implementation`, that the backend is a `StateStore` for as long as nothing is shared.
  `shared` never shrinks, so that a step which leaves it empty began with it empty, and
  with `StoreInv`.
  `StoreInv` says that only one call at a time has a transaction (`OneTransaction`), and
  that it is at work in it, also if its commit is executed late (`WorksInTransaction`).
  What it deleted is therefore what the rows of now say it should have
  (`DeletesInOrder`): nobody wrote since it began, so that its commit does in one step
  what the in-memory prune does. And no call takes effect twice, or is answered before
  it did (`LandsOnce`). TLC checks `StoreInvUnshared` too, when it is added to
  `MariaDBState.cfg`.
- `ServerClientProofs`: `Spec => []IndInv`, and from it `TypeCorrect`, `ChangesOnce`,
  `GateTruthful` and `NothingOlder`, for any callers, plans, versions and times.
  `ChangesAtMostOnce` rests on a fact about the table, proved row by row over every
  namespace: only what leaves the server as it is may be sent again
  (`OnlyReadsAreRetried`); a call that changes something has then had at most one
  attempt (`EffectInv`). The gate's cache only ever holds what some version was
  (`GateInv`). `NothingOlderThanTtl` needs that a record was fetched no later than now,
  expires a time to live later, and is of a version that lasted until it was asked for
  (`FreshInv`): the instant is the one before the request, which is what makes late
  answers and saves in any order harmless.
- `SyncProofs`: `Spec => []IndInv`, and from it `TypeCorrect`, `CopiesAccounted` and
  `JobKept`, for any events, facts, jobs, edits and rounds. What is planned, and so
  what is written, the job's direction and strategy allow (`PlanInv`, `ApplyInv`). That
  a result names every copy once needs that an event has one copy at most, though the
  two listings it came from were taken at different times (`UniqueInv`), and that the
  application is at one place of its plan, with the copies behind it divided between
  `applied` and `failures` (`CountInv`). `First`, the smallest event left, exists
  because natural numbers are well-founded.
  Then `Spec => [](IndInv /\ RestInv)` (`RestInvariance`), and from it `Rests`, that a
  job comes to rest. While nobody edits, what was listed and read is still what the
  stores have (`ReadInv`); a copy proposes what its policy makes of that (`FitInv`); each
  event is at rest between the two servers, or still to be planned or written, or
  failed (`CoveredInv`); and after a round in which nothing failed all are at rest, so
  that the next one orders only what a policy blocks (`SettledInv`). TLC finds
  `RestInv` true on the instance of `Sync.cfg`.
- `CopyPipelineProofs`: `ForbiddenStays`, `MarkingsTold`, `IdentitiesKept`,
  `MergesUnite`, `MergesSettle` and `DiffAgrees`: every invariant and the action property
  of `CopyPipeline.cfg`. The constants' assumption says what TLC evaluates of the cases:
  events as a server keeps them, where each attribute and object has a UUID of its own
  and a place, under the UUID `Original`; levels and sizes that are natural numbers;
  fresh UUIDs that differ from each other and from all others.

  *The policy.* The rules of a policy can undo each other's work, so each rule is
  proved to do what it is for *and* to keep what the ones before it did: `Follows`
  says that every attribute comes from one of before, with its UUID, type and tags,
  and with nothing back that a rule took away, a level or a redacted text. It is
  transitive (`FollowsOn`) and hands on every absence (`Inherits`); `EventTransformed`
  puts the ten rules together. Of a body it says that it goes with the value that was
  matched, or the comment if that is still there (`Redactable`), however many rules come
  between. Tags are different, since a rename makes new ones:
  `TagsGoverned` says what `_govern_tags` leaves, and that it tells of everything it
  changes. That no rule gives a UUID or moves an attribute (`Stays`) makes a proposal an
  event as a server keeps it (`PlannedIsKept`), which the rest builds on.

  *The merge.* `Sides` are two events as a server keeps them. There, every object is its
  own twin (`EachIsItsTwin`), so that a merge is a union of the destination's objects
  alone, of joined pairs and of adopted objects (`ObjectsAre`), with what becomes of each
  offer (`KeptAre`): it is what was proposed, and keeps its UUID only if nothing before it
  had it. Hence the merged event has each UUID once, however the two sides moved and
  rewrote what they share (`MergedIsApart`), and holds both sides (`MergedHolds`). The
  server then fills in what came without a UUID (`StoredIs`). `NothingToMerge` is why
  merges settle: when an event has the type and value of all that is proposed, its objects
  and their metadata, a merge takes no offer, adopts no object and is the identity;
  `MergeDoes` shows that the stored result is such an event. Galaxies and observations
  have lemmas of their own (`GalaxiesMerged`, `BagsUnited`).

  *Identities.* The invariant is `IndInv /\ HeldInv` (`HeldInductive`; TLC finds it true
  with two copies, too). `IdentitiesHold` is not inductive: a merge may carry the UUID of
  a member into an event while another event has it. `Keepers` says why this does not
  happen: the UUIDs of the first event are those of the cases, the ones of the n-th copy
  are those that it was given as the n-th copy, and otherwise there are only the
  server's own, which it gives once. `RenumberedIs` says that what a copy points to is not
  in the event it is a copy of.

  *The diff.* It compares attributes key by key, and counts the objects of a key: two
  sets of objects of the same number that each have a counterpart in the other are
  the same only where UUIDs are not shared (`NoMore`, `ObjectsAgree`); that they are
  not, on either side, is part of the invariant. `DiffAgrees` has no hypothesis.

Only model-checked:

- the liveness properties: fairness and ENABLED are out of the prover's reach.

## 5. What is not modelled, and why

- Selector and registry: pure set operations on the names of a configuration that does
  not change. Settings: parsing and validation of a file. Credentials: a lookup that
  answers or raises, which is the choice between `Construct` and `FailBuild`.
  Plugins: discovery over entry points, once per command.
- Attachments: the extraction of an archive to the file system, one member after the
  other in one thread; its clean-up after a failure is the next candidate (below).
- Observability, logging, output and integrations (STIX, OpenCTI): counters, text and
  conversions that no decision of the program depends on. The command line: argument
  parsing around the facade; the plan that it hands over in a file is `EventCopy`'s
  `SavePlan` and `StartApply`, its refusal of a blocked job `Sync`'s `Apply`.
- Of the facade: similarity, grouping of matches, health and audit snapshots, which
  are pure functions of what was read. Of the policy engine: `validate_spec`, and the
  account of what is not a tag, which is written where the change is made. Of the
  diff: its summary and the values of a difference. Of the models: JSON payloads.
- Bodies and paths of HTTP exchanges, TLS, redaction and rendering.
- Event fields that a canonical fingerprint leaves out (sightings, proposals,
  timestamps), in `EventCopy`: nothing in planning or applying compares them. `Sync`
  has timestamps, because a strategy does; `CopyPipeline` has sightings and proposals,
  because a merge unites them.
- A crash of the process: the fleet's own state is in memory and dies with it. What
  survives is the database, which belongs to the state backends' modules.

## 6. Plan

Done, in the order of what would hurt most: `FleetClients`, `FleetExecutor`,
`EventCopy` over `ReviewedCopy`, `Transport`, `SqliteState` and `MariaDBState` over
`StateStore`, `Sync`, `FederatedSearch`, `ServerClient` over `Endpoints`, and
`CopyPipeline` over the pure modules. `MariaDBState` has no liveness property: a server
that never answers holds a call for ever, with no timeout in the code to end it.

Left, in this order:

1. `Attachments`: clean-up after a member that fails midway.
2. Pure functions of the facade against reference definitions: the selector, grouping
   and similarity.
3. `Sync` over `EventCopy`: that each copy of a job is a step of the protocol of one
   copy, as a refinement.
