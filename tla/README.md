# TLA+ verification of domain-analyzer

domain-analyzer takes a domain name and reports what DNS, RDAP, GeoIP, HTTP,
TLS, ports and latency say about it. A FastAPI process answers synchronously
(`GET /api/domain`) or accepts a job (`POST /api/analyses`) that a Celery worker
executes; Redis is broker, result backend, job store, queue-depth tracker,
concurrency limiter and rate limiter at once. A React page submits, polls and
cancels.

This directory holds the models of the parts where order, failure and
concurrency matter, the TLC configurations that check them, and the theorems
proved about them. Paths below are relative to `src/back/src/app/` unless they
start with `front/` or `src/`.

## 1. Inventory

| Part | State | Operations | Hard behaviour | What makes it correct |
|---|---|---|---|---|
| Analysis jobs, API side (`services/analysis_jobs.py`, `api/analyses.py`) | record and idempotency key per job in Redis, with TTLs | create, get, cancel | every operation is a sequence of separate Redis and Celery calls; two creates with one key interleave; any call may fail after it took effect; read, then act | one job per key; a duplicate finds the job; a failed create is undone; a cancelled job stays cancelled |
| Queue-depth tracker (`services/analysis_queue.py`) | sorted set of waiting jobs | mark, started, remove, depth | written by both sides, failures swallowed | a running job is not counted, a waiting one is |
| Celery task (`tasks/domain.py`, `core/celery_app.py`) | messages, task states, retries | run, report, retry, end | late acks, lost children, redelivery, revocation racing the end | an accepted job ends; terminal stays terminal; one delivery at a time |
| Concurrency limit (`services/analysis_concurrency.py`) | sorted set of leases | acquire, release, expiry | killed children leave leases; redelivered runs renew them; a lease may lapse under its run | never more jobs with a lease at work than slots |
| Domain analysis (`services/domain.py`) | per-request tasks, observations, errors | run checks in parallel, stop at the deadline, merge | deadline between any two steps; cancellation of tasks in their `finally`; task results read after reaping | every check accounted for once; completed checks kept; nothing left running |
| Progress reporter (`tasks/domain.py:31-63`) | one row per check, a lock | report, publish | publication in a thread that cancellation does not stop | published rows never go back |
| Circuit breaker (`utils/circuit_breaker.py`) | failures, opening time, probe flag per provider | call, reset | calls admitted before the opening end after it; a cancelled probe | a set flag means a probe under way; probes do not overlap; never open for good |
| TTL cache (`utils/ttl_cache.py`) | bounded map with expiry | get, set, delete | eviction at the bound, time between get and set | never an expired value, never above the bound |
| HTTP retries (`utils/http.py`) | attempt counter | run | what is retried, for how long, Retry-After | bounded attempts and delays; a pause that is asked for is made |
| Rate limiting (`core/rate_limit.py`, `main.py:74-131`) | timestamps per client, in Redis and in process | check | fallback when Redis fails, lost replies, several processes, restarts | never more than the limit in a window for each limiter; the headers are honest |
| RDAP bootstrap (`services/rdap_bootstrap.py`) | class-level instance, lock, load time | get_instance | concurrent first calls, failed load, expiry while loading | one download at a time; never an invalid table |
| RDAP and GeoIP lookups (`services/rdap_client.py`, `services/geoip.py`) | a cache and a breaker | query, lookup | calls that overlap, records from cache and provider | no stale record, no provider skipped for ever |
| HTTP probe and network guard (`services/http_headers.py`, `services/network_guard.py`) | current URL, address and chain | probe | a name resolves to something else each time; redirects, retries and fallback multiply | each hop goes to an address checked for its host; bounded requests |
| TLS, port, latency, DNS clients (`services/*.py`) | none | query | none | - |
| Domain validator | none | a predicate | none | - |
| Health, metrics, logging, configuration, schemas, errors | counters | observe | none | - |
| Front-end application (`front/src/App.tsx`, `front/src/api/client.ts`) | run token, controller and job of the current run, view | submit, poll, cancel | late answers of an earlier run, aborts | the page shows the run the user started last, and cancels what he left |
| Front-end presentation | none | render, score, export | none | - |

Interactions: the API and the worker never talk directly. They share Redis: the
API writes records, keys and tracker entries, sends task messages and broadcasts
revokes; the worker removes tracker entries, takes leases and writes task
states, which the API reads back in `get` and `cancel`. Inside a worker child,
`analyze_domain_task` runs one event loop: limiter, `DomainService`, one asyncio
task per check, and threads for the progress writes. The providers' breakers and
caches are per process.

The hazards found while reading, each at its line with the property that covers
it, are in `PROJECT.json` under `hazards`.

Each module has a type invariant. Where there are theorems, it is proved for every
value of the constants (`TypeCorrect`); the runs check it in the other modules.

## 2. The job system

| Module | Models |
|---|---|
| `JobState` | the shared Redis state and the variables of both sides, the kinds of failure, the single Redis commands, `_job_from_snapshot` |
| `AnalysisService` | `create`, `get` and `cancel` as sequences of calls, interleaved at every `await` |
| `AnalysisTask` | Celery's delivery, and `analyze_domain_task` with the acquire and release scripts |
| `AnalysisJobs` | the composition of the two, fairness, and the properties |
| `MCAnalysisJobs` | the small instances |
| `AnalysisJobsProofs` | the theorems about types, keys, duplicates and the tracker |
| `AnalysisJobsRunProofs` | the theorems about cancels, deliveries, slots, rollbacks and ends |

**State.** A job is identified with the create call that mints its uuid. `call[p]`
is the program counter of a request: `p` in `Jobs` is that create call, `p` in
`Clients` a browser that asks for one job after another get or cancel. `record`
and `idem` are the two kinds of Redis keys, `queued` the tracker's members, `msgs`
the messages in the broker, `backend` the Celery state of each task,
`revocations` the broadcasts under way. `run[w]` is what child process `w`
executes, `slots` the members of the lease set, `revokedIds` the ids the worker
remembers in memory. Two variables are history. `overrun` has the children whose
lease has gone while they still needed it. `faults` records which kinds of failure have happened, so
that a property can name the failures it does not survive.

**Actions.** One action per Redis or Celery call, because each is an `await` (or a
thread) at which everything else may run; consecutive actions of a handler are
tied by its program counter, so nothing can be skipped. A call that raises has
two outcomes, applied or not, since a timeout says nothing about the server. The
five calls of `_reserve_async`, the send, the three steps of the rollback, the GET
and the SET of `_set_cancelled_async`, and the revoke are separate actions; a Lua
script is one. `RequestFails` is the exception path that no handler undoes.

**External.** Celery is modelled from how `core/celery_app.py` configures it:
`acks_late` and `reject_on_worker_lost` give `ChildLost` (the message comes
back), `track_started` the STARTED state, `terminate=True` kills a running task
and acknowledges it, a revoked id is kept in worker memory until a restart, the
Redis backend never overwrites SUCCESS. A retry is published before its run is
acknowledged, which is why a child that dies in between forks the job (`fork`).

**Abstractions.**
- A lease is membership of the set, without its time. It is set at acquire and
  never renewed by the run that holds it. `core/config.py:98` demands a lease longer
  than the analysis deadline, but what follows that deadline (the cancelled checks
  and their reports, a late start, the release) is in the limited section too, and
  the hard time limit is longer still. So it lapses in either of two ways: as a
  matter of course when no run of its job is in the section (`ExpireLease`), and
  under a run as a failure of kind `lease` (`OutliveLease`). A release removes the
  lease of the job whichever run holds it, since its member is the task id.
- A retry is due (`Due`) after its countdown of at least a second: the run that
  published it has ended by then.
- The uuid of a request, the domain and the key are model values. Validation and
  the HTTP mapping of exceptions are left out.
- A stored SUCCESS whose result fails validation is shown as failed by the code;
  the worker writes the same schema, so the model has no such result.
- `task.retry` that cannot publish the retry ends as a failure of the task; the
  model has the two outcomes of `Retry` and the loss of the child.

### Runs

Constants not named are as in the other runs. All runs set
`CHECK_DEADLOCK FALSE`: a system whose jobs are over stops.

| Run | Instance | Checks | Shows |
|---|---|---|---|
| `create` | 2 creates, 1 key, 2 domains, 1 client, 1 child; store and enqueue fail, keys, records and results expire | `OneJobPerKey`, `DuplicateCreateFindsJob`, `DuplicateCreateMatches`, `FailedCreateLeavesNothing` | the five calls of two creates, with and without the same key and domain, in every order, each failing |
| `worker` | 2 jobs, 2 children, 1 slot, 1 retry; limiter, progress, hard time limit, lost children, lapsing leases; fair | `SingleDelivery`, `ConcurrencyBound`, `StartedNotQueued`, `WaitingIsCounted`, `AcceptedJobEnds` | retries and redelivery of one job while another contends for the slot, through losses and leases that lapse after or under a run, and that every accepted job ends |
| `cancel` | 1 job, 2 clients, 1 child; revoke, lost broadcast, worker restart, tracker, analysis | `CancelHonoured`, `RevokedIsFlagged`, `TerminalChangesOnlyToCancelled` | cancel and get racing each other, the end and the redelivery of the task |
| `terminal` | 1 job, 1 client, no failure | `TerminalIsFinal`, violated | see the findings |
| `depth` | 2 jobs, 2 children, 1 slot, no failure | `QueueDepthExact`, violated | see the findings |

Why the bounds are enough: the properties relate at most two jobs (two creates of
one key, two jobs for one slot) or two requests for one job, and the hazards need
at most two children (two contenders for a slot). One retry already has a first
and a last attempt. Which failures a run allows is in its cfg; a failure may
happen any number of times. The theorems below remove the bounds for the
invariants. Domains, jobs, clients and children are interchangeable, so the
runs without liveness use their permutations as symmetry. `cancel` has one child:
the redelivery of a task that a restart interrupted is run by the same one, which
has forgotten the revoked ids. The failures are divided among the three runs, each
kind in the run whose properties it threatens most, so that each run stays within
minutes. No run allows `fork`: with two runs of one job beside the other job the
liveness check no longer fits; the theorems cover it, as they hold for any
`AllowedFaults`. A fork breaks `SingleDelivery`, which says so; of `ConcurrencyBound`
it breaks the second half, that there are no more analyses than slots, and leaves
the first, that there are no more jobs.

`ConcurrencyBound` excepts the runs in `overrun`. For them the limit is not kept:
once a lease lapses under its run, the acquire script gives the slot to another
job, and the setting bounds the analyses with a lease, not those at work. That
follows from what the repository's README says of leases (`src/README.md:209`);
an installation for which it matters has to set a lease longer than
`CELERY_TASK_TIME_LIMIT_SECONDS`, which nothing checks.

### Fairness

`FairSpec` assumes weak fairness of each coroutine that waits for Redis (the
event loop resumes it), of each child's next step (the analysis has a deadline
and every other step is a bounded call), of delivery from the broker to an idle
child, of broadcasts and of the expiry of leases (Redis and the clock do them).
Clients are under no obligation, and no failure is ever forced.
`AcceptedJobEnds` has the premise that losses stop in the end: a job whose every
child dies is requeued for ever.

### Findings

- `terminal`: `cancel` reads the task state in one call and writes the flag in a
  later one (`services/analysis_jobs.py:407-415`). A task that reaches SUCCESS in
  between has been shown as `completed`, and turns `cancelled`. The repository's
  README calls completed terminal (`src/README.md:207`).
  `TerminalChangesOnlyToCancelled` is what the code does guarantee.
- `depth`: a job that exhausts its retries without ever finding a slot never
  passes `mark_analysis_started`; nothing else takes it off the tracker, so the
  depth counts a failed job until the TTL or a later cancel.
  `core/metrics.py:159` describes the gauge as the number of queued jobs.

### Theorems

All are proved by TLAPS from `JobAssumption` alone (finite `Jobs`, disjoint
model values, at least one slot), for any number of jobs, keys, clients,
children, retries and any set of allowed failures.

| Theorem | Module | Argument |
|---|---|---|
| `TypeCorrect` | `AnalysisJobsProofs` | `TypeOK` is inductive once `WellFormed` says that a request past `idle` and a child past `idle` have a job, and that a create at one of its key steps has a key |
| `IdempotentCreate` (`OneJobPerKey`) | `AnalysisJobsProofs` | `KeyInv`: a create between SET NX and the end of its rollback, or accepted, owns its key: `idem` names it while nothing expired. A key is bound only when free, so two owners are one |
| `StartedLeavesQueue` (`StartedNotQueued`) | `AnalysisJobsProofs` | `SentInv`: a message or a run exists only after its create has called `send_task`, hence after the mark; only the mark adds to the tracker |
| `DuplicatesMatch` (`DuplicateCreateMatches`) | `AnalysisJobsProofs` | `MatchInv`: a record carries the domain of the create that wrote it, also when a cancel writes it back; a key names a create of that key; so does what a create has read of it |
| `DuplicatesFindTheJob` (`DuplicateCreateFindsJob`) | `AnalysisJobsProofs` | `FoundInv`: while no store command or send failed and nothing expired, no create rolls back, so a bound key belongs to a create whose record exists |
| `CancelIsHonoured` (`CancelHonoured`), `RevokedWasFlagged` (`RevokedIsFlagged`) | `AnalysisJobsRunProofs` | `FreshInv`: nobody knows a job before its record was written. `CancelInv`: while no revoke failed, every trace of a cancel (the revoke step, a broadcast, a remembered id, a revoked state, a "cancelled" answer) comes after the flag, and the flag is never taken back |
| `DeliveredOnce` (`SingleDelivery`) | `AnalysisJobsRunProofs` | `DeliveryInv`: a job has one message, or one run and at most the retry that run has published |
| `ConcurrencyIsBounded` (`ConcurrencyBound`) | `AnalysisJobsRunProofs` | `SlotInv`: a run in the limited section that is no overrun holds the lease of its job, with forks and lapsing leases; `SlotBound`: never more leases than slots. The jobs at work are then among the leases; without a fork, by `DeliveryInv`, the analyses inject into them |
| `FailedCreateIsUndone` (`FailedCreateLeavesNothing`) | `AnalysisJobsRunProofs` | `LeftInv`: what each step of the rollback has removed stays removed, except for a record that a cancel which read it before writes back, flagged |
| `WaitingJobsAreCounted` (`WaitingIsCounted`) | `AnalysisJobsRunProofs` | `WaitInv`: a job that is marked and whose analysis has not begun is in the tracker or cancelled; `OverInv`: the end of a job comes from its run, after which it does not wait again |
| `TerminalStays` (`TerminalChangesOnlyToCancelled`) | `AnalysisJobsRunProofs` | an action property of the conjunction `JobInv`: a job that is over has neither message nor run, so no step but a cancel or the expiry of its record changes its status |

None of the properties is inductive by itself: each speaks of the answer or of
the run, while what keeps it is the order of the calls before. TLC checked the
strengthened invariants too, on instances of the size of `create` and `cancel`.

Model-checked only: the liveness property `AcceptedJobEnds`, which is out of the
prover's reach.

## 3. The domain analysis

`DomainAnalysis` models one call of `DomainService.analyze`
(`services/domain.py`) with the `TaskProgressReporter` (`tasks/domain.py`) as its
callback (`reporting`, the Celery task) or with none (the synchronous endpoint);
a run checks both. `DomainAnalysisProofs` holds its theorems.

**State.** `pc` is where the coroutine of `_analyze` (Main) awaits; `raising` says
that a `CancelledError` is on its way out of it. `task`, `toCancel` and `result`
are the asyncio tasks of `_collect_results`, `obs` is `observations`, from which
the metadata is built, `errors` is `analysis_errors`, `inTime` the `done` set of
`asyncio.wait`, `expired` is `deadline_expired`. `rep[a]` is the report coroutine
`a` waits for, before the lock or during the publication; `rows` the reporter's
rows, `writing[a]` the snapshot a thread of `asyncio.to_thread` still has to
write, `published` the rows in the result backend. The clock is `late`: before
or after the deadline.

**Actions.** One action is what one coroutine does between two awaits: `Resolve`,
`LoadRDAPContext`, `Bootstrap`, `Collect`, `WaitEnds`, `Reap`, `RecordUnstarted`,
`Merge`, `GeoIP`, `GeoIPLookup` and `Finish` of Main, `StartCheck`, `EndCheck` and
`CancelCheck` of a task, `TakeLock`, `Land` and `Reported` of a report.
`CancelAnalysis` cancels Main at whichever await it is: it leaves at once
(`CancelAway`), stops and reaps its tasks first (`CancelWait`), or records geoip
and reports it before it leaves (`CancelLookup`). A task that is cancelled may be
in its first report, in its operation or in the last report of its `finally`
block: only the second observes something.

**Abstractions.** Durations, sources and the contents of results are left out; a
check ends well, with an error, or with a timeout of its own. A report that
repeats a row is never made by the code after the first ones, because of its
duration; those repeat the initial rows and are left out with `Resolve`. Waiters
for the lock are served in any order, which includes the code's. Not modelled: a
check that returns a value of an unexpected type, a check that raises
`CancelledError` of its own, and the use of `remaining` in `_lookup_geoip` after
a report (it can prolong the deadline by that report; see the hazards).

### Runs

| Run | Instance | Checks | Shows |
|---|---|---|---|
| `reports` | dns, http, rdap and geoip, with reports and without; fair | `EveryCheckAccounted`, `FailuresReported`, `ProgressHonest`, `FinalProgress`, `NoTaskLeft`, `ErrorsMatchObservations`, `ObservedOnce`, `PublishedMonotone`, `AnalysisEnds` | four coroutines contend for the reporter, with slow and failed publications, the deadline and a cancellation anywhere, and the analysis ends although no check need answer; without a callback, errors and metadata, written by different code, agree |
| `preserved` | dns, with reports and without | `CompletedPreserved`, violated | see the findings |

Why the bounds are enough: the checks are independent of each other but for the
lock and the deadline; with dns, http and rdap a task may be done, in its last
report and in its operation at the same deadline, while Main holds or wants the
lock. RDAP and GeoIP, which have a path of their own, are always there.

`PublishedMonotone` has the premise that nothing was cancelled: a cancellation
frees the lock while the thread still writes, and its older snapshot may land
last.

### Fairness

`FairSpec` of `DomainAnalysis` assumes that the clock runs, that the event loop
resumes Main once the deadline has passed (each of its waits then has timed out
or is ready), that it starts and cancels tasks, and that a report gets the lock,
writes and returns (the Redis client has timeouts). It does not assume that a
check or a provider ever answers: neither `EndCheck` nor a step of Main before
the deadline is fair.

### Findings

- `preserved`: with a callback, a task is done only when its last report is
  published (`services/domain.py:340`). A check that has returned but still waits
  for the reporter at the deadline is cancelled, and its result replaced by a
  `TimeoutError` (`:459`), while its metadata says successful. The repository's
  README says of the deadline that completed checks are preserved
  (`src/README.md:190`). `ErrorsMatchObservations` shows that without a callback
  they are.

A remark: the row of such a check stays `running` in the stored progress of the
completed job, because it was observed and `services/domain.py:447` skips it.
`FinalProgress` is what holds when no task was cancelled.

### Theorems

Proved from `AnalysisAssumption` alone (the names of the special checks are not
among `Checks`), for any set of checks.

| Theorem | Argument |
|---|---|
| `TypeCorrect` (`TypeOK`) | carries `AnalysisInv`, the inductive invariant: `StartInv` (before the tasks exist only a failed RDAP context is observed), `TaskInv` (a task that was in time has observed what it returned; one that was not has a cancellation under way or has ended), `PhaseInv` (what Main's place says of the observations) |
| `TasksAreReaped` (`NoTaskLeft`) | `TaskInv` confines running tasks to the wait and the reaping |
| `ChecksAreAccounted` (`EveryCheckAccounted`) | `PhaseInv`: after the merge every task is observed, and a cancelled observation means that Main raises |
| `ObservationsAreFinal` (`ObservedOnce`) | each writer of an observation finds none, by `TaskInv` and `StartInv` |
| `ErrorsAgree` (`ErrorsMatchObservations`, without a callback) | `NoReportsInv`: nobody waits for a reporter, so a task that was not in time has observed its timeout or nothing; `ErrorsInv`: the errors recorded so far are those of the observations merged so far |
| `FailuresAreReported` (`FailuresReported`) | `ToldInv`: what has been merged and is not observed as successful is among the errors. It holds with reports, where the converse does not |
| `ProgressIsHonest` (`ProgressHonest`) | `HonestInv`: the rows, every snapshot a thread has yet to write and every report that waits say "successful" only of a check observed so; observations are final, so a snapshot that lands late is still honest |
| `FinalProgressIsRight` (`FinalProgress`) | `OwnInv`: a coroutine reports its own check; `CalmInv`: until the deadline or a cancellation, the row of an observed check is what was observed or its report is under way, and the only snapshot being written is the rows |
| `PublicationsAdvance` (`PublishedMonotone`) | an action property of `CalmInv`: what is published is behind the rows, and rows only advance |

Type correctness needs `TaskInv`: a task that is merged must have returned an
error that is not a cancellation. The errors of the synchronous analysis agree
only because a task there ends with its operation, which is why the theorem has
its premise; the `preserved` run is the counterexample without it.

The four about reports rest on `ReporterMoves`, a list of the few things a step can
do to the reporter (a report starts, waits, publishes, lands, returns or is
abandoned), and the lemma that every action does one of them.

Model-checked only: `AnalysisEnds`, which as liveness is out of the prover's
reach.

## 4. Provider data: lookups, circuits, cache, bootstrap table

| Module | Models |
|---|---|
| `CircuitBreaker` | the circuits of one breaker and its methods (`utils/circuit_breaker.py`) |
| `RDAPLookup` | `RDAPClient.query` (`services/rdap_client.py`) by several analyses of one process, with the attempts of `run_with_retries` (`utils/http.py`), the circuits and the cache |
| `MCRDAPLookup` | its small instance |
| `TTLCache`, `LiveCache` | the dictionary of `utils/ttl_cache.py`, and what it promises |
| `GeoIPLookup` | `GeoIPService.lookup` (`services/geoip.py`) on that cache, with the delays of `run_with_retries` |
| `RDAPBootstrap` | `RDAPBootstrap.get_instance` (`services/rdap_bootstrap.py`) |
| `ProviderData` | the last three together, as the analyses of one process use them |
| `MCProviderData` | its small instance |
| `RDAPLookupProofs`, `ProviderDataProofs` | the theorems |

**RDAP lookups.** Neither the breaker nor the cache awaits anything while it
holds its lock, so each of their methods is one step, and so is what follows it
up to the next await. A lookup awaits the resolution of a server's name
(`resolve`), an answer (`attempt`) and the backoff (`backoff`); there its deadline
may cancel it (`Cancel`). `QueryServer`, `Succeeds`, `FailsForGood`,
`FailsTransiently` and `Retry` are what happens in between. A lookup slot starts
over with any domain, so the runs contain long sequences of calls. `circuit` is
`_states`, the clock being only whether an open circuit has cooled.
`probing` and `stray` are history: whether a call was admitted as the probe, and
whether a call that was not has ended at a circuit that is not closed.
`RDAPLookup` uses the cache as `LiveCache` has it, and lets any entry go at any
time (`Forget`), by expiry or eviction. An exception of the HTTP client that
`_query_server` does not catch, such as an invalid URL, is not modelled.

**The cache.** `TTLCache` keeps the clock, up to `MaxTime`, and the expired entries
the code keeps until somebody looks. It implements `LiveCache`, in which every
value leaves at its time: the mapping takes the unexpired entries, each with
the time it has left. Both may choose among entries that expire at the same
instant, as `min` does by insertion order.

**GeoIP.** `geo[a]` is the lookup of analysis `a`: the addresses it asks for,
what it found in the cache, its attempt, and when it wakes. The value of a
record is the time it was fetched, which is all that its freshness needs. `lookup`
reads the cache and may be done; `Fetched` takes what the answer has of the
addresses asked for, and `Store` caches one record of it; the loop of `set` calls
has no await that suspends, which `Quiet` says. `FailsTransiently` computes the
delay: backoff, Retry-After, jitter and cap, in the order of the code. The breaker
in front can only make the lookup fail (`LookupEnds`).

**The bootstrap table.** `waiters` is the queue of `_load_lock`, its head the
holder; `boot[a]` is where `get_instance` of analysis `a` is. `table` is absent,
valid or expired; it is replaced only when a new one is whole. The deadline or a
cancellation (`GivesUp`) meets a waiter or the one that downloads.
`ProviderData` makes every analysis ask for the table, then look up addresses,
then be replaced by another.

| Run | Instance | Checks | Shows |
|---|---|---|---|
| `lookup` | 3 lookups that share 2 providers, 1 retry, threshold 2; fair | `ProbeFlagHonest`, `OneProbe`, `Recovers` | probes, calls from before an opening and cancellations overlap, and no provider is skipped for ever |
| `geoip` | 2 analyses, 3 addresses, room for 2, lookups of up to 2, TTL 2, 4 instants, 2 retries, cap 2 | `TypeOK`, `KeepsPromise`, `FreshRecords`, `PauseInBounds`, `NoNeedlessDownload`, `LockHasHolder` | the dictionary stays in its bound, lazy removal is never visible, records are fresh wherever they come from, pauses are as asked for and bounded, the table is downloaded once for all that wait, and a failed or cancelled download blocks nobody |

Why the bounds are enough: a probe can meet two other calls (one from before the
opening and the next probe); two providers show that one circuit leaves the
other alone. In `geoip`, three keys for two places force an eviction, four
instants let an entry expire and be set again, a Retry-After of 3 exceeds the
cap of 2, and so do, at the second retry, a backoff that has grown from 1 to 2
and a jitter of 1. With two analyses one waits
while the other downloads; the next analysis in the slot of either meets what it
left. Addresses and analyses are interchangeable, and the run uses it.

`FairSpec` of `RDAPLookup` assumes that the clock runs and that a lookup under way
goes on or is cancelled by its deadline, not that a server ever answers.
`ProviderData` assumes no fairness.

`OneProbe` has a premise the code needs: a call admitted before the opening that
ends during the probe clears the probe's flag, or closes the circuit, and the next
call is let through beside the probe. `ProbeFlagHonest` and `Recovers` hold without it.

**Theorems** (`RDAPLookupProofs`, from `ThresholdAssumption` and
`LookupAssumption`, for any number of lookups, domains, providers and retries):
`TypeCorrect` (`TypeOK`), `ProbeFlagIsHonest` (`ProbeFlagHonest`) and
`OneProbeAtATime` (`OneProbe`). `ProbeFlagHonest` is inductive as it stands, since
every end of a call clears the flag of its circuit. `OneProbe` is not: it needs
`ProbeInv`, that a probe holds the flag of a cooling circuit as long as no call
has strayed. `Recovers` is liveness, and stays with TLC.

**Theorems** (`ProviderDataProofs`), for any number of analyses and addresses,
any size of the cache, bound on lookups, time to live, clock, cap and number of
retries:

| Theorem | Argument |
|---|---|
| `TypeCorrect` (`TypeOK`) | the bound of the cache needs `CacheInv`, that its keys are finitely many; that no more is stored than was found needs `GeoInv` |
| `LockIsHeld` (`LockHasHolder`), `DownloadsAreNeeded` (`NoNeedlessDownload`) | `BootInv`, their conjunction with the types: only the head of the queue downloads, so the table can become valid only by the hand of the one that holds the lock. Lemmas say what removing an element does to a sequence without repetitions |
| `RecordsAreFresh` (`FreshRecords`) | `CacheInv`: an entry expires its time after its record was fetched; `GeoInv`: what is stored was fetched at this instant |
| `PausesAreInBounds` (`PauseInBounds`) | `GeoInv`: the wake of a lookup lies within the cap of now and not before what the provider asked for |
| `CacheKeepsPromise` (`KeepsPromise`) | the refinement of `LiveCache`: initial states correspond, and each method of the dictionary, with whatever it removes lazily, is the operation of `LiveCache` on the unexpired entries; the clock is its tick, every other step a stutter |

They rest on the assumptions of the constants. Two are there for the proofs
alone: `PowerAssumption`, that powers of two are naturals, which no prover knows
of an operator it does not compute, and `RecordAssumption`, that the instance of
the cache takes as values the times that stand for records. `Unlock` takes one
occurrence of the analysis out of the queue; by `LockHasHolder` there is only one.

## 5. The HTTP probe

`HTTPProbe` models one `_probe_url` of `services/http_headers.py` with
`_request_with_safe_redirects`, and `resolve_public_ips` of
`services/network_guard.py`. The two probes of an analysis (http and https) share
nothing, so one is enough.

**State and actions.** `pc` is the await: a HEAD or a GET request, the pause
before a retry, the guard, or over. `url` and `ip` are `current_url` and
`current_ip`, `next` is `next_url`, `chain` is `redirect_chain`, `attempt` the
counter of `run_with_retries`. `HeadNotAllowed` is the 405 that turns to GET,
`RequestFails` and `Retry` start `request_once` anew, with a HEAD; `Redirected`,
`Guarded` and `Follow` are a hop. The history variables are what the guard has
seen of each host, the trail (the first URL and every one the servers redirected
to, in order), and how many requests went out.
The first address comes from the resolution at the start of the analysis
(`services/domain.py:611`).

A name resolves to any set of addresses, a different one each time it is asked.
Which error comes, and what a URL looks like, is left out: a redirect to
something that is no plain web address, and a response that is too large, are
`Refused`. So is the branch of the code without a target address, which the
program does not use.

The run `hops` has three URLs on two hosts, two public addresses and one that
is not, two redirects and one retry: a redirect may lead back to a host under
another address, or in circles, and the second one is the last.

- `PinnedToGuarded`: a request goes to a public address at which the guard has
  seen the host it is for, retries included, whatever names resolve to later.
- `ChainExplains`: the reported chain, closed by the final URL, is the trail: it
  begins with the first URL and misses no redirect but a last one, which the guard
  did not allow or which is one more than the setting.
- `RequestBudget`: redirects, retries and fallbacks multiply to no more than
  2 (MaxRedirects + 1) (MaxRetries + 1) requests.

**Theorems** (`HTTPProbeProofs`, from `ProbeAssumption`), for any URLs, hosts,
addresses and bounds: `TypeCorrect` (`TypeOK`), `RequestsArePinned`
(`PinnedToGuarded`), `ChainIsExplained` (`ChainExplains`) and `RequestsAreBounded`
(`RequestBudget`). The pin is inductive, since the guard sees a host before the hop
to it and nothing in between changes the address. The chain needs `ChainInv`: while the
guard looks at a host, the trail is the chain, the current URL and the next one,
and there is room for that hop. The budget
needs `BudgetInv`: as many requests as a hop may take for each hop of the chain
before this one, and two for each attempt at this one.

## 6. The rate limit

`RateLimiter` models `core/rate_limit.py` behind the middleware of `main.py`;
`RateLimiterProofs` holds its theorems.

**State and actions.** `shared` is the sorted set of each client in Redis, and
`lapses` when Redis drops its key; `local[p]` is `_requests` of process `p`; `mode`
is one of the three configurations the middleware can be built with. `Check` is one
request: `RedisCheck` runs the script, atomically; `RedisFails` and `ReplyLost`
fall back, the latter after Redis has counted the request; `WithoutRedis` is the
configuration without Redis. `Restart` empties a process. The in-process limiter
never awaits under its lock, so its check is one step too. History: `admitted` is
what each limiter admitted of a client in the last window, `told` what its
headers promised and the client has not used.

Times are ticks, of which a second has `Second`, so that Retry-After and EXPIRE
round up as in the code. Redis and the processes share one clock: each limiter
uses only its own, and no property compares two.

| Property | What it says |
|---|---|
| `WindowBound` | no limiter admits more than the limit in any window: Redis for all processes together, the fallback of each process |
| `HonestHeaders` | a client that uses what Remaining left it is not rejected by that limiter, nor one that comes back after Retry-After without having been admitted meanwhile |

`WindowBound` is a bound for each limiter. With the fallback enabled, a client can
be admitted by Redis and by each process: the repository's README calls this
weakening the limit, and recommends the other setting where it matters
(`src/README.md:128`). Its later remark that the limiter is per process (297) is
true of the fallback and of the configuration without Redis only.

The run `limits` has two clients, one process, two requests in a window of one
and a half seconds, six instants and five requests. A window that is no whole
number of seconds makes the rounding matter; five requests fill a window, empty
and fill it again. A second process adds nothing to Redis, which does not know
who asks, and has its own queues; the theorems have any number.

**Theorems**, from `RateAssumption`: `TypeCorrect` (`TypeOK`), `WindowIsBounded`
(`WindowBound`), `HeadersAreHonest` (`HonestHeaders`), for any number of clients,
processes and requests, any window and any clock. The invariant is `ViewInv`, about
what a limiter has in view of a client, the requests still in the window: it is
all the limiter admitted, within the limit, leaves room for what was promised,
and has room once Retry-After is over. In Redis this needs `LapseInv`: a key lapses
only when nothing of it is left in the window.

## 7. The page

`FrontendApp` models `front/src/App.tsx` with `front/src/api/client.ts` and the
server behind it; `FrontendAppProofs` holds its theorems.

**State and actions.** `runToken`, `controller` and `jobId` are the three refs;
`view` is the status shown and, as history, of which run it speaks. `run[r]` is the
call of `runAnalysis` with token `r`: it waits for the create, for a poll or for
the timer, and the answer under way to it. `job[r]` is its job on the server,
`asked` the jobs the page asked to cancel. The user starts and cancels
(`runAnalysis`, `handleCancel`); a run goes on when its call returns (`Created`,
`Polled`), fails (`CreateFails`, `PollFails`) or its timer fires
(`waitForNextPoll`), each up to its next call. A run that was left still goes on
until its call returns: the create has no signal, and an abort that finds the
body of a poll half read surfaces as an ordinary error.

What the page shows besides its status, and the progress rows, are left out. A job
is what section 2 shows of it: queued, running, then an end, or cancelled from
either. The form and its buttons allow a start only while nothing loads, and a
cancel only while something does.

The run `page` has up to five starts and cancels, so that three runs may be under
way, of which two were left, one with a job and one without. Its properties:
`ViewOfCurrentRun` (no late answer, and no error of a run that was left,
replaces what the user sees), `SpinnerHasRun` (a page that loads has a run in
progress), `CancelsWhatWasLeft` (the jobs it asks to cancel are exactly those it
left and knows), and `PageSettles` (a page that loads comes to show an end).

**Fairness.** `Spec` assumes that a call returns, that a timer fires, that the
server answers, and that a job ends, which sections 2 and 3 show of it; not that
the user acts.

**Theorems**, from `PageAssumption`, for any number of starts and cancels:
`TypeCorrect` (`TypeOK`), `ViewIsCurrent` (`ViewOfCurrentRun`), `SpinnerIsHonest`
(`SpinnerHasRun`) and `CancelsWhatIsLeft` (`CancelsWhatWasLeft`). None is inductive
alone; `RefsInv` says how the refs, the runs and the history hang together: a
token is used once, a run that was left or aborted is not the current one, and
`jobIdRef` is the job of the current run as long as it is known and in progress.
`PageSettles` is liveness, and stays with TLC.

## 8. What is not modelled

- The TLS check makes two handshakes, one after the other; the port, latency and
  DNS checks gather independent probes and close what they opened in a `finally`
  block. None keeps state between calls or shares any. `DomainAnalysis` takes each
  as something that ends in one of three ways or not at all.
- The time of a lease, and with it when exactly it lapses under a run, is planned with `ConcurrencyLimiter`. So is the time a
  report takes from the deadline in `_lookup_geoip` (see the hazards).
- Domain validation, parsing of DNS, RDAP, TLS and HTTP answers, and scoring and
  export in the browser are functions of their arguments, without state or order,
  and better tested than model-checked.
- Health, metrics, logging, configuration and schemas observe or declare.

## 9. Plan

Every safety property that a run checks is proved. Next, in this order:

1. `ConcurrencyLimiter`: leases with their times, as the scripts write them, in
   place of the untimed set.
2. `JobLifecycle`, the abstract specification of a job as a client sees it, with
   `AnalysisJobs` as its refinement; `DomainAnalysis` as a refinement of the run
   that `AnalysisTask` treats as one step.
