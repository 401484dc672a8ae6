# Verification of probirka

TLA+ models of [probirka](../src/README.md), a health-check library for asyncio:
what its components do, checked with TLC on small instances, and what is most
important about them proved with TLAPS for all instances. Sources are given
relative to the repository (`probirka/_probe.py:223` is a line of
`src/probirka/_probe.py`).

## The system

A *probe* checks one dependency. A `Probirka` knows the probes of an application,
in a required list and in named groups, and `run()` executes a selection of them
concurrently. Adapters for web frameworks call `run()` once per request.

On one asyncio event loop a task is atomic from one `await` to the next.
Concurrency comes from overlapping requests: two of them run on the same probe
objects. Threads enter in three places: plain functions and the closing of Motor
clients run in the loop's default executor; an application may serve requests from
several threads with a loop each (Django under WSGI does so with an async view),
and then share a probe's cache fields, which nothing locks; and any thread may look
up a lazily imported name.

| Component | State | Operations | Interaction |
| --- | --- | --- | --- |
| `ProbeBase` (`_probe.py`) | `_last_result`, `_cache_until`, `_info`, `_secrets`, the constructor's options | `__init__`, `run_check`, `add_info`, `_register_secrets` | one task per call; `wait_for` around `_check`; the cache is shared by all calls |
| `CallableProbe` (`_probe.py:229`) | the function | `_check` | awaits a coroutine, or a worker thread of the default executor |
| Registration (`_probirka.py:66-177`) | `_required_probes`, `_optional_probes`, `_group_allow_failure` | `add_probes`, `add`, `_collect`, `_effective_allow_failure` | read when a run starts |
| `Probirka.run` (`_probirka.py:179`) | the locals of each call: tasks, pending, sources | `run`, `_inner_run` | creates `run_check` tasks, waits, cancels them, gathers, assembles |
| Results (`_results.py`) | immutable records | `to_dict` | handed from probes to runs to adapters |
| Ready-made probes (`_probes/`) | the client or factory | `_check`, `_temporary_client`, `_check_client` | open, use and close a client of another library |
| HTTP probe and policy (`_http_base.py`, `_http_policy.py`) | target, policy | `_check_client`, `check`, `blocked_reason` | resolver, HTTP client, redirecting servers |
| Redaction (`_redact.py`) | none (`_secrets` of the probe) | `secrets_from_url`, `secrets_from_headers`, `redact_secrets`, `redact_string`, `redact_value`, `mask_url` | constructors register secrets, `run_check` passes exception messages through it, `to_dict` and the JSON encoder errors and `info` |
| ASGI application (`_ext/asgi.py`, `_ext/_common.py`) | the options | `__call__`, `_handle_lifespan`, `_send_response`, `run_and_render` | `receive` and `send` of the server, `run()` |
| Framework adapters (`_ext/{aiohttp,django,fastapi}.py`) | the options | the endpoint | one call of `run_and_render` |
| Lazy imports (`_lazy.py`, `__init__.py`) | the module namespace, `__all__` | `__getattr__`, `from probirka import *` | the import system, installed packages |

What is hard here, and what makes each component correct:

* **run_check.** Calls of one probe overlap, end in any order, and write one cache
  entry whose lifetime depends on the outcome. A cancelled call must leave no
  trace, a newer answer must not be lost, and nothing may be served past its TTL.
  TTL 0, TTL `None`, timeout 0 and the exact moment of expiry are edges. Under
  several threads the result and its date may be torn apart.
* **run.** Tasks end between the timeout of `wait()`, the resumption of `run()`,
  their cancellation and the assembly. Each must be reported once, with its own
  result or as cut off. Cancelling one run must not touch another, and flags of
  several sources meet in one verdict.
* **Registration.** Flags set by one `add_probes` call and replaced by another
  apply to probes registered before and after.
* **Ready-made probes.** The timer and a cancellation may hit the body while it
  opens, uses or closes a client; the client must be closed, and an existing one
  must not be.
* **Plain functions.** A thread cannot be stopped: it outlives the check that timed
  out, and others wait behind it for a place in the pool.
* **HTTP probe.** A server chooses where redirects lead. Every target must be
  vetted, credentials must stay with the first origin, chains must end.
* **Redaction.** Secrets overlap and contain each other, and are replaced one
  after the other; a password comes back in several forms, and a URL is read by a
  parser in one place and by a pattern in another.
* **ASGI and adapters.** A connection may fail or be cancelled between two messages;
  four ways to serve the same result must agree.
* **Lazy imports.** Threads resolve the same name, and packages come and go, between
  the import of the root and the lookup.

`PROJECT.json` lists these hazards at their lines.

## Modules

| Module | Models | Uses |
| --- | --- | --- |
| `Probe` | `run_check`: construction, cache, timeout, cancellation | |
| `ProbeContract` | what a probe promises, without timers and lazily expiring entries | |
| `ProbeRefinement` | the mapping from `Probe` to `ProbeContract` | `Probe`, `ProbeContract` |
| `Registry` | `add_probes`, `_collect`, `_effective_allow_failure` | |
| `Probirka` | `run`, `_inner_run`, `add` | `Probe`, `Registry` |
| `RegistryLog` | `Probirka` with the log of its `add_probes` calls, for properties only | `Probirka` |
| `HealthCheck` | what a run promises its caller, without tasks and cancellation | |
| `ProbirkaRefinement` | the mapping from `Probirka` to `HealthCheck` | `Probirka`, `HealthCheck` |
| `SharedCache` | the cache fields of `run_check`, read and written one by one by several threads | |
| `Executor` | the thread pool and queue behind `run_in_executor` (external) | |
| `ClientProbe` | the bodies of the ready-made probes and of plain functions, inside `run_check` | `ProbeRefinement`, `Executor` |
| `HttpPolicy`, `HttpProbe` | the policy as operators; the redirect loop | `HttpPolicy` |
| `RedactText`, `Redact` | `_redact.py` as operators; what is registered, echoed and shown | `RedactText` |
| `RedactInfo` | `redact_value`, and `info` in a response | `RedactText` |
| `AsgiApp` | the ASGI application, the framework adapters and `run_and_render` | |
| `Lazy` | `__getattr__` of the package root, `__all__`, star imports | |
| `ProbeProofs` | theorems about `Probe`; its refinement of `ProbeContract` | `ProbeRefinement` |
| `ProbirkaProofs` | theorems about `Probirka` and `RegistryLog`; the refinement of `HealthCheck` | `ProbirkaRefinement`, `RegistryLog`, `ProbeProofs` |
| `ClientProbeProofs` | theorems about `ClientProbe` and `Executor` | `ClientProbe`, `ProbeProofs` |
| `HttpProbeProofs`, `SharedCacheProofs`, `AsgiAppProofs`, `LazyProofs`, `RedactProofs` | theorems about the module each is named after | that module |
| `MC*` | instances for TLC | |

`Probe` is the core: `Probirka` drives its tasks from above, `ClientProbe` fills
in its body from below, and both keep its variables. `SharedCache` is `Probe` at a
finer grain and for one probe.

Definitions named "Faulty
variant" are not part of any specification: each is an operator with a plausible
mistake in it, and replacing the one that follows it makes TLC report the property
that is meant to catch that mistake.

### Probe

`call[c]` is one task that runs `run_check()`: `ready` until its first turn, then
`checking` (suspended in `wait_for`), then `returned` or `cancelled`.
`last_result`, `cache_until` and `cfg` are the fields of the probe objects; `now`
is `time.monotonic()`.

| Action | Code |
| --- | --- |
| `Construct` | `ProbeBase.__init__` |
| `Create` | `ensure_future(probe.run_check())` |
| `ServeCached` | `_probe.py:181-191`; returns without suspending |
| `StartCheck` | `_probe.py:193-200`; a timeout of 0 means that the body is never entered |
| `TimerFires` | the timer of `wait_for` throws `CancelledError` into the check |
| `Cancel` | `task.cancel()`: ends a task that never ran, is thrown into one that did, leaves a done one alone |
| `CheckAnswers`, `CheckRaises`, `CheckRaisesTimeout`, `CheckTimesOut` | the ways into `_probe.py:209-226`, which store and return |
| `CheckCancelled` | `CancelledError` is no `Exception` and passes through |
| `Tick` | time passes |

The body is the environment: it ends at any time and in any way, also after a
`CancelledError` was thrown into it, which it may swallow or replace. The timer
and the cancellation are those of `asyncio.timeout`, on which `wait_for` is built
since Python 3.12: expiry becomes `TimeoutError` unless the task was cancelled as
well. The older `wait_for` of 3.11 may find that the body ended before the interruption
reached it, and then returns the body's result. Here that adds no outcome, since a body may
swallow what was thrown into it. With bodies that do not it does, so `ClientProbe` has both.
The wall clock is not compared with the monotonic one: `started_at` is represented
by the monotonic reading taken at the same moment.

`ProbeContract` says the same without mechanism: a request is answered by a check
begun for it, or from a memory that forgets an answer exactly when its TTL is
over; or it is given up and leaves nothing. `ProbeRefinement` maps the cache entry
to the memory for as long as the entry is fresh.

### SharedCache

With an event loop per thread a turn of a task is not atomic. `SharedCache` follows
`_probe.py:181` and `:223-224` read by read: `_last_result`, `_cache_until`, the
clock, `_cache_until` again, then the fields of `_last_result`, which is read anew
for each; and the two writes with a reading of the clock between them. Single
reads and writes are atomic in Python. What a check does is left out: it ends, or
is cancelled. A thread may be kept waiting in the middle of a turn, for at most
`MaxTurn`.

With a TTL for each outcome, torn pairs occur: a result is served under the date of
another one, and fields of a success next to those of a failure. The repository
promises nothing about threads, so this is no divergence; the properties say what
holds all the same. Nothing that was seen to be there disappears (neither field is
ever reset to `None`, and the date is written after the result); a field is never
older than the longest TTL and three turns, a bound that is reached up to one unit
and needs three threads; and a probe with one TTL never serves the other outcome.

### Registry and Probirka

`Registry` keeps the three containers and makes `add_probes` one step, since it
has no `await`. `RegistryLog` keeps beside a `Probirka` the list of the `add_probes` calls
made so far, which the program does not have. What `_collect` returns is compared with what
the documentation says of those calls: how often each probe occurs and with which flags
(`CollectMatchesLog`), and in which order (`OrderMatchesLog`: entry by entry, first the
required probes in the order of the calls, then one group after another as they were asked
for). `Probirka` adds `run[r]`, one call of `run()`: `waiting` in
`wait()`, `gathering` in `gather()`, then `returned`, `raised` or `cancelled`. Task
`<<r, i>>` runs the i-th probe that run r collected.

`StartRun` is `run()` up to `wait()`; `WaitDone` and `WaitTimedOut` are the two
ways out of it, `Gathered` the way out of `gather()`. A run is *awake* when all its
tasks are done or its timeout is over, but tasks may go on between that moment and
its next turn: `pending` is what `WaitTimedOut` finds then. Since tasks and the run
take turns, every task has had its first turn before the run resumes. `Complete`
assembles the result; `CancelWaiting` and `CancelGathering` are the cancellation of
the caller (a disconnected client).

`NoTaskOutlivesRun` says which runs leave nothing behind: those that returned or raised,
and those whose caller was cancelled after the overall timeout had cut tasks off, since
`gather()` still waits for them. A caller cancelled in `wait()` does leave its tasks running
(`_probirka.py:207`), so the property leaves that case out. The tasks it speaks of are
those of `run_check`; what becomes of the body inside is up to `ClientProbe`.

`HealthCheck` is the caller's view: a run opens with n checks, hears each at most
once, stops listening when its time is over, and reports what it has heard by then.
It fails only if a check was lost. `ProbirkaRefinement` maps a task to the answer it
has given, and to a cut one from the moment `wait()` has returned without it; so
what a task does while it is cancelled and gathered must not show in the report.

### ClientProbe and Executor

`body[c]` says at which await the body of call c is suspended, with which exception
in flight, and whether a `CancelledError` has been thrown in that it has yet to see;
`client[c]` is the temporary client.

The project supports Python 3.11, whose `wait_for` differs from that of later versions in what
these bodies can tell apart, so `python` is chosen at the start. From 3.12 on timer and cancellation
throw `CancelledError` straight into the body. In 3.11 the body is a task of its own (unless the
timeout is `None` or 0), and `outer[c]` says where `wait_for` stands around it:

| `outer[c]` | `wait_for` of 3.11 |
| --- | --- |
| `none` | has made no task of the body |
| `waiting` | waits for the body or the timer |
| `told` | has been woken by the timer or a cancellation. If it finds the body over, it returns what the body ended with, even though the call was cancelled (`WaitForReturns`); if not, it tells the body to stop (`WaitForStops`) |
| `stopping` | waits until the body is over, then raises (`WaitForRaises`), or, told by the timer, returns what the body made of it |
| `leaving` | was cancelled once more and goes, leaving the body to itself |

A body that is `over` is one `wait_for` has not heard of yet.

Probes fall into eight kinds, by how they come by their client:

| Kind | Probes |
| --- | --- |
| `existing` | any probe given a client or a factory |
| `connect` | `PostgresAsyncpgProbe`, `RabbitmqAiopikaProbe`: opened by an await before the try |
| `start` | `KafkaAiokafkaProbe`: made, then started inside the try |
| `plain` | `RedisProbe`, `MongoPymongoProbe`, the HTTP probes: made without awaiting |
| `thread` | `MongoMotorProbe`: closed in a worker thread |
| `socket` | `TcpProbe`: closed without awaiting, then waited for |
| `channel` | `RabbitmqAiopikaProbe` given a connection: opens and closes a channel on it, which stands for the client |
| `sync` | `CallableProbe` around a plain function, which may return something to await |

A probe's kind is chosen at the start, among the assignments in `Offered`.

`Executor` has one FIFO queue and `Workers` threads. Cancelling a future takes its job
out of the queue, but a job that has started goes on, holds its thread and is heard
by nobody. Functions may never return.

The client libraries may fail or take any time at every await. They are assumed to
let a `CancelledError` through; one that answers it with an exception of its own is
covered by `Probe`, whose bodies may do anything.

A client that was interrupted or refused while it was being closed is `abandoned`:
the code has no second attempt, and says so nowhere, so the property names it. A
Motor client is abandoned only if its `close()` raised, or was still in the queue
when the check was cancelled, by its timer or from outside.

`NoClientLeftOpen` is about the end of the body, which is that of the call except where 3.11 left
the body to itself; such a body still closes its client. `CancellationPrevails` names the ways
in which a cancelled call has a result all the same: closing the client raised an exception of its
own, or 3.11 found the body over (`told`), and then the result is the body's own.

`ClientProbeEnds` shows what a timeout is worth: a call with one ends, whatever a
client library does except hang in `close()`, and although functions may hold threads
for ever; and its client comes to be closed, also by a body that was left to itself. For a Motor client this is not so: if its check times out while the client
is used, `close()` then waits in the queue of the executor, possibly behind functions
that hang, and nothing cuts it short. The property states the assumption that is
needed for this kind alone, that no thread is held for ever.

`ImplementsContract` is checked here too: `run_check` with these bodies keeps the
contract of `ProbeContract`.

### HttpPolicy and HttpProbe

`IsPolicy` is what the constructor of a policy accepts. A URL is a scheme, a spelling
of a host and a port, or `Malformed`. The tables `Normal`, `Literal` and `Unmap` are
what `normalize_host`, `_literal_ip` and `_unmap` compute. `HttpProbe` follows one
check; calls of a probe share nothing but the immutable options. `Vet` is
`policy.check` up to its await, and goes on to the request when there is no name to
look up; `Resolved` and `Responded` are what comes back. The resolver may answer
anything at every lookup.

The client library looks the name up once more when it connects. That lookup is
outside this code, as the documentation of the policy says, and outside the model.

### AsgiApp

A connection of `AsgiApp` is one `__call__`, or one call of the endpoint of a framework
adapter. A run is its outcome; a JSON body is its length. The response of a framework is
mapped to the fields that an ASGI server would send for it.

A body is sent as JSON by every adapter. Without a body (`return_results=False`, or a method
that is refused) no adapter names a content type, and what is sent differs: aiohttp
adds `text/plain` and Django `text/html`, FastAPI and the ASGI application send none
(`DefaultType`, which is the frameworks' doing and external). The repository promises only the
"content type of a rendered body, spelled the same way by every adapter" (`_ext/_common.py:14`), so
`AdaptersAgree` compares status and length always, and the content type where there is a body.

### RedactText, Redact and RedactInfo

A text is a sequence of tokens: letters, and the marks at which the patterns and the URL
parser divide a text (`RedactText` lists them). The greedy pattern `_URL_PASSWORD`, the
query pattern and `urlsplit` are operators that find the positions a password lies
between. `Redact` adds what a probe was given, what it has registered, and what is shown
of a message. Messages are any texts, or what a client library may say of the URL and
headers it was given: as they are, decoded, or as basic credentials. The mask is a token
of its own: neither the values that are registered nor messages contain it (the
assumption that the mask's characters are no part of a secret).

`RedactInfo` is what is shown of `info`. It reads nothing of what `Redact` writes, nor the
other way round; `MCRedact` checks both in one run, of which each behaviour does one or
the other.

`redact_string` finds a password by its shape only, from the last colon before the first
`@`; `mask_url` and `secrets_from_url` take what `urlsplit` calls the password. The two
agree on *tidy* URLs (no `:` or white space in user or password, no `@` in the user, password
not empty); for others the secrets registered by the constructor do the work.
`EchoHidesPassword` states both halves.

### Lazy

`root` is the namespace of the package, `modules` what the imported modules define,
`env` the state of each third-party package, which may change at any time. A lookup has
two steps, `ImportModule` and `Bind`, between which other threads may run. A value is the
number of the import that executed its module, so that a second execution would show.

`find_spec` tells whether a package is there, not whether it can be imported. With a
broken one installed, its names are in `__all__` and `from probirka import *` raises, while
the docstring of `available()` speaks of what "you can actually use" (`_lazy.py:67`).
`StarImportBringsTheUsable` is about packages that are missing or usable.

## Runs

| Run | Question | Instance |
| --- | --- | --- |
| `probe` | what the cache holds and what is served from it | 3 calls of one probe, TTLs 0, 1, 2 and none, clock to 3 |
| `registry` | do runs collect, flag and order what the `add_probes` calls said | all sequences of 3 calls, 2 groups, 2 probes, names repeated |
| `run_single` | the verdict when sources disagree; partial results; two timeouts racing; does the run end | 1 run, 2 tasks, 2 probes, a group, registration while the run is under way |
| `run_overlap` | can overlapping and cancelled runs harm each other or a probe; do they keep their promise | 2 runs of one probe, with and without overall timeout |
| `client` | is every client closed, does cancellation prevail, who waits for a thread, do calls end, is the contract kept | both versions of `wait_for`; one call of a probe of each kind, and two calls that share the only thread: of a Motor client and a plain function, of one function, of one Motor client; timeouts 0, 1 and none |
| `http` | vetting, headers, bound and method along any chain | 11 policies, 10 locations, 4 statuses, chains of up to 2 redirects |
| `asgi` | whole responses, right status, adapters that agree, lifespan protocol | 2 connections, all scopes and frameworks, 4 lifespan messages |
| `redact` | is every secret masked, in every form, and nothing else; is `info` clean | up to 3 secrets of length 1 to 3 and messages to length 6, over 2 characters; 4 users, 88 passwords of up to 3 tokens, 3 host parts; info of depth 3 |
| `shared_cache` | what remains of the cache's promises without atomicity | 3 threads, TTLs 0, 1, 2 and none for both outcomes, turns of at most 1 unit, clock to 5 |
| `lazy` | one object per name, what a star import brings and with which errors | 2 threads, 3 names of 2 packages, 3 imports |
| `probe_timeout_text`, `run_crash` | two statements of the documentation that the code does not keep | see below |

Every run ends: calls, runs and the clock are bounded. A state without a
successor is therefore no deadlock, and the configurations do not check for one.

Bounds, and why they are enough. The proofs below hold for every value of them, so
for the safety properties that are proved they only decide what TLC has tried:

* `MaxTime` and `LastCall` stop the clock and the creation of calls. One unit is the
  smallest difference between timeouts and TTLs that matters; a TTL of 2 leaves room
  for an entry to be written, overwritten in its lifetime and read at, before and
  after its expiry.
* Calls and runs are used once. Every claim about the cache is about two calls and
  the entry between them; the third lets one intervene.
* `MaxTasks`, `MaxRegistered` and `MaxAdds` are 1 to 3: sources interact in pairs,
  flags replace each other in pairs with a third call between.
* `MaxReceived` 4 lets both lifespan messages come with others around them, and
  once more than once.
* `Offered` and `UsedFor` say which probes exist together and which call is of which probe. Calls of
  kinds that use no thread share nothing that `ClientProbe` adds, so one of each is enough there.
* `Workers` is 1, the smallest pool and the one in which a hung function does the most
  harm; with two calls a second thread would never be waited for.
* In `SharedCache` each thread makes one call; the third is needed for a pair to be
  torn and then copied. `MaxTime` 5 exceeds the longest TTL and three turns.
* `MaxImports` is one import for each name, so a second import of one would be seen.
* With secrets of length 1 to 3 over two characters, secrets contain, repeat and
  overlap each other and themselves, and 1 is below the minimal length 2.
* Two redirects and their limits of 0, 1 and 2 let a chain leave, come back and
  exceed its limit.

Fairness, where a property needs it: the loop gives a ready task its turn, runs a
timer that is due, and resumes a run or a `wait_for` that is awake; time passes. These are weak
fairness of single steps, which the event loop's FIFO queue provides. Two
assumptions are on others: in `Probirka`, a check that was told to stop
stops sooner or later (`ChecksStop`); in `ClientProbe`, where the body is modelled,
only that closing a client comes to an end once it has begun. Nothing is assumed of a
check that was not told to stop, and functions in threads need never return. An idle
thread takes the job at the head of the queue (`PickUp`), as the workers of the
executor do.

## What is proved

TLAPS proves the following for all sets of probes, calls, runs, threads, connections
and names, all configurations and all bounds. The runs check the same properties on
small instances.

| Module | Theorems | Properties |
| --- | --- | --- |
| `ProbeProofs` | `TypeCorrect`, `CacheIsCoherent`, `NoStaleAnswer`, `NewestWins`, `CacheHasAnAuthor` | `TypeOK`, `CacheCoherent`, `ServedWithinTtl`, `NewestResultCached`, `CacheHoldsAnAnswer` |
| | `RunCheckImplementsContract` | `ImplementsContract`, for `Probe` |
| `ProbirkaProofs` | `RunsKeepProbeSpec` | `ProbeSpec`: runs do to probes only what `Probe` allows |
| | `ProbirkaTypeCorrect`, `NoTaskLeftBehind`, `OnlyOverdueAreCancelled`, `ResultsSurviveTimeout`, `StrictSourcesWin` | `ProbirkaTypeOK`, `NoTaskOutlivesRun`, `OnlyOverdueTasksCancelled`, `PartialResultsSurvive`, `StrictSourceWins` |
| | `RunsImplementHealthCheck` | `ImplementsHealthCheck` |
| | `CollectionFollowsTheCalls`, `RegistrationOrder` | `CollectMatchesLog`, `OrderMatchesLog`, for `RegistryLog` |
| `ClientProbeProofs` | `ClientProbeIsAProbe`, `ClientProbeImplementsContract` | `Spec` of `Probe`; `ImplementsContract`, for `ClientProbe` |
| | `ClientTypeCorrect`, `ClientsAreClosed`, `CancellationIsNotSwallowed`, `QueueIsAwaited` | `ClientTypeOK`, `NoClientLeftOpen`, `CancellationPrevails`, `QueueHoldsAwaitedWork` |
| `HttpProbeProofs` | `HttpTypeCorrect`, `RequestsAreVetted`, `HeadersGoNowhereElse`, `FollowsNoMoreThanAllowed`, `MethodOnlyDegrades` | `HttpTypeOK`, `EveryRequestVetted`, `HeadersStayHome`, `RedirectsBounded`, `MethodDegradesOnce` |
| | `SpellingsAreJudgedAlike`, `TighterPolicyAllowsLess` | about `check_url` and `blocked_reason`, for any policies: the spelling of a host changes no verdict, and tightening a policy lets nothing pass that was stopped |
| `AsgiAppProofs` | `StatusIsTold`, `ResponsesComeWhole`, `AdaptersAnswerAlike`, `LifespanIsAcknowledged` | `StatusTellsTheOutcome`, `ResponsesAreWhole`, `AdaptersAgree`, `LifespanAcknowledged` |
| `SharedCacheProofs` | `NothingIsMissed`, `TornEntriesAreRecent`, `OnlyTheOutcomeWithTtl` | `NothingVanishes`, `ServedIsRecent`, `OneTtlNeverMixes` |
| `RedactProofs` | `RegisteredNeverShown`, `NothingElseIsMasked` | `NoSecretInError`, `ExactlySecretsMasked` |
| `LazyProofs` | `LookupsReturnOneObject`, `SnapshotServesStarImport` | `OneObjectPerName`, `StarImportBringsTheUsable` |

### Assumptions

They are the `ASSUME`s of the modules, and TLC evaluates them in the runs. All say what
values an option may have (`ProbeAssumption`, `ProbirkaAssumption`, `DefaultsAssumption`,
`HttpPolicyAssumption`, `HttpProbeAssumption`, `AsgiAssumption`, `SharedCacheAssumption`,
`ClientProbeAssumption`: natural numbers, lists of probes and of groups, well-formed URLs,
policies that the constructor accepts, at least one worker; `RedactAssumption`: a positive
minimal length, URLs that are not empty, and texts without the mask), or that `None` and `Malformed` are
none of the values they stand beside. `ProbirkaAssumption` also names the tasks:
`Calls = Runs \X (1..MaxTasks)`.

### The arguments

None of the properties is inductive alone. Each module of theorems has one invariant that
is: `CacheInv`, `RunsInv`, `ClientInv`, `HttpInv`, `AsgiInv`, `SharedInv`, `LazyInv`,
`LogInv`, `RedactInv`. It is
shown to hold initially, to be kept by each action (a lemma per action), and to imply the
properties.

* **`CacheInv`**. `NoStaleAnswer` needs to know that the entry a call is served from
  expires one TTL of *its own* outcome after the check that wrote it ended; that needs the
  check's start to be a number no later than now; and `NewestWins` needs that no entry is
  of the future, so that a result stored now is at least as new. `CallInv` is what a
  call remembers of its own past, `EntryInv` what an entry owes to the check that wrote
  it; actions that leave cache, configuration and answers alone share `FrameInv`.
* **`RunCheckImplementsContract`** uses `CacheInv`: each action is mapped to its step of
  the contract (`ConstructImplements`, `ServeImplements`, ...), `TimerFires` to a stutter, and
  `Tick` to the step in which memories end, for which entries must not expire later
  than their TTL says.
* **`RunsKeepProbeSpec`** maps each step of `Probirka` to a step of `Probe`; creating the tasks
  of a run, or cancelling the late ones, to one that does so for a set of calls. So `CacheInv` and the
  theorems about `Probe` hold under `Probirka`, and `RunsInv` is proved with their help.
* **`RunsInv`**. For each run: `PhaseInv` (what its phase says of its tasks: while it gathers,
  all but the late ones have ended; once it is over, all), `TaskInv` (a task runs the probe its
  run collected, began no earlier than the run, and was cancelled if and only if it was late),
  `UnusedInv` (no task beyond those collected was created), `ReturnedInv` and `CheckInv` (a report next to the
  results of its tasks). `NoTaskLeftBehind` needs that tasks are never created after the run has
  started, and that a run that is gathering has only late tasks left; `ResultsSurviveTimeout` that a task that was not late keeps the result it
  had when `wait()` returned; `StrictSourcesWin` that the flags of the sources are those that
  were collected.
* **`RunsImplementHealthCheck`** needs all of `RunsInv`. `StartRun` is `Open`; a task that
  ends while its run waits is a `Hear`; `WaitTimedOut` is `Deadline`; the end of a run is
  `Conclude` or `Fail`; `CancelWaiting`, and the end of a run that was cancelled, is
  `Forsake`; time passes in both. Everything else is a stutter: in particular what a task does
  after the time of its run is over (`SilentTasks`), and any step of another run (`OthersSilent`).
  That a task which is cut off is never also heard is what `TaskInv` is for.
* **`ClientInv`** adds to `CacheInv`, for each call, what the await its body is suspended at says
  of its client and its job (`OutInv`, `OpeningInv`, `UsingInv`, `ClosingInv`), how far `wait_for` is with
  it (`OuterInv`), and that the queue
  holds each queued job once (`QueueInv`). `CancellationIsNotSwallowed` needs `ThrownInv`: a body that
  is resumed without an exception, and so may answer, has either not been told to
  stop or is closing its client for that reason; and `PrevailsInv`, what a call that has returned
  owes to the state `wait_for` was in. Both are proved for either version. `BeforeInv` says that there is nothing to clean up
  before the check is entered, which a timeout of 0 depends on.
* **`HttpInv`**. `Carried` is what the locals of a check owe to the requests made so far: the
  headers are still carried only if every request went to the first origin, and the
  method is `GET` for ever once it has become it. `Stage` counts requests against redirects, and
  says that the URL has been vetted by the time a lookup or a request is under way.
* **`AsgiInv`** says for each connection what was rendered, what has been sent of it, and,
  for the lifespan protocol, that the answers are the requests so far, but for the one
  being answered. `Requests` is a recursive function, which is shown to
  exist by taking a least counterexample (`LeastNatural`), since the library's induction theorems
  have an operator as a parameter. `_collect` flattens a sequence of lists, and texts are redacted
  by recursion: `ProbirkaProofs` and `RedactProofs` show in the same way what that returns.
* **`LogInv`** says that each container is the concatenation of what the calls put there, and that the flag
  of a group is the last that was set. It is kept because concatenating and summing go call by
  call (`FlattenAppend`, `TotalAppend`). `RegistrationOrder` follows from its first half and from
  what `_collect` makes of the containers: their concatenation, in order (`CollectInOrder`). For `CollectionFollowsTheCalls` the
  occurrences of a probe in what `_collect` returns are counted list by list (`CollectCounts`), and its
  sources are those lists whose count is not zero.
* **`SharedInv`** follows a pair of cache fields through the turns of any number of threads:
  a date exceeds what the result beside it would have got by two turns at most, a turn for
  the writer of the date and one for the writer of the result.
* **`RedactInv`** adds to what is known of the last error that values, URLs and messages are written
  without the mask. `RegisteredNeverShown` rests on what one `replace` returns: a stretch of the result
  without a mask was copied in one piece (`NoMaskIsCopied`), so that masking one value can complete no other
  (`ReplaceFormsNothing`), and what was masked once stays so. `_unique` and `sorted` lose no value
  that is long enough (`UniqueKeeps`, `LongestFirstPermutes`). `NothingElseIsMasked` follows through all
  replacements which position of the message each letter of the result comes from, and which occurrence each
  mask stands for (`ReplaceCuts`, `ReplaceReads`). Values are masked in order of length, so a mask that
  touches an occurrence covers it if the two are nested or apart (`OccurrenceIsCovered`); this is
  where the order matters. The letters that are left are then those outside all occurrences, in
  order (`LettersAreOutside`, `PickedTheSame`). Where occurrences overlap without
  being nested, `replace` leaves a fragment, and the property claims nothing.
* **`LazyInv`**: what is bound in the root is what the module executed first defines, and
  `__all__` is out of date only for packages that have changed since.

Attempting the refinement of `HealthCheck` showed a mistake in the model:
`Answer` had been a `CASE` with overlapping guards (a late task that has ended), of which
TLA+ may choose either, while TLC takes the first.

### Model-checked only

* Liveness (`RunEnds`, `ClientProbeEnds`), which is out of the provers' reach.
* `SensitiveInfoMasked`. `info` is nested to any depth, so `RedactInfo` is written with recursive
  operators, and what they compute for every value would take an induction over data.
* `EchoHidesPassword` and `MaskingsAgree`. They follow the letters of a password through the parser,
  the pattern, decoding and masking, and hold because the URLs of the instance keep certain letters for
  passwords; of any URL at all the first would be false (a host may spell the password). That the
  positions `RedactText` finds are positions of the URL is proved (`PasswordPlaces`).

## Where code and documentation disagree

* `probe_timeout_text`: a check that raises a `TimeoutError` of its own, before its
  timeout or without one, is reported as `TimeoutError: probe timed out after ...s`
  (`_probe.py:202`). The README has that text for a probe that exceeds its timeout,
  and `'ExcType: message'` for one that raises.
* `run_crash`: a check that ends with a `CancelledError` of its own makes `run()`
  raise (`_probirka.py:231`), although "a probe never crashes the health check".

Met while modelling, and without a run of their own: `cached` is documented as
`None` for a probe without TTLs, and is also `None` for one with TTLs that the
overall timeout cut off (`_probirka.py:222`); the overall timeout bounds a run only
if checks that are cancelled stop, since `gather()` waits for them
(`_probirka.py:211`), which is the assumption of `RunEnds`.

The docstring of `available()` and broken packages: see Lazy.

## Not modelled

* `add_info`: `info` is one dictionary that results share by reference, so a result that
  was returned or cached changes with it (`_probe.py:215`). No document says whether it
  is a snapshot, so there is nothing to check it against.
* Names, the layout of `to_dict`, and `dir()` of the package root.
* Parsing of URLs, host names and networks: tables in the model, and tokens in
  `RedactText`. Which keys look sensitive is data as well.
* What the client libraries do: they are the environment. So is what becomes of a
  channel or connection whose `close()` was interrupted.
* Routing, and what a framework does with the response it is handed.

## State and plan

The modules are complete as far as the code keeps state or takes steps. Every safety property that the
passing runs check is proved for all instances, except the three named under "Model-checked
only"; both refinements are proved, and liveness is checked. What could be added:

1. That `redact_string` does not tell a tidy URL from what `mask_url` makes of it, the second half of
   `MaskingsAgree`: it holds of any URL, and its proof needs how positions move when a text is masked.
2. If `add_info` is ever documented as a snapshot, `info` as a reference in `Probe`, and the
   property that a returned result does not change.
