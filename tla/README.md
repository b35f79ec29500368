# Eventstack: specifications, model checking and proofs

Eventstack is three services around one etcd and one Kubernetes API server.

* `eventrouter` watches Kubernetes events, looks up the composition each belongs to, and posts
  it to every endpoint registered by a `Registration` resource, through a task queue.
* `eventsse` is such an endpoint: it stores the events it receives in etcd with a time to live,
  lists them, and streams them to browsers as server-sent events.
* `sweeper` watches how full etcd is and, above a threshold, deletes events, compacts and
  defragments.

This directory holds TLA+ modules translated from that code, the TLC runs that check them on
small instances, and proofs of the main theorems for every value of the constants. Sources are
named relative to `src/`.

## 1. Inventory

### 1.1 Components

**Notification queue** (`eventrouter/internal/helpers/queue/chan_queue.go`, `worker.go`,
`queue.go`).
*State:* the channel `jobQueue`, the channel `workerPool` of workers' channels, a WaitGroup,
the flag `running`, one goroutine per worker and a dispatcher.
*Operations:* `Run`, `Push`, `Terminate`; the dispatcher's receive, take and send; a worker's
job, return of its channel, `Done`, and quit.
*Correct when:* jobs start in the order they were accepted, each once; `Terminate` closes
channels only when no job is left anywhere; no send meets a closed channel; every goroutine ends.

**List queue** (`list_queue.go`) and **jobs** (`job.go`): the second implementation of the same
interface, with no caller in the services.
*State:* a linked list under a lock, its limit, the pool, a WaitGroup, the flag `running`; the
result channel of a synchronous job.
*Operations:* `Run`, `Push` with its test of the length, `Terminate`; the dispatcher, which looks
at the front, hands it over and removes it afterwards; `Job`, which answers whoever waits.
*Correct when:* as above; the list stays within its limit (it does not, see 3); whoever
waits for an accepted job is answered.

**Event router** (`eventrouter/main.go`, `internal/router/router.go`).
*State:* the informer's store (the last version of each event it handed over), the running
callback, the process's life.
*Operations:* `OnAdd`, `OnUpdate`, `onEvent`, start, signal, exit, restart.
*Correct when:* the versions of an event are handled in order. One may be handled twice: the
informer hands every object over again when it lists again, and `OnUpdate` compares nothing.

**Pusher and advisor** (`internal/router/handler.go`, `labels.go`, `advisor.go`,
`internal/objects/objects.go`).
*State:* none that lasts; the list of registrations of one event, and the posts under way.
*Operations:* `findCompositionID` with its bounded tries, `getAllRegistrations`, `notifyAll`, `Job`.
*Correct when:* every callback comes back, whatever the API server answers; each listed
registration gets one job per callback, jobs start in the order of the versions, and an endpoint is
never asked to go back to an older version than it has.

**Event store and intake** (`eventsse/internal/store/store.go`, `handlers/sub/sub.go`).
*State:* in etcd: key, value, lease.
*Operations:* `PrepareKey`, `Set` (grant, put with a 200 ms deadline), `Get`; the POST handler.
*Correct when:* an event that was answered 200 stays readable for its TTL, unless a later put of its
key brings an older lease, and then goes.

**Event streams** (`handlers/pub/pub.go`, `internal/store/watcher.go`).
*State:* a watch with its start revision and position, the connection with its write deadline.
*Operations:* greet, watch, send, end.
*Correct when:* a stream is sent every put after its start exactly once, and no delete.

**Event listing** (`handlers/getter/getter.go`, `eventsse/internal/labels/labels.go`), **request
decoding** (`internal/httputil`), **eventsse process** (`eventsse/main.go`,
`handlers/health/health.go`): a read-only query (composition or all, limit, prefix, order), a
stateless parser, and a server that connects to etcd, serves, and drains for at most 30 s.
*Correct when:* a client that watches and lists misses no event that is stored, and a shutdown
ends.

**Usage watcher** (`sweeper/internal/util/etcd/monitor.go`), **sweeper process**
(`sweeper/main.go`, `internal/handlers/health.go`) and **etcd client construction**
(`internal/util/etcd/client.go`).
*State:* the flag `suspended`, the flag `ready`, the endpoints still to ask, the cleanup
goroutines.
*Operations:* `Start`'s loop, `checkUsage`, the callback, `Suspend`, `Resume`, `Stop`; main's
tries to connect, start and shutdown.
*Correct when:* cleanups do not overlap, the watcher is suspended exactly while one runs or is
about to, high usage is always answered, and a signal ends the process without cutting a cleanup.

**Cleanup manager** (`sweeper/internal/cleanup/manager.go`).
*State:* the target, the two sorted lists, the bytes counted as freed; in etcd: revisions.
*Operations:* `RunCleanup`, `listKeys`, `deleteKeys`, `deleteFromList`, `runCompact`, `runDefrag`.
*Correct when:* keys outside compositions and old keys go first, enough and not much more than
enough is deleted, and the compaction covers the deletes.

**Others**: identifiers, HTTP options, environment variables, middlewares, generated code and
documentation keep no state the services share.

### 1.2 How they interact

```
API server --informer--> OnAdd/OnUpdate --> Handle --Push--> queue --> advisor.Job --POST--+
                                                                                           |
          browser <--SSE-- pub <--watch-- etcd <--put+lease-- store.Set <-- sub <----------+
                                            ^
                                            +-- delete, compact, defragment -- sweeper
```

Inside `eventrouter` the informer's goroutine and the workers share the queue's channels.
Inside `sweeper` the watcher goroutine and the cleanup goroutines share `suspended`, main and the
watcher share `ready`. The services share only etcd, and the requests between them may be late,
lost, or applied after their client has given up.

### 1.3 What is hard

* Several goroutines hand a job on through four places, and `Terminate` may close any of the
  channels between them.
* Two goroutines write the same Boolean `suspended`, and it stands for a count.
* Up to 50 workers post at once; a post, and a put in etcd, may be applied after its time-out.
* A key keeps its name while leases come and go: an old lease must not take a new event.
* A stream begins where etcd is when its watch is made, not where its client believes.
* A cleanup works for minutes on a list that others change.
* A `Push` to the list queue tests the length under one lock and appends under another.
* Each wait on somebody outside has to have an end: lookups, the connection to etcd, a drain with a
  stream that its client keeps open.
* Both `eventrouter` and `sweeper` may exit over work that their own code believes finished.

`PROJECT.json` lists each hazard at its line with the properties that bear on it.

## 2. Modules

| module | models | state and actions |
|---|---|---|
| `TaskQueue` | what a queue promises | accepted jobs waiting in order, executing, finished; `Accept`, `Begin`, `Finish`, `Drain`, `Close` |
| `WorkerQueue` | `chan_queue.go`, `worker.go` | one action per channel operation, atomic and WaitGroup call; implements `TaskQueue` |
| `ListQueue` | `list_queue.go`, `worker.go`, `job.go` | one action per access to the list, the pool or the WaitGroup; implements `TaskQueue` |
| `EventRouter` | `router.go`, `handler.go`, `labels.go`, `advisor.go`, `objects.go`, `main.go` of eventrouter | the informer's callback, the pusher with its tries, the posts and the process, on the queue of `TaskQueue` |
| `EventSSE` | `sub.go`, `store.go` (`Set`, `Get`), `pub.go`, `getter.go`, `watcher.go`, `decode.go`, `main.go` of eventsse | requests, leases, keys, a log of changes, streams, what clients were listed, the process |
| `Sweeper` | `main.go`, `health.go`, `monitor.go`, `client.go` of sweeper | main with its tries to connect, the watcher goroutine, cleanup goroutines, the flag they share |
| `CleanupManager` | `manager.go` | one call of `RunCleanup` on an etcd others write to |
| `MC...` | | the small sets TLC uses |
| `SumProofs` | | the sum of the sizes of a finite set of keys, for `CleanupManagerProofs` |
| `...Proofs` | | theorems about the module they extend |

`EventRouter` composes the pusher with `TQ == INSTANCE TaskQueue`: its `Push` is `TQ!Accept` with
the bound of the channel, its `Begin` is `TQ!Begin` with the bound of the workers. `WorkerQueue`
and `ListQueue` show (`ImplementsTaskQueue`) that the channel queue and the list queue keep those
promises.

### How the models stand for the code

**WorkerQueue.** `job[j]` tells where a job is: inside `Push` before `wg.Add` (`add`) and before
the send (`send`), in the channel, with the dispatcher, running, returned, done. `Running` and the
closing of the channels follow from the owner's program counter because only `Run` and `Terminate`
write them. `workerPool` is a set: workers are alike and each channel is in it at most once, so
its order is left open (which allows more than the code). The rendezvous on an unbuffered
`jobChan` is one joint step. A panic stops the process. `LatePush` says whether a `Push` may be
between its check of `running` and its send when `Terminate` stores 0. The services never do it:
the informer's goroutine is the only caller and main calls `Terminate` (were it reached) after it
has ended; the queue's own interface does not forbid it.

**ListQueue.** An element leaves the list only after the worker has received it, so the abstract
`waiting` is the list without its first element between the hand-over and the removal, and
`Terminate` may close the pool while the list still shows its last element: `PoolOpenWhileUsed` says
that the dispatcher does not use the pool then. The two locks are not held from the test of the
length to the append, so `Push` is four steps and `MaxPushers` bounds the goroutines inside it. The
10 ms sleep on an empty list is a wait. `Answered` is what a synchronous job's `Wait` sees, error or
not. The contract of `~LatePush` is built into `TerminateStore`; the late push is `WorkerQueue`'s.

**EventRouter.** The API server counts versions of each event; the informer hands over the last
version again (`Deliver` admits it: a relist passes unchanged objects to `OnUpdate`) or any later
one (it may skip some after a new list). Each callback makes jobs of its own, so a job carries the
number of its callback, and `MaxCalls` bounds the callbacks. `Resolve` is one try of `findCompositionID`: it fails
when the kind is unknown to the cached discovery or the API server fails, and succeeds for an
object that is absent; after `MaxTries` failures (3 in the runs; `retry.DefaultRetry` has 5) the
event is dropped. `ListRegistrations` gives up at once instead. `Handle` is resolve, list, push,
with the loop of `notifyAll` one push at a time because each can block. The callback runs on one
goroutine, so there is one `hpc`. A worker that takes a job sends its request (`posts`); the
endpoint may apply it at any time, even after the job has returned, or never. `Deliver` may end at
once: events that carry a composition identifier already or are older than the throttle period are
dropped. `os.Exit` in main skips the deferred `Terminate`: `Exit` is one step and the queue's jobs
end with the process; requests on the network do not. A new process lists all events again: it
hands over the current version and nothing older. The lookups have no deadline
(`context.Background()`, no time-out in the client's configuration): no fairness is assumed of them.

**EventSSE.** A request is its event and its lease, and counts from the moment its connection is
accepted. `Bodies` are the outcomes of `JSONBody`, `Decoded` what the handler answers or does
next. Leases have one TTL and so expire in the order of their grants. `Put` that times out is
`unknown`: its client is answered 500 and etcd may still apply it, at any later time. Posts of one
key overlap freely, as the router's workers make them. The log is etcd's sequence of revisions; a
watch starts at its current end. A batch of a watch response is not an atomic unit to anyone else
and is consumed one change at a time. `StreamExpires` is `WriteTimeout`. The process is `down`,
`serving` or `draining`: `Start` connects, `Drain` is a signal, after which no connection is
accepted; `Drained` is `Shutdown` returning because nothing is open, `DrainTimesOut` its 30 s
deadline with `log.Fatal`, `Crash` the end at any other time. `Down` cuts the streams and leaves
puts undecided. `keyOf` gives each request the key of its event once and for all, and
`CompositionOf` the composition in a key's name; no composition identifier is a prefix of another
(they are UIDs of one length). `List` reads one set of keys under a composition or under the root,
cut to its limit from the end of the key order as etcd does for a descending range; a limit below
0 or above `MaxLimit` is `MaxLimit`, and 0 reaches etcd and cuts nothing. `asked`, `view` and
`whole` are what the client knows of its last list: what it asked for, the events, and whether the
list was shorter than its limit and its watch was there already.

**Sweeper.** `Connect` is one try of `retryWithContext` (`MaxAttempts` 3 in the runs, 5 in the
code); after the last one main exits. A signal before `NotifyContext` kills the process. The
client knows some of the endpoints (`members`); the usage of each is high or not and changes at
will. The callback's `Suspend`, the `go` statement and the watcher's own `Suspend` after the
callback (`monitor.go:153`) are three steps. `EarlyResume` says whether a cleanup may return and
resume before the third. After the signal no check calls the callback: the deadline of its status
calls derives from the signal's context.

**CleanupManager.** The two sorted slices are sets from which each delete takes the listed key that
was created first; batches appear as the points where the target is tested. A delete of a key that
is gone succeeds and is counted, as in etcd. A call that fails may have taken effect. Key sizes are
constants; `needFree` is any of `Targets`, whatever database size it came from.

## 3. Runs

All bounds are constants of a module or of its `.cfg`.

| run | question | bounds |
|---|---|---|
| `queue` | With no push in flight at `Terminate`: is it a task queue, does it drain, does everything end? | 3 jobs, 2 workers, buffer 2 |
| `queue_late_push` | What holds up to and including a panic if pushes may overlap `Terminate`? | 3 jobs, 2 workers, buffer 1 |
| `list_queue` | Is the list queue a task queue too, and is everyone who waits for an accepted job answered? | 4 jobs, 2 workers, limit 1, 2 goroutines in `Push` |
| `router` | Order of pushes and requests across retries, relists, late posts and a restart; is every listed registration served, does every callback return, does a signal end the process? | 1 event with 2 versions, 2 callbacks, 2 registrations, 1 worker, buffer 1, 3 tries, 2 starts |
| `router_exit` | Does the process leave notifications behind? | the same |
| `eventsse` | Completeness of streams and of lists with streams, TTL, expiry, service of watchers | 2 requests with one key or two, overlapping and late, one of a composition and one outside, 1 client, limits default (2), 0 and 1 |
| `eventsse_ready` | Does "Ready to watch events" mean what it says? | the same |
| `sweeper` | Overlap, suspension, response to high usage, shutdown, also during the start-up | a client of 1 or 2 endpoints, 3 tries to connect, 3 cleanups together, no early resume |
| `sweeper_stuck` | Can the watcher stay suspended for ever? | 1 endpoint, early resume |
| `sweeper_exit` | Does main wait for a cleanup begun before the signal? | 1 endpoint |
| `cleanup` | Order, overshoot, sufficiency, compaction, end | 3 keys, sizes 1 and 2, batches of 1 and 2, targets 0, 1, 3, 2 writes |
| `cleanup_recent` | Do the most recent events survive? | the same |

**Why these bounds are enough.** *Queue:* with three jobs and two workers both workers can be busy
while a third job waits in the channel or with the dispatcher; a push that blocks on a full buffer
behind busy workers is met in `router`. *List queue:* with a limit of 1 and two pushers the list
reaches three elements and a fourth job meets the full list. *Router:* two callbacks hand over two
versions or one version twice; two versions give an older and a newer job of one registration, two
registrations a loop that blocks in the middle, two starts a request of an old process that meets
jobs of the new one; events do not interact except through the queue, where they are jobs like
those of the other registration; three tries are a first, a middle and a last one. With one worker
and a buffer of one the last of the four jobs of two callbacks finds the queue full and the worker
busy; requests outlive their jobs, so several are under way all the same. *eventsse:* leases,
overwriting and refresh concern the requests of one key, and two are an old and a new one; streams
share only the log, which none changes; two keys are enough for a limit or a prefix to cut a list;
a client asks either for the composition or for all. *Sweeper:* two cleanups together are the
overlap that `OneCleanup` excludes; a third can begin, with two endpoints, after one of two has
resumed the watcher. *Cleanup:* two keys of one class give an order, the key of the other class a
second list, a batch of two an overshoot; two writes refresh a key or store one again after its
delete.

The runs of the router and of the sweeper stop by design (the last process has exited); they do not
check deadlock; neither does `queue_late_push`, where a panic ends the process. In `queue`,
`list_queue`, `eventsse` and `cleanup` deadlock is checked: `Stopped` and `Returned` stand for the
regular end.

### What the properties say

* `ImplementsTaskQueue` - jobs start in the order of the channel, each once, and the queue closes
  only when none is left; with fairness. `TerminateDrains`, `NoPanic`, `WgCountsOutstanding`,
  `PoolHoldsFreeWorkers`, `JobsMoveForward`, `AcceptedJobsRun`, `TerminateStopsAll` are the
  promises on the way there, `PoolOpenWhileUsed` and `AcceptedJobsAnswered` those
  of the list queue (whose count and drain are theorems, and not checked again).
* `QueuedInOrder`, `QueuedAreNewer`, `ListedAreNotified` - the order of versions from the informer
  to the request, a version that is handed over again included. Requests *under way together* may
  still be applied in the wrong order by an endpoint; `QueuedAreNewer` says that this is the only
  way back. `HandlingEnds`, `SignalEnds` - as long as the API server answers the lookups, be it
  with errors, no event keeps the later ones waiting for ever, and a signal ends the process
  although the callback may be waiting for a full queue.
* `StreamIsComplete`, `StoredEventsExpire`, `WatchersAreServed` - see 1.1. `KeptForItsTTL` - an
  event answered 200 stays for its TTL, or was `Overtaken`: a later put of its key brought an older
  lease that has expired since. No other interleaving of grants, puts, late puts and expiries loses
  it. `ListedOrStreamed` - watch first, then list: nothing falls between the two, for a
  composition as for all.
* `SuspendedOnlyWhileCleaning`, `HighUsageIsCleaned`, `ShutdownCompletes` - for a client of any
  endpoints; `OneCleanup`, `CleaningOnlyWhileSuspended` - for one of a `Single` endpoint.
* `SelectionOrder`, `OvershootBounded`, `EnoughIsFreed`, `DeletesAreCompacted`, `CleanupEnds`.

### Findings

Runs that expect a violation show where the code does not do what a comment or document says.

1. `sweeper_stuck` - `monitor.go:152` "auto-suspend until cleanup finishes": a cleanup that returns
   at once resumes the watcher before the watcher's own `Suspend`; nothing resumes it afterwards
   and etcd is never cleaned again.
2. `sweeper_exit` - `main.go:179` "Wait for all goroutines to complete": the cleanup goroutine is
   not one of them, and one that is running when the signal comes is cut between its deletes and
   its compaction.
3. `eventsse_ready` - `pub.go:74` "Ready to watch events" is flushed before the watch exists;
   an event stored in between is never sent.
4. `cleanup_recent` - `sweeper/README.md:67` "helps preserve more recent or relevant event data":
   the order is by create revision, and a refreshed event keeps that of its first version.
5. `router_exit` - `eventrouter/main.go:132` "gracefully exit": `os.Exit` skips
   `defer q.Terminate()` and queued notifications are lost.

Beside these, facts met while modelling that the passing runs depend on or that no run is spent on:

* An event answered 200 may vanish before its TTL: `Set` grants its lease before it puts, so of two
  overlapping posts, or after a put that comes later than its time-out, the older lease may be
  attached last (`Overtaken`).
* The channel queue panics when a `Push` overlaps `Terminate` (set `LatePush = TRUE` with
  `NoPanic`); the router never does that.
* The informer of one process may hand a version over again after a relist, and each registration
  is then posted to again.
* A lookup that the API server never answers holds the informer's goroutine, and with it a shutdown,
  for ever: `HandlingEnds` and `SignalEnds` carry `LookupsAnswered` as their hypothesis.
* With two endpoints above the threshold one check calls the callback for each, two cleanups run, and
  the first to finish resumes the watcher under the other (`main.go:103`), against `monitor.go:152`:
  `CleaningOnlyWhileSuspended` and `OneCleanup` are stated for one endpoint (TLC refutes them
  without `Single`).
* The status calls of one check share 3 seconds (`monitor.go:122`): an endpoint that hangs keeps
  those after it in the list from being asked.
* The list queue exceeds what `list_queue.go:16` calls the maximum number of elements: `Push` tests
  with `>` before it appends, so one caller alone brings the list one above it, and further callers,
  which the lock released between test and append lets in, add one each (`LengthStaysBounded`).
* The watcher goroutine sets `ready` when it is scheduled (`sweeper/main.go:154`): after a signal at
  start-up main may set it to false first, and the process reports ready while it shuts down.
* A listing with `limit=0` is not cut: 0 passes both tests of `getter.go:79` and means "no limit" to
  etcd.

## 4. Fairness

* **Queue:** every started goroutine is scheduled; a callback returns, because `advisor.Job` posts
  with a client time-out and a 40 s context. Callers owe nothing: no fairness makes them push or
  terminate.
* **List queue:** the same; the dispatcher's sleep ends.
* **Router:** a push goes on when there is room, the workers take jobs, each job finishes by its
  client time-out and 40 s context, and main goes on once the callback has returned. None for the
  lookups, which have no deadline: `HandlingEnds` and `SignalEnds` state the answers they need
  (`LookupsAnswered`) as a hypothesis, `ListedAreNotified` needs none. None for the informer, the
  network, the signal or the endpoints.
* **eventsse:** etcd expires leases, and delivers to a watch what it has not consumed. None for
  clients, handlers, time-outs or the process.
* **Sweeper:** main goes on from try to try (each has a deadline), goroutines are scheduled, the
  ticker fires, a cleanup returns because each of its calls has a deadline. Strong fairness of
  `WatcherDone`: Go's `select` chooses at random between ready cases, so a cancelled context is
  chosen eventually. Strong fairness of `OverThreshold`: the status calls to an endpoint do not all
  fail while it is over the threshold, nor do its neighbours use up the shared 3 s check after check.
* **Cleanup:** weak fairness of the goroutine as a whole.

## 5. Proofs

| theorem | module | assumptions |
|---|---|---|
| `TypeCorrect` | all proof modules of components | the constants' own |
| `QueueSafe`, `JobsStartInAcceptedOrder` | `TaskQueueProofs` | none |
| `CountingCorrect`, `JobsOnlyMoveForward`, `FreeWorkersInPool`, `QueueStaysWithinBounds` | `WorkerQueueProofs` | none beyond the constants' own |
| `TerminateLosesNoJob`, `QueueNeverPanics`, `ImplementsQueue`, `KeepsQueuePromises` | `WorkerQueueProofs` | `~LatePush` |
| `JobsAlwaysGoOn`, `TerminateAlwaysGoesOn` | `WorkerQueueProofs` | `~LatePush`, a worker |
| `CountingCorrect`, `LengthStaysBounded`, `TerminateLosesNoJob`, `PoolNeverUsedClosed`, `ImplementsQueue`, `KeepsQueuePromises` | `ListQueueProofs` | none |
| `JobsAlwaysGoOn`, `TerminateAlwaysGoesOn` | `ListQueueProofs` | a worker |
| `CleanupsNeverOverlap`, `SuspendedThroughoutCleanup` | `SweeperProofs` | none; the properties are about a client of one endpoint |
| `NeverLeftSuspended` | `SweeperProofs` | `~EarlyResume` |
| `LeftSuspendedForever` | `SweeperProofs` | none |
| `StreamsAreComplete`, `EventsAreSentOnce`, `ListsAndStreamsMissNothing`, `StoredEventsAreLeased`, `EventsAreKept` | `EventSSEProofs` | none; any overlap of posts, any limits |
| `OrderOfDeletes`, `CompactionCoversDeletes`, `TargetOrEverything`, `OvershootIsBounded` | `CleanupManagerProofs` | none |
| `JobsStartInOrder`, `NoStaleRequest`, `QueueKeepsItsPromises`, `JobsArePostedOnce`, `NeverStuck` | `EventRouterProofs` | none |

Every invariant and every action property of the passing runs is a theorem.

**Abstract queue.** `QueueInv` says that a job is in one place: once in the line, or executing, or
finished. From it each step keeps the order: who comes joins at the end, of two jobs that wait the
one ahead starts first, and no job is lost or comes back (`KeepsItsOrder`). What is proved of
`TaskQueue` reaches the components in two ways. `KeepsQueuePromises` of both queues instantiates
`TaskQueueProofs` with the refinement mapping of `ImplementsQueue`. The router does not implement
`TaskQueue` across a restart, where its queue is replaced: `QueueSteps` shows that each other step
of the router is an operation of the queue or leaves it alone, and the lemmas about single steps
then give `QueueKeepsItsPromises`.

**Queue.** `WgCountsOutstanding` is not inductive alone: a `Done` must be known to belong to one
outstanding job. `Places` ties every job to exactly one holder (a channel slot, the dispatcher, a
worker) and each holder's job to its state; with it each step moves one job across one place.
`OwnerOrder` ties the program counters of the goroutines to the owner's. `DrainedInvariant` adds
that after `Terminate`'s store no push is in flight, so that a zero counter means nothing
outstanding from then on; that is where `~LatePush` is used.

Each `ImplementsQueue` is `Spec => TQ!Spec`: the initial states map to the abstract ones, and each
step is an abstract step or a stutter. The invariants are needed for `Close` (nothing is left) and
for `Begin` (the job handed over is the head of `waiting` and not known yet).

`Places` goes from holders to jobs; `Located` is the converse, no job is without its holder, and
`Staffed` the same for workers: until they are stopped, a worker that is not running is in the pool
or in the dispatcher's hand; at the end the pool is closed, so that a stopping worker waits for no
token. Together they make the queue free of deadlock: while a job is outstanding, and from
`Terminate` until all goroutines have ended, one of them can take a step (`JobsAlwaysGoOn`,
`TerminateAlwaysGoesOn`). `ENABLED` is out of the provers' reach, so the guards of the actions are
written out (`DispatcherCanMove`, `WorkerCanMove`, ...); that they are the guards was checked with
TLC. `QueueStaysWithinBounds` assigns to each running job the worker that holds it, an injection.
It justifies the router's model, which bounds the line by the buffer and one job and the running
jobs by the workers.

**List queue.** The same arguments with other places: `ListPlaces` ties the list to the jobs that
are listed, plus the one between hand-over and removal. `LengthStaysBounded` is inductive together
with `Room`: the list and the jobs that have passed the test and are not appended yet are together
never more than limit plus pushers.

**Sweeper.** With one endpoint (`OneAtATime`) the callback is called with no cleanup in progress,
because no tick begins a check while the flag is set and the check that has called it has nothing
left to ask; so cleanups do not overlap and each runs with the watcher suspended, even when one
resumes it early. That the watcher is not left suspended holds for any endpoints when no cleanup
resumes it early (`SomeoneResumes`). Without that assumption it fails, as `sweeper_stuck` shows,
and `LeftSuspendedForever` proves that the state reached there is never left.

**Streams.** `StreamStart` relates a stream's position to the log; `LogOnlyGrows` says that nothing
before the position changes. `LogInvariant` says that a put in the log is over and is its request's
only one, and that a request answered 200 has one; hence no stream is sent an event twice, and
every stream that has gone past an answered event has sent it. **Lists.** `ListStart` adds to
`ListedOrStreamed` that no list is whole before the watch: an event stored later than the list is
then logged after the start of the watch too, and etcd's answer below the limit is all that is
stored.

**Leases.** `Attachment`: leases are told apart by their requests, and a key is attached to the
lease of the event stored there, which has not expired. So nothing is stored without a lease that
will remove it (`StoredEventsAreLeased`), the safety half of `StoredEventsExpire`.
`KeptForItsTTL` needs more (`Remembered`): an event that is stored is the last put of its key in the
log, and for a key that stores nothing, each put whose lease lives has a later one whose lease does
not. A put makes itself the last; an expiry that empties a key is that of the last put's lease; and
a lease that has expired does not come back, because a request is granted one only once and its put
is applied only afterwards.

**Cleanup.** `SelectionOrder` needs that the lists and what was tried stay subsets of the listing
and that the second list is begun only when the first is exhausted or enough was freed.
`DeletesAreCompacted` needs that the revision read is at least that of the last delete, because
nothing is deleted after the lists are left. `EnoughIsFreed` needs that a list is left only when it
was tried to its end, the target is reached or the deadline has passed. `OvershootBounded` looks
back over one batch: `BatchInv` says that as many keys as the current batch has tried account for
what was freed since the target was last tested, and found missed. It adds sizes up, and the sum of
a finite set is a fold of the community modules, whose unfolding law `SumProofs` proves:
induction over the set is replaced by a minimal counterexample, which every non-empty set of
subsets of a finite set has.

**Router.** `QueuedInOrder` says nothing about the job being pushed. `OrderInv` adds that the
handled version is the one the informer has just handed over (`seen`), that all jobs in the
queue's hands are at most at `seen`, and that those of a registration still to push to are at most
at the handled version. `QueuedAreNewer` needs `EndpointInv`: whatever an endpoint has or may still
apply is at most at `seen`, which a restart only raises, and at most at the version of any job that
waits for the same endpoint.
`JobsArePostedOnce` combines the promises of the queue with `OwnJobs`, by which the jobs of the
queue carry the number of the running process, and `Fresh`, by which the callback under way has not
yet pushed the jobs it is still to push: one callback asks a registration once; a relist is another
callback. `NeverStuck` says that the handler, which blocks in
`Push`, and the workers do not wait for each other: a full queue has a job to start or one that
runs and will end.

**Only model-checked.** Liveness under fairness (`AcceptedJobsRun`, `AcceptedJobsAnswered`,
`TerminateStopsAll`, `ListedAreNotified`, `HandlingEnds`, `SignalEnds`, `StoredEventsExpire`,
`WatchersAreServed`, `HighUsageIsCleaned`, `ShutdownCompletes`, `CleanupEnds`, and
the fairness in `ImplementsTaskQueue`) is beyond the prover. So is the equality of the guards
written out in the proofs with `ENABLED` of the actions.

## 6. Not modelled

* The composition identifier that labels a routed event, and so the key it is stored under: an
  object that is gone or has no labels yields an empty identifier and the event is posted all the
  same, against `eventrouter/README.md:5`. `EventSSE` lets a post carry any key instead.
* The sort by time of what is left after the limit has cut by key order, which changes only the
  order of an answer; a stored value that does not decode, which fails the whole list (no handler
  stores one).
* The health flag of eventsse, which only `/health` reads.
* eventsse and sweeper on one etcd. A compaction ends a watch that lags behind it, which is one of
  the causes of `StreamEnds`; a cleanup's deletes are, to a stream, expiries that come early, and
  end what `KeptForItsTTL` promises.
* Two calls of `RunCleanup` at once. Defragmentation has no effect on keys or revisions.
* The age of the status that `RunCleanup` is given: `Targets` are any numbers of bytes.
* The character-level parser of `Content-Type` (`httputil/header/header.go`): its verdict is one of
  the outcomes in `Bodies`.
* The cache of client-go's discovery: `Mappings` gives its answers.
* `Delete` and `Keys` of the store, `Patch` of `objects.go` and the global queue of `queue.go`,
  which have no caller.
* Identifiers (`uuid`), HTTP client options, environment variables, middlewares, API types and
  generated documentation: no shared state.

## 7. Plan

Done, in this order: the queue and its abstract specification; the sweeper's control; the store
and its streams; the cleanup; the router on the abstract queue; the list queue; the eventsse process
with its drain; listings of one composition; bounded tries of the router and of the sweeper.

Left, in order of importance:

1. **Composition identifiers** in `EventRouter` (`findCompositionID` against an involved object
   that appears, is labelled and goes) and the key they give in the store.
2. **One etcd**: `EventSSE` with the cleanup's deletes and compactions as actions of one module,
   where a lagging watch ends.
3. **Readiness**: the health flags of both services against what a probe sees during start-up and
   shutdown.
4. Proofs: the router's order once jobs carry identifiers; that the leases' order survives deletes
   by a cleanup; measures that shrink with every step of a cleanup and of a shutdown, the safety half
   of `CleanupEnds` and `ShutdownCompletes`.
