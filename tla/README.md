# A TLA+ model of kbms

kbms is a C++ library for small HTTP services: an event loop takes requests and
queues them, a pool of threads runs the user's callbacks, replies go back
through the event loop; beside them one thread keeps the service in a Eureka
registry and knows the other services in it, and another thread keeps a
configuration up to date. This directory models the parts of `src/src/` where
threads meet, checks them with TLC and proves the most important properties with
TLAPS for every value of the constants.

## 1. The system

```
 clients --> libevent (I/O thread) --AddTask--> ThreadPool workers --> user callbacks
    ^             ^                                                        |
    +-- reply ----+------ IoThread::Submit + one byte in a socket pair <---+

 StartServer --POST--> registry <--PUT-- Interact thread --GET--> two maps <-- AcqInstance <-- Client
 SIGTERM --> SignalHandler --PUT DOWN, DELETE--> registry
 ConfigLoader thread --GET--> config_ (a pointer) <-- GetConfig
```

| Component | State | Operations | What is hard | What makes it correct |
|---|---|---|---|---|
| **ThreadPool**, Task, Guard, MonitorThread (`concurrency/`, `monitor/`) | deque, one timed mutex, condition variable, `idle_count_`, `state_`; a state per task | AddTask, Stop, worker loop, Run, ExpireRun | lost and spurious wakeups, a counter that decides about notifications, expiry against execution, exceptions, hanging handlers | no task waits while a worker sleeps; each task runs or expires, once, in order; Stop reaches everybody |
| **IoThread**, EventMonitor (`network/`, `monitor/`) | vector of functors, mutex, bytes in a socket pair | Submit, EventNotify, EventHandler, ExecuteTask | full socket, merged bytes, writing under the mutex that the reader needs | every functor is executed once, in order, by the one thread |
| **Service**, HttpContext (`service/`) | routes, default and timeout callback; a request per connection | Start, CoreHandleRequest, Complete, Register* | three threads share a libevent request; replies race with expiry | one user per request, one reply, an answer whenever somebody can give one |
| **ConfigLoader** (`config/`) | pointer to the current Config, two flags, thread | Start, Stop, HandsOnUpdate, GetConfig | lock-free readers against `delete` after a grace period; a swap of a plain pointer; Stop against the thread's start | no read after delete, no leak, no double delete; Stop returns |
| **Interact**, discovery (`ams/`) | two maps, `flag_num_`, thread | Run, Stop, ServerDisc, AcqInstance | lock-free readers against a map that is cleared and refilled; broken answers | a lookup sees one whole list |
| **Interact**, registration, and **HttpServer** (`ams/`, `service/`) | status in the registry, lease, pending requests, the config thread it joins | StartServer, UpdateStatus, heartbeat, SIGTERM, Stop | late, lost and unanswered requests; a lease against a fixed sleep; a signal handler on any thread | never UP before it serves; kept UP by its heartbeats; out of the registry for good after SIGTERM; the process ends |
| **HttpCurl** (`utils/`) | a curl handle with its options, timeout, credentials, headers | Get, Post, Put, Del | options that outlive their request, pointers into a caller's stack, answers that break off | the server gets what was asked; the caller a whole answer or an error; a call with a timeout ends |
| **Client** (`ams/`) | method table, the caller's ResBody | Request, GenParams, FormatRet | lists change under a call; no result but the ResBody | the ResBody is wholly of this call, from one instance that was listed when it began |
| Args, Join, JSON, logging; examples, tests | - | - | - | - |

How they interact: CoreHandleRequest (I/O thread) calls AddTask; a callback on a
worker calls Complete, which calls Submit; the event loop executes the functor.
HttpServer owns a Service, an Interact and a ConfigLoader; StartServer starts
them in that order around two calls of UpdateStatus. Client asks Interact
through the singleton HttpServer.

## 2. Modules

| Module | Models | Abstract specification | Proofs |
|---|---|---|---|
| `ThreadPool` | the pool | `TaskPool` | `ThreadPoolProofs` |
| `IoThread` | the I/O thread and its pipe | `Mailbox` | `IoThreadProofs` |
| `Service` | a request's way; INSTANCEs `ThreadPool` and `IoThread` and uses their actions | `RequestReply` | `ServiceProofs` |
| `ConfigLoader` | config updates | `UpdatingThread` | `ConfigLoaderProofs` |
| `Discovery` | the service lists | `Directory`, `UpdatingThread` | `DiscoveryProofs` |
| `Client` | calls of other services; EXTENDS `Discovery` | `ServiceCall` | `ClientProofs` |
| `HttpServer` | registration, heartbeat, lease, SIGTERM, Stop; its config thread is an `UpdatingThread` | - | `HttpServerProofs` |
| `HttpCurl` | requests over one curl handle | `Exchange` | `HttpCurlProofs` |

`MC*.tla` add what TLC needs; names of variables and actions are those of the
code where TLA+ allows it. `PROJECT.json` maps every definition to its lines. An
operator `X_Something` beside `X` is a plausible wrong version of `X`; the
property listed with it in `PROJECT.json` fails when it takes `X`'s place.

**Granularity.** A stretch of code under a mutex that touches nothing accessed
without it is one step. Where the code reads shared state without a lock the
read and its use are two steps: AcqInstance computes an index and uses it later,
GetConfig loads a pointer and copies later, `std::swap` reads `config_` and
writes it later.

**ThreadPool.** `pc[w]` is where a worker stands in `ThreadWorker::operator()`.
Taking a task is one step: front, pop, the decision between EXECUTING and
TIMEDOUT, unlock. A wait releases the mutex as it falls asleep and, woken by
`notify_one`, `notify_all` or nobody, must take it again. `Stop` does not wait:
Init detached the threads, so the first `join()` throws, and Guard unlocks. A
Task is handed to AddTask once, as Service does. `task[w]` is the task whose
handler the worker is in: its local `TaskPtr` lives on until it holds the mutex
again, but nothing reads it there. `submitted` and `taken` are history variables.

**IoThread.** Submit holds its mutex across the write to the socket and is
therefore two steps, between which the event loop may read. The bytes are
counted up to `PipeCap`, and one recv takes up to `RecvMax` of them.

**Service.** Every step is a step of one of the two parts, with what the Service
adds: the registered callbacks, replies, whether a callback has settled its
request, and whether Listen, whose result Start ignores, has succeeded. The
`Register*` calls are actions in any order before Start, as the examples have
them, so that every set of routes, with and without the default and the timeout
callback, is a reachable state; whether requests expire is chosen in Init. A
callback is user code, so what it does is a constant per request and callback: it
replies, replies later from another thread, stays silent, or throws; those in
`Careless` may throw after they have settled their request, too. An exception in an
expire callback ends the process, as it does in the pool.

**UpdatingThread** says what both background threads have in common: the thread
sets its own flag when it begins, Stop clears it and joins. ConfigLoader and
Discovery are shown to implement it; HttpServer then uses it in ConfigLoader's
place.

**ConfigLoader** and **Discovery.** Time is a count of ticks that matters only
for readers, for the grace period and for the sleep between two updates. What
the code relies on and does not enforce is an assumption with a name:
`GraceAssumption` (a copy takes less than the grace period) and `SpanAssumption`
(a lookup takes less than the sleep). A Config is its address, and `heap` says what
is at each; a deleted one's address may be the next one's. The comparison with
`config_`, the allocation and the two halves of `std::swap` are steps of their own
(`compare`, `swap`, `swapping`). `torn` is a history variable: a swap wrote a pointer
that another had replaced since it read it. From then on two updaters delete the
same Config, the second perhaps when its address is the current one's, so that
`NoReadAfterDelete` promises nothing more (TLC refutes it without `torn`). What the
comparison then reads of a deleted Config is anything. In Discovery an answer is a sequence of
applications, or of applications up to one at which the parser gives up.

**Client.** A caller is one of Discovery's readers: Request finds the method in
its table and begins the lookup, GenParams takes the instance that was drawn, the
exchange ends as `Exchange` says an HttpCurl ends (a whole answer or an error),
and FormatRet copies. Other readers and the updating thread run beside it. Since
Request returns nothing, the property is about what the ResBody holds; an old
ResBody stays exactly when no instance was listed.

**HttpCurl.** One thread makes any sequence of calls over one handle. libcurl is
modelled by what its options make it do: a method, an upload through
ReadCallback as long as INFILESIZE says there is data, credentials, a timeout.
Texts are sequences of pieces, so that callbacks hand them over bit by bit;
`obj` is the PutDataStruct in Put's stack frame, or None once Put has returned.
The server answers a request when it has all of it; the network may fail at any
point.

**HttpServer.** Both flags of the configuration are arbitrary. Every request can
be answered, lose its answer, be refused, or, if it has a timeout, be given up
and still arrive later (`late`, at most `MaxLate` at a time). The registry keeps a
status and a lease; it may drop an instance whose lease ran out. Time is a count
of ticks for the lease and for the sleep of the heartbeat thread, which asks for
the service lists after each renewal; what runs between two waits takes no time.
`has_timeout` is arbitrary: the constructor initialises `timeout_` with itself
(`interact.cc:45`). SIGTERM freezes the thread it interrupts; before `signal()`
it kills. Posts by SignalHandler have the timeout of their own that `Interrupt`
sets. Stop clears the config thread's flag and joins it before it tells the
registry. `clean`, `cancelled` and `missed` are history variables. That the sleep
is shorter than the lease is an assumption (`LeaseAssumption`): `duration_secs_`
is the user's, the sleep is fixed.

## 3. Runs

| Run | Instance | Shows |
|---|---|---|
| `thread_pool` | 3 workers (symmetric), 3 tasks, 2 that can expire | the safety properties and the refinement of TaskPool |
| `thread_pool_live` | 2 workers, 3 tasks, one handler that may hang, one task that can expire | every task is taken, Stop ends all, TaskPool's progress |
| `io_thread` | 2 submitters, 2 functors, 5 submissions, 3 bytes of socket, 2 bytes of buffer | no functor lost, repeated or overtaken; no deadlock with a full socket; Mailbox |
| `service` | 2 workers, a late thread, 3 requests for 2 paths whose callbacks reply, reply late, throw, or throw after the reply, differently for the timeout callback, any registration, all may expire or none, a socket of one byte | one user per request and somebody in charge of it until its reply, replies match expiry, no rest before all are answered, RequestReply |
| `config_loader` | the thread, HandsOnUpdate, 2 readers, 2 bodies, 3 addresses, grace 2 ticks, reads up to 1 | no read after delete until two swaps overlap, one owner per address after every other step, UpdatingThread |
| `config_loader_hand` | expected violation | HandsOnUpdate goes on when it is said to fail |
| `config_loader_stop` | expected violation | Stop before the thread's first step is forgotten |
| `discovery` | a Client and another lookup, 2 services, 2 hosts, 3 answers (whole, repeating, broken), 3 publications | lookups see one whole list; Directory and ServiceCall; UpdatingThread, its liveness for requests that end |
| `http_curl` | 5 calls (each method; with and without data, headers, credentials, timeout), 2 answers, chunks of up to 2 pieces | no stale option, no dangling upload, the Exchange |
| `http_server` | its four threads and the config thread, sleep 1, lease 2, 2 late requests | UP, the lease, SIGTERM |
| `http_server_live` | the same with sleep 0, lease 1, no late requests | exit() after SIGTERM, the start, the end of Stop |
| `http_server_stop` | expected violation | a heartbeat thread that was started outlives Stop |

**Why the bounds suffice.** Three workers are enough for one to sleep, one to be
woken and one to overtake it; three tasks to have a backlog behind a running
one. Calls of every method in any order show each option that could be left over
to each call it could harm; three pieces in chunks of two end in a short one.
Five submissions overrun a socket of three bytes and leave bytes for a second
recv of two; in `service` two replies already overrun the one byte. Three
publications return to the first of two maps. Three addresses hold the current
Config and one new Config of each of the two updaters; they are used again without
end, so that any number of updates and deletions follow each other. The two ticks against one are the smallest values
that satisfy the assumptions. Two late requests let a STARTING and an UP overtake
each other and everything after them; progress does not depend on requests
nobody waits for, so the run for it has none. The proofs hold for all values of
all of these. Bounds are named constants (`MaxSubmits`, `Addresses`, `MaxFlag`,
`MaxLate`); with no address free and at `MaxFlag` every further fetch fails, which
the code must survive anyway, and beyond `MaxLate` a request is lost instead of late,
so no run ends in an artificial deadlock.

**Fairness.** Threads that can run do run (weak fairness per thread). A callback
returns unless it is in `Hanging`. Time passes. A request ends when it is
answered or has a timeout: in ConfigLoader the default of HttpConnectInfo (50
ms). In Discovery nothing is assumed of it, as that thread's timeout is the
uninitialised one (`interact.cc:45`) and a request may block for ever: only the
thread's own steps (`OwnStep`) are fair, and `ImplementsUpdatingThread` there says
that the life cycle is always that of an UpdatingThread, and that a Stop gets the
thread joined if its requests end (`RequestsEnd`). In Client the caller gave a timeout or the instance answers;
HttpServer models both cases and only promises what does not depend on it
(`TermEnds`, `StopEnds`), or says that it does (`StartsInTheEnd`). `StopEnds` is
for a config thread that has begun, or does not exist, when Stop is called, and
holds because `UpdatingThread` then leaves. Nothing is assumed of arriving
requests, SIGTERM, spurious wakeups, the registry or expiry.

## 4. Findings

- `config_loader.cc:87`: the test in HandsOnUpdate is the opposite of its
  comment. With it two updaters share one HttpCurl and one plain pointer; the
  model also reaches a leaked and a twice deleted Config when two swaps overlap;
  `ConfigHasOneOwner` shows that ownership breaks in no other way.
- `config_loader.cc:72` (and `interact.cc:330`): the thread sets its own "on"
  flag, so an early Stop is undone and `join()` never returns. `UpdatingThread`,
  which both implement, is the promise that does hold.
- `http_server.cc:63`: Stop does not stop the interaction with the registry; the
  heartbeat goes on.

Met while reading, without a run:
- `gtest_thread_pool.cc:41` reads a result after `usleep(10)` without
  synchronising with the task.
- `GetConfig(version)` ignores its argument. `ConfigInfo`'s timeout and
  credentials and `RegistryInfo::headers` are stored and never used.
- `HttpServer::GetConfig` (`http_server.cc:205`) and
  `HttpCurl::Impl::ExecuteRequest` (`http_curl.cc:116`) end without their return
  statement. That is undefined behaviour in C++, though no caller of the second reads
its result; the models take the call to return.
- FormatRet (`client.cc:54`) never sets `ResBody::res_headers`, which
  `formats.h:78` calls "response header". PostRequest ignores `ReqBody::size` and
  takes the body up to its first NUL.
- `Service.h` declares Stop and Run, which nobody defines.
- `~HttpServer` deletes `instance_`, which is itself (`http_server.cc:121`).
- `http_prefix` is `"http:://"` (`args.cc:18`): every URL built with it has a colon
  too many.
- `ResBody::response` points into `res_buf` of the same object (`client.cc:57`): a
  copied ResBody points into the original. Its `code` is a `size_t`, so that the
  -1 of HttpCurl arrives as the largest one.

## 5. Proofs

All theorems are about the specifications without fairness (`SafeSpec`), for
every number of workers, tasks, readers, callers and every capacity, delay and
length of time, from the named assumptions on the constants. Each of the eight
proof modules has the same layout: the parts of the inductive invariant, one
lemma per part with one step per action, and the theorems at the end.

*ThreadPool.* The invariant grows in three layers. `Counting` (TypeOK and
IdleExact: `idle_count_` is the cardinality of the workers inside the wait) is
inductive by itself. `Wakeup` adds NoSleepOverBacklog and NobodySleepsThroughStop:
a worker that is about to sleep sees an empty queue, and AddTask, which trusts
`idle_count_`, wakes a sleeper because by IdleExact a sleeper is counted; the
step needs the cardinality of the awake workers to grow with the queue, or
nobody to sleep. `Ownership` adds that a handler's task is in the state its
worker thinks and that queued tasks are distinct and WAITING; without it
TaskHasOneOwner is not inductive. `Order` relates queue and history, and with it
each step is one of TaskPool or stutters (`PoolRefinement`). `DecisionsAreFinal`
is an action property from the same invariant. `WaitingIsQueued` (a WAITING task
is in the deque) turns it into what a caller wants to know: when every worker
sleeps, every task submitted has been taken and decided (`AsleepMeansAllTaken`).

*IoThread.* TypeOK (which says, too, that no more was executed than submitted), NoLostNotify, InOrderOnce and "nothing is held outside the
loop" are inductive together; each step is a step of Mailbox or a stutter
(`MailboxRefinement`), and an event loop with nothing to read, while nobody is in
Submit, has executed everything (`NothingToReadMeansAllExecuted`).

*Service.* The proof is one of composition. A step of Service is a step of each
part or leaves that part alone, so `Counting`, `Ownership` and the invariant of
IoThread are taken over from the proof modules of the parts, instantiated with
Service's variables, by their step lemmas. On top of them `Users` says where a
request can be: a queued one has no callback, one with a worker, a kept callback
or a queued functor is with none of the others, and one that was answered is with
nobody. It needs the parts' invariants because a request changes hands inside
them. `Kinds` says of each functor and reply that it is the timeout callback's
exactly if the request is overdue, and `NoneBeforeStart` that what is registered
no longer changes once requests arrive. Together they give
`OneUserPerRequest`, `AnswersFitTheClock` and `RequestReplyRefinement`.

The same composition carries whole theorems: `PartsKeepTheirSpecs` shows that
inside Service both parts satisfy their own specifications, so that, for instance,
the server loses no wakeup (`NoWakeupIsLost`). `Carried` says that an answerable
request is still the pool's, or with a worker whose callback has not settled it, or
its reply exists: kept for later, posted, or sent. A WAITING request is in the deque
(`WaitingIsQueued`), and what is posted and not executed is in one of the event
loop's two vectors (`OnTheWayIsHeld`). NoRequestIsLost follows
(`NothingIsLost`). With all workers asleep the deque is empty, by the pool's
`AsleepIsEmpty`; with nothing to read the vectors are, by the mailbox's
invariant; so a server at rest has answered (`QuietServerHasAnswered`). That it
comes to rest is liveness, and TLC's: ImplementsRequestReply.

*ConfigLoader.* `ReadersAreEarly`: a reader of a Config in its grace period has
been reading at least as long as the updater has slept. With `age <= ReadTicks <
GraceTicks` no such reader is left when the period is over. That needs to know
that what an updater is to make current or to delete is there and its own
(`NewIsPrivate`, `OldIsPrivate`), since a deleted Config's address may become
another's, and that the current one is there. The theorem holds for any set of
HandsOnUpdate callers and ends where a swap is torn: the two updaters then own the
same old Config, and no assumption on time helps. `OneOwnerUnlessTorn` counts
owners step by step, the allocator being the owner of a free address: allocation
hands it to the updater, a swap that is not torn hands the old Config to the
updater that gave up the new one, deletion gives it back. That holds in every
state, torn ones included, for the addresses that have one owner. Without
HandsOnUpdate no swap is torn (`SwapIsWhole`: one under way has read the current
Config), so each address has one owner at all times and at most two Configs are
there (`AloneNothingLeaks`): the leak and the double deletion of the first finding
come from HandsOnUpdate alone. `ThreadLife` maps the thread's places to those
of UpdatingThread.

*Discovery.* `ReadersAreEarly` again: a lookup in the spare map is possible only
during the sleep and is as old as the sleep. `Filling` says that the spare map is
what the first k applications of some answer list, which is what Publish needs
to be a step of Directory. `ThreadLife` as for ConfigLoader.

*Client.* Every step is a step of Discovery with the callers as readers
(`ClientsAreReaders`), so Discovery's invariant is the base; `MapsHold` says that it
keeps a map unchanged as long as a lookup is in it. `CallsAreHeard` adds that a
lookup under way sees what was listed when its call began, although its index may
be two publications old, and that an exchange goes to an instance drawn from that.
Then a return is a step of ServiceCall, a publication is its Publish, and the rest
stutters.

*HttpServer.* `UpIsSent`, `LateIsSent` and `ServiceFirst` make UpMeansStarted
inductive: "UP" is listed or late only after StartServer came to send it, and by
then the service has started. `CancelIsFinal` needs `TermIsLater` and
`NothingListsAgain`: in a clean run main serves, so that no POST is sent or late, and
after the DELETE nothing creates the entry again. `HeartbeatsSuffice` needs
`LeaseIsCovered`: while nothing is missed, lease and sleep together make up
`LeaseTicks` (`lease + slept >= LeaseTicks` in the sleep, since a tick takes one
from the one and adds one to the other), and `slept <= SpanTicks < LeaseTicks`
leaves the lease positive until the next renewal. `PlacesAreOwn` and `WaitsAreOwn`
tie a thread's place to the request it waits for. `ConfigThreadLife` says that
the config thread in HttpServer is an UpdatingThread, which ConfigLoader's
`ThreadLife` implements.

*HttpCurl.* `IInv` says that between two calls the handle does not upload, and
during one that uploads Put's data is alive; it rests on the reset that ends
every call, successful or not. `Exact` says the rest: `Handle` (the options are a
fresh handle's, then those of the method, then exactly the call's), `Wire` (what
has been uploaded followed by what is left is the caller's data), `Given` (how far
the answer has been handed to the callbacks) and `Replied` (the Response is the
fields of the lines read so far and a prefix of the body, and in the end the
whole answer or an error). `SeenNext` is the lemma about HeaderCallback: storing
a line makes the fields those of one line more. TypeOK follows from them, and each
step is one of Exchange or a stutter (`ExchangeRefinement`).

*Only model-checked:* the liveness part of every refinement and the other liveness
properties (EveryTaskIsTaken, StopEndsWorkers, TermEnds, StartsInTheEnd,
StopEnds), which the prover does not treat. That Submit never waits for room in
the socket while it holds the mutex is part of ImplementsMailbox and of the deadlock
check of `io_thread`.

## 6. Not modelled

- Lifetimes: destructors that free what threads still use (`~ThreadPool`,
  `~Interact`, `~ConfigLoader`, `~HttpServer`), listed as hazards. In a server all
  of them live until `exit()`, as StartServer does not return.
- Register* racing with workers, which is undefined behaviour of the maps; a
  callback that breaks its contract by replying twice.
- A Listen that fails is in Service; that StartServer then announces UP is said
  nowhere to be wrong. UpMeansStarted is about Start having been called.
- In HttpServer: the public `UpdateStatus(value)` (`http_server.cc:209`), by which
  the user may post any status from any thread at any time. What is shown is shown
  of programs that leave the announcements to StartServer; one that posts "UP"
  itself, before Start or after SIGTERM, is listed accordingly. A second Init, the pointers Init leaves uninitialised when a flag
  is off, signal safety of malloc and curl.
- In Client: parameters, the text of the URL, and the exception of an HttpCurl
  whose handle could not be made, which leaves Request.
- Args, Join, GetUrl, JSON and logging: strings without state. The wording of
  URLs, JSON and headers is abstracted everywhere.
- Memory that runs out; two threads in one HttpCurl (see the first finding);
  `flag_num_`'s overflow; memory order: `relaxed` operations on `flag_num_` are
  taken as sequentially consistent.
- Examples and unit tests, which are users of the library. libevent, libcurl,
  jsoncpp and glog: the repository holds only their headers and binaries, which
  are most of its lines; they are taken at what the code uses of them.

## 7. Plan

Done: ThreadPool, IoThread, Service, ConfigLoader, Discovery, Client, HttpServer
and HttpCurl, each with runs, all but HttpServer with an abstract specification,
and proofs of every safety property the runs check. Left:

1. Object lifetimes: destructors as actions, with what must have happened first.
2. Join, GetUrl and the registration body against reference definitions.
3. Register* after Start in Service, and a failing Listen in HttpServer.
