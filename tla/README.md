# A TLA+ verification of perf_analyzer

perf_analyzer puts a load on an inference server and measures how it copes. What
makes it hard is not the measuring but the load: a main thread that changes the
load while it runs, worker threads that send requests, and threads of the client
library that run the completion callbacks, coordinated by flags that are partly
read without a lock, several mutexes and condition variables. Around that are
parts that are sequential but full of cases: a command line of a hundred options,
data files, schedules, the search for a level that is stable. This directory
models both in TLA+, checks the models with TLC on small instances, and proves
the most important properties of the load with TLAPS for all instances.

Paths in this file are relative to `src/src/` of the repository, which holds
perf_analyzer itself.

## Inventory

| Part | State | Operations | Hard behaviour | Correct when |
|---|---|---|---|---|
| Concurrency mode: `concurrency_manager.cc`, `concurrency_worker.cc` | threads, `execute_`, each `ThreadConfig`, the workers' trackers | change the level, pause, reconfigure, resume; a worker's loop | flags read unlocked, contexts that outlive their level, callbacks at any time | the ids in circulation are the level; pauses complete; nothing is out when sequences are redistributed |
| Base of managers and workers: `load_manager.cc`, `load_worker.cc` | `early_exit`, threads, statistics | exit, complete sequences, wait, stop, join, warm-up clean-up | SIGINT at any moment, error exits | every thread is joined, nothing is in flight afterwards |
| `infer_context.cc` | ongoing counter, responses so far, request records | send, callback, finalize | the callback overtakes the sender; early returns; failed sends; several responses | the counter is the number of requests out; a record holds its own responses |
| Context id trackers: `*_ctx_id_tracker.h` | queue of ids | get, restore, reset | restored after a reset | no id is lost or doubled |
| Request-rate mode: `request_rate_manager.cc`, `request_rate_worker.cc`; custom intervals: `custom_load_manager.cc` | as above, and schedules | change the rate, hand out schedules, wait for a context, sleep, send | a notification reset without the lock; a worker running before it has a schedule | serial sequences have one request out; the queue is not empty when taken from |
| Schedules: `rate_schedule.h`, `request_rate_manager.cc`, `custom_request_schedule_manager.cc` | intervals, rounds | build, deal out, next | empty schedules, boundaries of rounds | the workers together follow the one schedule asked for |
| Periodic concurrency: `periodic_concurrency_*.cc` | periods to come, steps, completed requests, a promise | launch a set, period completed, request completed | callbacks launch workers; a counter written inside and outside the mutex | sets follow periods, 'end' is not exceeded, the experiment ends |
| Session concurrency: `session_concurrency/` | next session index, chat histories, records | take a session, send its requests in turn | threads, the curl thread, exceptions in a thread | at most as many conversations as asked, each held once, every turn after the reply to the one before |
| `sequence_manager.cc` | sequence statuses, current id | new sequence, next id, data stream | check-then-act on the ids of others | open sequences have different ids |
| `inference_profiler.cc` | windows, trials, records, server statistics | search, measure, determine stability, summarize, merge | records that straddle windows, early exit inside a wait, versions and caches of ensembles | each request is counted in one window, only stable levels are reported, the search ends |
| `metrics_manager.cc` | a query thread and its buffer | start, query, swap, stop | stop racing the wait | the stop returns; a sample belongs to its level |
| `mpi_utils.cc` | none | barriers, broadcasts | ranks that leave the loop at different times | ranks meet in every broadcast |
| `perf_analyzer.cc`, `main.cc` | parameters, objects, `early_exit` | set up, profile, report, export, signal handler | what is refused where; SIGINT | nothing unsupported reaches the load; exit status 0 hides no error |
| `command_line_parser.cc` | parameters | options in order, defaults, checks | options that overwrite or presuppose each other | what the managers are started with is consistent |
| `model_parser.cc` | a model's description | ensembles, BLS models, scheduler, shapes | recursion over composing models | a load that fits the model |
| `data_loader.cc`, `infer_data_manager*.cc` | values of inputs and outputs, shared memory | read, generate, validate, prepare, choose | streams of different lengths, batches, optional and shape tensors, a call that fails half-way | a request carries the data of its step; shared memory is given back |
| `client_backend/openai/` | two request maps, a wake-up, the curl handles | send, collect, transfer, respond | a request handed over while the curl thread falls asleep or leaves | every request is answered once |
| `client_backend/triton_c_api/` | library handles, server, statistics | load, infer, respond, release | the server's callbacks overtake the sender and each other | no use after free, no lost update |
| `client_backend/tensorflow_serving/`, `torchserve/`, `dynamic_grpc/` | one client for all requests of a context | prepare, send, read | what a request leaves behind for the next | a request sends its own data |
| `client_backend/client_backend.cc` and the kinds | which calls a kind overrides | create, call | an unsupported call in mid-load | it is refused before the load |
| Report writer, JSON export, utilities, CUDA loader | values read once | write, convert | little: sequential | see "Not modelled" |
| `genai-perf`, templates, tools | | a front end around perf_analyzer | | not part of the load generator |

Components interact in four ways. The driver parses, builds and calls one after
the other. The profiler calls a manager (warm-up, then the next level or rate, in
the end the destructor). A manager and its workers share `ThreadConfig`,
`execute_`, `early_exit`, `wake_signal_` and `wake_mutex_`. A worker and the
client's callback threads share the ongoing counter, the tracker, `notified_` and
`cb_mtx_`.

PROJECT.json lists the components, and under "hazards" what is hard to test in
them, line by line.

## Modules

The load:

| Module | Models | Role |
|---|---|---|
| `ThreadShares` | the split of a level, a number of sequences or a request count over threads | operators |
| `LoadWorker` | `LoadManager`, `LoadWorker`, `InferContext`, trackers, remaining queries of the sequence statuses, SIGINT | state and actions common to the two modes below |
| `ConcurrencyLoad` | `ConcurrencyManager`, `ConcurrencyWorker` | extends LoadWorker; `Spec`, `FairSpec` |
| `RequestRate` | `RequestRateManager`, `RequestRateWorker`, `CustomLoadManager` | extends LoadWorker; `RateSpec`, `RateFairSpec` |
| `Schedules` | constant, Poisson, custom and fixed schedules, how they are dealt out, `RateSchedule::Next` | timestamps, which `RequestRate` leaves out |
| `PeriodicConcurrency` | `PeriodicConcurrencyManager`, `PeriodicConcurrencyWorker` | `Spec`, `FairSpec` |
| `SessionPool` | what session concurrency promises | abstract specification |
| `Sessions` | `session_concurrency/` | extends ChatClient; implements `SessionPool` |

The measurement and the set-up:

| Module | Models | Role |
|---|---|---|
| `Profiling` | `InferenceProfiler`, `MetricsManager`, `ProfileDataCollector`, `AllMPIRanksAreStable` | search, windows, records, metrics thread, two ranks |
| `ServerStats` | `DetermineStatsModelVersion`, `SummarizeServerStats`, `MergeServerSideStats` | the server's figures over windows |
| `CommandLine` | `CLParser` | an option as a function on the parameters |
| `ModelParser` | `ModelParser` | a model configuration to a description |
| `Backends` | which operations each service kind supports | operators |
| `Setup` | `main`, `PerfAnalyzer`, the managers' creation, SIGINT | composes the three above |
| `DataLoader` | `DataLoader` | reading, generating, validating |
| `InputData` | `InferDataManager`, `InferDataManagerShm`, `SequenceManager`, the choice of data in `InferContext` | extends DataLoader; from files to requests |
| `Preparation` | what is settled before a request is sent | composes `Setup`, `InputData` and `Schedules` |

The clients:

| Module | Models | Role |
|---|---|---|
| `ChatClient` | `HttpClient` with its curl thread, `ChatCompletionClient` | state and actions; who calls it is left open |
| `ChatLoad` | a concurrency worker's context on `ChatClient`: request records, several responses | composes the two |
| `InProcess` | `TritonLoader`, `TritonCApiClientBackend`, shared memory | library, server, requests, callbacks |
| `TFServeClient`, `TorchServeClient`, `DynamicGrpcClient` | the clients of that name | state a client keeps between requests |
| `RemoteClients` | a context that calls one of the three | composes them |

`MCConcurrencyLoad`, `MCSetup` (command lines and models), `MCInputData` (data
sets), `MCPreparation` (these and schedules), `MCSessions` and `MCChatLoad` give
constants their values for TLC. `Preparation`, `MCProfiling` (`Profiling`,
`ServerStats`) and `MCClients` (`InProcess`, `RemoteClients`) put several
questions into one run: a behaviour is one of one of their specifications,
chosen in the initial state, and the variables of those that were not chosen stay
what they are. (Where such a specification has fairness, it is that of `Profiling`
or `InProcess`; the liveness properties are only about the behaviours of these.
Safety is about all.)

The theorems are in `LoadWorkerProofs` (what the two modes of `LoadWorker` share),
`ConcurrencyLoadProofs`, `RequestRateProofs`, `PeriodicConcurrencyProofs`,
`ProfilingProofs`, `ClientsProofs` (`InProcess`, `RemoteClients`), `ChatProofs` (`ChatLoad`,
`Sessions`) and `PreparationProofs`.

### How state and steps correspond to the code

Each thread has a program counter (`mpc` for the main thread, `pc[w]` for a
worker, `cb[w]` for a stream's callback). A step is the longest stretch of code
within which no other thread's step makes a difference; where the code reads or
writes a shared flag without the lock, or releases a lock, a step ends. So

* setting `execute_` or `early_exit` and `notify_all` are two steps
  (`ResumeSequenceWorkers`/`NotifyWorkers`, `StopWorkerThreads`/`StopNotify`);
* waiting on `wake_signal_` is three: test the predicate with the mutex held
  (`TestExecute`, `TestConcurrency`), go to sleep and release it (`Sleep`), be
  woken (`WakeAll`). `wakeHolder` is the owner of `wake_mutex_` in between;
* `ReconfigThreads` launches the threads and then, holding `wake_mutex_`, stores what
  each of them is to do. A worker reads `concurrency_` without the mutex, so the stores
  of `concurrency_`, of the offset and of `num_requests_` are three steps
  (`ConfigureThreads`, `StoreOffsets`, `StoreRequestCounts`), in the meantime `Main` is the
  holder of the mutex, and a thread that was just launched may run between them;
* `ProfileHelper` discards the records so far (`DiscardRecords`) after the workers were woken;
* an asynchronous `SendRequest` is two: `AsyncInfer` (`SendAsync`) and the
  increment of `total_ongoing_requests_` (`CountOngoing`), and a callback is two:
  the record and the decrement, and `AsyncCallbackFinalize`, so that either can
  come between the other's halves;
* `WaitForFreeCtx` is three: look at the tracker, reset `notified_`, wait;
* `num_incomplete_periods_--` is a load and a store (`LoadIncomplete`,
  `StoreIncomplete`) under the mutex, because the first set is counted without it;
* in `ChatClient` the curl thread collects new requests under the mutex, performs
  (one step per callback of curl: body, header, piece, completion), and goes to
  sleep in `curl_multi_poll`; a wake-up that came before is not lost (`wakeup`);
* in `InProcess` a response callback of the server is the response itself
  (`Respond`) and the completion callback, which takes the mutex of the statistics
  (`LockStat`); the call that submitted the request has its own steps
  (`SendEnd`, `GetCompleted`, `UpdateInferStat`);
* in `Profiling` a response is a step that takes its timestamp and one that stores it
  in its thread's records (`Respond`, `Store`), and the swap of the records is a step
  of the main thread between others; the metrics thread queries, then waits, and
  tests `should_keep_querying_` when it wakes up.

The driver, the command line, the data and the schedules are sequential: one step
per option, per phase, per file, per step of data, per timestamp, each of which may
be refused where the code can refuse it.

What is abstracted. In the load modules requests and data have no content and
time is not modelled: a sleep takes any time, a schedule is the rate it was
made for, and `EndMeasure` is a wait of any length or, with `--request-count`, for
as many answers as were recorded since `DiscardRecords`. `Profiling` has time relative to the window (before, in, after),
and takes what the load produces from there: a record with a stamp. `InputData`
has the content, one value per tensor; `Sessions` the chat history, one
value per message. `num_sent_requests_` saturates where no comparison can tell the
difference (`SentCap`); sequence lengths come from a set; `Setup`'s file paths are
whether the file is there and what kind it is. Latencies and percentages are small
integers. The client library, curl, the servers and MPI are external: a request is
refused, or answered after any time, with an error or without, and with `MayLose`
the callback may fail to read the response. In `LoadWorker` a request has one
response; `PeriodicConcurrency`, `ChatLoad`, `Sessions` and `InProcess` have several.

The names `TypeOK`, `RateTypeOK`, `PeriodicTypeOK`, `ProfilingTypeOK`,
`SessionsTypeOK` and `ChatLoadTypeOK` are the modules' type invariants. They can be
added to the configurations' invariants. Those of `ConcurrencyLoad`, `RequestRate` and
`ChatLoad` are theorems (`TypeCorrect`, `RateTypeCorrect`, `ChatLoadTypeCorrect`); the
other inductive invariants contain the types that their proofs need.

## Runs

| Run | Instance | Checks |
|---|---|---|
| `SequenceAsyncRising` | 2 threads, asynchronous sequences of 2 requests, levels 1 and then 3 | `HandedOverWhole`, `QuietWhenPausedOrDone` |
| `SequenceSync` | 2 threads, synchronous sequences of 1 or 2 requests, levels 1 and then 2; fair | `PauseCompletes` |
| `NonSequenceCounted` | 2 threads, level 2, 3 requests, warm-up of 1, SIGINT, failed and lost responses, failed sends | `IdsConserved`, `OngoingAccounted`, `NoRequestOutlivesRun`, `RequestCountKept` |
| `CountedThreadEnds` | 1 thread, level 2, 3 requests, warm-up of 2, the same faults; fair | `CountedRunStops`, `InterruptStopsWorkers` |
| `RateOpenLoop` | 2 threads, 2 rates, up to 2 requests out, no SIGINT; fair, deadlock checked | `ScheduleGiven`, `MainNeverStuck` |
| `RateSequences` | 1 thread, 3 serial sequences, asynchronous, 6 requests, warm-up of 2, SIGINT, all failures | `NotIssuedWhileOutstanding`, `TrackerNeverEmpty` |
| `PeriodicSets` | range 2:4:2, period 1, 2 responses, one failed context, send or response, SIGINT; fair | `LaunchedWithinEnd`, `SetsInOrder`, `ExperimentEnds` |
| `Sessions` | session concurrency 1, 2, 4; 4 payloads in 3 sessions; flawed payloads, a refusing server, a stream; fair | `RecordsKept`, `DiesOnlyOfFault`, `ImplementsPool` |
| `ChatLoad` | 2 of 3 requests out, 5 kinds of answer, SIGINT; fair | `BookkeepingFaithful`, `OrderlyRunEnds` |
| `Clients` | `MCClients`: in-process server, 2 threads, 2 requests, up to 2 responses each; or 4 requests through a client of the three other kinds; fair | `NoUseAfterFree`, `AnswersComplete`, `StatsExact`, `SendsItsOwn`, `Answered` |
| `Profiling` | `MCProfiling`: 9 settings of the profiler; 6 ensembles over up to 3 windows; fair | `RecordsConserved`, `BracketHolds`, `WindowsFaithful`, `ReportedIsStable`, `SearchEnds` |
| `Preparation` | `MCPreparation`: 13 command lines, each with any 2 of about a hundred options, 6 models; or data sets, models and options, up to 4 requests of each context; or one of 73 schedules, 1 to 3 workers | `ParametersConsistent`, `RefusedBeforeLoad`, `ExitStatusTruthful`; `RequestFaithful`, `RoundsCoverData`, `RegionsReleased`, `OpenIdsDistinct`; `OnSchedule` |

Several properties are conjunctions of named parts that belong together:
`HandedOverWhole` (`QuiescentReconfig`, `IndexInRange`), `MainNeverStuck`
(`PauseCompletes`, `InterruptEndsRun`), `SetsInOrder` (`StepAfterPeriod`, `RecordsComplete`),
`WindowsFaithful` (`WindowsInStep`, `ServerFiguresFaithful`), `RecordsKept`
(`RecordAlive`, `RecordsComplete`), and others are introduced where they are defined.

A send that fails, or a callback that cannot read its response, leaves its request
counted as ongoing for ever (`Leaked`). `CountedRunStops` and `InterruptStopsWorkers`
excuse the workers that then wait for it, and say that there is no other reason to
wait. With counts, `IdsConserved` allows a worker that was refused to drop its id; the
exact balance, without counts, is proved for all instances (`ConservationCorrect`).
`RequestCountKept` is what `--request-count` comes to: a thread that was just launched may
send without a limit until `num_requests_` is stored for it (the finding on
`RequestCountRespected`), and from then on it sends no more than its part.
`NonSequenceCounted.cfg` with both counts 0, `MaxContexts` 3 and `Levels` {1, 3} is the
instance in which the level changes under all faults.

Why the bounds are enough.

* The load. Two threads give a level that does not divide evenly and a thread
  whose share, offset or state differs from the other's; three contexts let a worker
  own two sequences; two levels or rates are one change, the smallest run in which
  state of one level survives into the next. With one thread the third sequence of
  `RateSequences` is what lets a dropped, a restored and a waiting id be three
  different ones. Two sets of two workers make the completions of one set interleave
  with the launch of the next, and a period of one response with two of them lets
  a worker's period end before its final response. `CountedThreadEnds` has
  one thread, since its properties are about each worker by itself; two are in
  `NonSequenceCounted`, as far as safety goes, where their liveness is out of TLC's reach.
  `SequenceAsyncRising` has no faults: what it checks is proved with all of them.
* Schedules. One, two and three workers, with none, fewer, as many and more sequences
  or timestamps than workers; a list whose length divides the number of workers or
  not; two rounds at least (`MaxTimestamps`).
* Sessions and chat. Two threads compete for three sessions, one of which has two
  turns; four requests are more than two threads have at once, so that the curl
  thread goes to sleep and is woken. Each answer ends, breaks off or goes on after
  its end once.
* `InProcess`. Two requests of different threads are enough for two callbacks to meet
  at the statistics and for one to overtake its sender. `HealthIters` polls are 3.
* `RemoteClients`. Four requests use two sets of data twice; what one request leaves
  behind meets the next of the same and of the other set.
* `InputData`. Data of 1 to 5 steps with batches of 1 to 3, so that a batch divides
  the data, does not, or is larger; two streams where the first is the longer or the
  shorter; two or three sequences in an id range that has room or just enough.
* `Profiling`. Levels up to 5 make the bisection take more than one turn in either
  direction; three trials are the least a stable level needs, 4 and 5 leave room
  for an unstable or failed one. Latencies of 10, 11 and 12 with a limit of 11 lie
  below, at and above the limit and yet within 10 % of each other, so that a stable
  level may have a window above the limit. A binary search has no request count, since the
  command line refuses a count with more than one level. Stamps have four values:
  before, in and after a window and none.
* Command lines. Checks of `VerifyOptions` are about one option or two, on top of
  what a base command line of each service kind and load mode sets; values lie on
  both sides of each check. `LevelBound` cuts an open range.

`MaxInFlight`, `MaxResponses`, `MaxFailures`, `Word`, `SentCap`, `MaxTimestamps`,
`MaxWindows`, `MaxExecutions`, `MaxRequests`, `MaxCalls`, `MaxExtra`, `LevelBound`,
`SizeLimit` and `NarrowLimit` bound what is unbounded or large in the code and are
named in the guards that use them; `Word` and `SizeLimit` are the moduli at which
counters wrap.

Fairness. Weak fairness of every thread of the program: threads are scheduled.
Weak fairness of each context's callbacks: the server answers what it accepted.

* `ConcurrencyLoad`, `RequestRate`: the decision to profile another level is not fair,
  nor is the end of a measurement or of profiling, except after an interrupt: then a
  measurement that can end does end (a time window passes, a count is reached, or an
  unhealthy worker is seen), and a profiler that has returned lets the destructor run.
  A measurement that counts requests is not made to end by `early_exit`, and in the
  code it does not: that is the finding on `InterruptEndsRun`.
* `Sessions`, `ChatLoad`: the transfer of each request is strongly fair. The curl
  thread performs all transfers in turn and sleeps in between, so a transfer is
  enabled again and again and not all the time; curl returns to every transfer that
  has something to do.
* `InProcess`: taking the mutex of the statistics (`LockStat`) is strongly fair, since a
  mutex is enabled only while nobody holds it; that of the C++ library does not
  starve a waiting thread in the models' few rounds. Everything else is weakly fair.
* `Profiling`: the passing of time is fair, and a worker's responses as long as the
  run was not interrupted (`ReportedIsStable` and `SearchEnds` hold without responses
  after it: workers leave).
* `SessionPool`: a pool that has not given up proceeds. `ImplementsPool` includes this.

No strong fairness is used in the load modules: a worker waits for a mutex only
against a holder that will release it.

Deadlock is not checked where the program as it stands can hang (`SequenceAsyncRising`,
`SequenceSync`, `NonSequenceCounted`, `CountedThreadEnds`, `RateSequences`,
`PeriodicSets`: the "about" of each run says where), and in `Sessions` and `ChatLoad`,
which stop when the program has ended or
has terminated.

The refinement. `Sessions` implements `SessionPool`. The abstract conversation of a
session is what the server has been told and has said: the body of the latest
request recorded for it, followed by the responses in that record. The abstract turn
is the number of its records, the open sessions are those some thread is in the
middle of, and the pool has given up when the program has terminated. So the body
that is sent must be the whole conversation so far, and a thread that took the
next request before the reply, or took a session twice, would not be a step of the
pool. Every other step, those of the curl thread among them, is a stutter, and the
abstract fairness follows from the detailed one.

Assumptions about time. `PeriodicConcurrency` has a switch for the one assumption
that mode depends on. With `SlowServer` a worker is not through its period
before the main thread has counted the first set, and has not had its final
response before it has left its send loop. Without it, `ExperimentEnds` fails: a period
that ends too early is counted down from a value that is then overwritten, and a final
response that comes too early hands the id back to a loop that sends again
(the finding on `OneRequestOnly`). With it, that a worker sends once would be no more than that
one id is taken once, so it is only checked without. `LaunchedWithinEnd` is checked for start = step, where
the 'start' that the code leaves out of its sum makes no difference; for start > step it fails.

## Findings

Where the code and what it says of itself part. These are properties that the modules
define and TLC finds violated when they take the place of the properties of a
configuration, with the constants given here; where none are given, those of the
configuration named.

| Property | Code | Configuration |
|---|---|---|
| `InterruptEndsRun`: after SIGINT the analyzer "waits for in-flight inferences to complete before exiting", but with `--request-count` the measurement polls for requests that no worker will send any more | `inference_profiler.cc:1238` | `ConcurrencyLoad`, `FairSpec`: `MaxThreads` 1, `MaxContexts` 1, `Levels` {1}, `RequestCount` 2, SIGINT |
| `NoRequestOutlivesRun`: the "analyzer waits for in-flight inferences to complete before exiting", but a worker whose share has fallen to 0 in a binary search leaves with its request out | `concurrency_worker.cc:138` | `ConcurrencyLoad`, `Spec`: `MaxThreads` 3, `MaxContexts` 3, `Levels` {1, 2, 3}, `Search` "binary", asynchronous, no sequences, no counts, no faults |
| `RequestCountRespected`: "How many requests to generate before stopping", but a thread sees its concurrency before its request count is stored, and the 0 it finds is no limit | `concurrency_worker.cc:130` | `ConcurrencyLoad`, `Spec`: `MaxThreads` 1, `MaxContexts` 1, `Levels` {1}, `RequestCount` 1, no faults |
| `CountReached`: "the experiment will run for exactly X requests", but the answers that come before the records are discarded are missing in the end, and `Measure` waits for them for ever | `inference_profiler.cc:727` | the same |
| `RequestCountRespected`: in request-rate mode a worker whose part of the count is 0 has no limit | `load_worker.cc:44` | `RequestRate`, `RateSpec`: `MaxThreads` 2, `MaxContexts` 1, `Tracker` "Rand", `Rates` 1, `MaxInFlight` 1, `RequestCount` 1, no faults |
| `WarmupEnds`: a warm-up of less requests than there are request-rate workers never ends, for the same reason | `request_rate_manager.cc:262` | the same with `RateFairSpec`, `RequestCount` 2, `WarmupCount` 1 |
| `OneRequestOnly`: the periodic worker "issues one request only", but a final response that is quicker than its send loop makes it send another | `concurrency_worker.cc:167` | `PeriodicSets` with 1:2:1, 1 or 2 responses, `SlowServer` FALSE |
| `LevelReached`: `ChangeConcurrencyLevel` is to adjust the number of concurrent requests to the level, but the tracker of a worker that already has its one context is never refilled | `concurrency_worker.cc:151` | `MCConcurrencyLoad`, `FairSpec`: `MaxThreads` 1, `MaxContexts` 2, `Levels` {1, 2}, no counts, no faults |
| `PauseCompletes`: "Wait to see all threads are paused" may wait for ever, for an asynchronous sequence worker that has nothing in flight and waits for a response | `concurrency_worker.cc:175` | the same with `OnSequenceModel`, `Tracker` "Fifo", `SeqLengths` {1, 2} |
| `NotIssuedWhileOutstanding`: with `--serial-sequences`, after a change of the rate, two requests of one sequence can be at the server, because a callback restores its id after the tracker was refilled | `request_rate_worker.cc:118` | `RequestRate`, `RateSpec`: `MaxThreads` 1, `MaxContexts` 1, `Rates` 2, no counts, no faults |
| `LaunchedWithinEnd`: with start > step more requests are launched than 'end' | `periodic_concurrency_manager.cc:85` | `PeriodicSets` with 2:3:1, `Period` 2, 2 or 3 responses |
| `MetricsOfThisLevel`: metrics collected after the last window of a level are averaged into the next level's | `metrics_manager.cc:159` | `Profiling`, `Spec`, `Configs <- MetricsConfigs` |
| `WindowClamped`: the clamped window of `--request-count` is computed and dropped | `inference_profiler.cc:1296` | `Profiling`, `Spec`, `Configs <- CountedConfigs` |
| `SearchEnds`: when the statistics of the first window cannot be read, polling is started again while it runs, and the assignment waits for the loop it replaces | `metrics_manager.cc:56` | `Profiling`, `Spec`, `Configs <- StatsConfigs` |
| `CacheHitsMerge`: windows in which every request hit the response cache do not merge with others for a nested ensemble | `inference_profiler.cc:978` | `Profiling` |
| `UncalledTolerated`: a composing model that is not called in a window makes the window fail | `inference_profiler.cc:1609` | `Profiling` |
| `OngoingIsOutstanding`: after an error every piece of a stream counts as a final response | `infer_context.cc:351` | `ChatLoad` with `Requests` {1, 2}, `Answers <- TidyAnswers` |
| `ValidationAligned`: expected outputs are taken modulo the length of stream 0 whatever the stream | `infer_data_manager_base.cc:157` | a module that extends `InputData` and `MCInputData`, with the constants of `Preparation` and `Jobs <- MCJobs` |
| `SomethingReported`: a search that has found no level, since the first one is over the latency limit or the custom intervals never became stable, ends with success and exit status 0, and nothing is reported | `inference_profiler.h:299` | `Preparation` |
| `OpenSearchChecked`: checks and sizes take the end of an open range, 0, for its value | `perf_analyzer.cc:183` | `Preparation` |
| `FailureReported`: a failed asynchronous in-process response is told as a success | `client_backend/triton_c_api/triton_loader.cc:1122` | `Clients` |
| `CallFailureTold`: a dynamic gRPC call that ended with an error is told as a success | `client_backend/dynamic_grpc/dynamic_grpc_client.cc:130` | `Clients` |
| `NarrowZeroPadded`: a value of one or two bytes is sent with undefined upper bytes | `client_backend/tensorflow_serving/tfserve_grpc_client.cc:588` | `Clients` |

`report_writer.cc:73` opens the file of `-f` and does not look whether that worked: with
a path that cannot be written the run ends with status 0 and without the file. `Setup`
has it as a choice (`WriteReport`), and no property is about the file.

Other configurations of the same modules show more of this kind, recorded as
hazards: with a binary search over levels 1 to 3 on an asynchronous sequence model with two
threads, a worker whose `is_paused_` was stale comes to the next pause with fewer
contexts than its share; the pause fills its tracker for that share, and when the share
then falls the ids stay (`IndexInRange`); with
`MayLose` a send that
fails stays counted and the interrupted run does not end (`InterruptEndsRun`);
with one serial sequence and two rates a notification that `WaitForFreeCtx`
erases stops the next pause (`PauseCompletes`). In `RateOpenLoop` with
`MayInterrupt` a SIGINT between the launch of the workers and their first schedule
lets them ask for a timestamp without one (`ScheduleGiven`), and one between the
profiler's last look at `early_exit` and `PauseWorkers` lets them leave without ever
setting `is_paused_`, so that the pause does not end (`MainNeverStuck`). In `Profiling`, a rank of an MPI run
whose worker fails leaves the other one waiting in a broadcast: add "worker" to the
faults of the MPI setting (`WindowsFaithful`).

## Proofs

All theorems hold for every value of the constants that the modules' assumptions
admit; those are what the command line accepts and that the sizes are natural
numbers.

`LoadWorkerProofs` is what the two modes of `LoadWorker` have in common. `ShareType`
and `SharesPartition`: the shares are natural numbers, the closed form of the offset
satisfies the recurrence of the code's loop and ends at the total, so that the parts
are disjoint and cover everything. `LoadInv` and a lemma `...Keeps` for each shared
action say what no step of a worker or a callback disturbs: where a worker is,
against what it holds (`Holding`: an id is held at three places only, `is_paused_` is
set at four); in synchronous mode the only request out is the one the worker is
blocked on (`SyncFlights`); and `OngoingAccounted`, inductive once the request that
was sent and not counted yet is taken off (`Uncounted`), which is why the counter may
be negative. With it a worker that finds the sum at 0 has nothing out, which is
`QuietWhenPausedOrDone`.

`ConcurrencyLoadProofs`: `TypeCorrect`, `OngoingCorrect`, `QuietCorrect`,
`ConservationCorrect`, `CountCorrect`, `HandOverCorrect`, `NothingOutlives`, from one
inductive invariant in layers, each proved from those below it.

* `Basic`: `LoadInv`; what the main thread is doing implies that there is a level and
  a thread (`ManagerControl`, or the division by the number of threads would be
  undefined).
* `Parts`: from the moment it was stored, every launched thread has its part of the count.
  With one level, and no less requests than it has threads, no part is 0, so that
  `ShouldExit` holds a worker to it, whatever it has sent before: `RequestCountKept`.
* `Plain`: without sequences only context 0 is used (`OneContext`), a worker
  without a context has no ids (`NoContextNoIds`), nobody has a quota unless one
  was asked for (`Unlimited`). `IdsConserved` needs all three: an id is dropped
  only by a worker that is refused, and that one is on its way out.
* `Growing`, for levels that only rise (`Rising`: a linear search, or a single level):
  every thread has its share of the level, or a smaller one while the level is being
  changed (`Spread`, from `ShareRises`: no share shrinks when the level grows), and
  uses only contexts of its share (`OwnIds`). A worker can leave without waiting
  only while its share is 0, so that it has never sent: `NoRequestOutlivesRun`. Its offset
  is the sum of the shares before it, or less while they are changed (`Placed`).
* `Sequences`: the ranges of the threads are disjoint, every open sequence is a
  context's of one thread (`OpenOwned`), a worker that is paused or leaving has closed
  its own (`Closed`), and one whose `is_paused_` the main thread has seen sends nothing
  until `execute_` is set, whether it is still paused or was interrupted (`PauseSeen`).
  When all were seen, nothing is out or open, and it stays so while the three stores are
  made and ranges overlap (`StoresQuiet`): `HandedOverWhole`.

`Rising` is a real restriction and not a convenience. In a binary search the level, and
with it a thread's share, may fall to 0 with requests out, and both properties fail
(see Findings).

`RequestRateProofs`: `RateTypeCorrect`, `RateOngoingCorrect`, `RateQuietCorrect`,
`TrackersNeverEmpty`; `RateCountRespected`, when the count and the warm-up leave no worker
without a part (each is 0 or not below the number of workers), and the findings show the opposite
where one has none; `SchedulesGiven`, when there is no SIGINT
and no unusable schedule; `OneRequestPerSequence`, with serial sequences and one rate.
`RateBase` has the places of the threads, that a worker without a schedule has not got
past the wait for `execute_` (`SchedulesKept`), and that an id a worker has seen, or was
notified of, is still there when it takes it (`IdsReady`): only the worker itself
takes ids. `SerialInv` says that the ranges of the threads are disjoint, that of each
context at most one is true of: its id is free, taken, its request out, its callback
about to give it back (`OneEach`), and that a worker has nothing out, and no sequence
is open, before it begins. With one rate `execute_` is set once, so no worker resets
its tracker between the halves of a callback, which is what the finding needs a
second rate for. A worker that is leaving is exempt from `OneEach`: the requests that
close its sequences go out on contexts that may have one at the server.

`PeriodicConcurrencyProofs`, under `SlowServer`: `RangeRespected` and
`SetsLaunchedInOrder`. Both also need start <= step: the test in
`PeriodCompletedCallback` leaves 'start' out, and only then does another set fit
(`RoomForTheSet`, from (end - start) % step = 0). The invariant adds who owns a
running launch loop (`LoopOwned`, `LaunchMutex`, `FirstSetAlone`), since
otherwise two sets could be launched through one counter. The second theorem
ties both counters to the workers, by cardinalities: `num_completed_requests_` to those
with a final response (`CompletedCounted`), and `num_incomplete_periods_`, or what a
callback has read of it, to the launched requests that are not through their period
(`PeriodsCounted`); that a worker has one request, so one final response, follows from
`FinalAfterLoop`: the id comes back only after the loop that could take it. At 0 there is none, and at 'end' all are complete.

`ProfilingProofs`, about `Profiling` without `ServerStats`, for every setting that the
command line accepts, however many levels, windows, faults and interrupts:

* `RecordsAreConserved`: the balance of the responses that got a timestamp against the
  records with their threads, stored, kept and taken, as bags of stamps.
* `PollingIsStopped` (`PollingInv`): only the start of an experiment's first window
  waits for a loop that is being replaced, and the running one is joined before the
  report and at the end.
* `StatisticsCoverTheirWindow` (`WindowInv`): the readings of the statistics are those of
  the window, or older after a failed window.
* `BracketIsKept` (`BracketInv`): a case for each of the three turns of the search. It
  needs start < end and step > 0. The parser also accepts start = end, where a level is
  measured twice, and step 0, with which the search need not end.
* `ReportsAreStable` is an action property: the step that reports a level. `StableInv`
  keeps the agreement of the windows from the judgement to the report. With a limit, the
  code compares the latency merged over the windows, and the windows agree; that each
  of them is within the tolerance of the limit is a lemma about weighted means
  (`LimitCovers`).

`ClientsProofs`: of `InProcess`, `FreedMemoryUnused`, `CallersAnswered`, `StatisticsExact`. A request's
AsyncRequestInfo lives exactly until its final response (`InfoControl`), results are one
behind the responses while one is being handled (`ResultControl`), a thread between
preparing and being answered works on a request of its own (`ThreadControl`), and
between the load and the store of the count its mutex is held (`StatControl`); `Infer`,
which has no mutex, needs a single thread, and `StatsExact` says so. Assumed of the
calls (`JobsOK`): a decoupled model is called asynchronously, which
`perf_analyzer.cc:176` checks.

Of `RemoteClients`, `RequestsSendTheirOwn`, for any number of requests and any inputs,
batches and datatypes. The invariant is what a request leaves behind for the next: the
tensors of the shared `PredictRequest` are those of the last prepared one
(TensorFlow Serving), the stream is new and has only its own messages (dynamic gRPC), the
mime handle and the file are given back on every path (TorchServe). That a tensor holds
all the batch's bytes, and a call all its messages, are lemmas about the folds and
flattenings that build them, by induction on the length. Assumed (`CallsAssumption`): the
inputs of a request have different names, and at least one buffer each, all of one length,
as `InferDataManager` makes them.

`ChatProofs`: of `ChatLoad`, `BookkeepingCorrect`, `ChatLoadTypeCorrect`, for any number of
requests and any set of answers.

* `ClientInv`: what came of an answer is its beginning, a stream keeps nothing in the
  buffer, and a request in transit has sent its final response only if its stream said so
  (`TransferOK`, `RunningOK`). Requests are made once, in order, and the curl thread
  knows only such.
* `RecordInv`: the context has an entry for a request as long as it has not seen the
  final response, with the responses so far; until something fails, that is exactly
  what the client has sent. A record is made of a complete entry, once.
* `CountInv`: the counter equals the requests outstanding modulo its width, less the
  one that was sent and is about to be counted. It is stated for `Orderly` runs, which,
  once they are not, are never again (`OrderlyStays`).

Of `Sessions`, `SessionRecordsKept`, `SessionsDieOnlyOfFault` and `SessionsImplementPool`, for
any payloads, sessions, flaws and answers and any number of threads. The invariant has
two halves (`SessionInv`): what is true while the program lives (`Live`), and what is left
of it when it has been terminated.

* `PlacesOK`, `PhasesOK`: every payload has one place in one session, no session is with two
  threads, and where its thread is tells of each payload of a session whether it is new,
  out or done. `OfSession` says that the loop that groups the payloads puts each of them
  into its own session, in file order: by induction on the payloads.
* `EntriesOK`: a payload that was sent has one entry among the threads' records, with the
  body that was sent and, when it is done, its response. The entry of one that is out is
  the last of its thread's. What `GetRequestRecords` gathers at the end is the concatenation
  of these vectors; that nothing is lost or doubled in it is an induction on the threads.
* `HistoriesOK`: a thread's history is the body of its last request, with the reply if that
  one is done; so the next body is the whole conversation.
* `CountOK`: the completed requests counted are those that are done.

The refinement is step by step (`PoolSafe` is `SessionPool` without its fairness). A session's
talk, in the mapping, is taken from the record with the highest index; with `EntriesOK`
and `HistoriesOK` that is what the thread's history says (`TalkIsSaid`). Then taking a
session is `Open`, sending is `Ask`, the completion's callback is `Reply`, the end of the
last wait is `Close`, whatever terminates the program or makes `MakeThreads` throw is
`GiveUp`, and every other step leaves all of the mapping as it was.
Assumed (`SessionsAssumption`): there is one request per payload, and a concurrency has its
threads.

`PreparationProofs`: `IdsAreDistinct`, `RequestsAreFaithful`, `RoundsCoverAllData`,
`SharedMemoryReleased`, `ScheduleIsFollowed`, `ExitStatusIsTruthful`,
`LoadCallsSupported`, `StartedConsistently`, for any command lines,
models, data sets and schedules. Since a
behaviour of `Preparation` is one of one part, each invariant is about the variables of
its part and is kept by the steps of the others, which leave these alone.

* Ids. Each thread takes the counter's value and increments it under no common lock, but
  in one step, so that until the range has been gone through a value is given once
  (`FirstRound`): the ids in use, and those taken and not in use yet, are below the
  counter and different. After that round the code compares with the ids of other
  sequences that are still in use, and the property says nothing more.
* Data. A file's elements are read one file after the other; `Holds` says of the data
  loader that it has the tensors of the steps of the elements so far, at their stream and
  step, and no others (`Filled`), with the numbers of streams and steps (`Numbered`), and
  `ParseHolds` that a file that is accepted is added to them (`StreamsAdd`, `StepsAdd`,
  `PlacesAdd`: streams go behind the streams, steps behind the steps of stream 0). Its
  validation data have the layout of its data, so as long as no file lacks them, the
  loader has the expected output of every step (`HoldsExpected`). `LoadInv` is this up to
  the file read last, and that the inputs of each step are prepared as the batch that
  starts there, at once or region by region (`Prepared`).
* Requests. What is prepared for the position of a request modulo the number of steps is
  what the files have from that position on (`UpdateCarries`, where the wrap-around of a
  batch meets that of the position: `RestAdds`), and with no stream longer than the first
  the outputs are those of the same step (`UpdateExpects`). So it remains to follow the
  positions (`RequestsInv`): a context's step is its thread plus its requests times the
  threads (`ContextOK`), a sequence's is what its length exceeds the remaining queries by,
  also when the last request is pulled forward (`SequenceOK`, `Sendable`), and each batch
  that a context has passed was sent (`Covered`). Every position below k rounds is in one
  of these batches, by dividing it by the batch size and then by the threads
  (`QuotientBelow`).
* Regions. Those that exist are those whose making succeeded, in order, until the
  destructor has released them (`RegionsKept`), and outside a run there is nothing
  (`QuietOutsideRun`). What may be left over is the memory of the one that failed.
* Schedules. Of the list while it is made, `StampsOK` says that each timestamp is the sum
  of the intervals so far (constant rates and interval files), that none is before the one
  ahead of it, or that it is the data's (fixed schedules). Once it is complete, it is a
  whole number of rounds over the thread ids and over the intervals (`WholeRounds`). What
  a worker is dealt lists the positions whose turn it is (`DealtLists`, `PartIs`); these
  come round with the list (`ThreadTurns`), so that the list with its length added round
  after round goes through them without end (`EndlessList`), and a worker's k-th
  timestamp is that of the k-th such position (`PositionIs`). Since the duration of a
  round is the last of all timestamps (`DurationIs`), what `RateSchedule::Next` adds is
  what the intervals add up to (`SumRounds`). In the state, `GivenOK` keeps `index_` and
  `rounds_` the remainder and the quotient of the number of calls. A fixed schedule gives
  each thread every T-th timestamp (`EveryNth`), as many as it has requests.
* Exit status. What was written and printed is known at each phase after the profile
  (`DeliveryInv`), where an error without a SIGINT has ended the run. That something was
  found to report is claimed for searches without a latency limit and with a range only,
  and nothing of the file of `-f`: see Findings.
* Refusals. The parser can only choose a kind there is (`OptionKeepsKind`, a case for
  each group of options), `VerifyOptions` leaves what a kind's backend can be asked to
  do (`Vetted`), and `CreateAnalyzerObjects`, which still changes `async`, leaves it so
  (`Created`).
* Consistency. `Chosen` holds from the first option on (numbers are numbers, a range that
  was given has its mode, a periodic one does not fall; `OptionKeepsChosen` has a case
  for each group of options), `Counted` from the end of the option loop on, `Levelled` and
  `CountFits` are what `VerifyOptions` adds, and `Settled` is what
  `CreateAnalyzerObjects` makes of them and of the manager. The last three keep open
  ranges, whose end is 0, apart: for them the checks say less, which is where
  `OpenSearchChecked` fails.

Assumed are `JobsOK`: the first sequence id is not 0, which `VerifyOptions` sees to; a batch
is not 0, which the parser refuses (TensorFlow Serving without `-b`, which sets it to 0, is
left out), and is 1 for sequences, which `CreateAnalyzerObjects` checks; the lengths drawn
are not 0; no stream of a file is empty, and unless some input is required the files have
some data, without which the code divides by the number of steps, 0. `OptionsOK`: texts that were converted to numbers are numbers, and `PlansOK`: a constant
rate has one interval and it is not 0, an intervals file has one at least (the code refuses
an empty one) and none that is negative, and a fixed schedule is not for a sequence model.
That none is negative is a demand on the file, not a check of the code, and the theorem
needs it: the duration of a round is the latest of the last timestamps, which with a
negative interval need not be what a round adds up to. The timestamps of a fixed schedule
are read as unsigned numbers, and what a Poisson schedule draws is not negative.

Only model-checked:

* All liveness properties, and with them the progress that `ImplementsPool` promises:
  fairness and ENABLED are out of the prover's reach.
* Two parts of `WindowsFaithful`: `RanksInStep` holds for the settings of the run only,
  since two ranks part when the latency limit or a failed worker stops one of them, and
  `ServerFiguresFaithful` is about RECURSIVE operators. The other two, `PollingStopped`
  and `StatsCoverWindow`, are the theorems above.

The library's induction theorems have an operator as parameter, which the installed provers
cannot instantiate. Where a proof is by induction over data (the groups of payloads, the
folds of the clients, the loops of a schedule, the files of a data set), it goes by the least element of the set of counterexamples
instead (`LeastNatural`, `Induction`); for that, the loops concerned are recursive
functions in the modules. RECURSIVE operators remain out of reach.

## Not modelled

* Report writer, JSON export, the printed report, percentiles, standard deviations
  and overhead figures: what one thread computes from a finished result. That the
  summary is printed, that the file of `-f` may or may not be written, and that an export is
  written, or fails, is in `Setup`.
* JSON data that overwrite `status_`: with them a request is preceded by
  `UpdateSeqJsonData`, whose result replaces the status of an earlier send, so that a worker
  may forget an error. In `LoadWorker` a bad status stays.
* Negative numbers that `std::stoull` wraps around.
* Two short cuts of the data code: after a tensor named `message_generator` the rest of a
  step's tensors is not read, and of a shape tensor among the outputs one element is
  compared. The models have no such output, and that input is their last.
* Comparison of a response's outputs with the expected ones (`InferContext::ValidateOutputs`):
  `InputData` has which outputs are expected, not the bytes.
* Idle time of the workers and the sum of the client library's statistics.
* TensorFlow Serving's asynchronous calls: the command line refuses `--async` there.
* A fixed schedule for a sequence model: `CustomRequestScheduleManager` never
  initializes the sequence statuses, so that no such run gets anywhere; `PlansOK`
  leaves it out. Rates above 10^9, whose interval is 0, are left out too: the
  schedule's loop would not end. So are negative intervals in a file, which `std::stol`
  reads and nothing refuses.
* Data with a stream that has no steps, or files without any data for a model whose
  inputs are all optional, where the code divides by zero.
* The second SIGINT, which calls `exit`.
* Conversion of JSON numbers to bytes, random data, parsing of the Prometheus
  metrics text and of HTTP headers.
* MPI: the loading of the library and the forwarding of calls to it. CUDA loader and
  `cuda_runtime_library_manager.cc`: dynamic loading.
* The Triton client backend forwards to the Triton client library, which is not part
  of the repository; what a context can observe of it is modelled, and so are the
  statistics it parses.
* The mock backend is a test double. `genai-perf` is a separate Python program.
  `doctest.h` is a vendored test framework.

## Plan

What the plan has left: a bound on what a thread may send before its request count is
stored, and what a binary search on a sequence model keeps of `HandedOverWhole`.
