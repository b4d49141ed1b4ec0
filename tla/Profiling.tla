------------------------------ MODULE Profiling ------------------------------
(***************************************************************************)
(* The inference profiler: the search over load levels                     *)
(* (InferenceProfiler::Profile<T>), the experiment at each level           *)
(* (ProfileHelper), its measurement windows (Measure, Summarize), the      *)
(* thread that polls the server's metrics meanwhile (MetricsManager), the  *)
(* agreement of the MPI ranks and the collector of the exported records.   *)
(*                                                                         *)
(* Times are relative to the start of the window being measured: 0 is that *)
(* instant, 1 any later one up to the window's end, 2 one after the end,   *)
(* -1 anything before the start.  A request record is its end time; one    *)
(* whose only response was empty has the stamp EMPTY.  Records are         *)
(* interchangeable, so a collection of them is a bag [Stamps -> Nat].      *)
(***************************************************************************)
EXTENDS Integers, Sequences, FiniteSetsExt

CONSTANTS
    Configs,        \* the settings of a run, see Config
    StabilityPct,   \* stability_threshold, in per cent
    NO_LIMIT        \* the range end and the latency limit that mean "none"

\* The search and its range; the options that matter here; which faults may
\* happen; and two bounds: the records on their way or waiting, and the
\* stabilizing latencies that windows show.
Config == [mode : {"NONE", "LINEAR", "BINARY"}, start : Nat, end : Nat,
           step : Nat, counted : BOOLEAN, countWindows : BOOLEAN,
           limit : Nat, async : BOOLEAN, metrics : BOOLEAN,
           server : BOOLEAN, mpi : BOOLEAN, max_trials : Nat \ {0},
           faults : SUBSET {"interrupt", "worker", "stats", "metrics"},
           records : Nat, latencies : SUBSET (Nat \ {0})]

ASSUME ProfilingAssumption ==
    /\ StabilityPct \in Nat /\ NO_LIMIT \in Nat
    /\ Configs \subseteq Config

VARIABLES
    cfg,        \* the run's settings
    pc,         \* the step of the main thread that is next
    search,     \* the levels of Profile<T>: this one, the bracket, the turn
    met,        \* level -> whether it met the threshold when last measured
    statuses,   \* perf_statuses: what was reported for which level
    collected,  \* ProfileDataCollector::experiments_, by level
    wins,       \* the last three windows of the experiment
    trials,     \* completed_trials
    first,      \* previous_window_end_ns_ = 0
    stable,     \* *is_stable
    staleStats, \* prev_server_side_stats_ predates the window's start
    clock,      \* the time, relative to the window's start
    pend,       \* responses with a timestamp whose record is not stored yet
    stored,     \* the threads' request_records_
    kept,       \* all_request_records_
    balance,    \* responses stamped less records taken into a window
    metrics,    \* MetricsManager: keep, samples, and the state of its loops
    health,     \* no worker thread has failed
    early_exit, \* SIGINT has been received
    rank,       \* what each MPI rank broadcast, window by window
    peer,       \* what the other rank is doing
    outcome     \* how Profile<T> ended

records == <<clock, pend, stored, kept, balance>>
window == <<wins, trials, first, stable, staleStats>>
results == <<search, met, statuses, collected>>
world == <<rank, peer>>
vars == <<cfg, pc, results, window, records, metrics, health, early_exit,
          world, outcome>>

EMPTY == 9
Stamps == {-1, 0, 1, 2, EMPTY}
Bag == [Stamps -> Nat]
NoRecords == [s \in Stamps |-> 0]

\* How many records of a bag have their stamp in S, and how many there are.
Count(b, S) == LET n(s) == IF s \in S THEN b[s] ELSE 0
               IN  n(-1) + n(0) + n(1) + n(2) + n(EMPTY)
Total(b) == Count(b, Stamps)
Union(a, b) == [s \in Stamps |-> a[s] + b[s]]

\* The same records seen from a window that starts at the instant base.
Rebase(b, base) ==
    [s \in Stamps |->
        IF s = EMPTY THEN b[EMPTY]
        ELSE Count(b, {t \in Stamps \ {EMPTY} : Max({-1, t - base}) = s})]

Windows == [ok : BOOLEAN, ips : Nat, lat : Nat, tags : SUBSET {"this", "old"},
            wide : BOOLEAN, end : {0, 1}]
FailedWindow == [ok |-> FALSE, ips |-> 0, lat |-> 0, tags |-> {},
                 wide |-> FALSE, end |-> 0]

\* Mutant: the oldest window is dropped one window late.
Last3Late(s) == IF Len(s) > 4 THEN Tail(s) ELSE s

\* The queues of errors and reports hold stability_window entries.
Last3(s) == IF Len(s) > 3 THEN Tail(s) ELSE s
SeqRange(s) == {s[i] : i \in DOMAIN s}

ProfilingTypeOK ==
    /\ cfg \in Config
    /\ pc \in {"apply", "top", "begin", "rejoin", "status", "sleep", "closing",
               "judge", "exchange", "after", "stop", "join", "settle", "next",
               "barrier", "destroy", "done"}
    /\ trials \in 0 .. cfg.max_trials
    /\ Len(wins) <= 3 /\ \A i \in DOMAIN wins : wins[i] \in Windows
    /\ first \in BOOLEAN /\ stable \in BOOLEAN /\ staleStats \in BOOLEAN
    /\ clock \in 0 .. 2 /\ pend \in Bag /\ stored \in Bag /\ kept \in Bag
    /\ Total(pend) + Total(stored) <= cfg.records
    /\ metrics.loop \in {"none", "query", "wait", "thrown", "ended"}
    /\ metrics.orphan \in {"none", "query", "wait", "thrown", "ended"}
    /\ outcome \in {"none", "ok", "error", "exception", "terminate"}

Init ==
    /\ cfg \in Configs
    /\ pc = "apply"
    /\ search = [level |-> cfg.start, lo |-> cfg.start, hi |-> cfg.end,
                 turn |-> "first"]
    /\ met = << >> /\ statuses = << >> /\ collected = {}
    /\ wins = << >> /\ trials = 0
    /\ first = TRUE /\ stable = FALSE /\ staleStats = FALSE
    /\ clock = 0
    /\ pend = NoRecords /\ stored = NoRecords /\ kept = NoRecords
    /\ balance = 0
    /\ metrics = [keep |-> FALSE, loop |-> "none", orphan |-> "none",
                  samples |-> {}, taken |-> {}]
    /\ health = TRUE /\ early_exit = FALSE
    /\ rank = [me |-> << >>, peer |-> << >>]
    /\ peer = "measure"
    /\ outcome = "none"

-----------------------------------------------------------------------------
(* The environment: worker threads, the clock, the signal.                 *)

\* A response arrives: its record gets its last timestamp, and is stored
\* under the thread's mutex afterwards.
Respond ==
    /\ health
    /\ outcome = "none"
    /\ Total(pend) + Total(stored) < cfg.records
    /\ \E s \in {clock, EMPTY} :
          /\ s = EMPTY => cfg.records > 1 /\ pend[EMPTY] + stored[EMPTY] = 0
          /\ pend' = [pend EXCEPT ![s] = @ + 1]
    /\ balance' = balance + 1
    /\ UNCHANGED <<cfg, pc, results, window, clock, stored, kept, metrics,
                   health, early_exit, world, outcome>>

Store ==
    /\ outcome = "none"
    /\ \E s \in Stamps :
          /\ pend[s] > 0
          /\ pend' = [pend EXCEPT ![s] = @ - 1]
          /\ stored' = [stored EXCEPT ![s] = @ + 1]
    /\ UNCHANGED <<cfg, pc, results, window, clock, kept, balance, metrics,
                   health, early_exit, world, outcome>>

\* Time passes while the main thread sleeps and while it closes a window; its
\* other steps take none at this resolution.
Tick ==
    /\ pc \in {"sleep", "closing"}
    /\ clock < (IF pc = "closing" THEN 2 ELSE 1)
    /\ clock' = clock + 1
    /\ UNCHANGED <<cfg, pc, results, window, pend, stored, kept, balance,
                   metrics, health, early_exit, world, outcome>>

SignalHandler ==
    /\ "interrupt" \in cfg.faults /\ ~early_exit /\ outcome = "none"
    /\ early_exit' = TRUE
    /\ UNCHANGED <<cfg, pc, results, window, records, metrics, health, world,
                   outcome>>

\* A request fails: thread_stat->status_ or cb_status_ is no longer Ok.
WorkerFails ==
    /\ "worker" \in cfg.faults /\ health /\ outcome = "none"
    /\ health' = FALSE
    /\ UNCHANGED <<cfg, pc, results, window, records, metrics, early_exit,
                   world, outcome>>

-----------------------------------------------------------------------------
(* MetricsManager.  "loop" is the thread of query_loop_future_, "orphan"   *)
(* the thread of a future that is being assigned over: the assignment      *)
(* waits for it.                                                           *)

Running(l) == l \in {"query", "wait"}

\* QueryMetricsEveryNMilliseconds: a query, whose error is thrown into the
\* future, then the wait for the interval or a notification, then the flag.
\* The sample goes to metrics_ under its mutex.
QueryLoop ==
    /\ \E l \in {"loop", "orphan"} :
          \/ /\ metrics[l] = "query"
             /\ \/ metrics' = [metrics EXCEPT ![l] = "wait",
                                              !.samples = @ \cup {"this"}]
                \/ /\ "metrics" \in cfg.faults
                   /\ metrics' = [metrics EXCEPT ![l] = "thrown"]
          \/ /\ metrics[l] = "wait"
             /\ metrics' = [metrics EXCEPT ![l] = IF metrics.keep
                                                  THEN "query" ELSE "ended"]
    /\ UNCHANGED <<cfg, pc, results, window, records, health, early_exit,
                   world, outcome>>

StartQueryingMetrics(m) ==
    [m EXCEPT !.keep = TRUE, !.loop = "query", !.orphan = m.loop]

\* CheckQueryingStatus: get() consumes the future of a loop that is over.
CheckQueryingStatus(m) ==
    IF m.loop \in {"thrown", "ended"} THEN [m EXCEPT !.loop = "none"] ELSE m

GetLatestMetrics(m) == [m EXCEPT !.samples = {}, !.taken = m.samples]

-----------------------------------------------------------------------------
(* One measurement window.                                                 *)

\* Measure returned: its result is queued, the oldest of four dropped.
Push(w) == wins' = Last3(Append(wins, w))

MeasureFails ==
    /\ pc' = "judge" /\ Push(FailedWindow)

\* ProfileHelper's loop: an unhealthy worker ends the experiment at once.
CheckHealth ==
    /\ pc = "top"
    /\ IF health THEN pc' = "begin" /\ UNCHANGED outcome
                 ELSE pc' = "barrier" /\ outcome' = "error"
    /\ UNCHANGED <<cfg, results, window, records, metrics, health,
                   early_exit, world>>

\* The first window starts now, starts the polling of metrics and reads the
\* statistics, which may fail; later ones start where the last one ended.
BeginFirstWindow ==
    /\ pc = "begin" /\ first
    /\ clock' = 0
    /\ pend' = Rebase(pend, clock) /\ stored' = Rebase(stored, clock)
    /\ kept' = Rebase(kept, clock)
    /\ metrics' = IF cfg.metrics THEN StartQueryingMetrics(metrics)
                                 ELSE metrics
    /\ pc' = "rejoin"
    /\ UNCHANGED <<cfg, results, window, balance, health, early_exit, world,
                   outcome>>

\* The assignment to query_loop_future_ is over when the loop it replaces
\* is; then GetServerSideStatus and GetAccumulatedClientStat.
ReadStartStats ==
    /\ pc = "rejoin" /\ ~Running(metrics.orphan)
    /\ metrics' = [metrics EXCEPT !.orphan = "none"]
    /\ \/ pc' = "status" /\ staleStats' = FALSE /\ UNCHANGED wins
       \/ /\ cfg.server /\ "stats" \in cfg.faults
          /\ MeasureFails
          /\ UNCHANGED staleStats
    /\ UNCHANGED <<cfg, results, trials, first, stable, records, health,
                   early_exit, world, outcome>>

BeginWindow ==
    /\ pc = "begin" /\ ~first
    /\ pc' = "status"
    /\ UNCHANGED <<cfg, results, window, records, metrics, health, early_exit,
                   world, outcome>>

CheckMetrics ==
    /\ pc = "status"
    /\ metrics' = CheckQueryingStatus(metrics)
    /\ IF metrics.loop = "thrown" THEN MeasureFails
                                  ELSE pc' = "sleep" /\ UNCHANGED wins
    /\ UNCHANGED <<cfg, results, trials, first, stable, staleStats, records,
                   health, early_exit, world, outcome>>

\* The window's time is over, or, with count windows, enough records wait:
\* the end is noted and the metrics are taken.
CloseWindow ==
    /\ pc = "sleep" /\ clock = 1
    /\ cfg.countWindows => health /\ Total(stored) > 0
    /\ pc' = "closing"
    /\ first' = FALSE
    /\ metrics' = GetLatestMetrics(metrics)
    /\ UNCHANGED <<cfg, results, wins, trials, stable, staleStats, records,
                   health, early_exit, world, outcome>>

\* A count window looks after the workers' health as long as it waits.
CountWindowFails ==
    /\ pc = "sleep" /\ cfg.countWindows /\ ~health
    /\ MeasureFails
    /\ UNCHANGED <<cfg, results, trials, first, stable, staleStats, records,
                   metrics, health, early_exit, world, outcome>>

\* The next window starts at this one's end.
NextWindow(c, p, s, k) ==
    /\ clock' = c - 1
    /\ pend' = Rebase(p, 1) /\ stored' = Rebase(s, 1) /\ kept' = Rebase(k, 1)

\* Mutant: the statistics of the experiment's start are kept.
PrevStatsKept(wasRead) == TRUE

\* prev_server_side_stats_ moves on with every statistics that were read.
PrevStats(wasRead) == ~wasRead

\* GetServerSideStatus fails after the end was noted: prev_server_side_stats_
\* and the records stay as they are.
ReadEndStatsFails ==
    /\ pc = "closing" /\ cfg.server /\ "stats" \in cfg.faults
    /\ NextWindow(clock, pend, stored, kept)
    /\ staleStats' = PrevStats(FALSE)
    /\ MeasureFails
    /\ UNCHANGED <<cfg, results, trials, first, stable, balance, metrics,
                   health, early_exit, world, outcome>>

\* ValidLatencyMeasurement: the records that end within the window are taken
\* out and counted, the empty ones only taken out.
Valid == {0, 1}

Taken(b) == Count(b, Valid \cup {EMPTY})

Remaining(b) == [s \in Stamps |-> IF s \in Valid \cup {EMPTY} THEN 0
                                  ELSE b[s]]

\* Mutant: the records of earlier windows are dropped by the next insert.
GatherFresh(s, k) == s

\* SwapRequestRecords, appended to all_request_records_.
Gather(s, k) == Union(s, k)

\* SummarizeLatency, SummarizeClientStat and the statistics' difference: no
\* valid request is an error, and so are missing server statistics.
SummarizeWindow(b, lat) ==
    IF Count(b, Valid) = 0 THEN FailedWindow
    ELSE [ok |-> TRUE, ips |-> Count(b, Valid), lat |-> lat,
          tags |-> metrics.taken, wide |-> staleStats,
          end |-> IF b[1] > 0 THEN 1 ELSE 0]

Summarize ==
    /\ pc = "closing"
    /\ LET all == Gather(stored, kept)
       IN  /\ NextWindow(clock, pend, NoRecords, Remaining(all))
           /\ balance' = balance - Taken(all)
           /\ \/ \E lat \in cfg.latencies : Push(SummarizeWindow(all, lat))
              \/ cfg.server /\ "stats" \in cfg.faults /\ Push(FailedWindow)
    /\ collected' = collected \cup {search.level}
    /\ staleStats' = PrevStats(TRUE)
    /\ pc' = "judge"
    /\ UNCHANGED <<cfg, search, met, statuses, trials, first, stable, metrics,
                   health, early_exit, world, outcome>>

-----------------------------------------------------------------------------
(* The verdict on the windows so far.                                      *)

WithinPct(vals) == 100 * Max(vals) <= (100 + StabilityPct) * Min(vals)

\* Mutant: windows without a throughput count as well.
DetermineStabilityOfAny(checkLatency) ==
    /\ Len(wins) = 3
    /\ checkLatency => WithinPct({w.lat : w \in SeqRange(wins)})

\* DetermineStability with CheckWindowForStability: three windows, each with
\* a throughput, whose extremes are within the threshold.
DetermineStability(checkLatency) ==
    /\ Len(wins) = 3
    /\ \A w \in SeqRange(wins) : w.ips # 0
    /\ WithinPct({w.ips : w \in SeqRange(wins)})
    /\ checkLatency => WithinPct({w.lat : w \in SeqRange(wins)})

\* A failed window has the largest latency there is.
OverLimit ==
    /\ Len(wins) = 3
    /\ cfg.limit # NO_LIMIT
    /\ \E w \in SeqRange(wins) : ~w.ok \/ w.lat >= cfg.limit

\* The loop of ProfileHelper goes on, or not.
NextTrial(done) ==
    IF done THEN pc' = "after" /\ UNCHANGED trials
    ELSE /\ trials' = trials + 1
         /\ pc' = IF ~early_exit /\ trials + 1 < cfg.max_trials THEN "top"
                                                           ELSE "after"

\* With a request count there is one window, stable by definition.  In an
\* MPI run the rank first broadcasts its verdict.
Judge ==
    /\ pc = "judge"
    /\ stable' = (cfg.counted \/ DetermineStability(TRUE))
    /\ IF cfg.mpi /\ ~cfg.counted
       THEN /\ pc' = "exchange"
            /\ rank' = [rank EXCEPT !.me = Append(@, stable')]
            /\ UNCHANGED trials
       ELSE /\ NextTrial(stable' \/ OverLimit)
            /\ UNCHANGED rank
    /\ UNCHANGED <<cfg, results, wins, first, staleStats, records, metrics,
                   health, early_exit, peer, outcome>>

\* Mutant: the rank's own verdict is enough.
OwnRankIsStable ==
    /\ pc = "exchange"
    /\ Len(rank.peer) >= Len(rank.me)
    /\ NextTrial(stable \/ OverLimit)
    /\ UNCHANGED <<cfg, results, wins, first, stable, staleStats, records,
                   metrics, health, early_exit, world, outcome>>

\* AllMPIRanksAreStable: a broadcast from every rank; it returns when every
\* other rank has come to the same broadcast.
AllMPIRanksAreStable ==
    /\ pc = "exchange"
    /\ Len(rank.peer) >= Len(rank.me)
    /\ NextTrial(\/ stable /\ rank.peer[Len(rank.me)]
                 \/ OverLimit)
    /\ UNCHANGED <<cfg, results, wins, first, stable, staleStats, records,
                   metrics, health, early_exit, world, outcome>>

\* The other rank runs the same loop over its own windows.
PeerJudges ==
    /\ cfg.mpi /\ peer = "measure"
    /\ Len(rank.peer) < cfg.max_trials
    /\ \E s \in BOOLEAN : /\ s => Len(rank.peer) >= 2
                          /\ rank' = [rank EXCEPT !.peer = Append(@, s)]
    /\ peer' = "exchange"
    /\ UNCHANGED <<cfg, pc, results, window, records, metrics, health,
                   early_exit, outcome>>

PeerExchanges ==
    /\ peer = "exchange"
    /\ LET n == Len(rank.peer)
       IN  /\ Len(rank.me) >= n
           /\ \/ peer' = IF (rank.me[n] /\ rank.peer[n]) \/ n = cfg.max_trials
                         THEN "barrier" ELSE "measure"
              \/ cfg.limit # NO_LIMIT /\ n >= 3 /\ peer' = "barrier"
    /\ UNCHANGED <<cfg, pc, results, window, records, metrics, health,
                   early_exit, rank, outcome>>

-----------------------------------------------------------------------------
(* The end of an experiment and the search over the levels.                *)

\* Mutant: the polling is left running.
AfterLoopPolling ==
    /\ pc = "after"
    /\ stable' = (stable \/ (cfg.async /\ DetermineStability(FALSE)))
    /\ pc' = "settle"
    /\ UNCHANGED <<cfg, results, wins, trials, first, staleStats, records,
                   metrics, health, early_exit, world, outcome>>

\* An asynchronous run whose throughput is stable may have a latency that
\* is not.
AfterLoop ==
    /\ pc = "after"
    /\ stable' = (stable \/ (cfg.async /\ DetermineStability(FALSE)))
    /\ pc' = IF cfg.metrics THEN "stop" ELSE "settle"
    /\ UNCHANGED <<cfg, results, wins, trials, first, staleStats, records,
                   metrics, health, early_exit, world, outcome>>

\* Mutant: the loop is notified, the flag stays.
NotifyOnly(m) == m

\* should_keep_querying_ and the notification, without the mutex.
StopQueryingMetrics(m) == [m EXCEPT !.keep = FALSE]

Stop ==
    /\ pc = "stop"
    /\ metrics' = StopQueryingMetrics(metrics)
    /\ pc' = "join"
    /\ UNCHANGED <<cfg, results, window, records, health, early_exit, world,
                   outcome>>

\* query_loop_future_.get() waits for the loop, and throws what it threw.
Join ==
    /\ pc = "join" /\ ~Running(metrics.loop)
    /\ metrics' = [metrics EXCEPT !.loop = "none"]
    /\ IF metrics.loop = "thrown"
       THEN pc' = "done" /\ outcome' = "exception"
       ELSE pc' = "settle" /\ UNCHANGED outcome
    /\ UNCHANGED <<cfg, results, window, records, health, early_exit, world>>

\* MergePerfStatusReports: the latencies of all windows together.
MergedLatency ==
    LET ips(i) == IF i \in DOMAIN wins THEN wins[i].ips ELSE 0
        lat(i) == IF i \in DOMAIN wins THEN wins[i].lat ELSE 0
    IN  (ips(1) * lat(1) + ips(2) * lat(2) + ips(3) * lat(3))
            \div (ips(1) + ips(2) + ips(3))

Report(w) == [level |-> search.level,
              tags |-> UNION {w[i].tags : i \in DOMAIN w}]

\* An error of the last windows or an interrupt fails the experiment;
\* otherwise a stable one under the latency limit is reported, and Report
\* throws when the server's counts do not agree.
Settle ==
    /\ pc = "settle"
    /\ LET failed == early_exit \/ \E w \in SeqRange(wins) : ~w.ok
           meets == stable /\ ~(/\ cfg.limit # NO_LIMIT
                                /\ MergedLatency >= cfg.limit)
       IN  IF failed
           THEN pc' = "barrier" /\ outcome' = "error"
                /\ UNCHANGED <<met, statuses>>
           ELSE /\ met' = [l \in DOMAIN met \cup {search.level} |->
                               IF l = search.level THEN meets ELSE met[l]]
                /\ statuses' = IF meets THEN Append(statuses, Report(wins))
                               ELSE statuses
                /\ \/ pc' = "next" /\ UNCHANGED outcome
                   \/ meets /\ cfg.server /\ "stats" \in cfg.faults
                      /\ pc' = "done" /\ outcome' = "terminate"
    /\ UNCHANGED <<cfg, search, collected, window, records, metrics, health,
                   early_exit, world>>

Finish(how) == pc' = "barrier" /\ outcome' = how /\ UNCHANGED search
Continue(s) == pc' = "apply" /\ search' = s /\ UNCHANGED outcome

\* LINEAR: from start to end by step while the levels meet the threshold.
NextLinear ==
    LET next == search.level + cfg.step
    IN  IF (next <= cfg.end \/ cfg.end = NO_LIMIT) /\ met[search.level]
        THEN Continue([search EXCEPT !.level = next])
        ELSE Finish(IF search.level = cfg.start /\ ~stable THEN "error"
                    ELSE "ok")

\* Mutant: the half that is kept is the other one.
HalveOther(s) ==
    IF met[s.level] THEN [s EXCEPT !.hi = s.level]
    ELSE [s EXCEPT !.lo = s.level]

Halve(s) ==
    IF met[s.level] THEN [s EXCEPT !.lo = s.level]
    ELSE [s EXCEPT !.hi = s.level]

\* BINARY: start, then end, then the middle of the bracket.
NextBinary ==
    LET now == IF search.turn = "bisect" THEN Halve(search)
               ELSE [search EXCEPT !.turn = "bisect"]
    IN  IF search.turn = "first"
        THEN IF met[search.level]
             THEN Continue([search EXCEPT !.level = cfg.end, !.turn = "last"])
             ELSE Finish("ok")
        ELSE IF (search.turn = "last" /\ met[search.level])
                \/ now.hi - now.lo <= cfg.step
             THEN pc' = "barrier" /\ outcome' = "ok" /\ search' = now
             ELSE Continue([now EXCEPT !.level = (now.hi + now.lo) \div 2])

NextLevel ==
    /\ pc = "next"
    /\ CASE cfg.mode = "NONE" -> Finish("ok")
         [] cfg.mode = "LINEAR" -> NextLinear
         [] cfg.mode = "BINARY" -> NextBinary
    /\ UNCHANGED <<cfg, met, statuses, collected, window, records, metrics,
                   health, early_exit, world>>

\* The level's warmup, and its load; then ProfileHelper starts afresh.
ApplyLevel ==
    /\ pc = "apply"
    /\ \/ pc' = "top" /\ UNCHANGED outcome
       \/ "worker" \in cfg.faults /\ pc' = "barrier" /\ outcome' = "error"
    /\ wins' = << >> /\ trials' = 0 /\ first' = TRUE /\ stable' = FALSE
    /\ stored' = NoRecords /\ kept' = NoRecords
    /\ balance' = Total(pend)
    /\ metrics' = [metrics EXCEPT
                     !.samples = IF @ = {} THEN {} ELSE {"old"}]
    /\ UNCHANGED <<cfg, results, staleStats, clock, pend, health, early_exit,
                   world>>

\* PerfAnalyzer::Profile's second barrier, and the destructor of the metrics
\* manager, which joins a loop that is still there.
Barrier ==
    /\ pc = "barrier"
    /\ cfg.mpi => peer = "barrier"
    /\ metrics' = StopQueryingMetrics(metrics)
    /\ pc' = "destroy"
    /\ UNCHANGED <<cfg, results, window, records, health, early_exit, world,
                   outcome>>

Destroy ==
    /\ pc = "destroy" /\ ~Running(metrics.loop)
    /\ outcome' = IF metrics.loop = "thrown" THEN "terminate" ELSE outcome
    /\ metrics' = [metrics EXCEPT !.loop = "none"]
    /\ pc' = "done"
    /\ UNCHANGED <<cfg, results, window, records, health, early_exit, world>>

Finished == pc = "done" /\ UNCHANGED vars

Main ==
    \/ ApplyLevel \/ CheckHealth
    \/ BeginFirstWindow \/ ReadStartStats \/ BeginWindow \/ CheckMetrics
    \/ CloseWindow \/ CountWindowFails \/ ReadEndStatsFails \/ Summarize
    \/ Judge \/ AllMPIRanksAreStable
    \/ AfterLoop \/ Stop \/ Join \/ Settle \/ NextLevel
    \/ Barrier \/ Destroy

Next ==
    \/ Main
    \/ Respond \/ Store \/ Tick \/ SignalHandler \/ WorkerFails
    \/ QueryLoop
    \/ PeerJudges \/ PeerExchanges
    \/ Finished

\* Threads are scheduled, time passes, the metrics endpoint returns, and the
\* server answers as long as the workers send, which they do until SIGINT.
Fairness ==
    /\ WF_vars(Main) /\ WF_vars(Tick) /\ WF_vars(Store)
    /\ WF_vars(~early_exit /\ Respond) /\ WF_vars(QueryLoop)
    /\ WF_vars(PeerJudges \/ PeerExchanges)

Spec == Init /\ [][Next]_vars /\ Fairness

-----------------------------------------------------------------------------
(* Properties.                                                             *)

\* Every response that was timestamped in the experiment is in exactly one
\* place: on its way to its thread's records, there, kept for a later window,
\* or taken into one window, once.
RecordsConserved == balance = Total(pend) + Total(stored) + Total(kept)

\* A level is reported only on three successful windows (one, with a request
\* count) that are stable in throughput and, unless the run is asynchronous,
\* in latency.  The latency limit is compared with the windows' merged
\* latency: a single window may be over it, but by no more than the threshold.
ReportedIsStable ==
    [][statuses' # statuses =>
         /\ \A w \in SeqRange(wins) : w.ok /\ w.ips > 0
         /\ cfg.counted \/ /\ Len(wins) = 3
                           /\ WithinPct({w.ips : w \in SeqRange(wins)})
         /\ ~cfg.async /\ ~cfg.counted =>
              /\ WithinPct({w.lat : w \in SeqRange(wins)})
              /\ cfg.limit = NO_LIMIT
                 \/ \A w \in SeqRange(wins) :
                        100 * w.lat < (100 + StabilityPct) * cfg.limit
         /\ search.level \in collected]_vars

\* The bracket of a binary search: its lower end met the threshold, its upper
\* end did not, and it has shrunk to the step when the search is over.  The
\* parser also takes a range of one level and a step of 0, for which there is
\* no such bracket: a level is measured twice.
BracketHolds ==
    (cfg.mode = "BINARY" /\ cfg.start < cfg.end /\ cfg.step > 0
     /\ search.turn = "bisect"
     /\ ~(DOMAIN met = {cfg.start, cfg.end} /\ met[cfg.end])) =>
        /\ met[search.lo] /\ ~met[search.hi] /\ search.lo < search.hi
        /\ outcome = "ok" => search.hi - search.lo <= cfg.step

\* No thread polls the metrics once an experiment has reported, and the
\* process never ends with one.
PollingStopped ==
    pc \in {"settle", "next", "done"} =>
        /\ ~Running(metrics.loop) /\ ~Running(metrics.orphan)

\* The server's statistics of a window cover more than the window only when
\* the window before it failed: then its requests, which no window counts,
\* are in the server's figures and not in the client's.
StatsCoverWindow ==
    \A i \in DOMAIN wins : wins[i].wide =>
        (i > 1 => ~wins[i - 1].ok) /\ cfg.server

\* The ranks of an MPI run judge their windows in step, and a rank leaves the
\* experiment only where the other one does.
RanksInStep ==
    LET n == Len(rank.me)
    IN  cfg.mpi =>
          /\ n - Len(rank.peer) \in {-1, 0, 1}
          /\ pc \in {"after", "settle", "next", "barrier", "destroy",
                    "done"} =>
                \/ n = cfg.max_trials
                \/ n \in DOMAIN rank.peer /\ rank.me[n] /\ rank.peer[n]

\* The threads and ranks that take part in a measurement keep to its windows:
\* the metrics thread (PollingStopped), the server's statistics
\* (StatsCoverWindow) and the other MPI rank (RanksInStep).
WindowsInStep == PollingStopped /\ StatsCoverWindow /\ RanksInStep

\* Every search ends: max_trials_ bounds the windows of an experiment, the
\* range the experiments, and no step waits for ever.
SearchEnds == <>(pc = "done")

\* What the polling of metrics collected during an earlier level is in no
\* level's report.
MetricsOfThisLevel == \A i \in DOMAIN statuses : "old" \notin statuses[i].tags

\* With a request count the measured window ends with the last request.
WindowClamped ==
    cfg.counted => \A w \in SeqRange(wins) : w.ok => w.end = 1
=============================================================================
