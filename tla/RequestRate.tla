---------------------------- MODULE RequestRate ----------------------------
(***************************************************************************)
(* Request-rate mode: the RequestRateManager (the program's main thread)   *)
(* and its RequestRateWorker threads.  CustomLoadManager is the same       *)
(* manager with schedules read from a file, which may fail.                *)
(*                                                                         *)
(* For each rate the main thread pauses the workers, launches them if they *)
(* are not running yet, hands each one a new schedule, and wakes them.  A  *)
(* worker waits for a free context, takes the next timestamp of its        *)
(* schedule, sleeps until then and sends one request.  The schedules       *)
(* themselves are abstracted to the rate they were made for, and the sleep *)
(* to a step that takes any time.                                          *)
(***************************************************************************)
EXTENDS LoadWorker

CONSTANTS
    Rates,            \* how many request rates the profiler asks for
    MaxInFlight,      \* bound: requests of one context at the server
    MayLackSchedule   \* whether the intervals file may be unusable

ASSUME RatesAssumption ==
    /\ Rates \in Nat \ {0}
    /\ MaxInFlight \in Nat \ {0}
    /\ MayLackSchedule \in BOOLEAN

\* CtxIdTrackerFactory for request-rate mode: "Fifo" with --serial-sequences.
ASSUME RateTrackerAssumption ==
    /\ Tracker \in {"Fifo", "Rand"}
    /\ Tracker = "Fifo" => OnSequenceModel

\* The command line refuses a request count or a warm-up together with more
\* than one rate.
ASSUME RateCountsAssumption ==
    RequestCount # 0 \/ WarmupCount # 0 => Rates = 1

VARIABLE sched   \* the rate schedule_ of a worker was made for, 0: none yet

rateVars == <<vars, sched>>

DetermineNumThreads ==
    IF OnSequenceModel /\ MaxContexts < MaxThreads THEN MaxContexts
                                                   ELSE MaxThreads

\* Every variable keeps the type of the field it models: a worker never has
\* more contexts than there are sequence statuses, nor an id of no context.
RateTypeOK ==
    /\ mpc \in ManagerPc
    /\ level \in 0 .. Rates
    /\ warming \in BOOLEAN
    /\ checked \in 0 .. MaxThreads
    /\ threads \in {0, DetermineNumThreads}
    /\ execute \in BOOLEAN
    /\ earlyExit \in BOOLEAN
    /\ sched \in [Worker -> 0 .. Rates]
    /\ ConfigTypes
    /\ ThreadTypes
    /\ IdTypes
    /\ StatTypes
    /\ ContextTypes

RateInit == InitLoad /\ execute = FALSE /\ sched = Each(0)

-----------------------------------------------------------------------------
(* The main thread *)

\* InferenceProfiler::Profile for the next rate: the warm-up, if there is one,
\* then ChangeRequestRate, which begins with PauseWorkers.
BeginRate ==
    /\ mpc = "idle"
    /\ level < Rates
    /\ mpc' = "pausing"
    /\ level' = level + 1
    /\ warming' = (WarmupCount # 0)
    /\ checked' = 0
    /\ execute' = FALSE
    /\ UNCHANGED <<threads, discarded, earlyExit, wakeHolder, workerVars,
                   sched>>

\* One turn of the polling loop of PauseWorkers that sees the flag.
SeePaused ==
    /\ mpc = "pausing"
    /\ checked < threads
    /\ paused[checked]
    /\ checked' = checked + 1
    /\ UNCHANGED <<mpc, level, warming, threads, discarded, execute, earlyExit,
                   wakeHolder, workerVars, sched>>

\* The threads are configured and launched once, for all rates.
ConfigureThreads ==
    /\ mpc = "pausing"
    /\ checked = threads
    /\ mpc' = "schedule"
    /\ IF threads = 0
       THEN LET n == DetermineNumThreads
                Of(total, old) ==
                    [w \in Worker |->
                        IF w < n THEN Share(total, n, w) ELSE old[w]]
            IN  /\ threads' = n
                /\ conc' = Of(MaxContexts, conc)
                /\ offset' =
                      [w \in Worker |->
                          IF w < n THEN SeqStatIndexOffset(MaxContexts, n, w)
                                   ELSE offset[w]]
                /\ numReq' = Of(Quota, numReq)
                /\ pc' = [w \in Worker |-> IF w < n THEN "start" ELSE pc[w]]
       ELSE UNCHANGED <<threads, conc, offset, numReq, pc>>
    /\ UNCHANGED <<level, warming, checked, discarded, execute, earlyExit,
                   wakeHolder, paused, idVars, reqVars, sched>>

\* GenerateSchedule and GiveSchedulesToWorkers.  Where the intervals file is
\* unusable no schedule is given, and the manager goes on all the same.
GenerateSchedule ==
    /\ mpc = "schedule"
    /\ mpc' = "resume"
    /\ \/ sched' = [w \in Worker |-> IF w < threads THEN level ELSE sched[w]]
       \/ MayLackSchedule /\ UNCHANGED sched
    /\ UNCHANGED <<askVars, execute, earlyExit, wakeHolder, workerVars>>

\* ResumeWorkers: execute_ is set holding wake_mutex_ ...
ResumeWorkers ==
    /\ mpc = "resume"
    /\ wakeHolder = None
    /\ mpc' = "notify"
    /\ execute' = TRUE
    /\ UNCHANGED <<askVars, earlyExit, wakeHolder, workerVars, sched>>

\* ... and then all sleepers are notified.
NotifyWorkers ==
    /\ mpc = "notify"
    /\ mpc' = IF warming THEN "warmup" ELSE "discard"
    /\ WakeAll
    /\ UNCHANGED <<askVars, execute, earlyExit, wakeHolder, cfgVars, paused,
                   idVars, reqVars, sched>>

\* PerformWarmup returns, and ChangeRequestRate begins for the same rate.
EndWarmup ==
    /\ WaitForWarmupAndCleanup
    /\ execute' = FALSE
    /\ sched' = Each(0)

-----------------------------------------------------------------------------
(* A worker thread *)

ResetFreeCtxIds(w) == ResetTracker(w, nctx'[w])

\* Mutant: the loop that creates contexts goes on for one more.
ActiveContextsAndOne(w) == IF OnSequenceModel THEN conc[w] + 1 ELSE 2

\* active_ctx_cnt
ActiveContexts(w) == IF OnSequenceModel THEN conc[w] ELSE 1

\* CreateCtxIdTracker and CreateContexts.
CreateContexts(w) ==
    /\ pc[w] = "start"
    /\ nctx' = [nctx EXCEPT ![w] = ActiveContexts(w)]
    /\ ResetFreeCtxIds(w)
    /\ \/ UNCHANGED badStatus
       \/ MayFail /\ badStatus' = [badStatus EXCEPT ![w] = TRUE]
    /\ Goto(w, "top")
    /\ UNCHANGED <<mainVars, wakeHolder, cfgVars, paused, held, notified, sent,
                   badCb, ctxVars, rem>>

\* Mutant: the worker does not wait for the start of execution.
HandleExecuteOffDeaf(w) ==
    /\ pc[w] = "top"
    /\ Goto(w, "free")
    /\ paused' = [paused EXCEPT ![w] = FALSE]
    /\ UNCHANGED <<mainVars, wakeHolder, cfgVars, idVars, reqVars>>

\* HandleExecuteOff, its test of execute_.
HandleExecuteOff(w) ==
    /\ pc[w] = "top"
    /\ IF ~execute
       THEN Goto(w, "off") /\ UNCHANGED paused
       ELSE Goto(w, "free") /\ paused' = [paused EXCEPT ![w] = FALSE]
    /\ UNCHANGED <<mainVars, wakeHolder, cfgVars, idVars, reqVars>>

\* Nothing is ongoing: the tracker is refilled and the worker is paused.
DeclarePaused(w) ==
    /\ pc[w] = "offwait"
    /\ NoOngoingRequests(w)
    /\ UNCHANGED nctx
    /\ ResetFreeCtxIds(w)
    /\ SetPaused(w)
    /\ Goto(w, "offcheck")
    /\ UNCHANGED <<mainVars, wakeHolder, cfgVars, held, reqVars>>

Unpause(w) ==
    /\ pc[w] = "unpause"
    /\ paused' = [paused EXCEPT ![w] = FALSE]
    /\ Goto(w, "free")
    /\ UNCHANGED <<mainVars, wakeHolder, cfgVars, idVars, reqVars>>

\* IsAvailable of the trackers.
IsAvailable(w) == Tracker = "Rand" \/ free[w] # <<>>

\* WaitForFreeCtx looks at the tracker without cb_mtx_ ...
LookForFreeCtx(w) ==
    /\ pc[w] = "free"
    /\ Goto(w, IF IsAvailable(w) THEN "next" ELSE "reset")
    /\ UNCHANGED <<mainVars, wakeHolder, cfgVars, paused, idVars, reqVars>>

\* Mutant: notified_ is not reset, so that the wait can be over at once.
KeepNotified(w) == UNCHANGED notified

ClearNotified(w) == notified' = [notified EXCEPT ![w] = FALSE]

\* ... resets notified_, without cb_mtx_ either ...
ResetNotified(w) ==
    /\ pc[w] = "reset"
    /\ ClearNotified(w)
    /\ Goto(w, "wait")
    /\ UNCHANGED <<mainVars, wakeHolder, cfgVars, paused, idVars, sent,
                   badStatus, badCb, ctxVars, rem>>

\* ... and waits for a callback.
WaitForFreeCtx(w) ==
    /\ pc[w] = "wait"
    /\ notified[w]
    /\ notified' = [notified EXCEPT ![w] = FALSE]
    /\ Goto(w, "next")
    /\ UNCHANGED <<mainVars, wakeHolder, cfgVars, paused, idVars, sent,
                   badStatus, badCb, ctxVars, rem>>

\* SleepIfNecessary: a worker without a schedule dereferences a null pointer.
GetNextTimestamp(w) ==
    /\ pc[w] = "next"
    /\ Goto(w, IF sched[w] = 0 THEN "crashed" ELSE "take")
    /\ UNCHANGED <<mainVars, wakeHolder, cfgVars, paused, idVars, reqVars>>

\* GetCtxId.  Get of an empty queue throws, which ends the program.
GetCtxId(w) ==
    /\ pc[w] = "take"
    /\ IF Tracker = "Rand"
       THEN /\ \E c \in 0 .. nctx[w] - 1 : held' = [held EXCEPT ![w] = c]
            /\ Goto(w, "held")
            /\ UNCHANGED free
       ELSE IF free[w] # <<>>
       THEN /\ held' = [held EXCEPT ![w] = Head(free[w])]
            /\ free' = [free EXCEPT ![w] = Tail(free[w])]
            /\ Goto(w, "held")
       ELSE Goto(w, "crashed") /\ UNCHANGED <<held, free>>
    /\ UNCHANGED <<mainVars, wakeHolder, cfgVars, paused, granted, nctx,
                   reqVars>>

\* HandleExitConditions, at the end of each turn of Infer's loop.
CheckExit(w) ==
    /\ pc[w] = "send"
    /\ Goto(w, IF ShouldExit(w) THEN "exiting" ELSE "top")
    /\ UNCHANGED <<mainVars, wakeHolder, cfgVars, paused, idVars, reqVars>>

\* Not more than MaxInFlight requests of one context are at the server.
SendInBound(w) ==
    /\ pc[w] = "held" => inFlight[w][held[w]] < MaxInFlight
    /\ SendAsync(w) \/ SendSync(w)

-----------------------------------------------------------------------------
\* A worker thread's own steps.
WorkerStep(w) ==
    /\ \/ CreateContexts(w) \/ HandleExecuteOff(w) \/ CompleteForPause(w)
       \/ DeclarePaused(w) \/ TestExecute(w) \/ Sleep(w) \/ Unpause(w)
       \/ LookForFreeCtx(w) \/ ResetNotified(w) \/ WaitForFreeCtx(w)
       \/ GetNextTimestamp(w) \/ GetCtxId(w)
       \/ SkipSend(w) \/ SendInBound(w) \/ CountOngoing(w) \/ InferReturns(w)
       \/ CheckExit(w) \/ CompleteForExit(w) \/ LeaveInfer(w)
    /\ UNCHANGED sched

CallbackStep(w, c) == Callback(w, c) /\ UNCHANGED sched

\* The main thread's steps, other than its decision to try a rate.
ManagerStep ==
    \/ SeePaused \/ ConfigureThreads \/ GenerateSchedule \/ ResumeWorkers
    \/ NotifyWorkers \/ EndWarmup
    \/ (DiscardRecords \/ StopNotify \/ JoinThreads) /\ UNCHANGED sched

Stop == (EndMeasure \/ StopWorkerThreads \/ SignalHandler) /\ UNCHANGED sched

RateNext ==
    \/ BeginRate
    \/ ManagerStep
    \/ Stop
    \/ \E w \in Worker : WorkerStep(w) \/ \E c \in CtxId : CallbackStep(w, c)
    \/ Terminated /\ UNCHANGED sched

\* Threads are scheduled and the server answers every request it was sent.  An
\* interrupted profiler goes on to no other level: when its measurement is able
\* to end, it returns, and the manager is destroyed.
RateFairness ==
    /\ WF_rateVars(ManagerStep)
    /\ WF_rateVars(earlyExit /\ EndMeasure /\ UNCHANGED sched)
    /\ WF_rateVars(earlyExit /\ StopWorkerThreads /\ UNCHANGED sched)
    /\ \A w \in Worker : WF_rateVars(WorkerStep(w))
    /\ \A w \in Worker : \A c \in CtxId : WF_rateVars(CallbackStep(w, c))

RateSpec == RateInit /\ [][RateNext]_rateVars
RateFairSpec == RateSpec /\ RateFairness

-----------------------------------------------------------------------------
(* Properties *)

\* A worker has a schedule when it asks for its next timestamp: it "should wait
\* till main thread signals execution start", and is launched before that.  (A
\* SIGINT in between does end that wait.)
ScheduleGiven == \A w \in Worker : pc[w] = "next" => sched[w] # 0

\* Without a SIGINT the main thread is never left waiting for a worker: neither
\* for its pause when the rate changes (PauseCompletes) nor for its end when
\* the destructor joins it (InterruptEndsRun), although StopWorkerThreads sets
\* early_exit without wake_mutex_.
MainNeverStuck == PauseCompletes /\ InterruptEndsRun

\* "Warmup requests to send before benchmarking" come to an end: the level
\* itself is measured after them.
WarmupEnds == mpc = "warmup" ~> mpc # "warmup"

\* Get never finds "free ctx id list is empty", which would end the program:
\* whatever was notified, dropped, refilled or restored late, there is an id
\* when a worker has waited for one.
TrackerNeverEmpty == \A w \in Worker : pc[w] = "take" => IsAvailable(w)
=============================================================================
