-------------------------- MODULE ConcurrencyLoad --------------------------
(***************************************************************************)
(* Concurrency mode: the ConcurrencyManager (the program's main thread),   *)
(* its ConcurrencyWorker threads and the condition variable they share.    *)
(*                                                                         *)
(* The main thread walks through concurrency levels: it pauses the workers *)
(* (sequence models only), launches threads, spreads the new level over    *)
(* them under wake_mutex_, and wakes them.  A worker reads its part of it  *)
(* without that mutex.  It takes context ids from its tracker, sends a     *)
(* request for each, and waits for a callback to hand an id back.  Both    *)
(* can be overtaken by early_exit, which the signal handler or the         *)
(* manager's destructor sets.                                              *)
(***************************************************************************)
EXTENDS LoadWorker

CONSTANTS
    Levels,           \* the concurrency levels the profiler asks for
    Search            \* "linear": levels only rise; "binary": they also fall

ASSUME LevelsAssumption ==
    /\ Levels \subseteq 1 .. MaxContexts
    /\ Search \in {"linear", "binary"}

\* The command line refuses a request count or a warm-up together with more
\* than one level, and a request count below the level.
ASSUME CountsAssumption ==
    /\ RequestCount # 0 => \A l \in Levels : l <= RequestCount
    /\ RequestCount # 0 \/ WarmupCount # 0 => \A k, l \in Levels : k = l

\* CtxIdTrackerFactory for concurrency mode.
ASSUME TrackerAssumption ==
    Tracker = IF OnSequenceModel THEN "Fifo" ELSE "Concurrency"

ManagerTypes ==
    /\ mpc \in ManagerPc
    /\ level \in 0 .. MaxContexts
    /\ warming \in BOOLEAN
    /\ checked \in 0 .. MaxThreads
    /\ threads \in 0 .. MaxThreads
    /\ execute \in BOOLEAN
    /\ earlyExit \in BOOLEAN

\* Every variable keeps the type of the field it models: no request counter
\* wraps below zero, no tracker holds an id that is no context's.
TypeOK ==
    /\ ManagerTypes
    /\ ConfigTypes
    /\ ThreadTypes
    /\ IdTypes
    /\ StatTypes
    /\ ContextTypes

Init == InitLoad /\ execute = TRUE

-----------------------------------------------------------------------------
(* The main thread *)

\* The concurrency of the current level change: PerformWarmup never asks for
\* more concurrent requests than it has warm-up requests.
Target ==
    IF warming /\ level > WarmupCount THEN WarmupCount ELSE level

\* PauseSequenceWorkers, its first statement.
StopExecuting == execute' = (execute /\ ~OnSequenceModel)

\* What a search may ask for next.  A linear one rises; a binary one measures
\* the start of its range, then its end, and goes on between the two.
NextLevels ==
    IF Search = "linear" THEN {l \in Levels : l > level}
    ELSE IF level = 0 THEN {l \in Levels : \A k \in Levels : l <= k}
    ELSE IF \A k \in Levels : level <= k
         THEN {l \in Levels \ {level} : \A k \in Levels : k <= l}
    ELSE {l \in Levels \ {level} : \E j, k \in Levels : j < l /\ l < k}

\* InferenceProfiler::Profile for the next level of the search: the warm-up,
\* if there is one, then ChangeConcurrencyLevel.
BeginLevel(l) ==
    /\ mpc = "idle"
    /\ l \in NextLevels
    /\ mpc' = "pausing"
    /\ level' = l
    /\ warming' = (WarmupCount # 0)
    /\ checked' = 0
    /\ StopExecuting
    /\ UNCHANGED <<threads, discarded, earlyExit, wakeHolder, workerVars>>

\* One turn of the polling loop of PauseSequenceWorkers that sees the flag.
SeePaused ==
    /\ mpc = "pausing"
    /\ OnSequenceModel
    /\ checked < threads
    /\ paused[checked]
    /\ checked' = checked + 1
    /\ UNCHANGED <<mpc, level, warming, threads, discarded, execute, earlyExit,
                   wakeHolder, workerVars>>

\* Mutant: max_threads_ does not bound the threads.
ThreadsForUnbounded(n) == IF n <= threads THEN threads ELSE n

\* The threads ReconfigThreads launches: one for each concurrent request, as
\* long as there are less than max_threads_.
ThreadsFor(n) ==
    IF n <= threads THEN threads ELSE IF n < MaxThreads THEN n ELSE MaxThreads

\* Mutant: the level is changed without waiting for the workers to pause.
PausedUnseen == TRUE

\* The polling loop of PauseSequenceWorkers is over.
PausedSeen == OnSequenceModel => checked = threads

LaunchThreads ==
    /\ mpc = "pausing"
    /\ PausedSeen
    /\ mpc' = "configure"
    /\ threads' = ThreadsFor(Target)
    /\ pc' = [w \in Worker |->
                IF w < ThreadsFor(Target) /\ w >= threads THEN "top"
                                                          ELSE pc[w]]
    /\ UNCHANGED <<level, warming, checked, discarded, execute, earlyExit,
                   wakeHolder, cfgVars, paused, idVars, reqVars>>

\* f after the main thread has stored the launched threads' parts in it.
Stored(f, part) ==
    [w \in Worker |-> IF w < threads THEN part[w] ELSE f[w]]

\* The rest of ReconfigThreads, holding wake_mutex_.  A worker reads its own
\* ThreadConfig only, and concurrency_ without the mutex, so for each of them
\* every store is a step, in the order of the loop's body: concurrency_ ...
ConfigureThreads ==
    /\ mpc = "configure"
    /\ wakeHolder = None
    /\ wakeHolder' = Main
    /\ mpc' = "offsets"
    /\ conc' = Stored(conc, [w \in Worker |-> Share(Target, threads, w)])
    /\ UNCHANGED <<askVars, execute, earlyExit, offset, numReq, paused, pc,
                   idVars, reqVars>>

\* ... seq_stat_index_offset_ ...
StoreOffsets ==
    /\ mpc = "offsets"
    /\ mpc' = "counts"
    /\ offset' =
           Stored(offset,
                  [w \in Worker |-> SeqStatIndexOffset(Target, threads, w)])
    /\ UNCHANGED <<askVars, execute, earlyExit, wakeHolder, conc, numReq,
                   paused, pc, idVars, reqVars>>

\* ... and num_requests_, which is 0, no limit, until then; and wake_mutex_ is
\* released.
StoreRequestCounts ==
    /\ mpc = "counts"
    /\ mpc' = "resume"
    /\ wakeHolder' = None
    /\ numReq' = Stored(numReq, [w \in Worker |-> Share(Quota, threads, w)])
    /\ UNCHANGED <<askVars, execute, earlyExit, conc, offset, paused, pc,
                   idVars, reqVars>>

\* ResumeSequenceWorkers: the flag is set without wake_mutex_ ...
ResumeSequenceWorkers ==
    /\ mpc = "resume"
    /\ mpc' = "notify"
    /\ execute' = (execute \/ OnSequenceModel)
    /\ UNCHANGED <<askVars, earlyExit, wakeHolder, workerVars>>

\* ... and then all sleepers are notified.
NotifyWorkers ==
    /\ mpc = "notify"
    /\ mpc' = IF warming THEN "warmup" ELSE "discard"
    /\ WakeAll
    /\ UNCHANGED <<askVars, execute, earlyExit, wakeHolder, cfgVars, paused,
                   idVars, reqVars>>

\* PerformWarmup returns, and ChangeConcurrencyLevel for the same level begins.
EndWarmup == WaitForWarmupAndCleanup /\ StopExecuting

-----------------------------------------------------------------------------
(* A worker thread *)

ResetFreeCtxIds(w) == ResetTracker(w, conc[w])

\* HandleExecuteOff, its test of execute_.
HandleExecuteOff(w) ==
    /\ pc[w] = "top"
    /\ IF OnSequenceModel /\ ~execute
       THEN Goto(w, "off") /\ UNCHANGED paused
       ELSE Goto(w, "noconc") /\ paused' = [paused EXCEPT ![w] = FALSE]
    /\ UNCHANGED <<mainVars, wakeHolder, cfgVars, idVars, reqVars>>

\* Nothing is ongoing: the tracker is refilled and the worker is paused.
DeclarePaused(w) ==
    /\ pc[w] = "offwait"
    /\ NoOngoingRequests(w)
    /\ ResetFreeCtxIds(w)
    /\ SetPaused(w)
    /\ Goto(w, "offcheck")
    /\ UNCHANGED <<mainVars, wakeHolder, cfgVars, held, nctx, reqVars>>

Unpause(w) ==
    /\ pc[w] = "unpause"
    /\ paused' = [paused EXCEPT ![w] = FALSE]
    /\ Goto(w, "noconc")
    /\ UNCHANGED <<mainVars, wakeHolder, cfgVars, idVars, reqVars>>

\* HandleNoConcurrency, its first test of concurrency_.
HandleNoConcurrency(w) ==
    /\ pc[w] = "noconc"
    /\ Goto(w, IF conc[w] = 0 THEN "nccheck" ELSE "ctx")
    /\ UNCHANGED <<mainVars, wakeHolder, cfgVars, paused, idVars, reqVars>>

\* wake_signal_.wait of HandleNoConcurrency, and what follows it.
TestConcurrency(w) ==
    /\ pc[w] = "nccheck"
    /\ wakeHolder = None
    /\ IF conc[w] > 0 THEN Goto(w, "ctx") /\ UNCHANGED wakeHolder
       ELSE IF earlyExit THEN Goto(w, "left") /\ UNCHANGED wakeHolder
       ELSE Goto(w, "ncblock") /\ wakeHolder' = w
    /\ UNCHANGED <<mainVars, cfgVars, paused, idVars, reqVars>>

\* Mutant: the loop that creates contexts goes on for one more.
ContextsNeededAndOne(w) == IF OnSequenceModel THEN conc[w] + 1 ELSE 1

\* active_ctx_cnt
ContextsNeeded(w) == IF OnSequenceModel THEN conc[w] ELSE 1

LacksContexts(w) == ContextsNeeded(w) > nctx[w]

\* CreateContextsAsNecessary: the tracker is reset only when a context is new.
CreateContextsAsNecessary(w) ==
    /\ pc[w] = "ctx"
    /\ IF LacksContexts(w)
       THEN /\ nctx' = [nctx EXCEPT ![w] = ContextsNeeded(w)]
            /\ ResetFreeCtxIds(w)
            /\ \/ UNCHANGED badStatus
               \/ MayFail /\ badStatus' = [badStatus EXCEPT ![w] = TRUE]
       ELSE UNCHANGED <<nctx, free, granted, badStatus>>
    /\ Goto(w, "exit1")
    /\ UNCHANGED <<mainVars, wakeHolder, cfgVars, paused, held, notified, sent,
                   badCb, ctxVars, rem>>

\* The three calls of HandleExitConditions in RunInference.
CheckExit(w) ==
    /\ pc[w] \in {"exit1", "exit2", "exit3"}
    /\ Goto(w, IF ShouldExit(w) THEN "exiting"
               ELSE IF pc[w] = "exit1" THEN "send"
               ELSE IF pc[w] = "exit2" /\ Async THEN "wait"
               ELSE IF pc[w] = "exit2" THEN "exit3"
               ELSE "top")
    /\ UNCHANGED <<mainVars, wakeHolder, cfgVars, paused, idVars, reqVars>>

\* SendInferRequests: its loop condition and GetCtxId.
TakeCtxId(w) ==
    /\ pc[w] = "send"
    /\ IF free[w] # <<>> /\ execute /\ ~ShouldExit(w)
       THEN /\ held' = [held EXCEPT ![w] = Head(free[w])]
            /\ free' = [free EXCEPT ![w] = Tail(free[w])]
            /\ Goto(w, "held")
       ELSE Goto(w, "exit2") /\ UNCHANGED <<held, free>>
    /\ UNCHANGED <<mainVars, wakeHolder, cfgVars, paused, granted, nctx,
                   reqVars>>

\* WaitForResponses: notified_ is tested and set under cb_mtx_ only.
WaitForResponses(w) ==
    /\ pc[w] = "wait"
    /\ notified[w]
    /\ notified' = [notified EXCEPT ![w] = FALSE]
    /\ Goto(w, "exit3")
    /\ UNCHANGED <<mainVars, wakeHolder, cfgVars, paused, idVars, sent,
                   badStatus, badCb, ctxVars, rem>>

-----------------------------------------------------------------------------
\* A worker thread's own steps.
WorkerStep(w) ==
    \/ HandleExecuteOff(w) \/ CompleteForPause(w) \/ DeclarePaused(w)
    \/ TestExecute(w) \/ Unpause(w)
    \/ HandleNoConcurrency(w) \/ TestConcurrency(w) \/ Sleep(w)
    \/ CreateContextsAsNecessary(w) \/ CheckExit(w)
    \/ TakeCtxId(w) \/ SkipSend(w) \/ SendAsync(w) \/ CountOngoing(w)
    \/ SendSync(w) \/ InferReturns(w) \/ WaitForResponses(w)
    \/ CompleteForExit(w) \/ LeaveInfer(w)

\* The main thread's steps, other than its decision to profile a level.
ManagerStep ==
    \/ SeePaused \/ LaunchThreads
    \/ ConfigureThreads \/ StoreOffsets \/ StoreRequestCounts
    \/ ResumeSequenceWorkers \/ NotifyWorkers \/ EndWarmup \/ DiscardRecords
    \/ StopNotify \/ JoinThreads

Next ==
    \/ \E l \in Levels : BeginLevel(l)
    \/ ManagerStep
    \/ EndMeasure
    \/ StopWorkerThreads
    \/ SignalHandler
    \/ \E w \in Worker : WorkerStep(w) \/ \E c \in CtxId : Callback(w, c)
    \/ Terminated

\* Threads are scheduled and the server answers every request it was sent.  An
\* interrupted profiler goes on to no other level: when its measurement is able
\* to end, it returns, and the manager is destroyed.
Fairness ==
    /\ WF_vars(ManagerStep)
    /\ WF_vars(earlyExit /\ EndMeasure)
    /\ WF_vars(earlyExit /\ StopWorkerThreads)
    /\ \A w \in Worker : WF_vars(WorkerStep(w))
    /\ \A w \in Worker : \A c \in CtxId : WF_vars(Callback(w, c))

Spec == Init /\ [][Next]_vars
FairSpec == Spec /\ Fairness

-----------------------------------------------------------------------------
(* Properties *)

\* The ids of worker w that are in circulation, on a model without sequences
\* (where every id stands for context 0): free, taken, in flight, or in a
\* callback that has not handed it back.
Circulating(w) ==
    Len(free[w]) + (IF pc[w] = "held" THEN 1 ELSE 0)
        + inFlight[w][0] + finalizing[w][0]

\* The concurrency tracker "ensures that only X requests are outstanding at a
\* time": the ids in circulation never exceed what the tracker was reset to,
\* and none is lost on the way through send, response and callback unless the
\* worker is on its way out (SendInferRequest drops the id it was given).
IdsConserved ==
    ~OnSequenceModel =>
        \A w \in Worker :
            /\ Circulating(w) <= granted[w]
            /\ \/ Circulating(w) = granted[w]
               \/ earlyExit \/ badStatus[w] \/ badCb[w]
               \/ RequestCount # 0 \/ WarmupCount # 0

\* ReconfigThreads holds wake_mutex_ and stores the workers' parts.
Storing == {"offsets", "counts"}

\* PauseSequenceWorkers and HandleExecuteOff ("Ensures the clean exit of the
\* sequences"): as long as ReconfigThreads redistributes the sequence statuses,
\* no request is at the server and no sequence is open, whatever the level
\* before was and whoever was interrupted.
QuiescentReconfig ==
    mpc \in {"configure"} \cup Storing /\ OnSequenceModel =>
        /\ \A w \in Worker : \A c \in CtxId : inFlight[w][c] = 0
        /\ \A s \in Index : rem[s] = 0

\* GetSeqStatIndex stays within sequence_statuses_, whose at() would throw:
\* contexts outlive the level they were made for, offsets move under them.
IndexInRange ==
    OnSequenceModel =>
        \A w \in Worker :
            /\ \A c \in 0 .. nctx[w] - 1 : offset[w] + c \in Index
            /\ held[w] # None => held[w] < nctx[w]

\* What --request-count comes to, although a thread runs before num_requests_
\* is stored for it: from then on no worker that has sent its part of the
\* requests, or more than that, sends another one.
RequestCountKept ==
    [][/\ ~OnSequenceModel
       /\ Quota # 0
       /\ mpc \notin {"pausing", "configure"} \cup Storing
       => \A w \in Launched :
              sent'[w] > sent[w] => sent[w] < Share(Quota, threads, w)]_vars

\* What a worker has to work with is neither lost nor shared when the level
\* changes: sequence statuses are handed over only when no request is at the
\* server and no sequence is open, and within the statuses there are.
HandedOverWhole == QuiescentReconfig /\ IndexInRange
=============================================================================
