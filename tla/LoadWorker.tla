----------------------------- MODULE LoadWorker -----------------------------
(***************************************************************************)
(* What the load managers and their worker threads have in common: the     *)
(* LoadManager's threads and their end, a LoadWorker's way of sending      *)
(* requests through its InferContexts, the queue of free context ids, the  *)
(* sequence statuses, and the completion callbacks.  ConcurrencyLoad and   *)
(* RequestRate extend it with their manager and their worker's loop.       *)
(*                                                                         *)
(* A thread is modelled by its program counter; one step of it is the      *)
(* longest stretch of code in which no other thread's step matters.        *)
(* execute_ and early_exit are plain flags that the code reads and writes  *)
(* without a lock: each access is a step of its own.  A wait on            *)
(* wake_signal_ is three steps (test the predicate holding wake_mutex_, go *)
(* to sleep and release it, be notified), so that a notification can come  *)
(* too early.                                                              *)
(***************************************************************************)
EXTENDS Integers, Sequences, FiniteSets, ThreadShares

LOCAL INSTANCE Functions

CONSTANTS
    MaxThreads,       \* max_threads_
    MaxContexts,      \* max_concurrency_ or num_of_sequences_: the number of
                      \* sequence statuses
    Tracker,          \* what CtxIdTrackerFactory made
    RequestCount,     \* --request-count, 0: no limit
    WarmupCount,      \* --warmup-request-count, 0: no warm-up
    Async,            \* async_
    OnSequenceModel,  \* on_sequence_model_
    SeqLengths,       \* the lengths a new sequence may get
    MayInterrupt,     \* whether SIGINT may arrive
    MayFail,          \* whether a context or a response may carry an error
    MayLose           \* whether AsyncInfer, or looking at a response in the
                      \* callback, may fail

ASSUME SizesAssumption ==
    /\ MaxThreads \in Nat \ {0}
    /\ MaxContexts \in Nat \ {0}
    /\ RequestCount \in Nat
    /\ WarmupCount \in Nat
    /\ SeqLengths \subseteq Nat \ {0}

ASSUME ModesAssumption ==
    /\ Tracker \in {"Fifo", "Concurrency", "Rand"}
    /\ Async \in BOOLEAN
    /\ OnSequenceModel \in BOOLEAN
    /\ MayInterrupt \in BOOLEAN
    /\ MayFail \in BOOLEAN
    /\ MayLose \in BOOLEAN

Worker == 0 .. MaxThreads - 1
CtxId  == 0 .. MaxContexts - 1
Index  == 0 .. MaxContexts - 1   \* positions in sequence_statuses_
None   == -1                        \* no thread, no context id
Main   == -2                        \* the main thread, as holder of a mutex

\* Without these counts nobody looks at num_sent_requests_.  With them it is
\* kept up to here, which is beyond every share: also what a worker sends for
\* its open sequences, or before it has a share, is seen.
SentCap ==
    IF RequestCount = 0 /\ WarmupCount = 0 THEN 0
    ELSE (IF RequestCount < WarmupCount THEN WarmupCount ELSE RequestCount)
         + (IF OnSequenceModel THEN MaxContexts ELSE 1)

VARIABLES
    \* the main thread
    mpc,         \* where it is
    level,       \* the concurrency level, or the number of the request
                 \* rate, it was last asked for
    warming,     \* whether the current level change is the warm-up's
    checked,     \* threads it has already seen paused
    threads,     \* threads_.size()
    discarded,   \* answers recorded before the measurement began
    execute,     \* execute_
    earlyExit,   \* early_exit
    wakeHolder,  \* the thread that holds wake_mutex_, or None
    \* thread_config_ of each worker (conc: concurrency_ or num_sequences_)
    conc, offset, numReq, paused,
    \* each worker
    pc,          \* where it is
    nctx,        \* ctxs_.size()
    free,        \* the queue of its context id tracker
    held,        \* the id it has taken and not yet sent on, or None
    notified,    \* notified_
    sent,        \* num_sent_requests_, up to SentCap
    badStatus,   \* whether status_ is bad (a send or a new context failed)
    badCb,       \* whether cb_status_ is bad (a response failed)
    granted,     \* history: ids its tracker was last reset to
    \* the inference contexts of each worker
    inFlight,    \* requests that the server has not answered
    ongoing,     \* total_ongoing_requests_
    finalizing,  \* callbacks between their decrement and their finalize
    \* the sequence statuses
    rem          \* remaining_queries_

cfgVars  == <<conc, offset, numReq>>
idVars   == <<free, held, granted, nctx>>
ctxVars  == <<inFlight, ongoing, finalizing>>
reqVars  == <<notified, sent, badStatus, badCb, ctxVars, rem>>
askVars  == <<level, warming, checked, threads, discarded>>
mainVars == <<mpc, askVars, execute, earlyExit>>
workerVars == <<cfgVars, paused, pc, idVars, reqVars>>
vars == <<mainVars, wakeHolder, workerVars>>

\* The program counters of both managers and of both kinds of worker.
ManagerPc == {"idle", "pausing", "configure", "offsets", "counts", "schedule",
              "resume", "notify", "warmup", "discard", "measure", "over",
              "stopping", "joining", "end"}
WorkerPc  == {"none", "start", "top", "off", "offwait", "offcheck", "offblock",
              "offsleep", "unpause", "noconc", "nccheck", "ncblock", "ncsleep",
              "ctx", "exit1", "free", "reset", "next", "take", "send", "held",
              "infer", "sent", "exit2", "wait", "exit3", "exiting", "exitwait",
              "done", "left", "crashed"}

Launched == {w \in Worker : w < threads}
Finished(w) == pc[w] \in {"done", "left"}

ConfigTypes ==
    /\ conc \in [Worker -> 0 .. MaxContexts]
    /\ offset \in [Worker -> Nat]
    /\ numReq \in [Worker -> Nat]

ThreadTypes ==
    /\ wakeHolder \in Worker \cup {None, Main}
    /\ paused \in [Worker -> BOOLEAN]
    /\ pc \in [Worker -> WorkerPc]

IdTypes ==
    /\ nctx \in [Worker -> 0 .. MaxContexts]
    /\ free \in [Worker -> Seq(CtxId)]
    /\ held \in [Worker -> CtxId \cup {None}]
    /\ granted \in [Worker -> 0 .. MaxContexts]

StatTypes ==
    /\ notified \in [Worker -> BOOLEAN]
    /\ sent \in [Worker -> 0 .. SentCap]
    /\ badStatus \in [Worker -> BOOLEAN]
    /\ badCb \in [Worker -> BOOLEAN]

ContextTypes ==
    /\ inFlight \in [Worker -> [CtxId -> Nat]]
    /\ ongoing \in [Worker -> [CtxId -> Int]]
    /\ finalizing \in [Worker -> [CtxId -> {0, 1}]]
    /\ rem \in [Index -> Nat]

-----------------------------------------------------------------------------
\* The same initial value for every worker, or for every context of each.
Each(v) == [w \in Worker |-> v]
EachCtx(v) == [w \in Worker |-> [c \in CtxId |-> v]]

\* Before the first thread is launched.
InitLoad ==
    /\ mpc = "idle"
    /\ level = 0
    /\ warming = FALSE
    /\ checked = 0
    /\ threads = 0
    /\ discarded = 0
    /\ earlyExit = FALSE
    /\ wakeHolder = None
    /\ conc = Each(0) /\ offset = Each(0) /\ numReq = Each(0)
    /\ paused = Each(FALSE) /\ pc = Each("none") /\ nctx = Each(0)
    /\ free = Each(<<>>) /\ held = Each(None) /\ notified = Each(FALSE)
    /\ badStatus = Each(FALSE) /\ badCb = Each(FALSE)
    /\ sent = Each(0) /\ granted = Each(0)
    /\ inFlight = EachCtx(0) /\ ongoing = EachCtx(0) /\ finalizing = EachCtx(0)
    /\ rem = [s \in Index |-> 0]

-----------------------------------------------------------------------------
(* LoadManager *)

\* The requests that the current level change asks for in all.
Quota == IF warming THEN WarmupCount ELSE RequestCount

\* Mutant: notify_all() is forgotten.
WakeNobody == UNCHANGED pc

\* wake_signal_.notify_all(): who is asleep will test its predicate again.
WakeAll ==
    pc' = [w \in Worker |-> IF pc[w] = "offsleep" THEN "offcheck"
                            ELSE IF pc[w] = "ncsleep" THEN "nccheck"
                            ELSE pc[w]]

\* Destroying a worker's contexts joins the client's callback thread, so no
\* callback survives the clean-up.  The level itself, or the rate, is next.
WaitForWarmupAndCleanup ==
    /\ mpc = "warmup"
    /\ \A w \in Launched : Finished(w)
    /\ \A w \in Worker : \A c \in CtxId : finalizing[w][c] = 0
    /\ mpc' = "pausing"
    /\ warming' = FALSE
    /\ checked' = 0
    /\ threads' = 0
    /\ conc' = Each(0) /\ offset' = Each(0) /\ numReq' = Each(0)
    /\ paused' = Each(FALSE) /\ pc' = Each("none") /\ nctx' = Each(0)
    /\ free' = Each(<<>>) /\ held' = Each(None) /\ notified' = Each(FALSE)
    /\ badStatus' = Each(FALSE) /\ badCb' = Each(FALSE)
    /\ sent' = Each(0) /\ granted' = Each(0)
    /\ inFlight' = EachCtx(0) /\ ongoing' = EachCtx(0)
    /\ finalizing' = EachCtx(0)
    /\ UNCHANGED <<level, discarded, earlyExit, wakeHolder, rem>>

\* CheckHealth returns an error.
Unhealthy == \E w \in Launched : badStatus[w] \/ badCb[w]

\* The requests that have been answered, and so recorded, since
\* num_sent_requests_ was last reset.  A failed request is counted as well: its
\* worker is unhealthy from then on.
Answered ==
    FoldFunctionOnSet(+, 0,
        [w \in Worker |->
            sent[w] - FoldFunctionOnSet(+, 0, inFlight[w], CtxId)],
        Launched)

\* ProfileHelper "starts with a fresh empty request records vector in the
\* manager": what the workers recorded since they were woken is thrown away.
\* Only with a request count does it matter how many records there are.
DiscardRecords ==
    /\ mpc = "discard"
    /\ mpc' = "measure"
    /\ discarded' = IF RequestCount = 0 THEN 0 ELSE Answered
    /\ UNCHANGED <<level, warming, checked, threads, execute, earlyExit,
                   wakeHolder, workerVars>>

\* CountCollectedRequests.
Collected == Answered - discarded

\* Measure has come to the end of its window: some time has passed or, with
\* --request-count, that many requests have been recorded.  early_exit is not
\* looked at.
Measured == RequestCount # 0 => Collected >= RequestCount

\* ProfileHelper returns: with an error, found by CheckHealth or for want of a
\* valid request in a time window, or after the window's end, when the sent
\* requests have been read and reset.  After an error, and after "Received
\* exit signal", the profiler asks for no other level.
EndMeasure ==
    /\ mpc = "measure"
    /\ \/ /\ Unhealthy \/ RequestCount = 0
          /\ mpc' = "over"
          /\ UNCHANGED sent
       \/ /\ Measured
          /\ mpc' = IF earlyExit THEN "over" ELSE "idle"
          /\ sent' = Each(0)
    /\ discarded' = 0
    /\ UNCHANGED <<level, warming, checked, threads, execute, earlyExit,
                   wakeHolder, cfgVars, paused, pc, idVars, notified,
                   badStatus, badCb, ctxVars, rem>>

\* SignalHandler, on its first invocation.
SignalHandler ==
    /\ MayInterrupt
    /\ ~earlyExit
    /\ mpc # "end"
    /\ earlyExit' = TRUE
    /\ UNCHANGED <<mpc, askVars, execute, wakeHolder, workerVars>>

\* StopWorkerThreads, called by the manager's destructor once profiling is
\* over: the flag is set without wake_mutex_ ...
StopWorkerThreads ==
    /\ mpc \in {"idle", "over"}
    /\ mpc' = "stopping"
    /\ earlyExit' = TRUE
    /\ UNCHANGED <<askVars, execute, wakeHolder, workerVars>>

\* ... the sleepers are notified ...
StopNotify ==
    /\ mpc = "stopping"
    /\ mpc' = "joining"
    /\ WakeAll
    /\ UNCHANGED <<askVars, execute, earlyExit, wakeHolder, cfgVars, paused,
                   idVars, reqVars>>

\* ... and every thread is joined.
JoinThreads ==
    /\ mpc = "joining"
    /\ \A w \in Launched : Finished(w)
    /\ mpc' = "end"
    /\ UNCHANGED <<askVars, execute, earlyExit, wakeHolder, workerVars>>

-----------------------------------------------------------------------------
(* A worker thread *)

Goto(w, l) == pc' = [pc EXCEPT ![w] = l]

\* Mutant: early_exit is not looked at.
ShouldExitDeaf(w) ==
    badStatus[w] \/ badCb[w] \/ (numReq[w] # 0 /\ sent[w] >= numReq[w])

\* Mutant: one request too many.
ShouldExitLate(w) ==
    \/ earlyExit \/ badStatus[w] \/ badCb[w]
    \/ numReq[w] # 0 /\ sent[w] > numReq[w]

\* Mutant: the request count is not looked at.
ShouldExitUncounted(w) == earlyExit \/ badStatus[w] \/ badCb[w]

\* LoadWorker::ShouldExit
ShouldExit(w) ==
    \/ earlyExit
    \/ badStatus[w] \/ badCb[w]
    \/ numReq[w] # 0 /\ sent[w] >= numReq[w]

\* n more calls of SendRequest have counted themselves.
SentAfter(w, n) == IF sent[w] + n > SentCap THEN SentCap ELSE sent[w] + n

\* Reset of the trackers: the FIFO tracker holds the ids 0 .. count - 1, the
\* concurrency tracker holds context 0 count times, the random tracker keeps
\* no queue.
FreshIds(count) ==
    IF Tracker = "Rand" THEN <<>>
    ELSE [i \in 1 .. count |-> IF Tracker = "Fifo" THEN i - 1 ELSE 0]

ResetTracker(w, count) ==
    /\ free' = [free EXCEPT ![w] = FreshIds(count)]
    /\ granted' = [granted EXCEPT ![w] = count]

\* Restore of the trackers.
Restore(w, c) ==
    free' = IF Tracker = "Rand" THEN free
            ELSE [free EXCEPT ![w] = Append(@, c)]

\* The contexts of w whose sequence status still expects requests.
OpenCtxs(w) ==
    {c \in CtxId : /\ OnSequenceModel
                   /\ c < nctx[w]
                   /\ offset[w] + c \in Index
                   /\ rem[offset[w] + c] # 0}

\* The context at which a send of CompleteOngoingSequences fails, or
\* MaxContexts when none does.
FailingAt(w) ==
    {MaxContexts} \cup
        {c \in OpenCtxs(w) : IF Async THEN MayLose ELSE MayFail}

\* CompleteOngoingSequences: a last request for each open sequence.  In
\* synchronous mode the request has been answered when the call returns.  Once
\* status_ is bad, SendRequest does nothing, but the sequence is closed.  (With
\* JSON data each request first overwrites status_ by the outcome of taking
\* its data; the model has no data of that kind.)
CompleteOngoingSequences(w) ==
    /\ rem' = [s \in Index |->
                 IF \E c \in OpenCtxs(w) : offset[w] + c = s THEN 0
                                                             ELSE rem[s]]
    /\ \E f \in FailingAt(w) :
          LET live  == {c \in OpenCtxs(w) : ~badStatus[w] /\ c < f}
              tried == {c \in OpenCtxs(w) : ~badStatus[w] /\ c <= f}
          IN  /\ inFlight' = [inFlight EXCEPT ![w] = [c \in CtxId |->
                                @[c] + (IF Async /\ c \in live THEN 1 ELSE 0)]]
              /\ ongoing' = [ongoing EXCEPT ![w] = [c \in CtxId |->
                               @[c] + (IF Async /\ c \in tried THEN 1 ELSE 0)]]
              /\ sent' = [sent EXCEPT ![w] = SentAfter(w, Cardinality(tried))]
              /\ badStatus' = [badStatus EXCEPT ![w] = @ \/ f # MaxContexts]

\* Mutant: the worker does not wait for its requests.
NoWait(w) == TRUE

\* WaitForOngoingRequests returns.  Only the worker itself could make a
\* counter negative (see CountOngoing), so the sum is 0 when all of them are.
NoOngoingRequests(w) == \A c \in CtxId : ongoing[w][c] = 0

\* HandleExecuteOff of either worker, once it has seen execute_ false.
CompleteForPause(w) ==
    /\ pc[w] = "off"
    /\ CompleteOngoingSequences(w)
    /\ Goto(w, "offwait")
    /\ UNCHANGED <<mainVars, wakeHolder, cfgVars, paused, idVars, notified,
                   badCb, finalizing>>

\* Mutant: is_paused_ is never set.
LeavePaused(w) == UNCHANGED paused

SetPaused(w) == paused' = [paused EXCEPT ![w] = TRUE]

\* wake_signal_.wait of HandleExecuteOff: the predicate, tested with the lock.
TestExecute(w) ==
    /\ pc[w] = "offcheck"
    /\ wakeHolder = None
    /\ IF earlyExit \/ execute
       THEN Goto(w, "unpause") /\ UNCHANGED wakeHolder
       ELSE Goto(w, "offblock") /\ wakeHolder' = w
    /\ UNCHANGED <<mainVars, cfgVars, paused, idVars, reqVars>>

\* The predicate of a wait on wake_signal_ was false: release wake_mutex_ and
\* sleep.
Sleep(w) ==
    /\ pc[w] \in {"offblock", "ncblock"}
    /\ Goto(w, IF pc[w] = "offblock" THEN "offsleep" ELSE "ncsleep")
    /\ wakeHolder' = None
    /\ UNCHANGED <<mainVars, cfgVars, paused, idVars, reqVars>>

\* SendInferRequest gives up, because of LoadWorker::SendInferRequest's test
\* or the second one under the sequence's mutex.
Refused(w) == ShouldExit(w) \/ (OnSequenceModel /\ ~execute)

\* Mutant: async_ is not looked at.
RestoreAlways(w) == Restore(w, held[w])

\* RestoreFreeCtxId, which follows SendInferRequest: an asynchronous request
\* gives the id back in its callback.
RestoreFreeCtxId(w) == IF Async THEN UNCHANGED free ELSE Restore(w, held[w])

\* The worker is back in its loop, at "send", without having sent anything.
SkipSend(w) ==
    /\ pc[w] = "held"
    /\ Refused(w)
    /\ RestoreFreeCtxId(w)
    /\ held' = [held EXCEPT ![w] = None]
    /\ Goto(w, "send")
    /\ UNCHANGED <<mainVars, wakeHolder, cfgVars, paused, granted, nctx,
                   reqVars>>

\* SetInferSequenceOptions and DecrementRemainingQueries for one request.
AdvanceSequence(w) ==
    IF OnSequenceModel
    THEN LET s == offset[w] + held[w]
         IN  IF rem[s] = 0
             THEN \E len \in SeqLengths : rem' = [rem EXCEPT ![s] = len - 1]
             ELSE rem' = [rem EXCEPT ![s] = @ - 1]
    ELSE UNCHANGED rem

\* SendRequest, asynchronous: the request is out, not yet counted, unless
\* AsyncInfer has failed ...
SendAsync(w) ==
    /\ pc[w] = "held"
    /\ Async
    /\ ~Refused(w)
    /\ AdvanceSequence(w)
    /\ sent' = [sent EXCEPT ![w] = SentAfter(w, 1)]
    /\ \/ /\ inFlight' = [inFlight EXCEPT ![w][held[w]] = @ + 1]
          /\ UNCHANGED badStatus
       \/ /\ MayLose
          /\ badStatus' = [badStatus EXCEPT ![w] = TRUE]
          /\ UNCHANGED inFlight
    /\ Goto(w, "sent")
    /\ UNCHANGED <<mainVars, wakeHolder, cfgVars, paused, idVars, notified,
                   badCb, ongoing, finalizing>>

\* ... total_ongoing_requests_++ comes after AsyncInfer has returned, whatever
\* it has returned.
CountOngoing(w) ==
    /\ pc[w] = "sent"
    /\ ongoing' = [ongoing EXCEPT ![w][held[w]] = @ + 1]
    /\ RestoreFreeCtxId(w)
    /\ held' = [held EXCEPT ![w] = None]
    /\ Goto(w, "send")
    /\ UNCHANGED <<mainVars, wakeHolder, cfgVars, paused, granted, nctx,
                   notified, sent, badStatus, badCb, inFlight, finalizing,
                   rem>>

\* SendRequest, synchronous: Infer blocks the worker ...
SendSync(w) ==
    /\ pc[w] = "held"
    /\ ~Async
    /\ ~Refused(w)
    /\ AdvanceSequence(w)
    /\ sent' = [sent EXCEPT ![w] = SentAfter(w, 1)]
    /\ inFlight' = [inFlight EXCEPT ![w][held[w]] = @ + 1]
    /\ Goto(w, "infer")
    /\ UNCHANGED <<mainVars, wakeHolder, cfgVars, paused, idVars, notified,
                   badStatus, badCb, ongoing, finalizing>>

\* ... until the server has answered; then RestoreFreeCtxId.
InferReturns(w) ==
    /\ pc[w] = "infer"
    /\ inFlight' = [inFlight EXCEPT ![w][held[w]] = @ - 1]
    /\ RestoreFreeCtxId(w)
    /\ held' = [held EXCEPT ![w] = None]
    /\ \/ UNCHANGED badStatus
       \/ MayFail /\ badStatus' = [badStatus EXCEPT ![w] = TRUE]
    /\ Goto(w, "send")
    /\ UNCHANGED <<mainVars, wakeHolder, cfgVars, paused, granted, nctx,
                   notified, sent, badCb, ongoing, finalizing, rem>>

\* The body of HandleExitConditions.
CompleteForExit(w) ==
    /\ pc[w] = "exiting"
    /\ CompleteOngoingSequences(w)
    /\ Goto(w, "exitwait")
    /\ UNCHANGED <<mainVars, wakeHolder, cfgVars, paused, idVars, notified,
                   badCb, finalizing>>

LeaveInfer(w) ==
    /\ pc[w] = "exitwait"
    /\ NoOngoingRequests(w)
    /\ Goto(w, "done")
    /\ UNCHANGED <<mainVars, wakeHolder, cfgVars, paused, idVars, reqVars>>

-----------------------------------------------------------------------------
(* The callbacks of asynchronous requests.  The client library runs the    *)
(* callbacks of one context one after the other, on a thread of its own.   *)

\* Mutant: the null response that ends a stream is counted down as well.
CountDownTwice(w, c) == ongoing' = [ongoing EXCEPT ![w][c] = @ - 2]

CountDown(w, c) == ongoing' = [ongoing EXCEPT ![w][c] = @ - 1]

\* AsyncCallbackFuncImpl up to the decrement of total_ongoing_requests_.
AsyncCallback(w, c) ==
    /\ Async
    /\ inFlight[w][c] > 0
    /\ finalizing[w][c] = 0
    /\ inFlight' = [inFlight EXCEPT ![w][c] = @ - 1]
    /\ CountDown(w, c)
    /\ finalizing' = [finalizing EXCEPT ![w][c] = 1]
    /\ \/ UNCHANGED badCb
       \/ MayFail /\ badCb' = [badCb EXCEPT ![w] = TRUE]
    /\ UNCHANGED <<mainVars, wakeHolder, cfgVars, paused, pc, idVars, notified,
                   sent, badStatus, rem>>

\* AsyncCallbackFuncImpl returns early: IsNullResponse or IsFinalResponse has
\* failed, and neither the decrement nor the finalize takes place.
AsyncCallbackGivesUp(w, c) ==
    /\ MayLose
    /\ Async
    /\ inFlight[w][c] > 0
    /\ finalizing[w][c] = 0
    /\ ~badCb[w]
    /\ inFlight' = [inFlight EXCEPT ![w][c] = @ - 1]
    /\ badCb' = [badCb EXCEPT ![w] = TRUE]
    /\ UNCHANGED <<mainVars, wakeHolder, cfgVars, paused, pc, idVars, notified,
                   sent, badStatus, ongoing, finalizing, rem>>

\* AsyncCallbackFinalize: the id goes back and the worker is notified.
AsyncCallbackFinalize(w, c) ==
    /\ finalizing[w][c] = 1
    /\ finalizing' = [finalizing EXCEPT ![w][c] = 0]
    /\ Restore(w, c)
    /\ notified' = [notified EXCEPT ![w] = TRUE]
    /\ UNCHANGED <<mainVars, wakeHolder, cfgVars, paused, pc, held, granted,
                   nctx, sent, badStatus, badCb, inFlight, ongoing, rem>>

-----------------------------------------------------------------------------
Callback(w, c) ==
    \/ AsyncCallback(w, c)
    \/ AsyncCallbackGivesUp(w, c)
    \/ AsyncCallbackFinalize(w, c)

\* The program has ended.
Terminated == mpc = "end" /\ UNCHANGED vars

-----------------------------------------------------------------------------
(* Properties of both modes *)

\* Requests of context c that AsyncInfer has accepted and that are still to be
\* counted in total_ongoing_requests_.
Uncounted(w, c) ==
    IF pc[w] = "sent" /\ held[w] = c /\ ~badStatus[w] THEN 1 ELSE 0

\* GetNumOngoingRequests is "the total number of async requests that have been
\* sent by this object and have not returned", except between AsyncInfer and
\* the increment that follows it, when a callback can even make it negative.
\* It never counts too few, and too many only after an error of the client.
OngoingAccounted ==
    Async =>
        \A w \in Worker : \A c \in CtxId :
            /\ ongoing[w][c] >= inFlight[w][c] - Uncounted(w, c)
            /\ \/ ongoing[w][c] = inFlight[w][c] - Uncounted(w, c)
               \/ MayLose /\ (badStatus[w] \/ badCb[w])

\* A worker that left through HandleExitConditions, and one that declares
\* itself paused, has no request at the server.
QuietWhenPausedOrDone ==
    \A w \in Worker :
        paused[w] \/ pc[w] = "done" => \A c \in CtxId : inFlight[w][c] = 0

\* SignalHandler: the "analyzer waits for in-flight inferences to complete
\* before exiting".
NoRequestOutlivesRun ==
    mpc = "end" => \A w \in Worker : \A c \in CtxId : inFlight[w][c] = 0

\* In concurrency mode, and with --serial-sequences, "a maximum of one request
\* is live per sequence" (the test concurrency_free_ctx_ids says that a
\* sequence "should NOT be issued because it was still outstanding").  No
\* request is about to be sent on a sequence that has one at the server.
NotIssuedWhileOutstanding ==
    OnSequenceModel =>
        \A w \in {u \in Worker : pc[u] = "held" /\ ~Refused(u)} :
            \A v \in Worker : \A c \in CtxId :
                offset[v] + c = offset[w] + held[w] => inFlight[v][c] = 0

\* With --request-count or --warmup-request-count, no worker of a model without
\* sequences sends more than its part in one measurement ("How many requests to
\* generate before stopping"), whatever its num_requests_ is at the moment.
RequestCountRespected ==
    ~OnSequenceModel /\ Quota # 0 =>
        \A w \in Launched : sent[w] <= Share(Quota, threads, w)

\* With --request-count "the experiment will run for exactly X requests": when
\* all threads have left a measurement that nothing disturbed, Measure has as
\* many records as it waits for.
CountReached ==
    /\ mpc = "measure"
    /\ RequestCount # 0
    /\ \A w \in Launched : Finished(w)
    => earlyExit \/ Unhealthy \/ Collected >= RequestCount

\* A request that is not at the server any more is still counted: its callback
\* left through one of the early returns, or the send had failed.
Leaked ==
    Async /\ \E w \in Worker : \E c \in CtxId :
                 ongoing[w][c] > inFlight[w][c] - Uncounted(w, c)

\* After SIGINT, or once the destructor runs, every worker comes to its end and
\* no other is launched, whatever the main thread is doing: no worker is left
\* waiting for a response, a notification or another thread, unless a request
\* stays counted for ever.
InterruptStopsWorkers ==
    earlyExit ~>
        Leaked \/ [](\A w \in Worker : pc[w] \in {"none", "done", "left"})

\* An interrupted run ends: no thread is left waiting for a response, a
\* notification or another thread.
InterruptEndsRun == earlyExit ~> mpc = "end"

\* "Wait to see all threads are paused": the polling loop of
\* PauseSequenceWorkers comes to an end.
PauseCompletes == mpc = "pausing" ~> mpc # "pausing"

\* With --request-count, the warm-up comes to an end (its workers are joined),
\* the level is set, and then every worker leaves by itself, unless a request
\* stays counted for ever.
CountedRunStops ==
    RequestCount # 0 =>
        (level # 0 ~> \/ Leaked
                      \/ /\ mpc \in {"discard", "measure", "idle", "over",
                                     "stopping", "joining", "end"}
                         /\ ~warming
                         /\ \A w \in Launched : Finished(w))
=============================================================================
