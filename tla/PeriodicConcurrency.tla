------------------------- MODULE PeriodicConcurrency -------------------------
(***************************************************************************)
(* Periodic concurrency mode: the PeriodicConcurrencyManager launches one  *)
(* worker for each request, first Start of them and then Step more each    *)
(* time all workers of the latest set have received Period responses, and  *)
(* returns when End requests are complete.                                 *)
(*                                                                         *)
(* There is a thread for each worker, and one of the client library for    *)
(* each worker's stream, which runs the callbacks; a callback may launch   *)
(* the next set.  Only the first set is launched by the main thread, which *)
(* does not hold period_completed_callback_mutex_.                         *)
(***************************************************************************)
EXTENDS Integers, FiniteSets

CONSTANTS
    Start, End, Step,   \* concurrency_range_
    Period,             \* request_period_
    MinResponses,       \* the responses to one request: at least
    MaxResponses,       \* bound: and at most
    Word,               \* the number of values of an uint64_t
    SlowServer,         \* whether responses take their time, see InTime
    MaxFailures,        \* bound: workers whose context, send or response fails
    MayInterrupt        \* whether SIGINT may arrive

\* What the command line accepts.
ASSUME RangeAssumption ==
    /\ Start \in Nat /\ End \in Nat \ {0} /\ Step \in Nat \ {0}
    /\ Start <= End
    /\ (End - Start) % Step = 0
    /\ Period \in Nat \ {0}

ASSUME ServerAssumption ==
    /\ MinResponses \in Nat \ {0}
    /\ MaxResponses \in Nat
    /\ MaxResponses >= MinResponses
    /\ Word \in Nat
    /\ Word > Start + End + Step

ASSUME EnvironmentAssumption ==
    /\ SlowServer \in BOOLEAN
    /\ MaxFailures \in Nat
    /\ MayInterrupt \in BOOLEAN

MaxWorkers == Start + ((End - 1) \div Step) * Step   \* launched in all
Worker     == 0 .. MaxWorkers - 1
None       == -1

VARIABLES
    mpc,         \* where the main thread is
    left,        \* turns left in the running loop of AddConcurrentRequests
    launched,    \* active_threads_
    incomplete,  \* num_incomplete_periods_
    steps,       \* steps_completed_
    completed,   \* num_completed_requests_
    promised,    \* all_requests_completed_promise_ is set
    holder,      \* who holds period_completed_callback_mutex_
    loaded,      \* num_incomplete_periods_ as its holder has read it
    earlyExit,   \* early_exit
    pc,          \* where a worker thread is
    free,        \* ids in a worker's tracker
    notified,    \* notified_
    bad,         \* status_ or cb_status_ is an error
    ongoing,     \* total_ongoing_requests_
    atServer,    \* requests whose last response is still to come
    sent,        \* num_sent_requests_
    cb,          \* where the callback of a worker's stream is
    responses,   \* num_responses_
    final,       \* is_final_response of the running callback
    hasFinal     \* has_received_final_response_

mainVars   == <<mpc, earlyExit>>
countVars  == <<incomplete, steps, holder, loaded>>
launchVars == <<left, launched>>
doneVars   == <<completed, promised>>
threadVars == <<pc, free, notified, bad, ongoing, atServer, sent>>
streamVars == <<cb, responses, final, hasFinal>>
vars == <<mainVars, countVars, launchVars, doneVars, threadVars, streamVars>>

WorkerPc == {"none", "top", "send", "wait", "exiting", "done"}
StreamPc == {"idle", "lock", "store", "launch", "after", "finalize"}

\* Every variable keeps the type of the field it models.
PeriodicTypeOK ==
    /\ mpc \in {"launch", "wait", "end", "crashed"}
    /\ left \in 0 .. End
    /\ launched \in 0 .. MaxWorkers
    /\ incomplete \in 0 .. Word - 1
    /\ steps \in 0 .. End
    /\ completed \in Nat
    /\ promised \in BOOLEAN
    /\ holder \in Worker \cup {None}
    /\ loaded \in 0 .. Word - 1
    /\ earlyExit \in BOOLEAN
    /\ pc \in [Worker -> WorkerPc]
    /\ free \in [Worker -> 0 .. 1]
    /\ notified \in [Worker -> BOOLEAN]
    /\ bad \in [Worker -> BOOLEAN]
    /\ ongoing \in [Worker -> 0 .. 1]
    /\ atServer \in [Worker -> 0 .. 1]
    /\ sent \in [Worker -> Nat]
    /\ cb \in [Worker -> StreamPc]
    /\ responses \in [Worker -> 0 .. MaxResponses]
    /\ final \in [Worker -> BOOLEAN]
    /\ hasFinal \in [Worker -> BOOLEAN]

Init ==
    /\ mpc = "launch" /\ earlyExit = FALSE
    /\ left = Start /\ launched = 0
    /\ incomplete = 0 /\ steps = 0 /\ holder = None /\ loaded = 0
    /\ completed = 0 /\ promised = FALSE
    /\ pc = [w \in Worker |-> "none"]
    /\ free = [w \in Worker |-> 0]
    /\ notified = [w \in Worker |-> FALSE]
    /\ bad = [w \in Worker |-> FALSE]
    /\ ongoing = [w \in Worker |-> 0]
    /\ atServer = [w \in Worker |-> 0]
    /\ sent = [w \in Worker |-> 0]
    /\ cb = [w \in Worker |-> "idle"]
    /\ responses = [w \in Worker |-> 0]
    /\ final = [w \in Worker |-> FALSE]
    /\ hasFinal = [w \in Worker |-> FALSE]

-----------------------------------------------------------------------------
(* The main thread *)

\* Mutant: one turn too many.
OneMoreToAdd == left >= 0

\* The loop of AddConcurrentRequests goes on.
MoreToAdd == left > 0

AddConcurrentRequest ==
    /\ MoreToAdd
    /\ left' = left - 1
    /\ launched' = launched + 1
    /\ pc' = [pc EXCEPT ![launched] = "top"]

\* RunExperiment: AddConcurrentRequests(concurrency_range_.start) ...
LaunchFirstSet ==
    /\ mpc = "launch"
    /\ AddConcurrentRequest
    /\ UNCHANGED <<mainVars, countVars, doneVars, free, notified, bad, ongoing,
                   atServer, sent, streamVars>>

\* ... which counts the periods to come after it has launched the workers.
CountFirstSet ==
    /\ mpc = "launch"
    /\ left = 0
    /\ incomplete' = Start
    /\ mpc' = "wait"
    /\ UNCHANGED <<earlyExit, steps, holder, loaded, launchVars, doneVars,
                   threadVars, streamVars>>

\* WaitForRequestsToFinish and GetRequestRecords.
WaitForRequestsToFinish ==
    /\ mpc = "wait"
    /\ promised
    /\ mpc' = "end"
    /\ UNCHANGED <<earlyExit, countVars, launchVars, doneVars, threadVars,
                   streamVars>>

\* SignalHandler, on its first invocation.
SignalHandler ==
    /\ MayInterrupt
    /\ ~earlyExit
    /\ mpc # "end"
    /\ earlyExit' = TRUE
    /\ UNCHANGED <<mpc, countVars, launchVars, doneVars, threadVars,
                   streamVars>>

-----------------------------------------------------------------------------
(* A worker thread: PeriodicConcurrencyWorker::Infer runs RunInference once *)

OthersUnchanged ==
    UNCHANGED <<mainVars, countVars, launchVars, doneVars, streamVars>>

Goto(w, l) == pc' = [pc EXCEPT ![w] = l]

CanFail == Cardinality({w \in Worker : bad[w]}) < MaxFailures

\* HandleExitConditions, and then on to l.
HandleExitConditions(w, l) ==
    Goto(w, IF earlyExit \/ bad'[w] THEN "exiting" ELSE l)

\* CreateContextsAsNecessary: one context, one id.
CreateContext(w) ==
    /\ pc[w] = "top"
    /\ free' = [free EXCEPT ![w] = 1]
    /\ \/ UNCHANGED bad
       \/ CanFail /\ bad' = [bad EXCEPT ![w] = TRUE]
    /\ HandleExitConditions(w, "send")
    /\ OthersUnchanged
    /\ UNCHANGED <<notified, ongoing, atServer, sent>>

\* The loop of SendInferRequests goes on.
MoreToSend(w) == free[w] > 0 /\ ~earlyExit /\ ~bad[w]

\* One turn of SendInferRequests: AsyncStreamInfer, and then
\* total_ongoing_requests_++ whatever it has returned.  (LoadWorker is about
\* what can happen between the two.)
SendInferRequest(w) ==
    /\ pc[w] = "send"
    /\ MoreToSend(w)
    /\ free' = [free EXCEPT ![w] = @ - 1]
    /\ sent' = [sent EXCEPT ![w] = @ + 1]
    /\ ongoing' = [ongoing EXCEPT ![w] = @ + 1]
    /\ \/ /\ atServer' = [atServer EXCEPT ![w] = 1]
          /\ UNCHANGED bad
       \/ /\ CanFail
          /\ bad' = [bad EXCEPT ![w] = TRUE]
          /\ UNCHANGED atServer
    /\ OthersUnchanged
    /\ UNCHANGED <<pc, notified>>

\* The loop ends; the second call of HandleExitConditions.
EndSendLoop(w) ==
    /\ pc[w] = "send"
    /\ ~MoreToSend(w)
    /\ UNCHANGED bad
    /\ HandleExitConditions(w, "wait")
    /\ OthersUnchanged
    /\ UNCHANGED <<free, notified, ongoing, atServer, sent>>

\* WaitForResponses, the last call of RunInference but one.
WaitForResponses(w) ==
    /\ pc[w] = "wait"
    /\ notified[w]
    /\ notified' = [notified EXCEPT ![w] = FALSE]
    /\ UNCHANGED bad
    /\ HandleExitConditions(w, "done")
    /\ OthersUnchanged
    /\ UNCHANGED <<free, ongoing, atServer, sent>>

\* WaitForOngoingRequests of HandleExitConditions.
LeaveInfer(w) ==
    /\ pc[w] = "exiting"
    /\ ongoing[w] = 0
    /\ Goto(w, "done")
    /\ OthersUnchanged
    /\ UNCHANGED <<free, notified, bad, ongoing, atServer, sent>>

-----------------------------------------------------------------------------
(* The callback of a worker's stream *)

CallbackAt(w, l) == cb' = [cb EXCEPT ![w] = l]

\* What a slow server guarantees: no worker is through its period before the
\* main thread has counted the first set, and none has its final response
\* before it has left the loop of SendInferRequests.
InTime(w, last) ==
    SlowServer => /\ responses[w] + 1 >= Period => mpc # "launch"
                  /\ last => pc[w] \in {"wait", "exiting"}

\* A response reaches AsyncCallbackFuncImpl, and then WorkerCallback makes its
\* first test.  A response that carries an error is not counted, and is taken
\* for the final one.
Response(w) ==
    /\ cb[w] = "idle"
    /\ atServer[w] = 1
    /\ \/ \E last \in BOOLEAN :
             /\ InTime(w, last)
             /\ IF last THEN responses[w] + 1 >= MinResponses
                        ELSE responses[w] + 1 < MaxResponses
             /\ responses' = [responses EXCEPT ![w] = @ + 1]
             /\ final' = [final EXCEPT ![w] = last]
             /\ hasFinal' = [hasFinal EXCEPT ![w] = @ \/ last]
             /\ UNCHANGED bad
       \/ /\ CanFail
          /\ InTime(w, TRUE)
          /\ bad' = [bad EXCEPT ![w] = TRUE]
          /\ final' = [final EXCEPT ![w] = TRUE]
          /\ UNCHANGED <<responses, hasFinal>>
    /\ atServer' = [atServer EXCEPT ![w] = IF final'[w] THEN 0 ELSE 1]
    /\ CallbackAt(w, IF responses'[w] = Period THEN "lock" ELSE "after")
    /\ UNCHANGED <<mainVars, countVars, launchVars, doneVars, pc, free,
                   notified, ongoing, sent>>

\* PeriodCompletedCallback: num_incomplete_periods_-- reads the counter ...
LoadIncomplete(w) ==
    /\ cb[w] = "lock"
    /\ holder = None
    /\ holder' = w
    /\ loaded' = incomplete
    /\ CallbackAt(w, "store")
    /\ UNCHANGED <<mainVars, incomplete, steps, launchVars, doneVars,
                   threadVars, responses, final, hasFinal>>

\* Mutant: the set that ends the range is followed by another one.
OneMoreSet(n) == n * Step <= End

\* Mutant: the last set of the range is left out.
OneSetLess(n) == (n + 1) * Step < End

\* num_requests_sent < concurrency_range_.end, after n steps.
MoreSets(n) == n * Step < End

\* Mutant: one period of the set is not waited for.
AllButOne(n) == n <= 1

\* num_incomplete_periods_ == 0
SetComplete(n) == n = 0

\* ... and writes it back; a complete set may be followed by another one.
StoreIncomplete(w) ==
    LET n == (loaded - 1) % Word
    IN  /\ cb[w] = "store"
        /\ incomplete' = n
        /\ steps' = IF SetComplete(n) THEN steps + 1 ELSE steps
        /\ IF SetComplete(n) /\ MoreSets(steps + 1)
           THEN CallbackAt(w, "launch") /\ left' = Step /\ UNCHANGED holder
           ELSE CallbackAt(w, "after") /\ holder' = None /\ UNCHANGED left
        /\ loaded' = 0
        /\ UNCHANGED <<mainVars, launched, doneVars, threadVars,
                       responses, final, hasFinal>>

\* AddConcurrentRequests(concurrency_range_.step), holding the mutex.
LaunchNextSet(w) ==
    /\ cb[w] = "launch"
    /\ AddConcurrentRequest
    /\ UNCHANGED <<mainVars, countVars, doneVars, free, notified, bad, ongoing,
                   atServer, sent, streamVars>>

CountNextSet(w) ==
    /\ cb[w] = "launch"
    /\ left = 0
    /\ incomplete' = Step
    /\ holder' = None
    /\ CallbackAt(w, "after")
    /\ UNCHANGED <<mainVars, steps, loaded, launchVars, doneVars, threadVars,
                   responses, final, hasFinal>>

\* HasReceivedFinalResponse, which is never reset.
HasReceivedFinalResponse(w) == hasFinal[w]

\* Mutant: the end of the first set is taken for the end.
FirstSetCompleted(n) == n = Start

\* num_completed_requests_ == concurrency_range_.end
AllCompleted(n) == n = End

\* The rest of WorkerCallback: RequestCompletedCallback, or an exception that
\* ends the program.
TestFinal(w) ==
    /\ cb[w] = "after"
    /\ CallbackAt(w, IF final[w] THEN "finalize" ELSE "idle")
    /\ IF HasReceivedFinalResponse(w) /\ responses[w] < Period
       THEN mpc' = "crashed" /\ UNCHANGED doneVars
       ELSE /\ completed' = completed
                              + (IF HasReceivedFinalResponse(w) THEN 1 ELSE 0)
            /\ promised' = (promised \/ AllCompleted(completed'))
            /\ UNCHANGED mpc
    /\ UNCHANGED <<earlyExit, countVars, launchVars, threadVars, responses,
                   final, hasFinal>>

\* The end of AsyncCallbackFuncImpl for a final response, with
\* AsyncCallbackFinalize.
Finalize(w) ==
    /\ cb[w] = "finalize"
    /\ CallbackAt(w, "idle")
    /\ ongoing' = [ongoing EXCEPT ![w] = @ - 1]
    /\ responses' = [responses EXCEPT ![w] = 0]
    /\ free' = [free EXCEPT ![w] = @ + 1]
    /\ notified' = [notified EXCEPT ![w] = TRUE]
    /\ final' = [final EXCEPT ![w] = FALSE]
    /\ UNCHANGED <<mainVars, countVars, launchVars, doneVars, pc, bad,
                   atServer, sent, hasFinal>>

-----------------------------------------------------------------------------
MainStep == LaunchFirstSet \/ CountFirstSet \/ WaitForRequestsToFinish

WorkerStep(w) ==
    \/ CreateContext(w) \/ SendInferRequest(w)
    \/ EndSendLoop(w) \/ WaitForResponses(w)
    \/ LeaveInfer(w)

StreamStep(w) ==
    \/ Response(w) \/ LoadIncomplete(w)
    \/ StoreIncomplete(w) \/ LaunchNextSet(w) \/ CountNextSet(w)
    \/ TestFinal(w) \/ Finalize(w)

Running == mpc # "crashed"

\* RunExperiment has returned, or an exception has ended the program.
Terminated == mpc \in {"end", "crashed"} /\ UNCHANGED vars

Next ==
    \/ Running /\ MainStep
    \/ Running /\ SignalHandler
    \/ \E w \in Worker : Running /\ (WorkerStep(w) \/ StreamStep(w))
    \/ Terminated

\* Threads are scheduled, and the server answers every request in full.
Fairness ==
    /\ WF_vars(Running /\ MainStep)
    /\ \A w \in Worker : /\ WF_vars(Running /\ WorkerStep(w))
                          /\ WF_vars(Running /\ StreamStep(w))

Spec == Init /\ [][Next]_vars
FairSpec == Spec /\ Fairness

-----------------------------------------------------------------------------
(* Properties *)

\* "... the 'end' indicates the *total* number of concurrency since the
\* 'start' (including) and will stop increasing once the cumulative number of
\* concurrent requests has reached the 'end'".
LaunchedWithinEnd == launched <= End

Failed == \E w \in Worker : bad[w]

\* "... launch a new set of requests whenever *all* of the latest set of
\* launched concurrent requests received M number of responses": while a set is
\* launched, every worker of the sets before has received them, unless a
\* request has failed.
StepAfterPeriod ==
    \A v \in Worker : cb[v] = "launch" /\ ~Failed =>
        \A w \in 0 .. launched - (Step - left) - 1 :
            responses[w] >= Period \/ hasFinal[w]

\* PeriodicConcurrencyWorker "issues one request only".  The loop of
\* SendInferRequests ends when the tracker has no id left, and the callback of
\* the final response gives the id back: a worker that is still in the loop
\* by then sends again.
OneRequestOnly == \A w \in Worker : sent[w] <= 1

\* It also "waits for all responses to come in": when RunExperiment hands out
\* the records, every request that was launched has had its final response.
RecordsComplete ==
    mpc = "end" => launched = End /\ \A w \in 0 .. launched - 1 : hasFinal[w]

\* A set is launched neither too early nor forgotten: StepAfterPeriod while
\* the sets are launched, RecordsComplete when they are over.
SetsInOrder == StepAfterPeriod /\ RecordsComplete

\* RunExperiment returns, unless a request fails or the run is interrupted.
ExperimentEnds == <>(mpc = "end" \/ Failed \/ earlyExit)
=============================================================================
