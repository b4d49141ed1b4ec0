---------------------- MODULE PeriodicConcurrencyProofs ----------------------
(***************************************************************************)
(* Periodic concurrency mode with a server that takes its time (InTime):   *)
(* for every range with start <= step, whatever the period, the number of  *)
(* responses, failures and interrupts, no more than 'end' requests are     *)
(* launched, every set waits for the periods of the set before it, and the *)
(* experiment ends with all of them.                                       *)
(***************************************************************************)
EXTENDS PeriodicConcurrency, FiniteSetTheorems, TLAPS

\* A product grows with its first factor.
LEMMA ProductMonotone ==
  ASSUME NEW a \in Nat, NEW b \in Nat, NEW s \in Nat, a <= b
  PROVE  a * s \in Nat /\ b * s \in Nat /\ a * s <= b * s
<1>1. a * s \in Nat /\ b * s \in Nat
  OBVIOUS
<1>2. PICK d \in Nat : b = a + d
  <2>1. b - a \in Nat /\ b = a + (b - a)
    OBVIOUS
  <2> QED
    BY <2>1
<1>3. b * s = a * s + d * s
  BY <1>2
<1>4. d * s \in Nat
  OBVIOUS
<1> QED
  BY <1>1, <1>3, <1>4

\* A number is less than the next multiple of a divisor.
LEMMA Quotient ==
  ASSUME NEW a \in Nat, NEW b \in Nat \ {0}
  PROVE  a < ((a \div b) + 1) * b
BY Z3

\* If another set is launched after n steps, then the range has room for it:
\* the test of PeriodCompletedCallback leaves 'start' out, and is right all the
\* same as long as 'start' is not above 'step'.
LEMMA RoomForTheSet ==
  ASSUME Start <= Step, NEW n \in Nat, n * Step < End
  PROVE  Start + n * Step <= End
<1>1. /\ Start \in Nat /\ End \in Nat /\ Step \in Nat /\ Step > 0
      /\ Start <= End /\ (End - Start) % Step = 0
  BY RangeAssumption
<1> DEFINE m == (End - Start) \div Step
<1>2. m \in Nat /\ End = Start + m * Step
  BY <1>1, Z3
<1>3. m * Step \in Nat /\ n * Step \in Nat
  BY <1>1, <1>2
<1>4. n <= m
  <2>1. SUFFICES ASSUME m + 1 <= n PROVE FALSE
    BY <1>2
  <2>2. (m + 1) * Step <= n * Step
    BY <1>1, <1>2, <2>1, ProductMonotone
  <2>3. (m + 1) * Step = m * Step + Step
    BY <1>1, <1>2
  <2> QED
    BY <1>1, <1>2, <1>3, <2>2, <2>3
<1>5. n * Step <= m * Step
  BY <1>1, <1>2, <1>4, ProductMonotone
<1> QED
  BY <1>1, <1>2, <1>3, <1>5

-----------------------------------------------------------------------------
(* No more than 'end' requests *)

\* The counters and program counters that launching depends on.
LaunchTypes ==
    /\ mpc \in {"launch", "wait", "end", "crashed"}
    /\ left \in Nat
    /\ launched \in Nat
    /\ steps \in Nat
    /\ cb \in [Worker -> StreamPc]
    /\ responses \in [Worker -> Nat]

\* Who is between LoadIncomplete and the release of the mutex holds it.
LaunchMutex == \A w \in Worker : cb[w] \in {"store", "launch"} => holder = w

\* While the main thread launches the first set, no callback is in
\* PeriodCompletedCallback.
FirstSetAlone ==
    mpc = "launch" =>
        \A w \in Worker : cb[w] \notin {"lock", "store", "launch"}

\* A loop of AddConcurrentRequests that is not over belongs to the main thread
\* or to a callback.
LoopOwned ==
    left # 0 => \/ mpc \in {"launch", "crashed"}
                \/ \E w \in Worker : cb[w] = "launch"

\* The requests launched, and those about to be, are within the steps made and
\* within the range.
WithinRange ==
    /\ launched + left <= Start + steps * Step
    /\ launched + left <= End

LaunchInv ==
    LaunchTypes /\ LaunchMutex /\ FirstSetAlone /\ LoopOwned /\ WithinRange

LEMMA LaunchInit == Init => LaunchInv
<1> SUFFICES ASSUME Init PROVE LaunchInv
  OBVIOUS
<1>1. 0 * Step = 0
  BY RangeAssumption
<1> QED
  BY <1>1, RangeAssumption
  DEF Init, LaunchInv, LaunchTypes, LaunchMutex, FirstSetAlone, LoopOwned,
      WithinRange, StreamPc

\* Every step keeps LaunchInv.
LEMMA LaunchStep ==
  ASSUME SlowServer, Start <= Step, LaunchInv, [Next]_vars
  PROVE  LaunchInv'
<1> USE DEF LaunchInv, LaunchTypes, LaunchMutex, FirstSetAlone, LoopOwned,
            WithinRange
<1> Start \in Nat /\ End \in Nat /\ Step \in Nat /\ Period \in Nat
  BY RangeAssumption
<1>0. steps * Step \in Nat
  OBVIOUS
<1>1. CASE UNCHANGED <<mpc, left, launched, steps, cb, responses, holder>>
  BY <1>1
<1>2. CASE LaunchFirstSet
  BY <1>2, <1>0 DEF LaunchFirstSet, AddConcurrentRequest, MoreToAdd, mainVars,
     countVars, streamVars
<1>3. CASE CountFirstSet
  BY <1>3, <1>0 DEF CountFirstSet, launchVars, streamVars
<1>4. CASE WaitForRequestsToFinish
  BY <1>4, <1>0 DEF WaitForRequestsToFinish, countVars, launchVars, streamVars
<1>5. ASSUME NEW w \in Worker, Response(w) PROVE LaunchInv'
  <2> USE DEF Response, CallbackAt, InTime, mainVars, countVars, launchVars,
              StreamPc
  <2>1. responses' \in [Worker -> Nat]
    BY <1>5
  <2>2. cb' \in [Worker -> StreamPc]
    BY <1>5
  <2>3. \A v \in Worker : v # w => cb'[v] = cb[v]
    BY <1>5
  <2>4. /\ cb[w] = "idle" /\ cb'[w] \in {"lock", "after"}
        /\ responses'[w] = Period => mpc # "launch"
        /\ cb'[w] = "lock" => responses'[w] = Period
    BY <1>5
  <2>5. UNCHANGED <<mpc, left, launched, steps, holder>>
    BY <1>5
  <2> QED
    BY <2>1, <2>2, <2>3, <2>4, <2>5, <1>0
<1>6. ASSUME NEW w \in Worker, LoadIncomplete(w) PROVE LaunchInv'
  <2>1. /\ cb[w] = "lock" /\ holder = None /\ holder' = w
        /\ cb' = [cb EXCEPT ![w] = "store"]
        /\ UNCHANGED <<mpc, left, launched, steps, responses>>
    BY <1>6 DEF LoadIncomplete, CallbackAt, mainVars, launchVars
  <2>2. None \notin Worker
    BY DEF None, Worker
  <2> QED
    BY <2>1, <2>2, <1>0 DEF StreamPc
<1>7. ASSUME NEW w \in Worker, StoreIncomplete(w), mpc # "crashed"
      PROVE  LaunchInv'
  <2> DEFINE n == (loaded - 1) % Word
  <2>1. /\ cb[w] = "store"
        /\ UNCHANGED <<mpc, launched, responses>>
        /\ mpc # "launch"
    BY <1>7 DEF StoreIncomplete, mainVars, doneVars
  <2>2. left = 0
    BY <1>7, <2>1
  <2>3. CASE SetComplete(n) /\ MoreSets(steps + 1)
    <3>1. /\ steps' = steps + 1 /\ left' = Step /\ holder' = holder
          /\ cb' = [cb EXCEPT ![w] = "launch"]
      BY <1>7, <2>3 DEF StoreIncomplete, CallbackAt
    <3>2. (steps + 1) * Step = steps * Step + Step
      OBVIOUS
    <3>3. steps + 1 \in Nat /\ (steps + 1) * Step < End
      BY <2>3 DEF MoreSets
    <3>4. Start + (steps + 1) * Step <= End
      BY <3>3, RoomForTheSet
    <3>5. WithinRange'
      BY <2>1, <2>2, <3>1, <3>2, <3>4, <1>0
    <3>6. LaunchTypes'
      BY <2>1, <3>1 DEF StreamPc
    <3>7. cb'[w] = "launch" /\ \A v \in Worker : v # w => cb'[v] = cb[v]
      BY <3>1
    <3>8. LaunchMutex' /\ FirstSetAlone' /\ LoopOwned'
      BY <2>1, <3>1, <3>7
    <3> QED
      BY <3>5, <3>6, <3>8
  <2>4. CASE ~(SetComplete(n) /\ MoreSets(steps + 1))
    <3>1. /\ steps' \in {steps, steps + 1} /\ left' = left /\ holder' = None
          /\ cb' = [cb EXCEPT ![w] = "after"]
      BY <1>7, <2>4 DEF StoreIncomplete, CallbackAt
    <3>2. steps' \in Nat /\ steps <= steps'
      BY <3>1
    <3>3. steps' * Step \in Nat /\ steps * Step <= steps' * Step
      BY <3>2, ProductMonotone
    <3>4. launched' + left' = launched + left
      BY <2>1, <3>1
    <3>5. WithinRange'
      <4>1. launched + left <= Start + steps * Step /\ launched + left <= End
        OBVIOUS
      <4>2. launched + left \in Nat
        OBVIOUS
      <4> HIDE DEF LaunchInv, LaunchTypes, LaunchMutex, FirstSetAlone,
                   LoopOwned
      <4>3. launched + left <= Start + steps' * Step
        BY <4>1, <4>2, <3>3, <1>0
      <4> QED
        BY <4>1, <4>3, <3>4
    <3>6. LaunchTypes'
      BY <2>1, <3>1, <3>2 DEF StreamPc
    <3>7. cb'[w] = "after" /\ \A v \in Worker : v # w => cb'[v] = cb[v]
      BY <3>1
    <3>8. LaunchMutex' /\ FirstSetAlone' /\ LoopOwned'
      BY <2>1, <2>2, <3>1, <3>7
    <3> QED
      BY <3>5, <3>6, <3>8
  <2> QED
    BY <2>3, <2>4
<1>8. ASSUME NEW w \in Worker, LaunchNextSet(w) PROVE LaunchInv'
  BY <1>8, <1>0 DEF LaunchNextSet, AddConcurrentRequest, MoreToAdd, mainVars,
     countVars, streamVars
<1>9. ASSUME NEW w \in Worker, CountNextSet(w) PROVE LaunchInv'
  <2>1. /\ cb[w] = "launch" /\ left = 0 /\ holder' = None
        /\ cb' = [cb EXCEPT ![w] = "after"]
        /\ UNCHANGED <<mpc, left, launched, steps, responses>>
    BY <1>9 DEF CountNextSet, CallbackAt, mainVars, launchVars
  <2> QED
    BY <2>1, <1>0 DEF StreamPc
<1>10. ASSUME NEW w \in Worker, TestFinal(w) PROVE LaunchInv'
  <2>1. /\ cb[w] = "after" /\ cb'[w] \in {"finalize", "idle"}
        /\ cb' = [cb EXCEPT ![w] = cb'[w]]
        /\ UNCHANGED <<left, launched, steps, responses, holder>>
        /\ mpc' \in {mpc, "crashed"}
    BY <1>10 DEF TestFinal, CallbackAt, countVars, launchVars
  <2> QED
    BY <2>1, <1>0 DEF StreamPc
<1>11. ASSUME NEW w \in Worker, Finalize(w) PROVE LaunchInv'
  <2>1. /\ cb[w] = "finalize" /\ cb' = [cb EXCEPT ![w] = "idle"]
        /\ responses' = [responses EXCEPT ![w] = 0]
        /\ UNCHANGED <<mpc, left, launched, steps, holder>>
    BY <1>11 DEF Finalize, CallbackAt, mainVars, countVars, launchVars
  <2> QED
    BY <2>1, <1>0 DEF StreamPc
<1>12. CASE SignalHandler
  BY <1>1, <1>12 DEF SignalHandler, countVars, launchVars, streamVars
<1>13. ASSUME NEW w \in Worker, WorkerStep(w) PROVE LaunchInv'
  <2>1. OthersUnchanged
    BY <1>13 DEF WorkerStep, CreateContext, SendInferRequest, EndSendLoop,
       WaitForResponses, LeaveInfer
  <2> QED
    BY <2>1, <1>1 DEF OthersUnchanged, mainVars, countVars, launchVars,
       streamVars
<1>14. CASE UNCHANGED vars
  BY <1>1, <1>14 DEF vars, mainVars, countVars, launchVars, streamVars
<1> QED
  BY <1>2, <1>3, <1>4, <1>5, <1>6, <1>7, <1>8, <1>9, <1>10, <1>11, <1>12,
     <1>13, <1>14
  DEF Next, Running, MainStep, StreamStep, Terminated

\* For every range with start <= step no more requests are launched than the
\* range has: PeriodCompletedCallback launches no set too many.
THEOREM RangeRespected ==
  ASSUME SlowServer, Start <= Step
  PROVE  Spec => []LaunchedWithinEnd
<1>1. Init => LaunchInv
  BY LaunchInit
<1>2. LaunchInv /\ [Next]_vars => LaunchInv'
  BY LaunchStep
<1>3. LaunchInv => LaunchedWithinEnd
  BY RangeAssumption
  DEF LaunchInv, LaunchTypes, WithinRange, LaunchedWithinEnd
<1> QED
  BY <1>1, <1>2, <1>3, PTL DEF Spec

-----------------------------------------------------------------------------
(* One request for each worker *)

SendTypes ==
    /\ launched \in Nat
    /\ pc \in [Worker -> WorkerPc]
    /\ free \in [Worker -> Nat]
    /\ sent \in [Worker -> Nat]
    /\ cb \in [Worker -> StreamPc]
    /\ final \in [Worker -> BOOLEAN]

\* The loop of SendInferRequests is over before the final response comes, so
\* that the id which the callback gives back is not taken again.
FinalAfterLoop ==
    \A w \in Worker :
        /\ final[w] => pc[w] \in {"wait", "exiting", "done"}
        /\ cb[w] = "finalize" => final[w]

\* Workers are launched in turn; a worker's one id pays for one request.
OneIdEach ==
    \A w \in Worker :
        /\ w >= launched => pc[w] = "none"
        /\ pc[w] \in {"none", "top"} => sent[w] = 0
        /\ pc[w] = "send" => sent[w] + free[w] <= 1
        /\ sent[w] <= 1

SendInv == SendTypes /\ FinalAfterLoop /\ OneIdEach

LEMMA SendInit == Init => SendInv
  BY DEF Init, SendInv, SendTypes, FinalAfterLoop, OneIdEach, WorkerPc,
     StreamPc

\* Every step keeps SendInv.
LEMMA SendStep ==
  ASSUME SlowServer, SendInv, [Next]_vars
  PROVE  SendInv'
<1> USE DEF SendInv, SendTypes, FinalAfterLoop, OneIdEach
<1> \A w \in Worker : w \in Int
  BY DEF Worker
<1>1. CASE UNCHANGED <<launched, pc, free, sent, cb, final>>
  BY <1>1
<1>2. CASE AddConcurrentRequest /\ UNCHANGED <<free, sent, cb, final>>
  <2>1. /\ launched' = launched + 1
        /\ \A v \in Worker : pc'[v] = IF v = launched THEN "top" ELSE pc[v]
        /\ pc' \in [Worker -> WorkerPc]
    BY <1>2 DEF AddConcurrentRequest, WorkerPc
  <2> QED
    BY <1>2, <2>1
<1>3. ASSUME NEW w \in Worker, CreateContext(w) PROVE SendInv'
  BY <1>3 DEF CreateContext, HandleExitConditions, Goto, OthersUnchanged,
     launchVars, streamVars, WorkerPc
<1>4. ASSUME NEW w \in Worker, SendInferRequest(w) PROVE SendInv'
  BY <1>4 DEF SendInferRequest, MoreToSend, OthersUnchanged, launchVars,
     streamVars
<1>5. ASSUME NEW w \in Worker, EndSendLoop(w) PROVE SendInv'
  BY <1>5 DEF EndSendLoop, HandleExitConditions, Goto, OthersUnchanged,
     launchVars, streamVars, WorkerPc
<1>6. ASSUME NEW w \in Worker, WaitForResponses(w) PROVE SendInv'
  BY <1>6 DEF WaitForResponses, HandleExitConditions, Goto, OthersUnchanged,
     launchVars, streamVars, WorkerPc
<1>7. ASSUME NEW w \in Worker, LeaveInfer(w) PROVE SendInv'
  BY <1>7 DEF LeaveInfer, Goto, OthersUnchanged, launchVars, streamVars,
     WorkerPc
<1>8. ASSUME NEW w \in Worker, Response(w) PROVE SendInv'
  <2>1. UNCHANGED <<launched, pc, free, sent>>
    BY <1>8 DEF Response, launchVars
  <2>2. cb' = [cb EXCEPT ![w] = "lock"] \/ cb' = [cb EXCEPT ![w] = "after"]
    BY <1>8 DEF Response, CallbackAt
  <2>3. \E l \in BOOLEAN : final' = [final EXCEPT ![w] = l]
                          /\ InTime(w, l)
    BY <1>8 DEF Response
  <2>4. PICK l \in BOOLEAN : /\ final' = [final EXCEPT ![w] = l]
                             /\ l => pc[w] \in {"wait", "exiting"}
    BY <2>3 DEF InTime
  <2>5. cb' \in [Worker -> StreamPc] /\ final' \in [Worker -> BOOLEAN]
    BY <2>2, <2>4 DEF StreamPc
  <2> QED
    BY <2>1, <2>2, <2>4, <2>5
<1>9. ASSUME NEW w \in Worker, NEW l \in StreamPc \ {"finalize"},
             CallbackAt(w, l), UNCHANGED <<launched, pc, free, sent, final>>
      PROVE  SendInv'
  BY <1>9 DEF CallbackAt
<1>10. ASSUME NEW w \in Worker,
              LoadIncomplete(w) \/ StoreIncomplete(w) \/ CountNextSet(w)
       PROVE  SendInv'
  <2>1. UNCHANGED <<launched, pc, free, sent, final>>
    BY <1>10 DEF LoadIncomplete, StoreIncomplete, CountNextSet, launchVars,
       threadVars
  <2>2. \E l \in StreamPc \ {"finalize"} : CallbackAt(w, l)
    BY <1>10 DEF LoadIncomplete, StoreIncomplete, CountNextSet, StreamPc
  <2>3. PICK l \in StreamPc \ {"finalize"} : CallbackAt(w, l)
    BY <2>2
  <2> QED
    BY <2>1, <2>3, <1>9
<1>11. ASSUME NEW w \in Worker, TestFinal(w) PROVE SendInv'
  BY <1>11 DEF TestFinal, CallbackAt, StreamPc, launchVars, threadVars
<1>12. ASSUME NEW w \in Worker, Finalize(w) PROVE SendInv'
  BY <1>12 DEF Finalize, CallbackAt, StreamPc, launchVars
<1>13. CASE LaunchFirstSet \/ \E w \in Worker : LaunchNextSet(w)
  BY <1>2, <1>13 DEF LaunchFirstSet, LaunchNextSet, streamVars
<1>14. CASE \/ CountFirstSet \/ WaitForRequestsToFinish \/ SignalHandler
            \/ UNCHANGED vars
  BY <1>1, <1>14 DEF CountFirstSet, WaitForRequestsToFinish, SignalHandler,
     launchVars, threadVars, streamVars, vars
<1> QED
  BY <1>3, <1>4, <1>5, <1>6, <1>7, <1>8, <1>10, <1>11, <1>12, <1>13, <1>14
  DEF Next, MainStep, WorkerStep, StreamStep, Terminated

-----------------------------------------------------------------------------
(* Every set waits for the periods of the set before it *)

\* The loops of AddConcurrentRequests stop at the last worker there is.
Room == launched + left <= MaxWorkers

LEMMA RoomInit == Init => Room
<1> SUFFICES ASSUME Init PROVE Room
  OBVIOUS
<1> DEFINE d == (End - 1) \div Step
<1>1. Start \in Nat /\ End \in Nat \ {0} /\ Step \in Nat \ {0}
  BY RangeAssumption
<1>2. d \in Nat
  BY <1>1
<1>3. d * Step \in Nat
  BY <1>1, <1>2
<1>4. MaxWorkers = Start + d * Step /\ launched = 0 /\ left = Start
  BY DEF Init, MaxWorkers
<1> HIDE DEF d
<1> QED
  BY <1>1, <1>3, <1>4 DEF Room

\* Every step keeps Room.
LEMMA RoomStep ==
  ASSUME LaunchInv, Room, [Next]_vars
  PROVE  Room'
<1> Start \in Nat /\ End \in Nat \ {0} /\ Step \in Nat \ {0}
  BY RangeAssumption
<1> left \in Nat /\ launched \in Nat /\ steps \in Nat
  BY DEF LaunchInv, LaunchTypes
<1> MaxWorkers' = MaxWorkers
  BY DEF MaxWorkers
<1>1. CASE UNCHANGED <<left, launched>>
  BY <1>1 DEF Room
<1>2. CASE AddConcurrentRequest
  BY <1>2 DEF AddConcurrentRequest, MoreToAdd, Room
<1>3. ASSUME NEW w \in Worker, StoreIncomplete(w), mpc # "crashed",
             ~ UNCHANGED left
      PROVE  Room'
  <2> DEFINE d == (End - 1) \div Step
  <2>1. /\ cb[w] = "store" /\ left' = Step /\ launched' = launched
        /\ (steps + 1) * Step < End
    BY <1>3 DEF StoreIncomplete, MoreSets
  <2>2. d \in Nat /\ steps + 1 \in Nat
    OBVIOUS
  <2>3. steps + 1 <= d
    <3>1. SUFFICES ASSUME d + 1 <= steps + 1 PROVE FALSE
      BY <2>2
    <3>2. End - 1 < (d + 1) * Step
      <4>1. End - 1 \in Nat
        OBVIOUS
      <4> QED
        BY <4>1, Quotient
    <3>3. (d + 1) * Step <= (steps + 1) * Step
      BY <2>2, <3>1, ProductMonotone
    <3> QED
      BY <2>1, <2>2, <3>2, <3>3
  <2>4. (steps + 1) * Step <= d * Step
    BY <2>2, <2>3, ProductMonotone
  <2>5. (steps + 1) * Step = steps * Step + Step
    OBVIOUS
  <2>6. launched <= Start + steps * Step
    BY DEF LaunchInv, WithinRange
  <2>7. MaxWorkers = Start + d * Step
    BY DEF MaxWorkers
  <2>8. steps * Step \in Nat /\ d * Step \in Nat
    BY <2>2
  <2> HIDE DEF d
  <2> QED
    BY <2>1, <2>4, <2>5, <2>6, <2>7, <2>8 DEF Room
<1>4. ASSUME NEW w \in Worker, WorkerStep(w) PROVE Room'
  BY <1>1, <1>4 DEF WorkerStep, CreateContext, SendInferRequest,
     EndSendLoop, WaitForResponses, LeaveInfer, OthersUnchanged, launchVars
<1>5. ASSUME NEW w \in Worker, StreamStep(w), mpc # "crashed" PROVE Room'
  <2>1. CASE UNCHANGED <<left, launched>>
    BY <2>1, <1>1
  <2>2. CASE AddConcurrentRequest
    BY <2>2, <1>2
  <2>3. CASE StoreIncomplete(w) /\ ~ UNCHANGED left
    BY <2>3, <1>5, <1>3
  <2> QED
    BY <1>5, <2>1, <2>2, <2>3 DEF StreamStep, Response, LoadIncomplete,
       StoreIncomplete, LaunchNextSet, CountNextSet, TestFinal, Finalize,
       launchVars
<1> QED
  BY <1>1, <1>2, <1>4, <1>5 DEF Next, Running, MainStep, LaunchFirstSet,
     CountFirstSet, WaitForRequestsToFinish, SignalHandler, Terminated, vars,
     launchVars

-----------------------------------------------------------------------------
(* One answer to each request *)

StreamTypes ==
    /\ incomplete \in 0 .. Word - 1
    /\ loaded \in 0 .. Word - 1
    /\ bad \in [Worker -> BOOLEAN]
    /\ atServer \in [Worker -> 0 .. 1]
    /\ hasFinal \in [Worker -> BOOLEAN]

\* The stream of a worker that has sent nothing is silent, the final response
\* is the last one, and WorkerCallback sees it as final.
OneAnswer ==
    \A w \in Worker :
        /\ sent[w] = 0 => /\ atServer[w] = 0 /\ cb[w] = "idle"
                          /\ responses[w] = 0 /\ ~hasFinal[w]
        /\ hasFinal[w] => atServer[w] = 0
        /\ hasFinal[w] /\ cb[w] \notin {"finalize", "idle"} => final[w]

AnswerInv == StreamTypes /\ OneAnswer

LEMMA AnswerInit == Init => AnswerInv
BY ServerAssumption, RangeAssumption
DEF Init, AnswerInv, StreamTypes, OneAnswer

\* Every step keeps AnswerInv.
LEMMA AnswerStep ==
  ASSUME LaunchInv, SendInv, AnswerInv, [Next]_vars
  PROVE  AnswerInv'
<1> USE DEF AnswerInv, OneAnswer, CallbackAt
<1> /\ cb \in [Worker -> StreamPc] /\ responses \in [Worker -> Nat]
    /\ final \in [Worker -> BOOLEAN] /\ sent \in [Worker -> Nat]
    /\ free \in [Worker -> Nat]
  BY DEF LaunchInv, LaunchTypes, SendInv, SendTypes
<1>t. StreamTypes'
  <2> /\ Start \in 0 .. Word - 1 /\ Step \in 0 .. Word - 1
      /\ Word \in Nat \ {0}
    BY RangeAssumption, ServerAssumption
  <2>1. CASE UNCHANGED <<incomplete, loaded, bad, atServer, hasFinal>>
    BY <2>1 DEF AnswerInv, StreamTypes
  <2>2. CASE \/ CountFirstSet
             \/ \E w \in Worker : CountNextSet(w) \/ LoadIncomplete(w)
    BY <2>2 DEF StreamTypes, CountFirstSet, CountNextSet, LoadIncomplete,
       threadVars, streamVars
  <2>3. ASSUME NEW w \in Worker, StoreIncomplete(w) PROVE StreamTypes'
    <3>1. (loaded - 1) % Word \in 0 .. Word - 1
      BY DEF StreamTypes
    <3> QED
      <4>1. /\ incomplete' = (loaded - 1) % Word /\ loaded' = 0
            /\ UNCHANGED <<bad, atServer, hasFinal>>
        BY <2>3 DEF StoreIncomplete, threadVars
      <4> QED
        BY <3>1, <4>1 DEF StreamTypes
  <2>4. ASSUME NEW w \in Worker, WorkerStep(w) PROVE StreamTypes'
    <3> USE DEF WorkerStep, CreateContext, SendInferRequest, EndSendLoop,
                WaitForResponses, LeaveInfer
    <3>1. UNCHANGED <<incomplete, loaded, hasFinal>>
      BY <2>4 DEF OthersUnchanged, countVars, streamVars
    <3>2. bad' = bad \/ bad' = [bad EXCEPT ![w] = TRUE]
      BY <2>4
    <3>3. atServer' = atServer \/ atServer' = [atServer EXCEPT ![w] = 1]
      BY <2>4
    <3>4. bad' \in [Worker -> BOOLEAN]
      BY <3>2 DEF StreamTypes
    <3>5. atServer' \in [Worker -> 0 .. 1]
      BY <3>3 DEF StreamTypes
    <3> QED
      BY <3>1, <3>4, <3>5 DEF StreamTypes
  <2>5. ASSUME NEW w \in Worker, Response(w) PROVE StreamTypes'
    <3>1. UNCHANGED <<incomplete, loaded>>
      BY <2>5 DEF Response, countVars
    <3>2. atServer' \in [Worker -> 0 .. 1]
      BY <2>5 DEF Response, StreamTypes
    <3>3. bad' = bad \/ bad' = [bad EXCEPT ![w] = TRUE]
      BY <2>5 DEF Response
    <3>4. bad' \in [Worker -> BOOLEAN]
      BY <3>3 DEF StreamTypes
    <3>5. hasFinal' \in [Worker -> BOOLEAN]
      <4>1. ASSUME NEW last \in BOOLEAN,
                   hasFinal' = [hasFinal EXCEPT ![w] = @ \/ last]
            PROVE  hasFinal' \in [Worker -> BOOLEAN]
        <5>1. (hasFinal[w] \/ last) \in BOOLEAN
          OBVIOUS
        <5> QED
          BY <4>1, <5>1 DEF StreamTypes
      <4> QED
        BY <2>5, <4>1 DEF Response, StreamTypes
    <3> QED
      BY <3>1, <3>2, <3>4, <3>5 DEF StreamTypes
  <2> QED
    BY <2>1, <2>2, <2>3, <2>4, <2>5
    DEF Next, MainStep, StreamStep, LaunchFirstSet, WaitForRequestsToFinish,
        SignalHandler, LaunchNextSet, TestFinal, Finalize, Terminated, vars,
        countVars, threadVars, streamVars
<1>1. CASE UNCHANGED <<sent, atServer, cb, responses, hasFinal, final>>
  BY <1>1, <1>t
<1>2. ASSUME NEW w \in Worker, SendInferRequest(w) PROVE AnswerInv'
  <2>1. /\ pc[w] = "send" /\ free[w] > 0
        /\ sent' = [sent EXCEPT ![w] = @ + 1]
        /\ atServer' = atServer \/ atServer' = [atServer EXCEPT ![w] = 1]
        /\ UNCHANGED <<cb, responses, hasFinal, final>>
    BY <1>2 DEF SendInferRequest, MoreToSend, OthersUnchanged, streamVars
  <2>2. sent[w] = 0
    BY <2>1 DEF SendInv, OneIdEach
  <2>3. ~hasFinal[w] /\ cb[w] = "idle"
    BY <2>2
  <2>4. /\ \A v \in Worker \ {w} : sent'[v] = sent[v]
                                   /\ atServer'[v] = atServer[v]
        /\ sent'[w] # 0
    BY <2>1, <2>2 DEF StreamTypes
  <2> QED
    BY <2>1, <2>3, <2>4, <1>t
<1>3. ASSUME NEW w \in Worker, Response(w) PROVE AnswerInv'
  <2>1. /\ cb[w] = "idle" /\ atServer[w] = 1 /\ UNCHANGED sent
        /\ \A v \in Worker \ {w} :
               /\ cb'[v] = cb[v] /\ atServer'[v] = atServer[v]
               /\ responses'[v] = responses[v] /\ final'[v] = final[v]
               /\ hasFinal'[v] = hasFinal[v]
    BY <1>3 DEF Response, StreamTypes
  <2>2. sent[w] # 0 /\ ~hasFinal[w]
    BY <2>1
  <2>3. atServer'[w] = IF final'[w] THEN 0 ELSE 1
    BY <1>3 DEF Response, StreamTypes
  <2>4. hasFinal'[w] => final'[w]
    <3>1. ASSUME NEW last \in BOOLEAN, final' = [final EXCEPT ![w] = last],
                 hasFinal' = [hasFinal EXCEPT ![w] = @ \/ last]
          PROVE  hasFinal'[w] => final'[w]
      BY <3>1, <2>2 DEF StreamTypes
    <3> QED
      BY <1>3, <2>2, <3>1 DEF Response
  <2> QED
    BY <2>1, <2>2, <2>3, <2>4, <1>t
<1>4. ASSUME NEW w \in Worker,
             \/ LoadIncomplete(w) \/ StoreIncomplete(w) \/ CountNextSet(w)
      PROVE  AnswerInv'
  <2>1. /\ cb[w] \in {"lock", "store", "launch"}
        /\ UNCHANGED <<sent, atServer, responses, hasFinal, final>>
        /\ \A v \in Worker \ {w} : cb'[v] = cb[v]
    BY <1>4 DEF LoadIncomplete, StoreIncomplete, CountNextSet, threadVars
  <2> QED
    BY <2>1, <1>t
<1>5. ASSUME NEW w \in Worker, TestFinal(w) PROVE AnswerInv'
  <2>1. /\ cb[w] = "after" /\ cb'[w] \in {"finalize", "idle"}
        /\ UNCHANGED <<sent, atServer, responses, hasFinal, final>>
        /\ \A v \in Worker \ {w} : cb'[v] = cb[v]
    BY <1>5 DEF TestFinal, threadVars
  <2> QED
    BY <2>1, <1>t
<1>6. ASSUME NEW w \in Worker, Finalize(w) PROVE AnswerInv'
  <2>1. /\ cb[w] = "finalize" /\ cb'[w] = "idle"
        /\ UNCHANGED <<sent, atServer, hasFinal>>
        /\ \A v \in Worker \ {w} :
               /\ cb'[v] = cb[v] /\ responses'[v] = responses[v]
               /\ final'[v] = final[v]
    BY <1>6 DEF Finalize
  <2>2. sent[w] # 0
    BY <2>1
  <2> QED
    BY <2>1, <2>2, <1>t
<1>7. ASSUME NEW w \in Worker, WorkerStep(w), ~SendInferRequest(w)
      PROVE  AnswerInv'
  BY <1>1, <1>7 DEF WorkerStep, CreateContext, EndSendLoop,
     WaitForResponses, LeaveInfer, OthersUnchanged, streamVars
<1>8. CASE LaunchFirstSet \/ \E w \in Worker : LaunchNextSet(w)
  BY <1>1, <1>8 DEF LaunchFirstSet, LaunchNextSet, streamVars
<1>9. CASE \/ CountFirstSet \/ WaitForRequestsToFinish \/ SignalHandler
           \/ UNCHANGED vars
  BY <1>1, <1>9 DEF CountFirstSet, WaitForRequestsToFinish, SignalHandler,
     threadVars, streamVars, vars
<1> QED
  BY <1>2, <1>3, <1>4, <1>5, <1>6, <1>7, <1>8, <1>9
  DEF Next, MainStep, StreamStep, Terminated

-----------------------------------------------------------------------------
(* The requests completed *)

\* The workers whose final response RequestCompletedCallback has counted.
Counted == {w \in Worker : hasFinal[w] /\ cb[w] \in {"finalize", "idle"}}

\* num_completed_requests_ counts them, and the promise is made for 'end'.
CompletedCounted ==
    mpc # "crashed" =>
        /\ completed = Cardinality(Counted)
        /\ promised => completed = End
        /\ mpc = "end" => promised

LEMMA CompletedInit == Init => CompletedCounted
<1> SUFFICES ASSUME Init PROVE CompletedCounted
  OBVIOUS
<1>1. Counted = {}
  BY DEF Init, Counted
<1> QED
  BY <1>1, FS_EmptySet DEF Init, CompletedCounted

\* The workers of an interval, by number.
LEMMA WorkersOfInterval ==
  ASSUME NEW a \in Nat, NEW b \in Nat, a <= b, b <= MaxWorkers
  PROVE  Cardinality({w \in Worker : a <= w /\ w < b}) = b - a
<1>1. MaxWorkers \in Int
  BY RangeAssumption DEF MaxWorkers
<1>2. {w \in Worker : a <= w /\ w < b} = a .. b - 1
  BY <1>1 DEF Worker
<1>3. Cardinality(a .. b - 1) = b - a
  <2>1. b - 1 \in Int /\ a > b - 1 => b = a
    OBVIOUS
  <2>2. Cardinality(a .. b - 1) = IF a > b - 1 THEN 0 ELSE (b - 1) - a + 1
    BY <2>1, FS_Interval
  <2> QED
    BY <2>1, <2>2
<1> QED
  BY <1>2, <1>3

\* Only workers that were launched have had their final response.
LEMMA CountedLaunched ==
  ASSUME LaunchInv, SendInv, AnswerInv
  PROVE  /\ Counted \subseteq 0 .. launched - 1
         /\ IsFiniteSet(Counted) /\ Cardinality(Counted) \in Nat
         /\ Cardinality(Counted) <= launched
         /\ Cardinality(Counted) = launched => Counted = 0 .. launched - 1
         /\ launched \in Nat /\ launched <= End
<1>1. launched \in Nat /\ launched <= End
  BY RangeAssumption DEF LaunchInv, LaunchTypes, WithinRange
<1>2. Counted \subseteq 0 .. launched - 1
  <2>1. SUFFICES ASSUME NEW w \in Worker, hasFinal[w]
                 PROVE  w \in Nat /\ w < launched
    BY <1>1 DEF Counted
  <2>2. sent[w] # 0
    BY <2>1 DEF AnswerInv, OneAnswer
  <2>3. pc[w] # "none"
    BY <2>2 DEF SendInv, OneIdEach
  <2>4. w \in Nat
    BY DEF Worker
  <2> QED
    BY <2>3, <2>4, <1>1 DEF SendInv, OneIdEach
<1>3. /\ IsFiniteSet(0 .. launched - 1)
      /\ Cardinality(0 .. launched - 1) = launched
  BY <1>1, FS_Interval
<1>4. /\ IsFiniteSet(Counted)
      /\ Cardinality(Counted) <= Cardinality(0 .. launched - 1)
      /\ Cardinality(0 .. launched - 1) = Cardinality(Counted)
         => 0 .. launched - 1 = Counted
  BY <1>2, <1>3, FS_Subset
<1>5. Cardinality(Counted) \in Nat
  BY <1>4, FS_CardinalityType
<1> QED
  BY <1>1, <1>2, <1>3, <1>4, <1>5

\* Only TestFinal counts.
LEMMA CountedKept ==
  ASSUME LaunchInv, AnswerInv, [Next]_vars,
         \A w \in Worker : ~TestFinal(w)
  PROVE  Counted' = Counted
<1> USE DEF CallbackAt
<1> cb \in [Worker -> StreamPc] /\ hasFinal \in [Worker -> BOOLEAN]
  BY DEF LaunchInv, LaunchTypes, AnswerInv, StreamTypes
<1>1. CASE UNCHANGED <<hasFinal, cb>>
  BY <1>1 DEF Counted
<1>2. ASSUME NEW v \in Worker, Response(v) PROVE Counted' = Counted
  <2>1. cb[v] = "idle" /\ ~hasFinal[v]
    BY <1>2 DEF Response, AnswerInv, OneAnswer
  <2>2. cb'[v] \in {"lock", "after"}
    BY <1>2 DEF Response
  <2>3. \A w \in Worker \ {v} : cb'[w] = cb[w]
    BY <1>2 DEF Response
  <2>4. \A w \in Worker \ {v} : hasFinal'[w] = hasFinal[w]
    BY <1>2 DEF Response
  <2> QED
    BY <2>1, <2>2, <2>3, <2>4 DEF Counted
<1>3. ASSUME NEW v \in Worker,
             \/ LoadIncomplete(v) \/ StoreIncomplete(v) \/ CountNextSet(v)
      PROVE  Counted' = Counted
  <2>1. /\ cb[v] \in {"lock", "store", "launch"}
        /\ cb'[v] \in {"store", "launch", "after"}
        /\ \A w \in Worker \ {v} : cb'[w] = cb[w]
        /\ UNCHANGED hasFinal
    BY <1>3 DEF LoadIncomplete, StoreIncomplete, CountNextSet
  <2> QED
    BY <2>1 DEF Counted
<1>4. ASSUME NEW v \in Worker, Finalize(v) PROVE Counted' = Counted
  <2>1. /\ cb[v] = "finalize" /\ cb'[v] = "idle"
        /\ \A w \in Worker \ {v} : cb'[w] = cb[w]
        /\ UNCHANGED hasFinal
    BY <1>4 DEF Finalize
  <2> QED
    BY <2>1 DEF Counted
<1> QED
  BY <1>1, <1>2, <1>3, <1>4
  DEF Next, MainStep, WorkerStep, StreamStep, LaunchFirstSet, CountFirstSet,
      WaitForRequestsToFinish, SignalHandler, LaunchNextSet, CreateContext,
      SendInferRequest, EndSendLoop, WaitForResponses, LeaveInfer,
      OthersUnchanged, Terminated, vars, streamVars

\* Nothing follows the exception of WorkerCallback.
LEMMA CrashStays ==
  ASSUME [Next]_vars, mpc = "crashed"
  PROVE  UNCHANGED vars
BY DEF Next, Running, Terminated

\* Every step keeps CompletedCounted.
LEMMA CompletedStep ==
  ASSUME LaunchInv, SendInv, AnswerInv, CompletedCounted, [Next]_vars
  PROVE  CompletedCounted'
<1>1. SUFFICES ASSUME mpc' # "crashed" PROVE CompletedCounted'
  BY DEF CompletedCounted
<1>2. mpc # "crashed"
  BY <1>1, CrashStays DEF vars, mainVars
<1>3. /\ completed = Cardinality(Counted)
      /\ promised => completed = End
      /\ mpc = "end" => promised
  BY <1>2 DEF CompletedCounted
<1>4. CASE /\ UNCHANGED <<completed, promised>>
           /\ mpc' = "end" => mpc = "end" \/ promised
           /\ \A w \in Worker : ~TestFinal(w)
  BY <1>3, <1>4, CountedKept DEF CompletedCounted
<1>5. ASSUME NEW w \in Worker, TestFinal(w) PROVE CompletedCounted'
  <2> cb \in [Worker -> StreamPc] /\ hasFinal \in [Worker -> BOOLEAN]
    BY DEF LaunchInv, LaunchTypes, AnswerInv, StreamTypes
  <2>1. /\ cb[w] = "after" /\ UNCHANGED <<mpc, hasFinal>>
        /\ cb'[w] = IF final[w] THEN "finalize" ELSE "idle"
        /\ \A v \in Worker \ {w} : cb'[v] = cb[v]
    BY <1>1, <1>5 DEF TestFinal, CallbackAt
  <2>2. /\ completed' = completed + (IF hasFinal[w] THEN 1 ELSE 0)
        /\ promised' = (promised \/ completed' = End)
    BY <1>1, <1>5 DEF TestFinal, HasReceivedFinalResponse, AllCompleted
  <2>3. IsFiniteSet(Counted) /\ Cardinality(Counted) \in Nat
    BY CountedLaunched
  <2>4. CASE hasFinal[w]
    <3>1. Counted' = Counted \cup {w} /\ w \notin Counted
      BY <2>1, <2>4 DEF Counted
    <3>2. Cardinality(Counted') = Cardinality(Counted) + 1
      BY <2>3, <3>1, FS_AddElement
    <3>3. completed' = Cardinality(Counted')
      BY <1>3, <2>2, <2>4, <3>2
    <3>4. ~promised
      <4>1. SUFFICES ASSUME promised PROVE FALSE
        OBVIOUS
      <4>2. /\ Cardinality(Counted) = End
            /\ Counted \subseteq 0 .. launched - 1
            /\ Cardinality(Counted) <= launched /\ launched <= End
            /\ launched \in Nat /\ End \in Nat
        BY <1>3, <4>1, CountedLaunched, RangeAssumption
      <4>3. Counted = 0 .. launched - 1
        BY <4>2, CountedLaunched
      <4>4. w \in 0 .. launched - 1
        <5>1. sent[w] # 0
          BY <2>1 DEF AnswerInv, OneAnswer
        <5>2. pc[w] # "none" /\ w \in Nat
          BY <5>1 DEF SendInv, OneIdEach, Worker
        <5> QED
          BY <4>2, <5>2 DEF SendInv, OneIdEach
      <4> QED
        BY <3>1, <4>3, <4>4
    <3>5. promised' => completed' = End
      BY <2>2, <3>4
    <3>6. mpc' = "end" => promised'
      BY <1>3, <2>1, <3>4
    <3> QED
      BY <3>3, <3>5, <3>6 DEF CompletedCounted
  <2>5. CASE ~hasFinal[w]
    <3>1. Counted' = Counted
      BY <2>1, <2>5 DEF Counted
    <3>2. completed' = completed
      BY <1>3, <2>2, <2>3, <2>5
    <3>3. promised' => completed' = End
      BY <1>3, <2>2, <3>2
    <3>4. mpc' = "end" => promised'
      BY <1>3, <2>1, <2>2
    <3> QED
      BY <1>3, <3>1, <3>2, <3>3, <3>4 DEF CompletedCounted
  <2> QED
    BY <2>4, <2>5
<1>6. CASE \A w \in Worker : ~TestFinal(w)
  <2>1. UNCHANGED <<completed, promised>>
    BY <1>6 DEF Next, MainStep, WorkerStep, StreamStep, LaunchFirstSet,
       CountFirstSet, WaitForRequestsToFinish, SignalHandler, CreateContext,
       SendInferRequest, EndSendLoop, WaitForResponses, LeaveInfer, Response,
       LoadIncomplete, StoreIncomplete, LaunchNextSet, CountNextSet, Finalize,
       OthersUnchanged, Terminated, vars, doneVars
  <2>2. mpc' = "end" => mpc = "end" \/ promised
    BY <1>6 DEF Next, MainStep, WorkerStep, StreamStep, LaunchFirstSet,
       CountFirstSet, WaitForRequestsToFinish, SignalHandler, CreateContext,
       SendInferRequest, EndSendLoop, WaitForResponses, LeaveInfer, Response,
       LoadIncomplete, StoreIncomplete, LaunchNextSet, CountNextSet, Finalize,
       OthersUnchanged, Terminated, vars, mainVars
  <2> QED
    BY <1>4, <1>6, <2>1, <2>2
<1> QED
  BY <1>5, <1>6

-----------------------------------------------------------------------------
(* The periods completed *)

\* The worker's period is over, and has been subtracted.
Passed(w) ==
    /\ cb[w] \notin {"lock", "store"}
    /\ \/ responses[w] >= Period
       \/ hasFinal[w] /\ cb[w] \in {"finalize", "idle"}

\* The workers whose period is still to be subtracted.
Pending == {w \in Worker : w < launched /\ ~Passed(w)}

FinalSeen == \A w \in Worker : final[w] => hasFinal[w]

PeriodFirst ==
    \A w \in Worker :
        cb[w] \in {"lock", "store", "launch"} => responses[w] >= Period

\* The main thread launches the first set before any of its periods is over.
FirstSetPending ==
    mpc = "launch" => /\ launched + left = Start
                      /\ \A w \in Worker : ~Passed(w)

\* Unless a set is being launched, num_incomplete_periods_ is the number of
\* periods to come.
PendingCounted ==
    mpc # "launch" /\ (\A w \in Worker : cb[w] # "launch") =>
        incomplete = Cardinality(Pending)

LoadedCounted == \A w \in Worker : cb[w] = "store" => loaded = incomplete

\* While a set is launched, the periods to come are those of the set.
NextSetPending ==
    \A v \in Worker : cb[v] = "launch" =>
        /\ left <= Step
        /\ Step - left <= launched
        /\ \A w \in Worker : w < launched =>
               (Passed(w) <=> w < launched - (Step - left))

\* PeriodCompletedCallback counts the periods of the latest set, as long as no
\* request has failed.
PeriodsCounted ==
    mpc # "crashed" /\ ~Failed =>
        /\ FinalSeen /\ PeriodFirst /\ FirstSetPending
        /\ PendingCounted /\ LoadedCounted /\ NextSetPending

LEMMA PeriodsInit == Init => PeriodsCounted
<1> Period \in Nat \ {0} /\ Start \in Nat
  BY RangeAssumption
<1> QED
  BY DEF Init, PeriodsCounted, FinalSeen, PeriodFirst, FirstSetPending,
     PendingCounted, LoadedCounted, NextSetPending, Passed

\* A failure is never forgotten.
LEMMA FailedStays ==
  ASSUME StreamTypes, [Next]_vars, Failed
  PROVE  Failed'
<1>1. bad' = bad \/ \E w \in Worker : bad' = [bad EXCEPT ![w] = TRUE]
  BY DEF Next, MainStep, WorkerStep, StreamStep, LaunchFirstSet,
     CountFirstSet, WaitForRequestsToFinish, SignalHandler, CreateContext,
     SendInferRequest, EndSendLoop, WaitForResponses, LeaveInfer, Response,
     LoadIncomplete, StoreIncomplete, LaunchNextSet, CountNextSet, TestFinal,
     Finalize, Terminated, vars, threadVars
<1> QED
  BY <1>1 DEF Failed, StreamTypes

\* What the counters say stays true while the workers that have passed do, and
\* no callback enters or leaves PeriodCompletedCallback.
LEMMA PeriodsKept ==
  ASSUME FirstSetPending, PendingCounted, LoadedCounted, NextSetPending,
         UNCHANGED <<left, launched, incomplete, loaded>>,
         mpc' = "launch" <=> mpc = "launch",
         \A w \in Worker : Passed(w)' <=> Passed(w),
         \A w \in Worker : cb'[w] = "store" <=> cb[w] = "store",
         \A w \in Worker : cb'[w] = "launch" <=> cb[w] = "launch"
  PROVE  FirstSetPending' /\ PendingCounted' /\ LoadedCounted'
         /\ NextSetPending'
<1>1. Pending' = Pending
  BY DEF Pending
<1>2. FirstSetPending'
  BY DEF FirstSetPending
<1>3. PendingCounted'
  BY <1>1 DEF PendingCounted
<1>4. LoadedCounted'
  BY DEF LoadedCounted
<1>5. NextSetPending'
  BY DEF NextSetPending
<1> QED
  BY <1>2, <1>3, <1>4, <1>5

\* A worker that was not launched has not passed.
LEMMA NotLaunched ==
  ASSUME SendInv, AnswerInv, NEW w \in Worker, w >= launched
  PROVE  cb[w] = "idle" /\ ~Passed(w)
<1>1. sent[w] = 0
  BY DEF SendInv, OneIdEach
<1>2. cb[w] = "idle" /\ responses[w] = 0 /\ ~hasFinal[w]
  BY <1>1 DEF AnswerInv, OneAnswer
<1> QED
  BY <1>2, RangeAssumption DEF Passed

\* Every step keeps PeriodsCounted.
LEMMA PeriodsStep ==
  ASSUME LaunchInv, SendInv, AnswerInv, Room, PeriodsCounted, [Next]_vars
  PROVE  PeriodsCounted'
<1>1. SUFFICES ASSUME mpc' # "crashed", ~Failed' PROVE PeriodsCounted'
  BY DEF PeriodsCounted
<1>2. mpc # "crashed" /\ ~Failed
  BY <1>1, CrashStays, FailedStays DEF vars, mainVars, AnswerInv
<1>3. /\ FinalSeen /\ PeriodFirst /\ FirstSetPending
      /\ PendingCounted /\ LoadedCounted /\ NextSetPending
  BY <1>2 DEF PeriodsCounted
<1> Start \in Nat /\ End \in Nat /\ Step \in Nat \ {0} /\ Period \in Nat \ {0}
  BY RangeAssumption
<1> /\ cb \in [Worker -> StreamPc] /\ responses \in [Worker -> Nat]
    /\ final \in [Worker -> BOOLEAN] /\ hasFinal \in [Worker -> BOOLEAN]
    /\ left \in Nat /\ launched \in Nat
  BY DEF LaunchInv, LaunchTypes, SendInv, SendTypes, AnswerInv, StreamTypes
<1> launched + left <= MaxWorkers /\ MaxWorkers \in Int
  BY DEF Room, MaxWorkers
<1> \A w \in Worker : w \in Nat
  BY DEF Worker
<1>4. CASE /\ UNCHANGED <<left, launched, incomplete, loaded, cb, responses,
                          final, hasFinal>>
           /\ mpc' = "launch" <=> mpc = "launch"
  <2>1. \A w \in Worker : Passed(w)' <=> Passed(w)
    BY <1>4 DEF Passed
  <2>2. FinalSeen' /\ PeriodFirst'
    BY <1>3, <1>4 DEF FinalSeen, PeriodFirst
  <2>3. FirstSetPending' /\ PendingCounted' /\ LoadedCounted'
        /\ NextSetPending'
    BY <1>3, <1>4, <2>1, PeriodsKept
  <2> QED
    BY <2>2, <2>3 DEF PeriodsCounted
<1>5. ASSUME NEW w \in Worker, Response(w) PROVE PeriodsCounted'
  <2>1. /\ cb[w] = "idle" /\ ~hasFinal[w]
        /\ UNCHANGED <<left, launched, incomplete, loaded, mpc>>
    BY <1>5 DEF Response, mainVars, countVars, launchVars, AnswerInv,
       OneAnswer
  <2>2. ~bad'[w] /\ bad \in [Worker -> BOOLEAN]
    BY <1>1 DEF Failed, AnswerInv, StreamTypes
  <2>3. PICK last \in BOOLEAN :
            /\ responses' = [responses EXCEPT ![w] = @ + 1]
            /\ final' = [final EXCEPT ![w] = last]
            /\ hasFinal' = [hasFinal EXCEPT ![w] = @ \/ last]
    BY <1>5, <2>2 DEF Response
  <2>4. /\ responses'[w] = responses[w] + 1
        /\ final'[w] = last /\ hasFinal'[w] = last
    BY <2>1, <2>3
  <2>5. /\ cb'[w] = IF responses[w] + 1 = Period THEN "lock" ELSE "after"
        /\ \A v \in Worker \ {w} :
               /\ cb'[v] = cb[v] /\ responses'[v] = responses[v]
               /\ final'[v] = final[v] /\ hasFinal'[v] = hasFinal[v]
    BY <1>5, <2>3, <2>4 DEF Response, CallbackAt
  <2>6. Passed(w)' <=> Passed(w)
    <3>1. Passed(w)' <=> responses[w] + 1 # Period
                         /\ responses[w] + 1 >= Period
      BY <2>4, <2>5 DEF Passed
    <3>2. Passed(w) <=> responses[w] >= Period
      BY <2>1 DEF Passed
    <3> QED
      BY <3>1, <3>2
  <2>7. \A v \in Worker : Passed(v)' <=> Passed(v)
    BY <2>5, <2>6 DEF Passed
  <2>8. FinalSeen'
    BY <1>3, <2>4, <2>5 DEF FinalSeen
  <2>9. PeriodFirst'
    BY <1>3, <2>4, <2>5 DEF PeriodFirst
  <2>10. FirstSetPending' /\ PendingCounted' /\ LoadedCounted'
         /\ NextSetPending'
    <3>1. \A v \in Worker : /\ cb'[v] = "store" <=> cb[v] = "store"
                            /\ cb'[v] = "launch" <=> cb[v] = "launch"
      BY <2>1, <2>5
    <3> QED
      BY <1>3, <2>1, <2>7, <3>1, PeriodsKept
  <2> QED
    BY <2>8, <2>9, <2>10 DEF PeriodsCounted
<1>6. ASSUME NEW w \in Worker, TestFinal(w) PROVE PeriodsCounted'
  <2>1. /\ cb[w] = "after" /\ cb'[w] = IF final[w] THEN "finalize" ELSE "idle"
        /\ \A v \in Worker \ {w} : cb'[v] = cb[v]
        /\ UNCHANGED <<left, launched, incomplete, loaded, mpc, responses,
                       final, hasFinal>>
        /\ hasFinal[w] => ~(responses[w] < Period)
    BY <1>1, <1>6 DEF TestFinal, CallbackAt, HasReceivedFinalResponse,
       countVars, launchVars
  <2>2. \A v \in Worker : Passed(v)' <=> Passed(v)
    BY <2>1 DEF Passed
  <2>3. FinalSeen' /\ PeriodFirst'
    BY <1>3, <2>1 DEF FinalSeen, PeriodFirst
  <2>4. \A v \in Worker : /\ cb'[v] = "store" <=> cb[v] = "store"
                          /\ cb'[v] = "launch" <=> cb[v] = "launch"
    BY <2>1
  <2>5. FirstSetPending' /\ PendingCounted' /\ LoadedCounted'
        /\ NextSetPending'
    BY <1>3, <2>1, <2>2, <2>4, PeriodsKept
  <2> QED
    BY <2>3, <2>5 DEF PeriodsCounted
<1>7. ASSUME NEW w \in Worker, Finalize(w) PROVE PeriodsCounted'
  <2>1. /\ cb[w] = "finalize" /\ cb'[w] = "idle"
        /\ \A v \in Worker \ {w} :
               /\ cb'[v] = cb[v] /\ responses'[v] = responses[v]
               /\ final'[v] = final[v]
        /\ final'[w] = FALSE /\ responses'[w] = 0
        /\ UNCHANGED <<left, launched, incomplete, loaded, mpc, hasFinal>>
    BY <1>7 DEF Finalize, CallbackAt, mainVars, countVars, launchVars
  <2>2. hasFinal[w]
    BY <1>3, <2>1 DEF FinalSeen, SendInv, FinalAfterLoop
  <2>3. \A v \in Worker : Passed(v)' <=> Passed(v)
    BY <2>1, <2>2 DEF Passed
  <2>4. FinalSeen' /\ PeriodFirst'
    BY <1>3, <2>1 DEF FinalSeen, PeriodFirst
  <2>5. \A v \in Worker : /\ cb'[v] = "store" <=> cb[v] = "store"
                          /\ cb'[v] = "launch" <=> cb[v] = "launch"
    BY <2>1
  <2>6. FirstSetPending' /\ PendingCounted' /\ LoadedCounted'
        /\ NextSetPending'
    BY <1>3, <2>1, <2>3, <2>5, PeriodsKept
  <2> QED
    BY <2>4, <2>6 DEF PeriodsCounted
<1>8. ASSUME NEW w \in Worker, LoadIncomplete(w) PROVE PeriodsCounted'
  <2>1. /\ cb[w] = "lock" /\ cb'[w] = "store" /\ holder = None
        /\ \A v \in Worker \ {w} : cb'[v] = cb[v]
        /\ loaded' = incomplete
        /\ UNCHANGED <<left, launched, incomplete, mpc, responses, final,
                       hasFinal>>
    BY <1>8 DEF LoadIncomplete, CallbackAt, mainVars, launchVars
  <2>2. \A v \in Worker : Passed(v)' <=> Passed(v)
    BY <2>1 DEF Passed
  <2>3. \A v \in Worker : cb[v] # "launch" /\ cb'[v] # "launch"
    BY <2>1 DEF LaunchInv, LaunchMutex, None, Worker
  <2>4. Pending' = Pending
    BY <2>1, <2>2 DEF Pending
  <2>5. FinalSeen' /\ PeriodFirst'
    BY <1>3, <2>1 DEF FinalSeen, PeriodFirst
  <2>6. FirstSetPending'
    BY <1>3, <2>1, <2>2 DEF FirstSetPending
  <2>7. PendingCounted'
    BY <1>3, <2>1, <2>3, <2>4 DEF PendingCounted
  <2>8. LoadedCounted'
    BY <2>1 DEF LoadedCounted
  <2>9. NextSetPending'
    BY <2>3 DEF NextSetPending
  <2> QED
    BY <2>5, <2>6, <2>7, <2>8, <2>9 DEF PeriodsCounted
<1>9. ASSUME NEW w \in Worker, StoreIncomplete(w) PROVE PeriodsCounted'
  <2> DEFINE n == (loaded - 1) % Word
  <2>1. /\ cb[w] = "store" /\ incomplete' = n /\ loaded' = 0
        /\ \A v \in Worker \ {w} : cb'[v] = cb[v]
        /\ UNCHANGED <<launched, mpc, responses, final, hasFinal>>
        /\ mpc # "launch"
    BY <1>9 DEF StoreIncomplete, CallbackAt, mainVars, doneVars, LaunchInv,
       FirstSetAlone
  <2>2. \/ n = 0 /\ cb'[w] = "launch" /\ left' = Step
        \/ cb'[w] = "after" /\ left' = left
    BY <1>9 DEF StoreIncomplete, CallbackAt, SetComplete
  <2>3. \A v \in Worker \ {w} : cb[v] \notin {"store", "launch"}
    BY <2>1 DEF LaunchInv, LaunchMutex
  <2>4. loaded = Cardinality(Pending)
    BY <1>3, <2>1, <2>3 DEF LoadedCounted, PendingCounted
  <2>5. w \in Pending
    <3>1. w < launched
      BY <2>1, NotLaunched
    <3> QED
      BY <2>1, <3>1 DEF Pending, Passed
  <2>6. /\ IsFiniteSet(Pending) /\ Cardinality(Pending) \in Nat
        /\ Cardinality(Pending) # 0
    <3>1. IsFiniteSet(0 .. MaxWorkers - 1)
      BY FS_Interval
    <3>2. IsFiniteSet(Pending)
      BY <3>1, FS_Subset DEF Pending, Worker
    <3> QED
      BY <3>2, <2>5, FS_CardinalityType, FS_EmptySet
  <2>7. n = Cardinality(Pending) - 1
    <3>1. loaded \in 0 .. Word - 1 /\ loaded # 0 /\ Word \in Nat
      BY <2>4, <2>6, ServerAssumption DEF AnswerInv, StreamTypes
    <3>2. loaded - 1 \in 0 .. Word - 1
      BY <3>1
    <3> QED
      BY <3>1, <3>2, <2>4
  <2>8. Passed(w)' /\ ~Passed(w)
        /\ \A v \in Worker \ {w} : Passed(v)' <=> Passed(v)
    <3>1. responses'[w] >= Period
      BY <1>3, <2>1 DEF PeriodFirst
    <3> QED
      BY <2>1, <2>2, <3>1 DEF Passed
  <2>9. Pending' = Pending \ {w}
    BY <2>1, <2>8 DEF Pending
  <2>10. Cardinality(Pending') = n
    BY <2>5, <2>6, <2>7, <2>9, FS_RemoveElement
  <2>11. FinalSeen' /\ PeriodFirst'
    BY <1>3, <2>1, <2>2 DEF FinalSeen, PeriodFirst
  <2>12. FirstSetPending'
    BY <2>1 DEF FirstSetPending
  <2>13. PendingCounted'
    BY <2>1, <2>10 DEF PendingCounted
  <2>14. LoadedCounted'
    BY <2>1, <2>2, <2>3 DEF LoadedCounted
  <2>15. NextSetPending'
    <3>1. CASE cb'[w] = "launch"
      <4>1. n = 0 /\ left' = Step
        BY <2>2, <3>1
      <4>2. Pending' = {}
        <5>1. IsFiniteSet(Pending')
          BY <2>6, <2>9, FS_RemoveElement
        <5> QED
          BY <2>10, <4>1, <5>1, FS_EmptySet
      <4>3. \A v \in Worker : v < launched' => Passed(v)'
        BY <4>2 DEF Pending
      <4> QED
        BY <2>1, <4>1, <4>3 DEF NextSetPending
    <3>2. CASE cb'[w] # "launch"
      BY <2>1, <2>3, <3>2 DEF NextSetPending
    <3> QED
      BY <3>1, <3>2
  <2> QED
    BY <2>11, <2>12, <2>13, <2>14, <2>15 DEF PeriodsCounted
<1>10. ASSUME AddConcurrentRequest,
              UNCHANGED <<incomplete, loaded, cb, responses, final, hasFinal,
                          mpc>>,
              mpc = "launch" \/ \E v \in Worker : cb[v] = "launch"
       PROVE  PeriodsCounted'
  <2>1. left' = left - 1 /\ launched' = launched + 1 /\ left > 0
    BY <1>10 DEF AddConcurrentRequest, MoreToAdd
  <2>2. \A w \in Worker : Passed(w)' <=> Passed(w)
    BY <1>10 DEF Passed
  <2>3. \A w \in Worker : w >= launched => ~Passed(w)
    BY NotLaunched
  <2>4. FinalSeen' /\ PeriodFirst'
    BY <1>3, <1>10 DEF FinalSeen, PeriodFirst
  <2>5. FirstSetPending'
    BY <1>3, <1>10, <2>1, <2>2 DEF FirstSetPending
  <2>6. PendingCounted'
    BY <1>10 DEF PendingCounted
  <2>7. LoadedCounted'
    BY <1>3, <1>10 DEF LoadedCounted
  <2>8. NextSetPending'
    <3>1. SUFFICES ASSUME NEW v \in Worker, cb[v] = "launch"
                   PROVE  /\ left' <= Step /\ Step - left' <= launched'
                          /\ \A w \in Worker : w < launched' =>
                               (Passed(w)' <=>
                                  w < launched' - (Step - left'))
      BY <1>10 DEF NextSetPending
    <3>2. /\ left <= Step /\ Step - left <= launched
          /\ \A w \in Worker : w < launched =>
                 (Passed(w) <=> w < launched - (Step - left))
      BY <1>3, <3>1 DEF NextSetPending
    <3>3. launched' - (Step - left') = launched - (Step - left)
      BY <2>1
    <3>4. ASSUME NEW w \in Worker, w < launched'
          PROVE  Passed(w) <=> w < launched - (Step - left)
      <4>1. CASE w < launched
        BY <3>2, <4>1
      <4>2. CASE w >= launched
        <5>1. ~(w < launched - (Step - left))
          BY <3>2, <4>2
        <5> QED
          BY <2>3, <4>2, <5>1
      <4> QED
        BY <4>1, <4>2
    <3>5. left' <= Step /\ Step - left' <= launched'
      BY <2>1, <3>2
    <3> QED
      BY <2>2, <3>3, <3>4, <3>5
  <2> QED
    BY <2>4, <2>5, <2>6, <2>7, <2>8 DEF PeriodsCounted
<1>11. CASE CountFirstSet
  <2>1. /\ mpc = "launch" /\ mpc' = "wait" /\ left = 0 /\ incomplete' = Start
        /\ UNCHANGED <<left, launched, loaded, cb, responses, final, hasFinal>>
    BY <1>11 DEF CountFirstSet, launchVars, streamVars
  <2>2. \A w \in Worker : ~Passed(w)' /\ cb[w] \notin {"store", "launch"}
    BY <1>3, <2>1 DEF FirstSetPending, Passed, LaunchInv, FirstSetAlone
  <2>3. launched = Start
    BY <1>3, <2>1 DEF FirstSetPending
  <2>4. Pending' = {w \in Worker : 0 <= w /\ w < Start}
    BY <2>1, <2>2, <2>3 DEF Pending
  <2>5. Cardinality(Pending') = Start
    <3>1. 0 <= Start /\ Start <= MaxWorkers /\ 0 \in Nat /\ Start - 0 = Start
      BY <2>1, <2>3
    <3> QED
      BY <2>4, <3>1, WorkersOfInterval
  <2>6. FinalSeen' /\ PeriodFirst'
    BY <1>3, <2>1 DEF FinalSeen, PeriodFirst
  <2>7. FirstSetPending' /\ LoadedCounted' /\ NextSetPending'
    BY <2>1, <2>2 DEF FirstSetPending, LoadedCounted, NextSetPending
  <2>8. PendingCounted'
    BY <2>1, <2>5 DEF PendingCounted
  <2> QED
    BY <2>6, <2>7, <2>8 DEF PeriodsCounted
<1>12. ASSUME NEW w \in Worker, CountNextSet(w) PROVE PeriodsCounted'
  <2>1. /\ cb[w] = "launch" /\ cb'[w] = "after" /\ left = 0
        /\ incomplete' = Step
        /\ \A v \in Worker \ {w} : cb'[v] = cb[v]
        /\ UNCHANGED <<left, launched, loaded, mpc, responses, final,
                       hasFinal>>
    BY <1>12 DEF CountNextSet, CallbackAt, mainVars, launchVars
  <2>2. mpc # "launch"
    BY <2>1 DEF LaunchInv, FirstSetAlone
  <2>3. \A v \in Worker : cb'[v] \notin {"store", "launch"}
    BY <2>1 DEF LaunchInv, LaunchMutex
  <2>4. \A v \in Worker : Passed(v)' <=> Passed(v)
    BY <2>1 DEF Passed
  <2>5. /\ Step <= launched
        /\ \A v \in Worker : v < launched =>
               (Passed(v) <=> v < launched - Step)
    BY <1>3, <2>1 DEF NextSetPending
  <2>6. Pending' = {v \in Worker : launched - Step <= v /\ v < launched}
    BY <2>1, <2>4, <2>5 DEF Pending
  <2>7. Cardinality(Pending') = Step
    <3>1. /\ launched - Step \in Nat /\ launched - Step <= launched
          /\ launched <= MaxWorkers /\ launched - (launched - Step) = Step
      BY <2>1, <2>5
    <3> QED
      BY <2>6, <3>1, WorkersOfInterval
  <2>8. FinalSeen' /\ PeriodFirst'
    BY <1>3, <2>1 DEF FinalSeen, PeriodFirst
  <2>9. FirstSetPending' /\ LoadedCounted' /\ NextSetPending'
    BY <2>1, <2>2, <2>3 DEF FirstSetPending, LoadedCounted, NextSetPending
  <2>10. PendingCounted'
    BY <2>1, <2>7 DEF PendingCounted
  <2> QED
    BY <2>8, <2>9, <2>10 DEF PeriodsCounted
<1>13. CASE LaunchFirstSet \/ \E w \in Worker : LaunchNextSet(w)
  BY <1>10, <1>13 DEF LaunchFirstSet, LaunchNextSet, mainVars, countVars,
     streamVars
<1>14. CASE WaitForRequestsToFinish \/ SignalHandler \/ UNCHANGED vars
  BY <1>4, <1>14 DEF WaitForRequestsToFinish, SignalHandler, countVars,
     launchVars, streamVars, vars, mainVars
<1>15. ASSUME NEW w \in Worker, WorkerStep(w) PROVE PeriodsCounted'
  <2>1. OthersUnchanged
    BY <1>15 DEF WorkerStep, CreateContext, SendInferRequest, EndSendLoop,
       WaitForResponses, LeaveInfer
  <2> QED
    BY <1>4, <2>1 DEF OthersUnchanged, mainVars, countVars, launchVars,
       streamVars
<1> QED
  BY <1>5, <1>6, <1>7, <1>8, <1>9, <1>11, <1>12, <1>13, <1>14, <1>15
  DEF Next, MainStep, StreamStep, Terminated

SetsInv ==
    /\ LaunchInv /\ SendInv /\ Room /\ AnswerInv
    /\ CompletedCounted /\ PeriodsCounted /\ StepAfterPeriod

LEMMA SetsStep ==
  ASSUME SlowServer, Start <= Step, SetsInv, [Next]_vars
  PROVE  SetsInv'
<1>1. LaunchInv' /\ SendInv' /\ Room' /\ AnswerInv'
  BY LaunchStep, SendStep, RoomStep, AnswerStep DEF SetsInv
<1>2. CompletedCounted' /\ PeriodsCounted'
  BY CompletedStep, PeriodsStep DEF SetsInv
<1>3. StepAfterPeriod'
  <2>1. SUFFICES ASSUME NEW v \in Worker, cb'[v] = "launch", ~Failed',
                        NEW w \in 0 .. launched' - (Step - left') - 1
                 PROVE  (responses[w] >= Period \/ hasFinal[w])'
    BY DEF StepAfterPeriod
  <2>2. CASE mpc' # "crashed"
    <3>1. NextSetPending'
      BY <2>1, <2>2, <1>2 DEF PeriodsCounted
    <3>2. /\ left' <= Step /\ Step \in Nat
          /\ \A u \in Worker : u < launched' =>
                 (Passed(u)' <=> u < launched' - (Step - left'))
      BY <2>1, <3>1, RangeAssumption DEF NextSetPending
    <3>3. /\ launched' \in Nat /\ left' \in Nat
          /\ launched' + left' <= MaxWorkers /\ MaxWorkers \in Int
      BY <1>1, RangeAssumption
      DEF LaunchInv, LaunchTypes, Room, MaxWorkers
    <3>4. w \in Worker /\ w < launched' /\ w < launched' - (Step - left')
      <4>1. left' <= Step /\ Step \in Nat
        BY <3>2
      <4> HIDE DEF Worker
      <4>2. launched' \in Nat /\ left' \in Nat
        BY <3>3
      <4>3. launched' - (Step - left') \in Int
        BY <4>1, <4>2
      <4>4. w \in Nat /\ w < launched' - (Step - left')
        BY <4>3
      <4>5. w < launched'
        <5>1. ASSUME NEW a \in Nat, NEW b \in Nat, NEW c \in Nat, b <= c,
                     NEW n \in Nat, n < a - (c - b)
              PROVE  n < a
          BY <5>1
        <5> QED
          BY <4>1, <4>2, <4>4, <5>1
      <4>6. launched' <= MaxWorkers /\ MaxWorkers \in Int
        <5>1. ASSUME NEW a \in Nat, NEW b \in Nat, NEW c \in Int, a + b <= c
              PROVE  a <= c
          BY <5>1
        <5>2. launched' + left' <= MaxWorkers
          BY <3>3
        <5>3. MaxWorkers \in Int
          BY <3>3
        <5> QED
          BY <4>2, <5>1, <5>2, <5>3
      <4> QED
        BY <4>2, <4>4, <4>5, <4>6 DEF Worker
    <3>5. Passed(w)'
      BY <3>2, <3>4
    <3> QED
      BY <3>5 DEF Passed
  <2>3. CASE mpc' = "crashed" /\ mpc # "crashed"
    <3>1. PICK u \in Worker : TestFinal(u)
      <4>1. CASE MainStep \/ SignalHandler \/ UNCHANGED vars
        BY <2>3, <4>1 DEF MainStep, LaunchFirstSet, CountFirstSet,
           WaitForRequestsToFinish, SignalHandler, vars, mainVars
      <4>2. ASSUME NEW u \in Worker, WorkerStep(u) PROVE mpc' = mpc
        BY <4>2 DEF WorkerStep, CreateContext, SendInferRequest, EndSendLoop,
           WaitForResponses, LeaveInfer, OthersUnchanged, mainVars
      <4>3. ASSUME NEW u \in Worker, StreamStep(u), ~TestFinal(u)
            PROVE  mpc' = mpc
        BY <4>3 DEF StreamStep, Response, LoadIncomplete, StoreIncomplete,
           LaunchNextSet, CountNextSet, Finalize, mainVars
      <4> QED
        BY <2>3, <4>1, <4>2, <4>3 DEF Next, Terminated
    <3>2. /\ UNCHANGED <<left, launched, responses, hasFinal, bad>>
          /\ cb' = [cb EXCEPT ![u] = IF final[u] THEN "finalize" ELSE "idle"]
      BY <3>1 DEF TestFinal, CallbackAt, launchVars, threadVars
    <3>3. cb[v] = "launch" /\ ~Failed
      BY <2>1, <3>2 DEF Failed, SetsInv, LaunchInv, LaunchTypes
    <3> QED
      BY <2>1, <3>2, <3>3 DEF SetsInv, StepAfterPeriod
  <2>4. CASE mpc = "crashed"
    <3>1. UNCHANGED <<left, launched, responses, hasFinal, bad, cb>>
      BY <2>4, CrashStays DEF vars, launchVars, threadVars, streamVars
    <3>2. cb[v] = "launch" /\ ~Failed
      BY <2>1, <3>1 DEF Failed
    <3> QED
      BY <2>1, <3>1, <3>2 DEF SetsInv, StepAfterPeriod
  <2> QED
    BY <2>2, <2>3, <2>4
<1> QED
  BY <1>1, <1>2, <1>3 DEF SetsInv

\* When the promise is made, all of the range is launched and complete.
LEMMA AllComplete == SetsInv => RecordsComplete
<1> SUFFICES ASSUME SetsInv, mpc = "end"
             PROVE  /\ launched = End
                    /\ \A w \in 0 .. launched - 1 : hasFinal[w]
  BY DEF RecordsComplete
<1>1. Cardinality(Counted) = End
  BY DEF SetsInv, CompletedCounted
<1>2. /\ launched \in Nat /\ launched <= End
      /\ Cardinality(Counted) <= launched
      /\ Cardinality(Counted) = launched => Counted = 0 .. launched - 1
  BY CountedLaunched DEF SetsInv
<1>3. launched = End /\ End \in Nat
  BY <1>1, <1>2, RangeAssumption
<1>4. Counted = 0 .. launched - 1
  BY <1>1, <1>2, <1>3
<1> QED
  BY <1>3, <1>4 DEF Counted

\* PeriodCompletedCallback launches a set only when every request of the sets
\* before has had its period, and RequestCompletedCallback ends the experiment
\* only when all 'end' requests were launched and have had their final
\* response, for every range with start <= step and every period.
THEOREM SetsLaunchedInOrder ==
  ASSUME SlowServer, Start <= Step
  PROVE  Spec => []SetsInOrder
<1>1. Init => SetsInv
  <2>1. Init => StepAfterPeriod
    BY DEF Init, StepAfterPeriod
  <2> QED
    BY <2>1, LaunchInit, SendInit, RoomInit, AnswerInit, CompletedInit,
       PeriodsInit DEF SetsInv
<1>2. SetsInv /\ [Next]_vars => SetsInv'
  BY SetsStep
<1>3. SetsInv => SetsInOrder
  BY AllComplete DEF SetsInv, SetsInOrder
<1> QED
  BY <1>1, <1>2, <1>3, PTL DEF Spec
=============================================================================
