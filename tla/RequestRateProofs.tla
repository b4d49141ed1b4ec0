------------------------- MODULE RequestRateProofs -------------------------
(***************************************************************************)
(* Proofs about RequestRate, for every number of threads, rates and        *)
(* sequences, for every request count and in every mode: the counters of   *)
(* the requests, the schedules, the queue of free ids, and, with           *)
(* --serial-sequences and one rate, that a sequence has one request out.   *)
(***************************************************************************)
EXTENDS RequestRate, LoadWorkerProofs, SequenceTheorems

-----------------------------------------------------------------------------
\* Where the main thread is, against the rate and execute_.
RateManagerControl ==
    /\ mpc \in {"pausing", "schedule", "resume", "notify", "warmup",
                "discard", "measure"} => level >= 1
    /\ level = 0 => ~execute /\ threads = 0
    /\ mpc \in {"pausing", "schedule", "resume"} => ~execute
    /\ ~MayInterrupt /\ earlyExit => mpc \in {"stopping", "joining", "end"}

\* A worker of this mode never waits for its concurrency.
RateWorkerControl ==
    \A w \in Worker :
        /\ w >= threads => pc[w] = "none" /\ sent[w] = 0 /\ conc[w] = 0
        /\ pc[w] \notin {"noconc", "nccheck", "ncblock", "ncsleep", "ctx",
                         "exit1", "exit2", "exit3", "left"}

\* Until a schedule is given, a worker waits for the start of execution.
SchedulesKept ==
    ~MayInterrupt /\ ~MayLackSchedule =>
        \A w \in Worker : w < threads =>
            \/ sched[w] # 0
            \/ /\ mpc = "schedule"
               /\ pc[w] \in {"start", "top", "off", "offwait", "offcheck",
                             "offblock", "offsleep"}

\* An id is there when a worker has seen one, or was notified.
IdsReady ==
    Tracker # "Rand" =>
        \A w \in Worker :
            /\ pc[w] \in {"next", "take"} => free[w] # <<>>
            /\ pc[w] = "wait" /\ notified[w] => free[w] # <<>>

\* With one rate and a FIFO of sequences.
Serial == Tracker = "Fifo" /\ Rates = 1

\* Where a worker has not sent anything since it was launched.
FreshPc == {"none", "start", "off", "offwait", "offcheck", "offblock",
            "offsleep", "unpause"}

\* The threads' ranges of sequence statuses do not overlap.
Disjoint ==
    \A v, w \in Worker :
        v < w /\ w < threads => offset[v] + conc[v] <= offset[w]

\* A worker uses the contexts it has made, in its own range.
OwnRange(w) ==
    /\ nctx[w] \in {0, conc[w]}
    /\ \A i \in 1 .. Len(free[w]) : free[w][i] < nctx[w]
    /\ held[w] < nctx[w] \/ held[w] = None
    /\ \A c \in CtxId :
           c >= nctx[w] => inFlight[w][c] = 0 /\ finalizing[w][c] = 0

Quiet(w) == \A c \in CtxId : inFlight[w][c] = 0 /\ finalizing[w][c] = 0

\* An open sequence is a context's of a worker that is running.
OpenOwned ==
    \A s \in Index : rem[s] # 0 =>
        /\ execute
        /\ \E w \in Worker :
               /\ pc[w] \notin FreshPc \cup {"exitwait", "done"}
               /\ \E c \in CtxId : c < nctx[w] /\ s = offset[w] + c

\* Of each context, at most one of: its id is free, it is taken, its request is
\* out, or its callback is about to give it back.
OneEach(w) ==
    /\ \A i, j \in 1 .. Len(free[w]) : free[w][i] = free[w][j] => i = j
    /\ \A i \in 1 .. Len(free[w]) :
           /\ inFlight[w][free[w][i]] = 0
           /\ finalizing[w][free[w][i]] = 0
           /\ pc[w] = "held" => held[w] # free[w][i]
    /\ pc[w] = "held" => /\ inFlight[w][held[w]] = 0
                         /\ finalizing[w][held[w]] = 0
    /\ \A c \in CtxId : inFlight[w][c] + finalizing[w][c] <= 1

\* A worker that has not begun has sent nothing; one that is leaving sends its
\* last requests whatever is out.
SerialWorker(w) ==
    /\ OwnRange(w)
    /\ ~execute \/ pc[w] \in FreshPc => Quiet(w)
    /\ pc[w] \notin {"exitwait", "done"} => OneEach(w)

\* What holds in every mode, and what --serial-sequences adds.
RateBase == /\ RateTypeOK /\ LoadInv /\ RateManagerControl
            /\ RateWorkerControl /\ SchedulesKept /\ IdsReady
SerialInv == Disjoint /\ OpenOwned /\ \A w \in Worker : SerialWorker(w)

RateInv == RateBase /\ (Serial => SerialInv)

-----------------------------------------------------------------------------
(* The steps of this mode.                                                 *)

\* There is at least one thread, and no more than there are sequences.
LEMMA ThreadsType ==
  /\ DetermineNumThreads \in 1 .. MaxThreads
  /\ OnSequenceModel => DetermineNumThreads <= MaxContexts
BY SizesAssumption DEF DetermineNumThreads

LEMMA InitRateInv ==
  ASSUME RateInit
  PROVE  RateInv
<1>1. LoadInv
  BY InitLoadInv DEF RateInit
<1>2. RateTypeOK
  <2>1. /\ level \in 0 .. Rates /\ checked \in 0 .. MaxThreads
        /\ threads \in {0, DetermineNumThreads}
    <3>1. level = 0 /\ checked = 0 /\ threads = 0
      BY DEF RateInit, InitLoad
    <3> QED
      BY <3>1, RatesAssumption, SizesAssumption
  <2>3. mpc \in ManagerPc /\ warming \in BOOLEAN
    BY DEF RateInit, InitLoad, ManagerPc
  <2>4. execute \in BOOLEAN /\ earlyExit \in BOOLEAN
    BY DEF RateInit, InitLoad
  <2>2. sched \in [Worker -> 0 .. Rates]
    BY RatesAssumption DEF RateInit, Each
  <2> QED
    BY <1>1, <2>1, <2>2, <2>3, <2>4 DEF RateTypeOK, LoadInv, LoadTypes
<1>3. /\ mpc = "idle" /\ level = 0 /\ threads = 0 /\ ~execute /\ ~earlyExit
      /\ \A w \in Worker :
            /\ pc[w] = "none" /\ sent[w] = 0 /\ conc[w] = 0 /\ free[w] = <<>>
            /\ nctx[w] = 0 /\ held[w] = None
            /\ \A c \in CtxId : inFlight[w][c] = 0 /\ finalizing[w][c] = 0
      /\ \A s \in Index : rem[s] = 0
  BY DEF RateInit, InitLoad, Each, EachCtx
<1>4. RateManagerControl /\ RateWorkerControl /\ SchedulesKept /\ IdsReady
  BY <1>3 DEF RateManagerControl, RateWorkerControl, SchedulesKept, IdsReady,
     Worker
<1>5. Serial => SerialInv
  <2>1. Disjoint /\ OpenOwned
    BY <1>3 DEF Disjoint, OpenOwned, Worker
  <2>2. \A w \in Worker : OwnRange(w) /\ Quiet(w) /\ OneEach(w)
    BY <1>3 DEF OwnRange, Quiet, OneEach, CtxId
  <2> QED
    BY <2>1, <2>2 DEF SerialInv, SerialWorker
<1> QED
  BY <1>1, <1>2, <1>4, <1>5 DEF RateInv, RateBase

\* The steps of a RequestRateWorker that no other worker has.
RateOwnStep(w) ==
    \/ CreateContexts(w) \/ HandleExecuteOff(w) \/ DeclarePaused(w)
    \/ Unpause(w) \/ LookForFreeCtx(w) \/ ResetNotified(w)
    \/ WaitForFreeCtx(w) \/ GetNextTimestamp(w) \/ GetCtxId(w)
    \/ CheckExit(w)

\* From where to where they go.
RateMoves ==
    {<<"start", "top">>, <<"top", "off">>, <<"top", "free">>,
     <<"offwait", "offcheck">>, <<"unpause", "free">>, <<"free", "next">>,
     <<"free", "reset">>, <<"reset", "wait">>, <<"wait", "next">>,
     <<"next", "take">>, <<"next", "crashed">>, <<"take", "held">>,
     <<"take", "crashed">>, <<"send", "exiting">>, <<"send", "top">>}

LEMMA RateMoveEffect ==
  ASSUME LoadTypes, NEW w \in Worker, RateOwnStep(w)
  PROVE  /\ pc' \in [Worker -> WorkerPc]
         /\ <<pc[w], pc'[w]>> \in RateMoves
         /\ \A v \in Worker \ {w} : pc'[v] = pc[v]
<1>1. {"top", "off", "free", "offcheck", "next", "reset", "wait", "take",
       "crashed", "held", "exiting"} \subseteq WorkerPc
  BY DEF WorkerPc
<1> USE <1>1
<1>2. CASE CreateContexts(w)
  BY <1>2, GotoType DEF CreateContexts, RateMoves
<1>3. CASE HandleExecuteOff(w)
  BY <1>3, GotoType DEF HandleExecuteOff, RateMoves
<1>4. CASE DeclarePaused(w)
  BY <1>4, GotoType DEF DeclarePaused, RateMoves
<1>5. CASE Unpause(w)
  BY <1>5, GotoType DEF Unpause, RateMoves
<1>6. CASE LookForFreeCtx(w)
  BY <1>6, GotoType DEF LookForFreeCtx, RateMoves
<1>7. CASE ResetNotified(w)
  BY <1>7, GotoType DEF ResetNotified, RateMoves
<1>8. CASE WaitForFreeCtx(w)
  BY <1>8, GotoType DEF WaitForFreeCtx, RateMoves
<1>9. CASE GetNextTimestamp(w)
  BY <1>9, GotoType DEF GetNextTimestamp, RateMoves
<1>10. CASE GetCtxId(w)
  BY <1>10, GotoType DEF GetCtxId, RateMoves
<1>11. CASE CheckExit(w)
  BY <1>11, GotoType DEF CheckExit, RateMoves
<1> QED
  BY <1>2, <1>3, <1>4, <1>5, <1>6, <1>7, <1>8, <1>9, <1>10, <1>11
     DEF RateOwnStep

\* A worker's tables of contexts and ids are filled with what is there.
LEMMA RateOwnTypes ==
  ASSUME RateTypeOK, LoadTypes, NEW w \in Worker, RateOwnStep(w)
  PROVE  /\ LoadTypes'
         /\ UNCHANGED <<mainVars, wakeHolder, cfgVars, sent, badCb, ctxVars,
                        rem>>
         /\ badStatus[w] => badStatus'[w]
         /\ \A v \in Worker \ {w} :
               /\ nctx'[v] = nctx[v] /\ free'[v] = free[v]
               /\ held'[v] = held[v] /\ paused'[v] = paused[v]
               /\ notified'[v] = notified[v] /\ badStatus'[v] = badStatus[v]
<1>1. /\ conc \in [Worker -> 0 .. MaxContexts]
      /\ nctx \in [Worker -> 0 .. MaxContexts]
      /\ free \in [Worker -> Seq(CtxId)]
      /\ held \in [Worker -> CtxId \cup {None}]
      /\ granted \in [Worker -> 0 .. MaxContexts]
      /\ paused \in [Worker -> BOOLEAN]
      /\ notified \in [Worker -> BOOLEAN]
      /\ badStatus \in [Worker -> BOOLEAN]
  BY LoadTypesParts
<1>2. UNCHANGED <<mainVars, wakeHolder, cfgVars, sent, badCb, ctxVars, rem>>
  BY DEF RateOwnStep, CreateContexts, HandleExecuteOff, DeclarePaused,
     Unpause, LookForFreeCtx, ResetNotified, WaitForFreeCtx,
     GetNextTimestamp, GetCtxId, CheckExit, reqVars
<1>3. /\ nctx' \in [Worker -> 0 .. MaxContexts]
      /\ \A v \in Worker \ {w} : nctx'[v] = nctx[v]
  <2>1. ActiveContexts(w) \in 0 .. MaxContexts
    BY <1>1, SizesAssumption DEF ActiveContexts
  <2> QED
    BY <1>1, <2>1 DEF RateOwnStep, CreateContexts, HandleExecuteOff,
       DeclarePaused, Unpause, LookForFreeCtx, ResetNotified, WaitForFreeCtx,
       GetNextTimestamp, GetCtxId, CheckExit, idVars
<1>4. /\ paused' \in [Worker -> BOOLEAN]
      /\ notified' \in [Worker -> BOOLEAN]
      /\ badStatus' \in [Worker -> BOOLEAN]
      /\ badStatus[w] => badStatus'[w]
      /\ \A v \in Worker \ {w} : /\ paused'[v] = paused[v]
                                  /\ notified'[v] = notified[v]
                                  /\ badStatus'[v] = badStatus[v]
  BY <1>1 DEF RateOwnStep, CreateContexts, HandleExecuteOff,
     DeclarePaused, Unpause, LookForFreeCtx, ResetNotified, WaitForFreeCtx,
     GetNextTimestamp, GetCtxId, CheckExit, reqVars, SetPaused, ClearNotified
<1>5. /\ free' \in [Worker -> Seq(CtxId)]
      /\ held' \in [Worker -> CtxId \cup {None}]
      /\ granted' \in [Worker -> 0 .. MaxContexts]
      /\ \A v \in Worker \ {w} : free'[v] = free[v] /\ held'[v] = held[v]
  <2>1. CASE CreateContexts(w) \/ DeclarePaused(w)
    <3>1. ResetFreeCtxIds(w) /\ held' = held
      BY <2>1 DEF CreateContexts, DeclarePaused
    <3>2. FreshIds(nctx'[w]) \in Seq(CtxId) /\ nctx'[w] \in 0 .. MaxContexts
      BY <1>3, FreshIdsType
    <3> QED
      BY <1>1, <3>1, <3>2 DEF ResetFreeCtxIds, ResetTracker
  <2>2. CASE GetCtxId(w)
    <3>1. CASE Tracker = "Rand"
      <4>1. PICK c \in 0 .. nctx[w] - 1 : held' = [held EXCEPT ![w] = c]
        BY <2>2, <3>1 DEF GetCtxId
      <4>2. c \in CtxId
        BY <1>1, SizesAssumption DEF CtxId
      <4> QED
        BY <1>1, <2>2, <3>1, <4>1, <4>2 DEF GetCtxId
    <3>2. CASE Tracker # "Rand" /\ free[w] # <<>>
      <4>1. Head(free[w]) \in CtxId /\ Tail(free[w]) \in Seq(CtxId)
        BY <1>1, <3>2
      <4> QED
        BY <1>1, <2>2, <3>2, <4>1 DEF GetCtxId
    <3>3. CASE Tracker # "Rand" /\ free[w] = <<>>
      BY <1>1, <2>2, <3>3 DEF GetCtxId
    <3> QED
      BY <3>1, <3>2, <3>3
  <2>3. CASE ~CreateContexts(w) /\ ~DeclarePaused(w) /\ ~GetCtxId(w)
    BY <1>1, <2>3 DEF RateOwnStep, HandleExecuteOff, Unpause, LookForFreeCtx,
       ResetNotified, WaitForFreeCtx, GetNextTimestamp, CheckExit, idVars
  <2> QED
    BY <2>1, <2>2, <2>3
<1>6. pc' \in [Worker -> WorkerPc]
  BY RateMoveEffect
<1>7. LoadTypes'
  BY <1>2, <1>3, <1>4, <1>5, <1>6 DEF LoadTypes, ConfigTypes, ThreadTypes,
     IdTypes, StatTypes, ContextTypes, cfgVars, ctxVars
<1> QED
  BY <1>2, <1>3, <1>4, <1>5, <1>7

\* What each of them does to the ids and to the flags of its worker.
LEMMA RateOwnKeeps ==
  ASSUME RateTypeOK, LoadInv, NEW w \in Worker, RateOwnStep(w)
  PROVE  LoadInv'
<1>1. /\ LoadTypes /\ LoadTypes'
      /\ UNCHANGED <<inFlight, ongoing, finalizing, badCb>>
      /\ badStatus[w] => badStatus'[w]
      /\ \A v \in Worker \ {w} :
            /\ held'[v] = held[v] /\ paused'[v] = paused[v]
            /\ badStatus'[v] = badStatus[v]
  BY RateOwnTypes DEF LoadInv, ctxVars
<1>2. /\ <<pc[w], pc'[w]>> \in RateMoves
      /\ \A v \in Worker \ {w} : pc'[v] = pc[v]
  BY <1>1, RateMoveEffect
<1>3. held'[w] \in CtxId <=> pc'[w] \in {"held", "infer", "sent"}
  <2>1. held[w] \in CtxId <=> pc[w] \in {"held", "infer", "sent"}
    BY DEF LoadInv, Holding
  <2>2. CASE GetCtxId(w)
    <3>1. held[w] \notin CtxId /\ pc'[w] \in {"held", "crashed"}
      BY <2>1, <2>2, <1>2 DEF GetCtxId, RateMoves
    <3>2. CASE pc'[w] = "held"
      <4>1. held'[w] \in CtxId
        <5>1. CASE Tracker = "Rand"
          <6>1. /\ nctx[w] \in 0 .. MaxContexts
                /\ held \in [Worker -> CtxId \cup {None}]
            BY <1>1, LoadTypesParts
          <6>2. PICK c \in 0 .. nctx[w] - 1 : held' = [held EXCEPT ![w] = c]
            BY <2>2, <5>1 DEF GetCtxId
          <6>3. c \in CtxId
            BY <6>1, SizesAssumption DEF CtxId
          <6> QED
            BY <6>1, <6>2, <6>3
        <5>2. CASE Tracker # "Rand" /\ free[w] # <<>>
          <6>1. /\ held' = [held EXCEPT ![w] = Head(free[w])]
                /\ free[w] \in Seq(CtxId)
                /\ held \in [Worker -> CtxId \cup {None}]
            BY <1>1, <2>2, <5>2, LoadTypesParts DEF GetCtxId
          <6>2. Head(free[w]) \in CtxId
            BY <5>2, <6>1
          <6> QED
            BY <6>1, <6>2
        <5>3. CASE Tracker # "Rand" /\ free[w] = <<>>
          <6>1. pc'[w] = "crashed"
            BY <1>1, <2>2, <5>3, LoadTypesParts DEF GetCtxId, Goto
          <6> QED
            BY <3>2, <6>1
        <5> QED
          BY <5>1, <5>2, <5>3
      <4> QED
        BY <3>2, <4>1
    <3>3. CASE pc'[w] = "crashed"
      <4>1. held' = held
        <5>1. pc \in [Worker -> WorkerPc]
          BY <1>1, LoadTypesParts
        <5> QED
          BY <2>2, <3>3, <5>1 DEF GetCtxId, Goto
      <4> QED
        BY <3>1, <3>3, <4>1
    <3> QED
      BY <3>1, <3>2, <3>3
  <2>3. CASE ~GetCtxId(w)
    <3>1. held' = held
      BY <2>3 DEF RateOwnStep, CreateContexts, HandleExecuteOff,
         DeclarePaused, Unpause, LookForFreeCtx, ResetNotified,
         WaitForFreeCtx, GetNextTimestamp, CheckExit, idVars
    <3>2. pc[w] # "take"
      BY <2>3 DEF RateOwnStep, CreateContexts, HandleExecuteOff,
         DeclarePaused, Unpause, LookForFreeCtx, ResetNotified,
         WaitForFreeCtx, GetNextTimestamp, CheckExit
    <3> QED
      BY <1>2, <2>1, <3>1, <3>2 DEF RateMoves
  <2> QED
    BY <2>2, <2>3
<1>4. /\ paused'[w] => pc'[w] \in Parked
      /\ paused'[w] \/ pc'[w] = "done" =>
             paused[w] \/ pc[w] = "done" \/ NoOngoingRequests(w)
  <2>1. paused[w] => pc[w] \in Parked
    BY DEF LoadInv, Holding
  <2>2. CASE pc[w] = "offwait"
    BY <1>2, <2>2 DEF RateOwnStep, CreateContexts, HandleExecuteOff,
       DeclarePaused, Unpause, LookForFreeCtx, ResetNotified,
       WaitForFreeCtx, GetNextTimestamp, GetCtxId, CheckExit, RateMoves,
       Parked
  <2>3. CASE pc[w] = "unpause"
    <3>1. paused' = [paused EXCEPT ![w] = FALSE]
      BY <2>3 DEF RateOwnStep, CreateContexts, HandleExecuteOff,
         DeclarePaused, Unpause, LookForFreeCtx, ResetNotified,
         WaitForFreeCtx, GetNextTimestamp, GetCtxId, CheckExit
    <3>2. ~paused'[w]
      BY <1>1, <3>1, LoadTypesParts
    <3> QED
      BY <1>2, <2>3, <3>2 DEF RateMoves
  <2>4. CASE pc[w] \notin {"offwait", "unpause"}
    <3>1. ~paused[w] /\ pc[w] \notin Parked /\ pc'[w] # "done"
      BY <1>2, <2>1, <2>4 DEF RateMoves, Parked
    <3>2. ~paused'[w]
      BY <1>1, <2>4, <3>1, LoadTypesParts DEF RateOwnStep, CreateContexts,
         HandleExecuteOff, DeclarePaused, Unpause, LookForFreeCtx,
         ResetNotified, WaitForFreeCtx, GetNextTimestamp, GetCtxId,
         CheckExit, LoadInv
    <3> QED
      BY <3>1, <3>2
  <2> QED
    BY <2>2, <2>3, <2>4
<1>5. /\ pc[w] \notin {"infer", "sent"} /\ pc'[w] \notin {"infer", "sent"}
  BY <1>2 DEF RateMoves
<1>6. \A v \in Worker \ {w} :
         /\ held[v] \in CtxId <=> pc[v] \in {"held", "infer", "sent"}
         /\ paused[v] => pc[v] \in Parked
  BY DEF LoadInv, Holding
<1> QED
  BY <1>1, <1>2, <1>3, <1>4, <1>5, <1>6, OwnStepKeeps

\* The main thread launches the workers, with their shares.
LEMMA ConfigureThreadsEffect ==
  ASSUME RateTypeOK, LoadTypes, ConfigureThreads
  PROVE  /\ threads' \in {0, DetermineNumThreads} /\ threads' # 0
         /\ conc' \in [Worker -> 0 .. MaxContexts]
         /\ offset' \in [Worker -> Nat] /\ numReq' \in [Worker -> Nat]
         /\ pc' \in [Worker -> WorkerPc]
         /\ threads # 0 => UNCHANGED <<threads, cfgVars, pc>>
         /\ threads = 0 => \A w \in Worker :
              IF w < threads'
              THEN /\ pc'[w] = "start"
                   /\ conc'[w] = Share(MaxContexts, threads', w)
                   /\ numReq'[w] = Share(Quota, threads', w)
                   /\ offset'[w] = SeqStatIndexOffset(MaxContexts, threads', w)
              ELSE /\ pc'[w] = pc[w] /\ conc'[w] = conc[w]
                   /\ numReq'[w] = numReq[w]
<1>1. /\ conc \in [Worker -> 0 .. MaxContexts]
      /\ offset \in [Worker -> Nat] /\ numReq \in [Worker -> Nat]
      /\ pc \in [Worker -> WorkerPc]
  BY LoadTypesParts
<1>2. CASE threads # 0
  BY <1>1, <1>2 DEF ConfigureThreads, cfgVars, RateTypeOK
<1>3. CASE threads = 0
  <2> DEFINE n == DetermineNumThreads
  <2>1. n \in Nat \ {0} /\ MaxContexts \in Nat /\ Quota \in Nat
    BY ThreadsType, SizesAssumption DEF Quota
  <2> HIDE DEF n
  <2>2. \A w \in Worker : /\ Share(MaxContexts, n, w) \in 0 .. MaxContexts
                           /\ SeqStatIndexOffset(MaxContexts, n, w) \in Nat
                           /\ Share(Quota, n, w) \in Nat
    <3> TAKE w \in Worker
    <3>1. w \in Nat
      BY DEF Worker
    <3>2. Share(Quota, n, w) \in 0 .. Quota
      BY <2>1, <3>1, ShareType
    <3>3. Share(Quota, n, w) \in Nat
      BY <2>1, <3>2
    <3> QED
      BY <2>1, <3>1, <3>3, ShareType
  <2>3. "start" \in WorkerPc
    BY DEF WorkerPc
  <2>4. /\ threads' = n
        /\ conc' = [w \in Worker |-> IF w < n THEN Share(MaxContexts, n, w)
                                              ELSE conc[w]]
        /\ offset' = [w \in Worker |->
                        IF w < n THEN SeqStatIndexOffset(MaxContexts, n, w)
                                 ELSE offset[w]]
        /\ numReq' = [w \in Worker |-> IF w < n THEN Share(Quota, n, w)
                                                ELSE numReq[w]]
        /\ pc' = [w \in Worker |-> IF w < n THEN "start" ELSE pc[w]]
    BY <1>3 DEF ConfigureThreads, n
  <2>5. /\ conc' \in [Worker -> 0 .. MaxContexts]
        /\ offset' \in [Worker -> Nat] /\ numReq' \in [Worker -> Nat]
        /\ pc' \in [Worker -> WorkerPc]
    BY <1>1, <2>2, <2>3, <2>4
  <2> QED
    BY <1>3, <2>1, <2>4, <2>5 DEF n
<1> QED
  BY <1>2, <1>3

-----------------------------------------------------------------------------
(* What holds in every mode.                                               *)

\* The steps of the main thread that leave the workers alone.
LEMMA RateQuietKeeps ==
  ASSUME RateBase,
         BeginRate \/ SeePaused \/ GenerateSchedule \/ ResumeWorkers
  PROVE  RateBase'
<1>1. UNCHANGED <<threads, workerVars, wakeHolder, earlyExit>>
  BY DEF BeginRate, SeePaused, GenerateSchedule, ResumeWorkers, askVars
<1>2. LoadInv'
  BY <1>1, UnchangedKeeps DEF RateBase
<1>3. RateTypeOK'
  <2>1. /\ mpc' \in ManagerPc /\ warming' \in BOOLEAN
        /\ execute' \in BOOLEAN
    BY DEF RateBase, RateTypeOK, BeginRate, SeePaused, GenerateSchedule,
       ResumeWorkers, askVars, ManagerPc
  <2>3. level' \in 0 .. Rates
    BY RatesAssumption DEF RateBase, RateTypeOK, BeginRate, SeePaused,
       GenerateSchedule, ResumeWorkers, askVars
  <2>4. checked' \in 0 .. MaxThreads
    <3>1. checked \in 0 .. MaxThreads /\ threads \in 0 .. MaxThreads
      BY ThreadsType, SizesAssumption DEF RateBase, RateTypeOK
    <3> QED
      BY <3>1, SizesAssumption DEF BeginRate, SeePaused, GenerateSchedule,
         ResumeWorkers, askVars
  <2>2. sched' \in [Worker -> 0 .. Rates]
    BY DEF RateBase, RateTypeOK, BeginRate, SeePaused, GenerateSchedule,
       ResumeWorkers
  <2> QED
    BY <1>1, <1>2, <2>1, <2>2, <2>3, <2>4
       DEF RateBase, RateTypeOK, LoadInv, LoadTypes
<1>4. RateManagerControl'
  BY <1>1 DEF RateBase, RateTypeOK, RateManagerControl, BeginRate, SeePaused,
     GenerateSchedule, ResumeWorkers, askVars
<1>5. RateWorkerControl' /\ IdsReady'
  BY <1>1 DEF RateBase, RateWorkerControl, IdsReady, workerVars, cfgVars,
     idVars, reqVars
<1>6. SchedulesKept'
  <2> SUFFICES ASSUME ~MayInterrupt, ~MayLackSchedule, NEW w \in Worker,
                      w < threads
               PROVE  \/ sched'[w] # 0
                      \/ /\ mpc' = "schedule"
                         /\ pc[w] \in {"start", "top", "off", "offwait",
                                       "offcheck", "offblock", "offsleep"}
    BY <1>1 DEF SchedulesKept, workerVars
  <2>1. CASE GenerateSchedule
    <3>1. level # 0 /\ sched'[w] = level
      BY <2>1 DEF RateBase, RateTypeOK, RateManagerControl, GenerateSchedule
    <3> QED
      BY <3>1
  <2>2. CASE ~GenerateSchedule
    BY <2>2 DEF RateBase, SchedulesKept, BeginRate, SeePaused, ResumeWorkers
  <2> QED
    BY <2>1, <2>2
<1> QED
  BY <1>2, <1>3, <1>4, <1>5, <1>6 DEF RateBase

\* The launch of the workers.
LEMMA ConfigureThreadsKeeps ==
  ASSUME RateBase, ConfigureThreads
  PROVE  RateBase'
<1>0. RateTypeOK /\ LoadTypes /\ LoadInv
  BY DEF RateBase, LoadInv
<1>1. /\ threads' \in {0, DetermineNumThreads} /\ threads' # 0
      /\ conc' \in [Worker -> 0 .. MaxContexts]
      /\ offset' \in [Worker -> Nat] /\ numReq' \in [Worker -> Nat]
      /\ pc' \in [Worker -> WorkerPc]
  BY <1>0, ConfigureThreadsEffect
<1>2. /\ mpc = "pausing" /\ mpc' = "schedule"
      /\ UNCHANGED <<level, warming, checked, execute, earlyExit, wakeHolder,
                     paused, idVars, reqVars, sched>>
  BY DEF ConfigureThreads
<1>3. \A w \in Worker :
        \/ pc'[w] = pc[w] /\ (threads # 0 \/ w >= threads')
        \/ pc[w] = "none" /\ pc'[w] = "start"
  <2>1. threads = 0 => \A w \in Worker : w >= threads
    BY DEF Worker
  <2>2. threads = 0 => \A w \in Worker : pc[w] = "none"
    BY <2>1 DEF RateBase, RateWorkerControl
  <2>3. threads' \in Nat
    BY <1>1, ThreadsType
  <2> TAKE w \in Worker
  <2>4. CASE threads # 0
    BY <1>0, <2>4, ConfigureThreadsEffect
  <2>5. CASE threads = 0
    <3>1. IF w < threads' THEN pc'[w] = "start" ELSE pc'[w] = pc[w]
      BY <1>0, <2>5, ConfigureThreadsEffect
    <3>2. w \in Nat
      BY DEF Worker
    <3> QED
      BY <2>2, <2>3, <2>5, <3>1, <3>2
  <2> QED
    BY <2>4, <2>5
<1>4. LoadTypes'
  BY <1>0, <1>1, <1>2 DEF LoadTypes, ConfigTypes, ThreadTypes, IdTypes,
     StatTypes, ContextTypes, idVars, reqVars, ctxVars
<1>5. LoadInv'
  <2>1. UNCHANGED <<inFlight, ongoing, finalizing, badCb, badStatus, held,
                    paused>>
    BY <1>2 DEF idVars, reqVars, ctxVars
  <2>2. \A v \in Worker :
          /\ held[v] \in CtxId <=> pc[v] \in {"held", "infer", "sent"}
          /\ paused[v] => pc[v] \in Parked
    BY <1>0 DEF LoadInv, Holding
  <2>3. \A v \in Worker :
          /\ \/ pc[v] \notin {"infer", "sent"}
                /\ pc'[v] \notin {"infer", "sent"}
             \/ pc'[v] = pc[v]
          /\ held[v] \in CtxId <=> pc'[v] \in {"held", "infer", "sent"}
          /\ paused[v] => pc'[v] \in Parked
          /\ pc'[v] = "done" => pc[v] = "done"
    BY <1>3, <2>2 DEF Parked
  <2> QED
    BY <1>0, <1>4, <2>1, <2>3, OwnStepKeeps
<1>6. RateTypeOK'
  BY <1>0, <1>1, <1>2, <1>4 DEF RateTypeOK, LoadTypes, ManagerPc
<1>7. RateManagerControl'
  BY <1>2 DEF RateBase, RateManagerControl
<1>8. RateWorkerControl'
  <2> SUFFICES ASSUME NEW w \in Worker
               PROVE  /\ w >= threads' =>
                           pc'[w] = "none" /\ sent'[w] = 0 /\ conc'[w] = 0
                      /\ pc'[w] \notin {"noconc", "nccheck", "ncblock",
                                        "ncsleep", "ctx", "exit1", "exit2",
                                        "exit3", "left"}
    BY DEF RateWorkerControl
  <2>1. /\ w >= threads => pc[w] = "none" /\ sent[w] = 0 /\ conc[w] = 0
        /\ pc[w] \notin {"noconc", "nccheck", "ncblock", "ncsleep", "ctx",
                         "exit1", "exit2", "exit3", "left"}
        /\ sent' = sent
    BY <1>2 DEF RateBase, RateWorkerControl, reqVars
  <2>2. CASE threads # 0
    <3>1. UNCHANGED <<threads, conc, pc>>
      BY <1>0, <2>2, ConfigureThreadsEffect DEF cfgVars
    <3> QED
      BY <2>1, <3>1
  <2>3. CASE threads = 0
    <3>1. w >= threads /\ threads' \in Nat /\ w \in Nat
      BY <1>1, <2>3, ThreadsType DEF Worker
    <3>2. w >= threads' => pc'[w] = pc[w] /\ conc'[w] = conc[w]
      BY <1>0, <2>3, <3>1, ConfigureThreadsEffect
    <3> QED
      BY <1>3, <2>1, <3>1, <3>2
  <2> QED
    BY <2>2, <2>3
<1>9. SchedulesKept'
  <2> SUFFICES ASSUME ~MayInterrupt, ~MayLackSchedule, NEW w \in Worker,
                      w < threads'
               PROVE  sched[w] # 0 \/ pc'[w] = "start"
    BY <1>2 DEF SchedulesKept
  <2>1. CASE threads # 0
    <3>1. threads' = threads
      BY <1>0, <2>1, ConfigureThreadsEffect
    <3> QED
      BY <1>2, <3>1 DEF RateBase, SchedulesKept
  <2>2. CASE threads = 0
    BY <1>0, <2>2, ConfigureThreadsEffect
  <2> QED
    BY <2>1, <2>2
<1>10. IdsReady'
  BY <1>2, <1>3 DEF RateBase, IdsReady, idVars, reqVars
<1> QED
  BY <1>5, <1>6, <1>7, <1>8, <1>9, <1>10 DEF RateBase

\* The steps of the main thread that wake the sleepers.
LEMMA RateWakeKeeps ==
  ASSUME RateBase, NotifyWorkers \/ (StopNotify /\ UNCHANGED sched)
  PROVE  RateBase'
<1>1. /\ WakeAll
      /\ UNCHANGED <<level, warming, checked, threads, execute, earlyExit,
                     wakeHolder, cfgVars, paused, idVars, reqVars, sched>>
      /\ \/ mpc = "notify" /\ mpc' \in {"warmup", "discard"}
         \/ mpc = "stopping" /\ mpc' = "joining"
  BY DEF NotifyWorkers, StopNotify, askVars
<1>2. LoadInv'
  BY <1>1, WakeAllKeeps DEF RateBase
<1>3. RateTypeOK'
  BY <1>1, <1>2 DEF RateBase, RateTypeOK, LoadInv, LoadTypes, ManagerPc
<1>4. RateManagerControl'
  BY <1>1 DEF RateBase, RateManagerControl
<1>5. \A w \in Worker : \/ pc'[w] = pc[w]
                        \/ pc[w] = "offsleep" /\ pc'[w] = "offcheck"
  BY <1>1 DEF RateBase, RateWorkerControl, WakeAll
<1>6. RateWorkerControl' /\ SchedulesKept' /\ IdsReady'
  BY <1>1, <1>5 DEF RateBase, RateWorkerControl, SchedulesKept, IdsReady,
     cfgVars, idVars, reqVars
<1> QED
  BY <1>2, <1>3, <1>4, <1>6 DEF RateBase

\* The end of the warm-up.
LEMMA EndWarmupKeeps ==
  ASSUME RateBase, EndWarmup
  PROVE  RateBase'
<1>1. LoadInv'
  BY CleanupKeeps DEF RateBase, EndWarmup
<1>2. /\ mpc = "warmup" /\ mpc' = "pausing" /\ warming' = FALSE
      /\ checked' = 0 /\ threads' = 0 /\ execute' = FALSE
      /\ level' = level /\ earlyExit' = earlyExit /\ sched' = Each(0)
      /\ \A w \in Worker : /\ pc'[w] = "none" /\ sent'[w] = 0
                           /\ conc'[w] = 0
  BY DEF EndWarmup, WaitForWarmupAndCleanup, Each
<1>3. RateTypeOK'
  <2>1. sched' \in [Worker -> 0 .. Rates]
    BY <1>2, RatesAssumption DEF Each
  <2>2. checked' \in 0 .. MaxThreads
    BY <1>2, SizesAssumption
  <2> QED
    BY <1>1, <1>2, <2>1, <2>2
       DEF RateBase, RateTypeOK, LoadInv, LoadTypes, ManagerPc
<1>4. RateManagerControl'
  BY <1>2 DEF RateBase, RateManagerControl
<1>5. RateWorkerControl' /\ IdsReady'
  BY <1>2 DEF RateWorkerControl, IdsReady
<1>6. SchedulesKept'
  BY <1>2 DEF SchedulesKept, Worker
<1> QED
  BY <1>1, <1>3, <1>4, <1>5, <1>6 DEF RateBase

\* The end of a measurement, a signal, and the end of the run.
LEMMA RateStopKeeps ==
  ASSUME RateBase, UNCHANGED sched,
         \/ DiscardRecords \/ EndMeasure \/ SignalHandler
         \/ StopWorkerThreads \/ JoinThreads
  PROVE  RateBase'
<1>1. LoadInv'
  BY SharedManagerStepKeeps DEF RateBase, SharedManagerStep
<1>2. /\ UNCHANGED <<level, warming, checked, threads, execute, sched, conc,
                     pc, free, notified>>
      /\ sent' = sent \/ sent' = Each(0)
      /\ \/ mpc = "discard" /\ mpc' = "measure" /\ earlyExit' = earlyExit
         \/ /\ mpc = "measure" /\ mpc' \in {"over", "idle"}
            /\ earlyExit' = earlyExit
         \/ MayInterrupt /\ earlyExit' = TRUE /\ mpc' = mpc
         \/ mpc \in {"idle", "over"} /\ mpc' = "stopping" /\ earlyExit' = TRUE
         \/ mpc = "joining" /\ mpc' = "end" /\ earlyExit' = earlyExit
  BY DEF DiscardRecords, EndMeasure, SignalHandler, StopWorkerThreads,
     JoinThreads, askVars, workerVars, cfgVars, idVars, reqVars, ctxVars
<1>3. RateTypeOK'
  BY <1>1, <1>2 DEF RateBase, RateTypeOK, LoadInv, LoadTypes, ManagerPc
<1>4. RateManagerControl'
  BY <1>2, ModesAssumption DEF RateBase, RateManagerControl
<1>5. RateWorkerControl'
  BY <1>2 DEF RateBase, RateWorkerControl, Each
<1>6. SchedulesKept' /\ IdsReady'
  BY <1>2 DEF RateBase, SchedulesKept, IdsReady
<1> QED
  BY <1>1, <1>3, <1>4, <1>5, <1>6 DEF RateBase

\* A worker's step, or a callback, against what it may not disturb.
LEMMA RateStepFrame ==
  ASSUME RateBase, LoadInv', UNCHANGED <<mainVars, sched, conc>>,
         NEW w \in Worker,
         \A v \in Worker \ {w} :
             /\ pc'[v] = pc[v] /\ sent'[v] = sent[v]
             /\ free'[v] = free[v] /\ notified'[v] = notified[v],
         pc'[w] # pc[w] \/ sent'[w] # sent[w] => pc[w] # "none",
         pc'[w] = pc[w] \/ <<pc[w], pc'[w]>> \in SharedMoves \cup RateMoves,
         pc'[w] = "unpause" /\ pc[w] # "unpause" => execute \/ earlyExit,
         pc[w] = "top" /\ pc'[w] = "free" => execute,
         Tracker # "Rand" =>
             /\ pc'[w] \in {"next", "take"} => free'[w] # <<>>
             /\ pc'[w] = "wait" /\ notified'[w] => free'[w] # <<>>
  PROVE  RateBase'
<1>1. RateTypeOK'
  BY DEF RateBase, RateTypeOK, LoadInv, LoadTypes, mainVars, askVars
<1>2. RateManagerControl'
  BY DEF RateBase, RateManagerControl, mainVars, askVars
<1>3. RateWorkerControl'
  <2>1. UNCHANGED <<threads, conc>>
    BY DEF mainVars, askVars
  <2>2. pc'[w] \notin {"noconc", "nccheck", "ncblock", "ncsleep", "ctx",
                       "exit1", "exit2", "exit3", "left"}
    <3>1. pc[w] \notin {"noconc", "nccheck", "ncblock", "ncsleep", "ctx",
                        "exit1", "exit2", "exit3", "left"}
      BY DEF RateBase, RateWorkerControl
    <3> QED
      BY <3>1 DEF SharedMoves, RateMoves
  <2>3. w >= threads => /\ pc'[w] = pc[w] /\ sent'[w] = sent[w]
    BY DEF RateBase, RateWorkerControl
  <2> QED
    BY <2>1, <2>2, <2>3 DEF RateBase, RateWorkerControl
<1>4. SchedulesKept'
  <2> SUFFICES ASSUME ~MayInterrupt, ~MayLackSchedule, w < threads,
                      sched[w] = 0
               PROVE  /\ mpc = "schedule"
                      /\ pc'[w] \in {"start", "top", "off", "offwait",
                                     "offcheck", "offblock", "offsleep"}
    BY DEF RateBase, SchedulesKept, mainVars, askVars
  <2>1. /\ mpc = "schedule"
        /\ pc[w] \in {"start", "top", "off", "offwait", "offcheck",
                      "offblock", "offsleep"}
    BY DEF RateBase, SchedulesKept
  <2>2. ~execute /\ ~earlyExit
    BY <2>1 DEF RateBase, RateManagerControl
  <2> QED
    BY <2>1, <2>2 DEF SharedMoves, RateMoves
<1>5. IdsReady'
  BY DEF RateBase, IdsReady
<1> QED
  BY <1>1, <1>2, <1>3, <1>4, <1>5 DEF RateBase

\* A worker's own steps: it looks for an id before it takes one.
LEMMA RateOwnStepKeeps ==
  ASSUME RateBase, UNCHANGED sched, NEW w \in Worker, RateOwnStep(w)
  PROVE  RateBase'
<1>1. RateTypeOK /\ LoadInv /\ LoadTypes
  BY DEF RateBase, LoadInv
<1>2. LoadInv'
  BY <1>1, RateOwnKeeps
<1>3. /\ <<pc[w], pc'[w]>> \in RateMoves
      /\ \A v \in Worker \ {w} : pc'[v] = pc[v]
  BY <1>1, RateMoveEffect
<1>4. /\ UNCHANGED <<mainVars, cfgVars, sent>>
      /\ \A v \in Worker \ {w} : /\ free'[v] = free[v]
                                  /\ notified'[v] = notified[v]
  BY <1>1, RateOwnTypes
<1>5. pc[w] # "none" /\ pc'[w] # "unpause"
  BY <1>3 DEF RateMoves
<1>6. pc[w] = "top" /\ pc'[w] = "free" => execute
  BY <1>1, LoadTypesParts DEF RateOwnStep, CreateContexts, HandleExecuteOff,
     DeclarePaused, Unpause, LookForFreeCtx, ResetNotified, WaitForFreeCtx,
     GetNextTimestamp, GetCtxId, CheckExit, Goto
<1>7. ASSUME Tracker # "Rand"
      PROVE  /\ pc'[w] \in {"next", "take"} => free'[w] # <<>>
             /\ pc'[w] = "wait" /\ notified'[w] => free'[w] # <<>>
  <2>1. /\ pc[w] \in {"next", "take"} => free[w] # <<>>
        /\ pc[w] = "wait" /\ notified[w] => free[w] # <<>>
    BY <1>7 DEF RateBase, IdsReady
  <2>2. CASE LookForFreeCtx(w)
    BY <1>1, <1>7, <2>2, LoadTypesParts DEF LookForFreeCtx, IsAvailable,
       Goto, idVars
  <2>3. CASE ResetNotified(w)
    BY <1>1, <2>3, LoadTypesParts DEF ResetNotified, ClearNotified, Goto
  <2>4. CASE WaitForFreeCtx(w)
    BY <1>1, <2>1, <2>4, LoadTypesParts DEF WaitForFreeCtx, Goto, idVars
  <2>5. CASE GetNextTimestamp(w)
    BY <1>1, <2>1, <2>5, LoadTypesParts DEF GetNextTimestamp, Goto, idVars
  <2>6. CASE pc'[w] \notin {"next", "take", "wait"}
    BY <2>6
  <2>7. CASE CreateContexts(w) \/ HandleExecuteOff(w) \/ DeclarePaused(w)
             \/ Unpause(w) \/ GetCtxId(w) \/ CheckExit(w)
    BY <1>3, <2>6, <2>7 DEF CreateContexts, HandleExecuteOff, DeclarePaused,
       Unpause, GetCtxId, CheckExit, RateMoves
  <2> QED
    BY <2>2, <2>3, <2>4, <2>5, <2>7 DEF RateOwnStep
<1> QED
  BY <1>2, <1>3, <1>4, <1>5, <1>6, <1>7, RateStepFrame DEF cfgVars

\* A worker's steps that both modes have, and the callbacks: they only give
\* ids back.
LEMMA RateSharedStepKeeps ==
  ASSUME RateBase, UNCHANGED sched, NEW w \in Worker, SharedWorkerStep(w)
  PROVE  RateBase'
<1>1. LoadInv /\ LoadTypes /\ LoadInv'
  BY SharedWorkerStepKeeps DEF RateBase, LoadInv
<1>2. /\ <<pc[w], pc'[w]>> \in SharedMoves
      /\ \A v \in Worker \ {w} : pc'[v] = pc[v]
      /\ pc'[w] = "unpause" => execute \/ earlyExit
  BY <1>1, SharedMoveEffect
<1>3. /\ UNCHANGED <<mainVars, cfgVars, notified>>
      /\ \A v \in Worker \ {w} : free'[v] = free[v] /\ sent'[v] = sent[v]
  BY <1>1, SharedFrame
<1>4. /\ pc[w] # "none" /\ ~(pc[w] = "top" /\ pc'[w] = "free")
      /\ pc'[w] \notin {"next", "take", "wait"}
  BY <1>2 DEF SharedMoves
<1> QED
  BY <1>1, <1>2, <1>3, <1>4, RateStepFrame DEF cfgVars

LEMMA RateCallbackKeeps ==
  ASSUME RateBase, UNCHANGED sched, NEW w \in Worker, NEW c \in CtxId,
         Callback(w, c)
  PROVE  RateBase'
<1>1. LoadInv /\ LoadTypes /\ LoadInv'
  BY CallbackKeeps DEF RateBase, LoadInv
<1>2. UNCHANGED <<mainVars, cfgVars, pc, sent>>
  BY DEF Callback, AsyncCallback, AsyncCallbackGivesUp, AsyncCallbackFinalize
<1>3. /\ \A v \in Worker \ {w} : /\ free'[v] = free[v]
                                  /\ notified'[v] = notified[v]
      /\ \/ free'[w] = free[w] /\ notified'[w] = notified[w]
         \/ Tracker = "Rand"
         \/ free'[w] # <<>>
  <2>1. CASE AsyncCallback(w, c) \/ AsyncCallbackGivesUp(w, c)
    BY <2>1 DEF AsyncCallback, AsyncCallbackGivesUp, idVars
  <2>2. CASE AsyncCallbackFinalize(w, c)
    <3>1. /\ free \in [Worker -> Seq(CtxId)]
          /\ notified \in [Worker -> BOOLEAN]
      BY <1>1, LoadTypesParts
    <3>2. Append(free[w], c) # <<>>
      BY <3>1
    <3> QED
      BY <2>2, <3>1, <3>2 DEF AsyncCallbackFinalize, Restore
  <2> QED
    BY <2>1, <2>2 DEF Callback
<1>4. Tracker # "Rand" =>
         /\ pc[w] \in {"next", "take"} => free'[w] # <<>>
         /\ pc[w] = "wait" /\ notified'[w] => free'[w] # <<>>
  BY <1>3 DEF RateBase, IdsReady
<1> QED
  BY <1>1, <1>2, <1>3, <1>4, RateStepFrame DEF cfgVars

\* Every step is one of these.
LEMMA RateNextCases ==
  ASSUME RateNext
  PROVE  \/ BeginRate \/ SeePaused \/ ConfigureThreads \/ GenerateSchedule
         \/ ResumeWorkers \/ NotifyWorkers \/ EndWarmup
         \/ StopNotify /\ UNCHANGED sched
         \/ /\ \/ DiscardRecords \/ EndMeasure \/ SignalHandler
               \/ StopWorkerThreads \/ JoinThreads
            /\ UNCHANGED sched
         \/ \E w \in Worker :
               (RateOwnStep(w) \/ SharedWorkerStep(w)) /\ UNCHANGED sched
         \/ \E w \in Worker : \E c \in CtxId :
               Callback(w, c) /\ UNCHANGED sched
         \/ UNCHANGED rateVars
<1>1. ASSUME NEW w \in Worker, WorkerStep(w)
      PROVE  (RateOwnStep(w) \/ SharedWorkerStep(w)) /\ UNCHANGED sched
  BY <1>1 DEF WorkerStep, RateOwnStep, SharedWorkerStep, SendInBound
<1>2. ASSUME NEW w \in Worker, NEW c \in CtxId, CallbackStep(w, c)
      PROVE  Callback(w, c) /\ UNCHANGED sched
  BY <1>2 DEF CallbackStep
<1>3. CASE ManagerStep \/ Stop
  BY <1>3 DEF ManagerStep, Stop
<1>4. CASE Terminated /\ UNCHANGED sched
  BY <1>4 DEF Terminated, rateVars
<1> QED
  BY <1>1, <1>2, <1>3, <1>4 DEF RateNext

LEMMA RateBaseNext ==
  ASSUME RateBase, [RateNext]_rateVars
  PROVE  RateBase'
<1>1. CASE UNCHANGED rateVars
  <2>1. UNCHANGED <<mainVars, workerVars, wakeHolder, sched>>
    BY <1>1 DEF rateVars, vars
  <2>2. LoadInv'
    BY <2>1, UnchangedKeeps DEF RateBase
  <2>3. RateTypeOK' /\ RateManagerControl'
    BY <2>1, <2>2 DEF RateBase, RateTypeOK, RateManagerControl, LoadInv,
       LoadTypes, mainVars, askVars
  <2>4. RateWorkerControl' /\ SchedulesKept' /\ IdsReady'
    BY <2>1 DEF RateBase, RateWorkerControl, SchedulesKept, IdsReady,
       mainVars, askVars, workerVars, cfgVars, idVars, reqVars
  <2> QED
    BY <2>2, <2>3, <2>4 DEF RateBase
<1>2. CASE RateNext
  BY <1>1, <1>2, RateNextCases, RateQuietKeeps, ConfigureThreadsKeeps,
     RateWakeKeeps, EndWarmupKeeps, RateStopKeeps, RateOwnStepKeeps,
     RateSharedStepKeeps, RateCallbackKeeps
<1> QED
  BY <1>1, <1>2

\* Every reachable state satisfies the invariant.
LEMMA RateBaseHolds == RateSpec => []RateBase
<1>1. RateInit => RateBase
  BY InitRateInv DEF RateInv
<1>2. RateBase /\ [RateNext]_rateVars => RateBase'
  BY RateBaseNext
<1> QED
  BY <1>1, <1>2, PTL DEF RateSpec

\* Type correctness, for every number of threads, contexts and rates and in
\* every mode: a RequestRateWorker never makes more contexts than there are
\* sequence statuses, nor takes an id of no context.
THEOREM RateTypeCorrect == RateSpec => []RateTypeOK
<1>1. RateBase => RateTypeOK
  BY DEF RateBase
<1> QED
  BY <1>1, RateBaseHolds, PTL

\* In request-rate mode, GetNumOngoingRequests never counts too few requests,
\* and too many only after an error of the client library.
THEOREM RateOngoingCorrect == RateSpec => []OngoingAccounted
<1>1. RateBase => OngoingAccounted
  BY DEF RateBase, LoadInv
<1> QED
  BY <1>1, RateBaseHolds, PTL

\* HandleExecuteOff and HandleExitConditions: a RequestRateWorker that declares
\* itself paused, or has left Infer, has no request at the server.
THEOREM RateQuietCorrect == RateSpec => []QuietWhenPausedOrDone
<1>1. RateBase => QuietWhenPausedOrDone
  BY DEF RateBase, LoadInv
<1> QED
  BY <1>1, RateBaseHolds, PTL

\* GetNextTimestamp never finds schedule_ null: a worker "should wait till main
\* thread signals execution start", and the schedules are given before that.
\* It takes a SIGINT, or an unusable intervals file, to break this.
THEOREM SchedulesGiven ==
  ASSUME ~MayInterrupt, ~MayLackSchedule
  PROVE  RateSpec => []ScheduleGiven
<1>1. RateBase => ScheduleGiven
  <2> SUFFICES ASSUME RateBase, NEW w \in Worker, pc[w] = "next"
               PROVE  sched[w] # 0
    BY DEF ScheduleGiven
  <2>1. w < threads
    <3>1. ~(w >= threads)
      BY DEF RateBase, RateWorkerControl
    <3>2. w \in Nat /\ threads \in Nat
      BY ThreadsType DEF Worker, RateBase, RateTypeOK
    <3> QED
      BY <3>1, <3>2
  <2> QED
    BY <2>1 DEF RateBase, SchedulesKept
<1> QED
  BY <1>1, RateBaseHolds, PTL

\* Get of a FIFO tracker never finds "free ctx id list is empty": whatever was
\* notified, dropped or restored late, there is an id when the worker has
\* waited for one.
THEOREM TrackersNeverEmpty == RateSpec => []TrackerNeverEmpty
<1>1. RateBase => TrackerNeverEmpty
  BY DEF RateBase, IdsReady, TrackerNeverEmpty, IsAvailable
<1> QED
  BY <1>1, RateBaseHolds, PTL

-----------------------------------------------------------------------------
(* The request count.                                                      *)

\* Each worker's num_requests_ is its part of the count, from its launch on.
PartsGiven ==
    \A w \in Worker : w < threads => numReq[w] = Share(Quota, threads, w)

RateCountInv == RateBase /\ PartsGiven

\* With a count there is only one rate, so that no other one begins while the
\* workers have their parts.
LEMMA QuotaKept ==
  ASSUME RateBase, [RateNext]_rateVars
  PROVE  threads # 0 /\ threads' # 0 => threads' = threads /\ Quota' = Quota
<1>1. CASE BeginRate
  <2>1. CASE RequestCount = 0 /\ WarmupCount = 0
    BY <1>1, <2>1 DEF BeginRate, Quota
  <2>2. CASE RequestCount # 0 \/ WarmupCount # 0
    <3>1. Rates = 1 /\ level \in 0 .. Rates /\ level < Rates
      BY <1>1, <2>2, RateCountsAssumption
         DEF BeginRate, RateBase, RateTypeOK
    <3>2. level = 0
      BY <3>1
    <3> QED
      BY <3>2 DEF RateBase, RateManagerControl
  <2> QED
    BY <2>1, <2>2
<1>2. CASE ConfigureThreads
  BY <1>2, ConfigureThreadsEffect
     DEF ConfigureThreads, Quota, RateBase, LoadInv
<1>3. CASE EndWarmup
  BY <1>3 DEF EndWarmup, WaitForWarmupAndCleanup
<1>4. ASSUME UNCHANGED <<threads, warming>>
      PROVE  threads' = threads /\ Quota' = Quota
  BY <1>4 DEF Quota
<1>5. CASE SeePaused \/ GenerateSchedule \/ ResumeWorkers \/ NotifyWorkers
           \/ StopNotify \/ UNCHANGED rateVars
  BY <1>4, <1>5 DEF SeePaused, GenerateSchedule, ResumeWorkers,
     NotifyWorkers, StopNotify, askVars, rateVars, vars, mainVars
<1>6. CASE \/ DiscardRecords \/ EndMeasure \/ SignalHandler
           \/ StopWorkerThreads \/ JoinThreads
  BY <1>4, <1>6 DEF DiscardRecords, EndMeasure, SignalHandler,
     StopWorkerThreads, JoinThreads, askVars
<1>7. ASSUME NEW w \in Worker, RateOwnStep(w) \/ SharedWorkerStep(w)
      PROVE  UNCHANGED <<threads, warming>>
  <2>1. UNCHANGED mainVars
    BY <1>7, RateOwnTypes, SharedFrame DEF RateBase, LoadInv
  <2> QED
    BY <2>1 DEF mainVars, askVars
<1>8. ASSUME NEW w \in Worker, NEW c \in CtxId, Callback(w, c)
      PROVE  UNCHANGED <<threads, warming>>
  BY <1>8 DEF Callback, AsyncCallback, AsyncCallbackGivesUp,
     AsyncCallbackFinalize, mainVars, askVars
<1> QED
  BY <1>1, <1>2, <1>3, <1>4, <1>5, <1>6, <1>7, <1>8, RateNextCases

LEMMA PartsGivenNext ==
  ASSUME RateCountInv, [RateNext]_rateVars
  PROVE  PartsGiven'
<1>1. RateBase /\ PartsGiven
  BY DEF RateCountInv
<1>2. CASE threads' = 0
  BY <1>2 DEF PartsGiven, Worker
<1>3. CASE threads = 0 /\ threads' # 0
  <2>1. ASSUME NEW w \in Worker, RateOwnStep(w) \/ SharedWorkerStep(w)
        PROVE  threads' = threads
    <3>1. UNCHANGED mainVars
      BY <1>1, <2>1, RateOwnTypes, SharedFrame DEF RateBase, LoadInv
    <3> QED
      BY <3>1 DEF mainVars, askVars
  <2>2. ASSUME NEW w \in Worker, NEW c \in CtxId, Callback(w, c)
        PROVE  threads' = threads
    BY <2>2 DEF Callback, AsyncCallback, AsyncCallbackGivesUp,
       AsyncCallbackFinalize, mainVars, askVars
  <2>3. ConfigureThreads
    BY <1>1, <1>3, <2>1, <2>2, RateNextCases DEF BeginRate, SeePaused,
       GenerateSchedule, ResumeWorkers, NotifyWorkers, EndWarmup,
       WaitForWarmupAndCleanup, StopNotify, DiscardRecords, EndMeasure,
       SignalHandler, StopWorkerThreads, JoinThreads, rateVars, vars,
       mainVars, askVars
  <2>4. Quota' = Quota
    BY <2>3 DEF ConfigureThreads, Quota
  <2>5. \A w \in Worker :
           w < threads' => numReq'[w] = Share(Quota, threads', w)
    BY <1>1, <1>3, <2>3, ConfigureThreadsEffect DEF RateBase, LoadInv
  <2> QED
    BY <2>4, <2>5 DEF PartsGiven
<1>4. CASE threads # 0 /\ threads' # 0
  <2>1. threads' = threads /\ Quota' = Quota
    BY <1>1, <1>4, QuotaKept
  <2>2. ASSUME NEW w \in Worker, RateOwnStep(w) \/ SharedWorkerStep(w)
        PROVE  numReq' = numReq
    BY <1>1, <2>2, RateOwnTypes, SharedFrame DEF RateBase, LoadInv, cfgVars
  <2>3. ASSUME NEW w \in Worker, NEW c \in CtxId, Callback(w, c)
        PROVE  numReq' = numReq
    BY <2>3 DEF Callback, AsyncCallback, AsyncCallbackGivesUp,
       AsyncCallbackFinalize, cfgVars
  <2>4. ASSUME ConfigureThreads
        PROVE  numReq' = numReq
    <3>1. RateTypeOK /\ LoadTypes /\ threads # 0
      BY <1>1, <1>4 DEF RateBase, LoadInv
    <3>2. UNCHANGED <<threads, cfgVars, pc>>
      BY <2>4, <3>1, ConfigureThreadsEffect
    <3> QED
      BY <3>2 DEF cfgVars
  <2>5. numReq' = numReq
    BY <1>1, <1>4, <2>2, <2>3, <2>4, RateNextCases DEF BeginRate, SeePaused,
       GenerateSchedule, ResumeWorkers, NotifyWorkers, EndWarmup,
       WaitForWarmupAndCleanup, StopNotify, DiscardRecords, EndMeasure,
       SignalHandler, StopWorkerThreads, JoinThreads, rateVars, vars,
       workerVars, cfgVars
  <2> QED
    BY <1>1, <2>1, <2>5 DEF PartsGiven
<1> QED
  BY <1>2, <1>3, <1>4

\* Unless there are fewer requests, or warm-up requests, than threads, every
\* worker's part is at least one: 0 would mean no limit.
LEMMA NoEmptyPart ==
  ASSUME RateTypeOK, Quota = 0 \/ Quota >= DetermineNumThreads, Quota # 0,
         NEW w \in Worker, w < threads
  PROVE  Share(Quota, threads, w) \in Nat \ {0}
<1>1. /\ threads = DetermineNumThreads /\ threads \in Nat \ {0} /\ w \in Nat
      /\ Quota \in Nat
  BY ThreadsType, SizesAssumption DEF RateTypeOK, Worker, Quota
<1>2. Quota >= threads
  BY <1>1
<1> QED
  BY <1>1, <1>2, ShareAtLeastOne

LEMMA RateCountNext ==
  ASSUME RateCountInv, RateCountInv', RequestCountRespected,
         Quota = 0 \/ Quota >= DetermineNumThreads,
         [RateNext]_rateVars
  PROVE  RequestCountRespected'
<1>1. /\ RateBase /\ LoadTypes /\ RateTypeOK /\ PartsGiven
      /\ sent \in [Worker -> 0 .. SentCap] /\ numReq \in [Worker -> Nat]
  BY LoadTypesParts DEF RateCountInv, RateBase, LoadInv
<1>2. /\ threads' \in Nat /\ Quota' \in Nat
      /\ sent' \in [Worker -> 0 .. SentCap]
  BY ThreadsType, SizesAssumption
     DEF RateCountInv, RateBase, RateTypeOK, StatTypes, Quota
<1>3. SUFFICES ASSUME ~OnSequenceModel, Quota' # 0,
                      NEW w \in Worker, w < threads'
               PROVE  sent'[w] <= Share(Quota', threads', w)
  BY DEF RequestCountRespected, Launched
<1>4. w \in Nat /\ threads' # 0 /\ Share(Quota', threads', w) \in Nat
  <2>1. w \in Nat /\ threads' # 0
    BY <1>2, <1>3 DEF Worker
  <2>2. Share(Quota', threads', w) \in 0 .. Quota'
    BY <1>2, <2>1, ShareType
  <2> QED
    BY <1>2, <2>1, <2>2
<1>5. CASE sent'[w] = 0
  BY <1>4, <1>5
<1>6. CASE threads # 0 /\ sent'[w] <= sent[w]
  <2>1. threads' = threads /\ Quota' = Quota
    BY <1>1, <1>4, <1>6, QuotaKept
  <2>2. sent[w] <= Share(Quota, threads, w)
    BY <1>3, <2>1 DEF RequestCountRespected, Launched
  <2>3. sent[w] \in Nat /\ sent'[w] \in Nat
    BY <1>1, <1>2
  <2> QED
    BY <1>4, <1>6, <2>1, <2>2, <2>3
<1>7. CASE threads = 0 /\ sent' = sent
  BY <1>1, <1>4, <1>5, <1>7 DEF RateBase, RateWorkerControl
<1>8. sent[w] \in Nat /\ sent'[w] \in Nat
  BY <1>1, <1>2
<1>9. ASSUME sent' = sent
      PROVE  sent'[w] <= Share(Quota', threads', w)
  BY <1>6, <1>7, <1>8, <1>9
<1>10. ASSUME NEW v \in Worker, RateOwnStep(v) \/ SharedWorkerStep(v)
       PROVE  sent'[w] <= Share(Quota', threads', w)
  <2>1. UNCHANGED mainVars
    BY <1>1, <1>10, RateOwnTypes, SharedFrame
  <2>2. threads # 0 /\ Quota' = Quota /\ threads' = threads
    BY <1>4, <2>1 DEF mainVars, askVars, Quota
  <2>3. CASE RateOwnStep(v)
    BY <1>1, <1>9, <2>3, RateOwnTypes
  <2>4. CASE SharedWorkerStep(v) /\ v # w
    BY <1>1, <1>6, <1>8, <2>2, <2>4, SharedFrame
  <2>5. CASE SharedWorkerStep(v) /\ v = w
    <3>1. numReq[w] = Share(Quota, threads, w)
      BY <1>1, <1>3, <2>2 DEF PartsGiven
    <3>2. numReq[w] # 0
      BY <1>1, <1>3, <2>2, <3>1, NoEmptyPart
    <3>3. SharedWorkerStep(w)
      BY <2>5
    <3>4. \/ sent'[w] = sent[w]
          \/ sent'[w] <= sent[w] + 1 /\ sent[w] < numReq[w]
      BY <1>1, <1>3, <3>2, <3>3, SharedCounts
    <3> QED
      BY <1>1, <1>4, <1>6, <1>8, <2>2, <3>1, <3>4
  <2> QED
    BY <1>10, <2>3, <2>4, <2>5
<1>11. ASSUME NEW v \in Worker, NEW c \in CtxId, Callback(v, c)
       PROVE  sent' = sent
  BY <1>11 DEF Callback, AsyncCallback, AsyncCallbackGivesUp,
     AsyncCallbackFinalize
<1>12. CASE \/ BeginRate \/ SeePaused \/ ConfigureThreads
            \/ GenerateSchedule \/ ResumeWorkers \/ NotifyWorkers
            \/ StopNotify \/ UNCHANGED rateVars
  <2>1. sent' = sent
    BY <1>12 DEF BeginRate, SeePaused, ConfigureThreads, GenerateSchedule,
       ResumeWorkers, NotifyWorkers, StopNotify, rateVars, vars, workerVars,
       reqVars
  <2> QED
    BY <1>9, <2>1
<1>13. CASE \/ EndWarmup \/ DiscardRecords \/ EndMeasure \/ SignalHandler
            \/ StopWorkerThreads \/ JoinThreads
  <2>1. sent' = sent \/ sent' = Each(0)
    BY <1>13 DEF EndWarmup, WaitForWarmupAndCleanup, DiscardRecords,
       EndMeasure, SignalHandler, StopWorkerThreads, JoinThreads,
       workerVars, reqVars
  <2> QED
    BY <1>5, <1>9, <2>1 DEF Each
<1> QED
  BY <1>9, <1>10, <1>11, <1>12, <1>13, RateNextCases

LEMMA RateCountInvHolds == RateSpec => []RateCountInv
<1>1. RateInit => PartsGiven
  BY DEF RateInit, InitLoad, PartsGiven, Worker
<1>2. RateCountInv /\ [RateNext]_rateVars => PartsGiven'
  BY PartsGivenNext
<1> QED
  BY <1>1, <1>2, RateBaseHolds, PTL DEF RateSpec, RateCountInv

\* ShouldExit, with --request-count: without sequences no RequestRateWorker
\* sends more than its part in one measurement, for every number of threads and
\* every count that leaves no worker without a part.  A worker with the part 0
\* has no limit.
THEOREM RateCountRespected ==
  ASSUME RequestCount = 0 \/ RequestCount >= DetermineNumThreads,
         WarmupCount = 0 \/ WarmupCount >= DetermineNumThreads
  PROVE  RateSpec => []RequestCountRespected
<1>1. RateInit => RequestCountRespected
  BY DEF RateInit, InitLoad, RequestCountRespected, Launched, Worker
<1>2. RateCountInv /\ RateCountInv' /\ RequestCountRespected
      /\ [RateNext]_rateVars
        => RequestCountRespected'
  <2>1. Quota = 0 \/ Quota >= DetermineNumThreads
    BY DEF Quota
  <2> QED
    BY <2>1, RateCountNext
<1> QED
  BY <1>1, <1>2, RateCountInvHolds, PTL DEF RateSpec

-----------------------------------------------------------------------------
(* --serial-sequences.                                                     *)

\* Where a worker owns no open sequence.
NotOpen == FreshPc \cup {"exitwait", "done"}

\* A step of one worker, seen from the others.
LEMMA SerialFrame ==
  ASSUME SerialInv, NEW w \in Worker,
         UNCHANGED <<threads, execute, offset, conc>>,
         \A v \in Worker \ {w} :
             /\ pc'[v] = pc[v] /\ nctx'[v] = nctx[v] /\ free'[v] = free[v]
             /\ held'[v] = held[v] /\ inFlight'[v] = inFlight[v]
             /\ finalizing'[v] = finalizing[v],
         OpenOwned', SerialWorker(w)'
  PROVE  SerialInv'
<1>1. Disjoint'
  BY DEF SerialInv, Disjoint
<1>2. ASSUME NEW v \in Worker \ {w}
      PROVE  SerialWorker(v)'
  <2>1. SerialWorker(v)
    BY DEF SerialInv
  <2>2. OwnRange(v)' = OwnRange(v)
    BY DEF OwnRange
  <2>3. Quiet(v)' = Quiet(v)
    BY DEF Quiet
  <2>4. OneEach(v)' = OneEach(v)
    BY SMTT(30) DEF OneEach
  <2> QED
    BY <2>1, <2>2, <2>3, <2>4 DEF SerialWorker
<1> QED
  BY <1>1, <1>2 DEF SerialInv

\* A step that opens no sequence, and whose worker goes on.
LEMMA OpenFrame ==
  ASSUME OpenOwned, NEW w \in Worker, UNCHANGED <<execute, offset>>,
         \A v \in Worker \ {w} : pc'[v] = pc[v] /\ nctx'[v] = nctx[v],
         \A s \in Index : rem'[s] \in {0, rem[s]},
         \/ pc[w] \in NotOpen
         \/ pc'[w] \notin NotOpen /\ nctx'[w] = nctx[w]
  PROVE  OpenOwned'
<1> SUFFICES ASSUME NEW s \in Index, rem'[s] # 0
             PROVE  /\ execute
                    /\ \E v \in Worker :
                          /\ pc'[v] \notin NotOpen
                          /\ \E c \in CtxId :
                                c < nctx'[v] /\ s = offset[v] + c
  BY DEF OpenOwned, NotOpen
<1>1. rem[s] # 0
  OBVIOUS
<1>2. execute
  BY <1>1 DEF OpenOwned
<1>3. PICK v \in Worker : /\ pc[v] \notin NotOpen
                          /\ \E c \in CtxId : c < nctx[v] /\ s = offset[v] + c
  BY <1>1 DEF OpenOwned, NotOpen
<1>4. pc'[v] \notin NotOpen /\ nctx'[v] = nctx[v]
  BY <1>3
<1> QED
  BY <1>2, <1>3, <1>4

\* The main thread's steps that leave the workers and execute_ alone.
LEMMA SerialUnchanged ==
  ASSUME SerialInv,
         UNCHANGED <<threads, execute, offset, conc, pc, nctx, free, held,
                     inFlight, finalizing, rem>>
  PROVE  SerialInv'
<1>1. Disjoint' /\ OpenOwned'
  BY DEF SerialInv, Disjoint, OpenOwned
<1>2. \A v \in Worker : SerialWorker(v)'
  BY DEF SerialInv, SerialWorker, OwnRange, Quiet, OneEach
<1> QED
  BY <1>1, <1>2 DEF SerialInv

\* The wake-up of the sleepers.
LEMMA SerialWakeAll ==
  ASSUME SerialInv, RateBase, WakeAll,
         UNCHANGED <<threads, execute, offset, conc, nctx, free, held,
                     inFlight, finalizing, rem>>
  PROVE  SerialInv'
<1>1. \A w \in Worker : \/ pc'[w] = pc[w]
                        \/ pc[w] = "offsleep" /\ pc'[w] = "offcheck"
  BY DEF RateBase, RateWorkerControl, WakeAll
<1>2. Disjoint'
  BY DEF SerialInv, Disjoint
<1>3. OpenOwned'
  BY <1>1 DEF SerialInv, OpenOwned, FreshPc
<1>4. ASSUME NEW w \in Worker
      PROVE  SerialWorker(w)'
  <2>1. SerialWorker(w)
    BY DEF SerialInv
  <2>2. OwnRange(w)' = OwnRange(w) /\ Quiet(w)' = Quiet(w)
    BY DEF OwnRange, Quiet
  <2>3. OneEach(w)' = OneEach(w)
    <3>1. pc'[w] = "held" <=> pc[w] = "held"
      BY <1>1
    <3> QED
      BY <3>1 DEF OneEach
  <2>4. /\ pc'[w] \in FreshPc => pc[w] \in FreshPc
        /\ pc[w] \in {"exitwait", "done"} => pc'[w] \in {"exitwait", "done"}
    BY <1>1 DEF FreshPc
  <2> QED
    BY <2>1, <2>2, <2>3, <2>4 DEF SerialWorker
<1> QED
  BY <1>2, <1>3, <1>4 DEF SerialInv

\* While execute_ is unset nothing is out, and no sequence is open.
LEMMA SerialOff ==
  ASSUME SerialInv, ~execute
  PROVE  /\ \A w \in Worker : Quiet(w)
         /\ \A s \in Index : rem[s] = 0
BY DEF SerialInv, SerialWorker, OpenOwned

\* The one rate is begun before execute_ is ever set.
LEMMA SerialBeginRate ==
  ASSUME SerialInv, RateBase, Rates = 1, BeginRate
  PROVE  SerialInv'
<1>1. level = 0
  BY DEF RateBase, RateTypeOK, BeginRate
<1>2. ~execute /\ ~execute'
  BY <1>1 DEF RateBase, RateManagerControl, BeginRate
<1>3. execute \in BOOLEAN
  BY DEF RateBase, RateTypeOK
<1>4. execute' = execute
  BY <1>2, <1>3 DEF BeginRate
<1> QED
  BY <1>4, SerialUnchanged DEF BeginRate, workerVars, cfgVars, idVars,
     reqVars, ctxVars

\* execute_ is set.
LEMMA SerialResume ==
  ASSUME SerialInv, ResumeWorkers, RateBase
  PROVE  SerialInv'
<1>1. /\ ~execute /\ execute'
      /\ UNCHANGED <<threads, offset, conc, pc, nctx, free, held, inFlight,
                     finalizing, rem>>
  BY DEF RateBase, RateManagerControl, ResumeWorkers, askVars, workerVars,
     cfgVars, idVars, reqVars, ctxVars
<1>2. Disjoint' /\ OpenOwned'
  BY <1>1, SerialOff DEF SerialInv, Disjoint, OpenOwned
<1>3. \A v \in Worker : SerialWorker(v)'
  BY <1>1 DEF SerialInv, SerialWorker, OwnRange, Quiet, OneEach
<1> QED
  BY <1>2, <1>3 DEF SerialInv

\* The clean-up after the warm-up leaves nothing open: every worker has closed
\* its sequences on its way out.
LEMMA SerialEndWarmup ==
  ASSUME SerialInv, EndWarmup, RateBase
  PROVE  SerialInv'
<1>1. \A s \in Index : rem'[s] = 0
  <2> SUFFICES ASSUME NEW s \in Index, rem[s] # 0
               PROVE  FALSE
    BY DEF EndWarmup, WaitForWarmupAndCleanup
  <2>1. PICK w \in Worker : pc[w] \notin FreshPc \cup {"exitwait", "done"}
    BY DEF SerialInv, OpenOwned
  <2>2. /\ w >= threads => pc[w] = "none"
        /\ pc[w] # "left"
    BY DEF RateBase, RateWorkerControl
  <2>3. w < threads => pc[w] \in {"done", "left"}
    BY DEF EndWarmup, WaitForWarmupAndCleanup, Launched, Finished
  <2>4. w \in Nat /\ threads \in Nat
    BY ThreadsType DEF Worker, RateBase, RateTypeOK
  <2> QED
    BY <2>1, <2>2, <2>3, <2>4 DEF FreshPc
<1>2. /\ threads' = 0
      /\ \A w \in Worker :
            /\ pc'[w] = "none" /\ conc'[w] = 0 /\ nctx'[w] = 0
            /\ free'[w] = <<>> /\ held'[w] = None
            /\ \A c \in CtxId : inFlight'[w][c] = 0 /\ finalizing'[w][c] = 0
  BY DEF EndWarmup, WaitForWarmupAndCleanup, Each, EachCtx
<1>3. Disjoint' /\ OpenOwned'
  BY <1>1, <1>2 DEF Disjoint, OpenOwned, Worker
<1>4. \A w \in Worker : (OwnRange(w) /\ Quiet(w) /\ OneEach(w))'
  BY <1>2 DEF OwnRange, Quiet, OneEach, CtxId
<1> QED
  BY <1>3, <1>4 DEF SerialInv, SerialWorker

\* The launched threads get ranges that do not overlap.
LEMMA SerialConfigure ==
  ASSUME SerialInv, ConfigureThreads, RateBase
  PROVE  SerialInv'
<1>1. UNCHANGED <<execute, nctx, free, held, inFlight, finalizing, rem>>
  BY DEF ConfigureThreads, idVars, reqVars, ctxVars
<1>2. RateTypeOK /\ LoadTypes
  BY DEF RateBase, LoadInv
<1>3. CASE threads # 0
  BY <1>1, <1>2, <1>3, ConfigureThreadsEffect, SerialUnchanged DEF cfgVars
<1>4. CASE threads = 0
  <2>1. /\ threads' \in Nat \ {0}
        /\ \A w \in Worker :
              IF w < threads'
              THEN /\ pc'[w] = "start"
                   /\ conc'[w] = Share(MaxContexts, threads', w)
                   /\ offset'[w] = SeqStatIndexOffset(MaxContexts, threads', w)
              ELSE /\ pc'[w] = pc[w] /\ conc'[w] = conc[w]
    BY <1>2, <1>4, ConfigureThreadsEffect, ThreadsType
  <2>2. \A w \in Worker : pc[w] = "none" /\ conc[w] = 0
    BY <1>4 DEF RateBase, RateWorkerControl, Worker
  <2>3. \A s \in Index : rem[s] = 0
    <3>1. "none" \in FreshPc
      BY DEF FreshPc
    <3> QED
      BY <2>2, <3>1 DEF SerialInv, OpenOwned
  <2>4. Disjoint'
    <3> SUFFICES ASSUME NEW v \in Worker, NEW w \in Worker,
                        v < w, w < threads'
                 PROVE  offset'[v] + conc'[v] <= offset'[w]
      BY DEF Disjoint
    <3>1. v \in Nat /\ w \in Nat /\ v < threads' /\ MaxContexts \in Nat
      BY <2>1, SizesAssumption DEF Worker
    <3>2. SeqStatIndexOffset(MaxContexts, threads', v)
              + Share(MaxContexts, threads', v)
            <= SeqStatIndexOffset(MaxContexts, threads', w)
      <4> DEFINE n == threads'
      <4>1. n \in Nat \ {0}
        BY <2>1
      <4> HIDE DEF n
      <4>2. SeqStatIndexOffset(MaxContexts, n, v) + Share(MaxContexts, n, v)
              <= SeqStatIndexOffset(MaxContexts, n, w)
        BY <3>1, <4>1, SharesDisjoint
      <4> QED
        BY <4>2 DEF n
    <3> QED
      BY <2>1, <3>1, <3>2
  <2>5. OpenOwned'
    BY <1>1, <2>3 DEF OpenOwned
  <2>6. ASSUME NEW w \in Worker
        PROVE  SerialWorker(w)'
    <3>1. pc[w] \in FreshPc /\ pc[w] # "held" /\ pc'[w] # "held"
      BY <2>1, <2>2 DEF FreshPc
    <3>2. OwnRange(w) /\ Quiet(w) /\ OneEach(w)
      BY <2>2, <3>1 DEF SerialInv, SerialWorker
    <3>3. nctx[w] = 0
      BY <2>2, <3>2 DEF OwnRange
    <3>4. OwnRange(w)'
      BY <1>1, <3>2, <3>3 DEF OwnRange
    <3>5. Quiet(w)' /\ OneEach(w)'
      BY <1>1, <3>1, <3>2 DEF Quiet, OneEach
    <3> QED
      BY <3>4, <3>5 DEF SerialWorker
  <2> QED
    BY <2>4, <2>5, <2>6 DEF SerialInv
<1> QED
  BY <1>3, <1>4

\* A worker that owns no open sequence, or a run that is paused, has none to
\* close.
LEMMA NothingToClose ==
  ASSUME SerialInv, RateBase, NEW w \in Worker,
         pc[w] \in NotOpen \/ ~execute
  PROVE  OpenCtxs(w) = {}
<1> SUFFICES ASSUME NEW c \in OpenCtxs(w)
             PROVE  FALSE
  OBVIOUS
<1>1. /\ c \in CtxId /\ c < nctx[w] /\ offset[w] + c \in Index
      /\ rem[offset[w] + c] # 0
  BY DEF OpenCtxs
<1>2. PICK v \in Worker :
         /\ pc[v] \notin NotOpen
         /\ \E d \in CtxId : d < nctx[v] /\ offset[w] + c = offset[v] + d
  BY <1>1 DEF SerialInv, OpenOwned, NotOpen
<1>3. PICK d \in CtxId : d < nctx[v] /\ offset[w] + c = offset[v] + d
  BY <1>2
<1>4. v # w
  <2>1. execute
    BY <1>1 DEF SerialInv, OpenOwned
  <2> QED
    BY <1>2, <2>1
<1>5. /\ nctx[v] \in {0, conc[v]} /\ nctx[w] \in {0, conc[w]}
  BY DEF SerialInv, SerialWorker, OwnRange
<1>6. /\ conc \in [Worker -> 0 .. MaxContexts] /\ offset \in [Worker -> Nat]
      /\ threads \in Nat /\ MaxContexts \in Nat
  <2>1. threads \in {0, DetermineNumThreads} /\ LoadTypes
    BY DEF RateBase, LoadInv, RateTypeOK
  <2> QED
    BY <2>1, LoadTypesParts, ThreadsType, SizesAssumption, SMTT(30)
<1>7. /\ conc[w] # 0 /\ conc[v] # 0 /\ c < conc[w] /\ d < conc[v]
      /\ c \in Nat /\ d \in Nat
  BY <1>1, <1>3, <1>5, <1>6 DEF CtxId
<1>8. w < threads /\ v < threads /\ v \in Nat /\ w \in Nat
  <2>1. ~(w >= threads) /\ ~(v >= threads)
    BY <1>7 DEF RateBase, RateWorkerControl
  <2>2. v \in Nat /\ w \in Nat
    BY DEF Worker
  <2> QED
    BY <1>6, <2>1, <2>2
<1>9. \/ offset[v] + conc[v] <= offset[w]
      \/ offset[w] + conc[w] <= offset[v]
  BY <1>4, <1>8 DEF SerialInv, Disjoint
<1>10. /\ offset[v] \in Nat /\ offset[w] \in Nat
       /\ conc[v] \in Nat /\ conc[w] \in Nat
  BY <1>6
<1> QED
  BY <1>3, <1>7, <1>9, <1>10

\* What the ids of a fresh tracker are.
LEMMA FreshIdsFifo ==
  ASSUME Tracker = "Fifo", NEW n \in Nat
  PROVE  /\ Len(FreshIds(n)) = n
         /\ \A i \in 1 .. n : FreshIds(n)[i] = i - 1
<1>1. FreshIds(n) = [i \in 1 .. n |-> i - 1]
  BY DEF FreshIds
<1> QED
  BY <1>1

\* A tracker that was refilled while nothing is out.
LEMMA RefillEach ==
  ASSUME Tracker = "Fifo", NEW w \in Worker, nctx'[w] \in Nat,
         pc'[w] # "held", Quiet(w)',
         inFlight' \in [Worker -> [CtxId -> Nat]],
         finalizing' \in [Worker -> [CtxId -> {0, 1}]],
         nctx'[w] <= MaxContexts, free'[w] = FreshIds(nctx'[w])
  PROVE  /\ OneEach(w)'
         /\ \A i \in 1 .. Len(free'[w]) : free'[w][i] < nctx'[w]
<1> DEFINE n == nctx'[w]
<1>1. /\ Len(free'[w]) = n
      /\ \A i \in 1 .. n : free'[w][i] = i - 1 /\ i - 1 \in CtxId
  BY FreshIdsFifo, SizesAssumption DEF CtxId
<1>2. \A c \in CtxId : inFlight'[w][c] = 0 /\ finalizing'[w][c] = 0
  BY DEF Quiet
<1> QED
  BY <1>1, <1>2 DEF OneEach

\* The first and the rest of a queue of ids, and a queue with one more.
LEMMA TakeId ==
  ASSUME NEW f \in Seq(CtxId), f # <<>>
  PROVE  /\ Head(f) = f[1] /\ Len(f) \in Nat \ {0}
         /\ Len(Tail(f)) = Len(f) - 1
         /\ \A i \in 1 .. Len(f) - 1 : Tail(f)[i] = f[i + 1]
BY HeadTailProperties, EmptySeq, LenProperties

LEMMA PutId ==
  ASSUME NEW f \in Seq(CtxId), NEW c \in CtxId
  PROVE  /\ Len(f) \in Nat /\ Len(Append(f, c)) = Len(f) + 1
         /\ \A i \in 1 .. Len(f) : Append(f, c)[i] = f[i] /\ f[i] \in CtxId
         /\ Append(f, c)[Len(f) + 1] = c
BY AppendProperties, LenProperties, ElementOfSeq

\* An id that is given back is a context's.
LEMMA PutRange ==
  ASSUME NEW w \in Worker, NEW c \in CtxId, OwnRange(w),
         free[w] \in Seq(CtxId), free'[w] = Append(free[w], c),
         nctx'[w] = nctx[w], c < nctx[w]
  PROVE  \A i \in 1 .. Len(free'[w]) : free'[w][i] < nctx'[w]
<1>1. /\ Len(free[w]) \in Nat /\ Len(free'[w]) = Len(free[w]) + 1
      /\ \A i \in 1 .. Len(free[w]) : free'[w][i] = free[w][i]
      /\ free'[w][Len(free[w]) + 1] = c
  BY PutId
<1>2. \A i \in 1 .. Len(free'[w]) :
         \/ i \in 1 .. Len(free[w]) /\ free'[w][i] = free[w][i]
         \/ free'[w][i] = c
  BY <1>1
<1> QED
  BY <1>2 DEF OwnRange

\* An id that is given back is that of a context with nothing out.
LEMMA PutEach ==
  ASSUME NEW w \in Worker, NEW c \in CtxId, OneEach(w),
         free[w] \in Seq(CtxId), free'[w] = Append(free[w], c),
         \A i \in 1 .. Len(free[w]) : free[w][i] # c,
         \A i \in 1 .. Len(free[w]) :
             /\ inFlight'[w][free[w][i]] = 0
             /\ finalizing'[w][free[w][i]] = 0,
         inFlight'[w][c] = 0, finalizing'[w][c] = 0,
         \A d \in CtxId : inFlight'[w][d] + finalizing'[w][d] <= 1,
         pc'[w] = "held" =>
             /\ pc[w] = "held" /\ held'[w] = held[w] /\ held[w] # c
             /\ inFlight'[w][held[w]] = 0 /\ finalizing'[w][held[w]] = 0
  PROVE  OneEach(w)'
<1>1. /\ Len(free[w]) \in Nat /\ Len(free'[w]) = Len(free[w]) + 1
      /\ \A i \in 1 .. Len(free[w]) : /\ free'[w][i] = free[w][i]
                                      /\ free[w][i] \in CtxId
      /\ free'[w][Len(free[w]) + 1] = c
  BY PutId
<1>2. \A i, j \in 1 .. Len(free'[w]) : free'[w][i] = free'[w][j] => i = j
  <2> SUFFICES ASSUME NEW i \in 1 .. Len(free'[w]),
                      NEW j \in 1 .. Len(free'[w]),
                      free'[w][i] = free'[w][j]
               PROVE  i = j
    OBVIOUS
  <2> DEFINE n == Len(free[w])
  <2>1. i \in 1 .. n \/ i = n + 1
    BY <1>1
  <2>2. j \in 1 .. n \/ j = n + 1
    BY <1>1
  <2>3. CASE i \in 1 .. n /\ j \in 1 .. n
    BY <1>1, <2>3 DEF OneEach
  <2> QED
    BY <1>1, <2>1, <2>2, <2>3
<1>3. \A i \in 1 .. Len(free'[w]) :
         \/ i \in 1 .. Len(free[w]) /\ free'[w][i] = free[w][i]
         \/ free'[w][i] = c
  BY <1>1
<1>4. \A i \in 1 .. Len(free'[w]) :
         /\ inFlight'[w][free'[w][i]] = 0 /\ finalizing'[w][free'[w][i]] = 0
         /\ pc'[w] = "held" => held'[w] # free'[w][i]
  BY <1>3 DEF OneEach
<1>5. pc'[w] = "held" => /\ inFlight'[w][held'[w]] = 0
                         /\ finalizing'[w][held'[w]] = 0
  OBVIOUS
<1> QED
  BY <1>2, <1>4, <1>5 DEF OneEach

\* A worker's own steps.
LEMMA SerialOwnStep ==
  ASSUME SerialInv, RateBase, RateBase', Tracker = "Fifo", NEW w \in Worker,
         RateOwnStep(w)
  PROVE  SerialInv'
<1>1. RateTypeOK /\ LoadInv /\ LoadTypes /\ LoadTypes'
  BY DEF RateBase, LoadInv
<1>2. /\ UNCHANGED <<mainVars, cfgVars, ctxVars, rem>>
      /\ \A v \in Worker \ {w} :
            nctx'[v] = nctx[v] /\ free'[v] = free[v] /\ held'[v] = held[v]
  BY <1>1, RateOwnTypes
<1>3. /\ <<pc[w], pc'[w]>> \in RateMoves
      /\ \A v \in Worker \ {w} : pc'[v] = pc[v]
  BY <1>1, RateMoveEffect
<1>4. UNCHANGED <<threads, execute, offset, conc, inFlight, finalizing, rem>>
  BY <1>2 DEF mainVars, askVars, cfgVars, ctxVars
<1>5. /\ nctx \in [Worker -> 0 .. MaxContexts]
      /\ nctx' \in [Worker -> 0 .. MaxContexts]
      /\ free \in [Worker -> Seq(CtxId)] /\ free' \in [Worker -> Seq(CtxId)]
      /\ held \in [Worker -> CtxId \cup {None}]
      /\ conc \in [Worker -> 0 .. MaxContexts]
      /\ pc \in [Worker -> WorkerPc]
      /\ inFlight \in [Worker -> [CtxId -> Nat]]
      /\ finalizing \in [Worker -> [CtxId -> {0, 1}]]
      /\ MaxContexts \in Nat \ {0}
  BY <1>1, SizesAssumption DEF LoadTypes, ConfigTypes, ThreadTypes, IdTypes,
     ContextTypes
<1>6. /\ SerialWorker(w) /\ OwnRange(w) /\ OpenOwned
      /\ OnSequenceModel /\ Tracker # "Rand"
  BY RateTrackerAssumption DEF SerialInv, SerialWorker
<1>7. OneEach(w)
  BY <1>3, <1>6 DEF SerialWorker, RateMoves
<1>8. Quiet(w)' = Quiet(w)
  BY <1>4 DEF Quiet
<1>9. CASE CreateContexts(w)
  <2>1. /\ pc[w] = "start" /\ pc'[w] = "top" /\ nctx'[w] = conc[w]
        /\ free'[w] = FreshIds(nctx'[w]) /\ held' = held
    BY <1>5, <1>6, <1>9 DEF CreateContexts, ActiveContexts, ResetFreeCtxIds,
       ResetTracker, Goto
  <2>2. Quiet(w)
    BY <1>6, <2>1 DEF SerialWorker, FreshPc
  <2>3. /\ OneEach(w)'
        /\ \A i \in 1 .. Len(free'[w]) : free'[w][i] < nctx'[w]
    <3>1. nctx'[w] \in Nat /\ nctx'[w] <= MaxContexts
      BY <1>5
    <3>2. /\ inFlight' \in [Worker -> [CtxId -> Nat]]
          /\ finalizing' \in [Worker -> [CtxId -> {0, 1}]]
      BY <1>4, <1>5
    <3>3. Quiet(w)' /\ pc'[w] # "held"
      BY <1>8, <2>1, <2>2
    <3> QED
      BY <2>1, <3>1, <3>2, <3>3, RefillEach
  <2>4. held[w] = None
    BY <1>1, <1>5, <2>1 DEF LoadInv, Holding
  <2>5. OwnRange(w)'
    BY <1>4, <2>1, <2>2, <2>3, <2>4 DEF OwnRange, Quiet
  <2>6. SerialWorker(w)'
    BY <1>8, <2>2, <2>3, <2>5 DEF SerialWorker
  <2>7. OpenOwned'
    BY <1>2, <1>3, <1>4, <1>6, <2>1, OpenFrame DEF NotOpen, FreshPc
  <2> QED
    BY <1>2, <1>3, <1>4, <2>6, <2>7, SerialFrame
<1>10. CASE DeclarePaused(w)
  <2>1. /\ pc[w] = "offwait" /\ pc'[w] = "offcheck" /\ nctx' = nctx
        /\ free'[w] = FreshIds(nctx'[w]) /\ held' = held
    BY <1>5, <1>10 DEF DeclarePaused, ResetFreeCtxIds, ResetTracker, Goto
  <2>2. Quiet(w)
    BY <1>6, <2>1 DEF SerialWorker, FreshPc
  <2>3. /\ OneEach(w)'
        /\ \A i \in 1 .. Len(free'[w]) : free'[w][i] < nctx'[w]
    <3>1. nctx'[w] \in Nat /\ nctx'[w] <= MaxContexts
      BY <1>5
    <3>2. /\ inFlight' \in [Worker -> [CtxId -> Nat]]
          /\ finalizing' \in [Worker -> [CtxId -> {0, 1}]]
      BY <1>4, <1>5
    <3>3. Quiet(w)' /\ pc'[w] # "held"
      BY <1>8, <2>1, <2>2
    <3> QED
      BY <2>1, <3>1, <3>2, <3>3, RefillEach
  <2>4. OwnRange(w)'
    BY <1>4, <1>6, <2>1, <2>2, <2>3 DEF OwnRange, Quiet
  <2>5. SerialWorker(w)'
    BY <1>8, <2>2, <2>3, <2>4 DEF SerialWorker
  <2>6. OpenOwned'
    BY <1>2, <1>3, <1>4, <1>6, <2>1, OpenFrame DEF NotOpen, FreshPc
  <2> QED
    BY <1>2, <1>3, <1>4, <2>5, <2>6, SerialFrame
<1>11. CASE GetCtxId(w) /\ free[w] # <<>>
  <2>1. /\ pc[w] = "take" /\ pc'[w] = "held" /\ nctx' = nctx
        /\ free'[w] = Tail(free[w]) /\ held'[w] = Head(free[w])
    BY <1>5, <1>6, <1>11 DEF GetCtxId, Goto
  <2> DEFINE f == free[w]
             n == Len(free[w])
  <2>2. /\ held'[w] = f[1] /\ n \in Nat \ {0} /\ Len(free'[w]) = n - 1
        /\ \A i \in 1 .. n - 1 : free'[w][i] = f[i + 1]
        /\ f \in Seq(CtxId)
    BY <1>5, <1>11, <2>1, TakeId
  <2>3. /\ \A i, j \in 1 .. n : f[i] = f[j] => i = j
        /\ \A i \in 1 .. n : /\ inFlight[w][f[i]] = 0
                             /\ finalizing[w][f[i]] = 0
                             /\ f[i] < nctx[w]
        /\ \A c \in CtxId : inFlight[w][c] + finalizing[w][c] <= 1
    BY <1>6, <1>7 DEF OneEach, OwnRange
  <2> HIDE DEF f, n
  <2>4. \A i \in 1 .. n - 1 : i \in 1 .. n /\ i + 1 \in 1 .. n /\ i + 1 # 1
    BY <2>2
  <2>5. 1 \in 1 .. n
    BY <2>2
  <2>6. \A i, j \in 1 .. n - 1 : free'[w][i] = free'[w][j] => i = j
    <3> SUFFICES ASSUME NEW i \in 1 .. n - 1, NEW j \in 1 .. n - 1,
                        free'[w][i] = free'[w][j]
                 PROVE  i = j
      OBVIOUS
    <3>1. f[i + 1] = f[j + 1]
      BY <2>2
    <3>2. i + 1 = j + 1
      BY <2>3, <2>4, <3>1
    <3> QED
      BY <2>2, <3>2
  <2>7. \A i \in 1 .. n - 1 :
           /\ inFlight[w][free'[w][i]] = 0 /\ finalizing[w][free'[w][i]] = 0
           /\ free'[w][i] < nctx[w] /\ held'[w] # free'[w][i]
    <3> SUFFICES ASSUME NEW i \in 1 .. n - 1
                 PROVE  /\ inFlight[w][free'[w][i]] = 0
                        /\ finalizing[w][free'[w][i]] = 0
                        /\ free'[w][i] < nctx[w] /\ held'[w] # free'[w][i]
      OBVIOUS
    <3>1. /\ free'[w][i] = f[i + 1] /\ i + 1 \in 1 .. n /\ i + 1 # 1
          /\ held'[w] = f[1]
      BY <2>2, <2>4
    <3>2. f[i + 1] # f[1]
      BY <2>3, <2>5, <3>1
    <3> QED
      BY <2>3, <3>1, <3>2
  <2>8. OneEach(w)'
    BY <1>4, <2>2, <2>3, <2>5, <2>6, <2>7 DEF OneEach
  <2>9. OwnRange(w)'
    BY <1>4, <1>6, <2>1, <2>2, <2>3, <2>5, <2>7 DEF OwnRange
  <2>10. SerialWorker(w)'
    BY <1>4, <1>6, <1>8, <2>1, <2>8, <2>9 DEF SerialWorker, FreshPc
  <2>11. OpenOwned'
    BY <1>2, <1>3, <1>4, <1>6, <2>1, OpenFrame DEF NotOpen, FreshPc
  <2> QED
    BY <1>2, <1>3, <1>4, <2>10, <2>11, SerialFrame
<1>12. CASE UNCHANGED <<nctx, free, held>> /\ pc'[w] # "held"
  <2>1. OwnRange(w)'
    BY <1>4, <1>6, <1>12 DEF OwnRange
  <2>2. OneEach(w)'
    BY <1>4, <1>7, <1>12 DEF OneEach
  <2>3. execute => (pc'[w] \in FreshPc => pc[w] \in FreshPc)
    <3> SUFFICES ASSUME execute, pc[w] = "top", pc'[w] = "off"
                 PROVE  FALSE
      BY <1>3 DEF RateMoves, FreshPc
    <3> QED
      BY <1>5 DEF RateOwnStep, CreateContexts, HandleExecuteOff,
         DeclarePaused, Unpause, LookForFreeCtx, ResetNotified,
         WaitForFreeCtx, GetNextTimestamp, GetCtxId, CheckExit, Goto
  <2>4. SerialWorker(w)'
    BY <1>4, <1>6, <1>8, <2>1, <2>2, <2>3 DEF SerialWorker
  <2>5. OpenOwned'
    <3>1. CASE ~execute
      BY <1>4, <3>1, SerialOff DEF OpenOwned
    <3>2. CASE execute
      <4>1. pc[w] \in NotOpen \/ pc'[w] \notin NotOpen
        BY <1>3, <2>3, <3>2 DEF RateMoves, NotOpen, FreshPc
      <4> QED
        BY <1>2, <1>3, <1>4, <1>6, <1>12, <4>1, OpenFrame
    <3> QED
      BY <3>1, <3>2
  <2> QED
    BY <1>2, <1>3, <1>4, <1>12, <2>4, <2>5, SerialFrame
<1>13. \/ CreateContexts(w) \/ DeclarePaused(w)
       \/ GetCtxId(w) /\ free[w] # <<>>
       \/ UNCHANGED <<nctx, free, held>> /\ pc'[w] # "held"
  <2>1. CASE GetCtxId(w) /\ free[w] = <<>>
    BY <1>5, <1>6, <2>1 DEF GetCtxId, Goto
  <2>2. CASE \/ HandleExecuteOff(w) \/ Unpause(w) \/ LookForFreeCtx(w)
             \/ ResetNotified(w) \/ WaitForFreeCtx(w) \/ GetNextTimestamp(w)
             \/ CheckExit(w)
    BY <1>5, <2>2 DEF HandleExecuteOff, Unpause, LookForFreeCtx,
       ResetNotified, WaitForFreeCtx, GetNextTimestamp, CheckExit, Goto,
       idVars
  <2> QED
    BY <2>1, <2>2 DEF RateOwnStep
<1> QED
  BY <1>9, <1>10, <1>11, <1>12, <1>13

\* The close of a worker's sequences.
LEMMA SerialComplete ==
  ASSUME SerialInv, RateBase, OnSequenceModel, NEW w \in Worker,
         CompleteForPause(w) \/ CompleteForExit(w)
  PROVE  SerialInv'
<1>1. /\ LoadTypes /\ CompleteOngoingSequences(w)
      /\ UNCHANGED <<mainVars, cfgVars, idVars, finalizing>>
  BY DEF RateBase, LoadInv, CompleteForPause, CompleteForExit
<1>2. /\ \A v \in Worker \ {w} : pc'[v] = pc[v]
      /\ \/ pc[w] = "off" /\ pc'[w] = "offwait"
         \/ pc[w] = "exiting" /\ pc'[w] = "exitwait"
  BY <1>1, LoadTypesParts DEF CompleteForPause, CompleteForExit, Goto
<1>3. UNCHANGED <<threads, execute, offset, conc, nctx, free, held,
                  finalizing>>
  BY <1>1 DEF mainVars, askVars, cfgVars, idVars
<1>4. /\ \A v \in Worker \ {w} : inFlight'[v] = inFlight[v]
      /\ OpenCtxs(w) = {} => UNCHANGED <<inFlight, rem>>
      /\ \A c \in CtxId \ OpenCtxs(w) : inFlight'[w][c] = inFlight[w][c]
      /\ \A s \in Index : rem'[s] \in {0, rem[s]}
      /\ \A c \in OpenCtxs(w) : rem'[offset[w] + c] = 0
  BY <1>1, CompleteEffect
<1>5. SerialWorker(w) /\ OwnRange(w) /\ OpenOwned /\ OneEach(w)
  BY <1>2 DEF SerialInv, SerialWorker
<1>6. pc[w] = "off" \/ ~execute => UNCHANGED <<inFlight, rem>>
  BY <1>4, NothingToClose DEF NotOpen, FreshPc
<1>7. OwnRange(w)'
  <2>1. \A c \in CtxId : c >= nctx[w] => c \notin OpenCtxs(w)
    <3>1. nctx[w] \in Nat
      BY <1>1, LoadTypesParts
    <3>2. \A c \in CtxId : ~(c >= nctx[w] /\ c < nctx[w])
      BY <3>1 DEF CtxId
    <3> QED
      BY <3>2 DEF OpenCtxs
  <2> QED
    BY <1>3, <1>4, <1>5, <2>1 DEF OwnRange
<1>8. OneEach(w)' \/ pc'[w] = "exitwait"
  BY <1>2, <1>3, <1>5, <1>6 DEF OneEach
<1>9. Quiet(w)' \/ ~(~execute \/ pc'[w] \in FreshPc)
  BY <1>2, <1>3, <1>5, <1>6 DEF SerialWorker, Quiet, FreshPc
<1>10. SerialWorker(w)'
  BY <1>3, <1>7, <1>8, <1>9 DEF SerialWorker
<1>11. OpenOwned'
  <2>1. CASE pc[w] = "off"
    BY <1>2, <1>3, <1>4, <1>5, <2>1, OpenFrame DEF NotOpen, FreshPc
  <2>2. CASE pc[w] = "exiting"
    <3> SUFFICES ASSUME NEW s \in Index, rem'[s] # 0
                 PROVE  /\ execute
                        /\ \E v \in Worker :
                              /\ pc'[v] \notin NotOpen
                              /\ \E c \in CtxId :
                                    c < nctx[v] /\ s = offset[v] + c
      BY <1>3 DEF OpenOwned, NotOpen
    <3>1. rem[s] # 0
      BY <1>4
    <3>2. PICK v \in Worker :
             /\ pc[v] \notin NotOpen
             /\ \E c \in CtxId : c < nctx[v] /\ s = offset[v] + c
      BY <1>5, <3>1 DEF OpenOwned, NotOpen
    <3>3. v # w
      <4> SUFFICES ASSUME v = w
                   PROVE  FALSE
        OBVIOUS
      <4>1. PICK c \in CtxId : c < nctx[w] /\ s = offset[w] + c
        BY <3>2
      <4>2. c \in OpenCtxs(w)
        BY <3>1, <4>1 DEF OpenCtxs
      <4> QED
        BY <1>4, <4>1, <4>2
    <3> QED
      BY <1>2, <1>5, <3>1, <3>2, <3>3 DEF OpenOwned
  <2> QED
    BY <1>2, <2>1, <2>2
<1> QED
  BY <1>2, <1>3, <1>4, <1>10, <1>11, SerialFrame

\* The wait for execute_, and the end.
LEMMA SerialMove ==
  ASSUME SerialInv, RateBase, NEW w \in Worker,
         TestExecute(w) \/ Sleep(w) \/ LeaveInfer(w)
  PROVE  SerialInv'
<1>1. LoadTypes /\ SharedWorkerStep(w)
  BY DEF RateBase, LoadInv, SharedWorkerStep
<1>2. /\ <<pc[w], pc'[w]>> \in SharedMoves
      /\ \A v \in Worker \ {w} : pc'[v] = pc[v]
  BY <1>1, SharedMoveEffect
<1>3. pc[w] \in {"offcheck", "offblock", "exitwait"}
  BY DEF RateBase, RateWorkerControl, TestExecute, Sleep, LeaveInfer
<1>4. UNCHANGED <<threads, execute, offset, conc, nctx, free, held,
                  inFlight, finalizing, rem>>
  BY DEF TestExecute, Sleep, LeaveInfer, mainVars, askVars, cfgVars, idVars,
     reqVars, ctxVars
<1>5. /\ \/ pc[w] \in FreshPc /\ pc'[w] \in FreshPc
         \/ pc[w] = "exitwait" /\ pc'[w] = "done"
      /\ pc[w] \in NotOpen /\ pc[w] # "held" /\ pc'[w] # "held"
  BY <1>2, <1>3 DEF SharedMoves, FreshPc, NotOpen
<1>6. SerialWorker(w)'
  <2>1. SerialWorker(w)
    BY DEF SerialInv
  <2>2. OwnRange(w)' = OwnRange(w) /\ Quiet(w)' = Quiet(w)
    BY <1>4 DEF OwnRange, Quiet
  <2>3. OneEach(w)' = OneEach(w)
    BY <1>4, <1>5 DEF OneEach
  <2> QED
    BY <1>4, <1>5, <2>1, <2>2, <2>3 DEF SerialWorker, FreshPc
<1>7. OpenOwned'
  BY <1>2, <1>4, <1>5, OpenFrame DEF SerialInv
<1> QED
  BY <1>2, <1>4, <1>6, <1>7, SerialFrame

\* A request is sent on the id that was taken.
LEMMA SerialSend ==
  ASSUME SerialInv, RateBase, OnSequenceModel, NEW w \in Worker,
         SendAsync(w) \/ SendSync(w)
  PROVE  SerialInv'
<1>1. /\ LoadTypes /\ pc[w] = "held" /\ execute
      /\ held[w] \in CtxId
  BY DEF RateBase, LoadInv, Holding, SendAsync, SendSync, Refused
<1>2. /\ pc'[w] \in {"sent", "infer"}
      /\ \A v \in Worker \ {w} : pc'[v] = pc[v]
  BY <1>1, LoadTypesParts DEF SendAsync, SendSync, Goto
<1>3. UNCHANGED <<threads, execute, offset, conc, nctx, free, held,
                  finalizing>>
  BY DEF SendAsync, SendSync, mainVars, askVars, cfgVars, idVars
<1>4. /\ inFlight \in [Worker -> [CtxId -> Nat]]
      /\ finalizing \in [Worker -> [CtxId -> {0, 1}]]
      /\ free[w] \in Seq(CtxId)
  BY <1>1, LoadTypesParts
<1>5. SerialWorker(w) /\ OwnRange(w) /\ OpenOwned /\ OneEach(w)
  BY <1>1 DEF SerialInv, SerialWorker
<1>6. /\ inFlight[w][held[w]] = 0 /\ finalizing[w][held[w]] = 0
      /\ held[w] < nctx[w]
  BY <1>1, <1>5, NoneIsNoId DEF OneEach, OwnRange
<1>7. /\ \A v \in Worker \ {w} : inFlight'[v] = inFlight[v]
      /\ \A c \in CtxId \ {held[w]} : inFlight'[w][c] = inFlight[w][c]
      /\ inFlight'[w][held[w]] \in {0, 1}
  <2>1. \/ inFlight' = inFlight
        \/ inFlight' = [inFlight EXCEPT ![w][held[w]] =
                          inFlight[w][held[w]] + 1]
    BY DEF SendAsync, SendSync
  <2> QED
    BY <1>1, <1>4, <1>6, <2>1
<1>8. OwnRange(w)'
  <2>1. \A c \in CtxId : c >= nctx[w] => c # held[w]
    <3>1. held[w] \in Int /\ nctx[w] \in Int
      BY <1>1, LoadTypesParts DEF CtxId
    <3> QED
      BY <1>6, <3>1 DEF CtxId
  <2> QED
    BY <1>3, <1>5, <1>7, <2>1 DEF OwnRange
<1>9. OneEach(w)'
  <2>1. \A i \in 1 .. Len(free[w]) :
           free[w][i] \in CtxId /\ free[w][i] # held[w]
    BY <1>1, <1>4, <1>5, ElementOfSeq DEF OneEach
  <2>2. \A c \in CtxId : inFlight'[w][c] + finalizing[w][c] <= 1
    <3> TAKE c \in CtxId
    <3>1. CASE c = held[w]
      BY <1>6, <1>7, <3>1
    <3>2. CASE c # held[w]
      BY <1>5, <1>7, <3>2 DEF OneEach
    <3> QED
      BY <3>1, <3>2
  <2>3. \A i \in 1 .. Len(free[w]) :
           inFlight'[w][free[w][i]] = 0 /\ finalizing[w][free[w][i]] = 0
    BY <1>5, <1>7, <2>1 DEF OneEach
  <2>4. \A i, j \in 1 .. Len(free[w]) : free[w][i] = free[w][j] => i = j
    BY <1>5 DEF OneEach
  <2> QED
    BY <1>2, <1>3, <2>2, <2>3, <2>4 DEF OneEach
<1>10. SerialWorker(w)'
  BY <1>1, <1>2, <1>3, <1>8, <1>9 DEF SerialWorker, FreshPc
<1>11. OpenOwned'
  <2> SUFFICES ASSUME NEW s \in Index, rem'[s] # 0
               PROVE  /\ execute
                      /\ \E v \in Worker :
                            /\ pc'[v] \notin NotOpen
                            /\ \E c \in CtxId :
                                  c < nctx[v] /\ s = offset[v] + c
    BY <1>3 DEF OpenOwned, NotOpen
  <2>1. pc'[w] \notin NotOpen /\ pc[w] \notin NotOpen
    BY <1>1, <1>2 DEF NotOpen, FreshPc
  <2>2. CASE s = offset[w] + held[w]
    BY <1>1, <1>6, <2>1, <2>2
  <2>3. CASE s # offset[w] + held[w]
    <3>1. rem[s] # 0
      BY <1>1, <2>3, AdvanceSequenceEffect DEF SendAsync, SendSync
    <3>2. PICK v \in Worker :
             /\ pc[v] \notin NotOpen
             /\ \E c \in CtxId : c < nctx[v] /\ s = offset[v] + c
      BY <1>5, <3>1 DEF OpenOwned, NotOpen
    <3>3. pc'[v] \notin NotOpen
      BY <1>2, <2>1, <3>2
    <3> QED
      BY <1>1, <3>2, <3>3
  <2> QED
    BY <2>2, <2>3
<1> QED
  BY <1>2, <1>3, <1>7, <1>10, <1>11, SerialFrame

\* A worker that has its request behind it goes back to its loop.
LEMMA SerialBack ==
  ASSUME SerialInv, RateBase, NEW w \in Worker,
         SkipSend(w) \/ CountOngoing(w) \/ InferReturns(w)
  PROVE  SerialInv'
<1>1. /\ LoadInv /\ LoadTypes /\ held[w] \in CtxId
      /\ pc[w] \in {"held", "sent", "infer"}
      /\ Async \in BOOLEAN
  BY ModesAssumption DEF RateBase, LoadInv, Holding, SkipSend, CountOngoing,
     InferReturns
<1>2. /\ pc'[w] = "send" /\ \A v \in Worker \ {w} : pc'[v] = pc[v]
      /\ held'[w] = None /\ \A v \in Worker \ {w} : held'[v] = held[v]
  BY <1>1, LoadTypesParts DEF SkipSend, CountOngoing, InferReturns, Goto
<1>3. UNCHANGED <<threads, execute, offset, conc, nctx, finalizing, rem>>
  BY DEF SkipSend, CountOngoing, InferReturns, mainVars, askVars, cfgVars,
     idVars, reqVars, ctxVars
<1>4. /\ inFlight \in [Worker -> [CtxId -> Nat]]
      /\ finalizing \in [Worker -> [CtxId -> {0, 1}]]
      /\ free \in [Worker -> Seq(CtxId)] /\ free[w] \in Seq(CtxId)
      /\ nctx[w] \in Nat
  BY <1>1, LoadTypesParts
<1>5. SerialWorker(w) /\ OwnRange(w) /\ OpenOwned /\ OneEach(w)
  BY <1>1 DEF SerialInv, SerialWorker
<1>6. held[w] < nctx[w]
  BY <1>1, <1>5, NoneIsNoId DEF OwnRange
<1>7. /\ \A v \in Worker \ {w} : inFlight'[v] = inFlight[v]
      /\ \A c \in CtxId \ {held[w]} : inFlight'[w][c] = inFlight[w][c]
      /\ inFlight'[w][held[w]] \in Nat
      /\ inFlight'[w][held[w]] <= inFlight[w][held[w]]
      /\ ~Async => /\ inFlight'[w][held[w]] = 0
                   /\ finalizing[w][held[w]] = 0
  <2>1. CASE SkipSend(w) \/ CountOngoing(w)
    <3>1. inFlight' = inFlight
      BY <2>1 DEF SkipSend, CountOngoing, reqVars, ctxVars
    <3>2. ~Async => pc[w] = "held"
      BY <1>1, <2>1 DEF SkipSend, CountOngoing, LoadInv, Holding
    <3> QED
      BY <1>1, <1>4, <1>5, <3>1, <3>2 DEF OneEach
  <2>2. CASE InferReturns(w)
    <3>1. pc[w] = "infer" /\ ~Async
      BY <1>1, <2>2 DEF InferReturns, LoadInv, Holding
    <3>2. inFlight[w][held[w]] = 1 /\ finalizing[w][held[w]] = 0
      BY <1>1, <3>1 DEF LoadInv, SyncFlights
    <3> QED
      BY <1>1, <1>4, <2>2, <3>2 DEF InferReturns
  <2> QED
    BY <2>1, <2>2
<1>8. \A c \in CtxId :
         /\ inFlight'[w][c] + finalizing'[w][c] <= 1
         /\ c >= nctx[w] => inFlight'[w][c] = 0
         /\ inFlight[w][c] = 0 => inFlight'[w][c] = 0
  <2> TAKE c \in CtxId
  <2>1. /\ inFlight[w][c] + finalizing[w][c] <= 1
        /\ c >= nctx[w] => inFlight[w][c] = 0
    BY <1>5 DEF OneEach, OwnRange
  <2>2. inFlight[w][c] \in Nat /\ finalizing[w][c] \in {0, 1}
        /\ finalizing'[w][c] = finalizing[w][c]
    BY <1>3, <1>4
  <2>3. CASE c = held[w]
    BY <1>7, <2>1, <2>2, <2>3
  <2>4. CASE c # held[w]
    BY <1>7, <2>1, <2>2, <2>4
  <2> QED
    BY <2>3, <2>4
<1>9. \A i \in 1 .. Len(free[w]) :
         /\ free[w][i] \in CtxId
         /\ inFlight'[w][free[w][i]] = 0
         /\ finalizing'[w][free[w][i]] = 0
  <2> TAKE i \in 1 .. Len(free[w])
  <2>1. free[w][i] \in CtxId
    BY <1>4, ElementOfSeq
  <2>2. inFlight[w][free[w][i]] = 0 /\ finalizing[w][free[w][i]] = 0
    BY <1>5 DEF OneEach
  <2> QED
    BY <1>3, <1>8, <2>1, <2>2
<1>10. /\ OneEach(w)'
       /\ \A i \in 1 .. Len(free'[w]) : free'[w][i] < nctx'[w]
  <2>1. RestoreFreeCtxId(w)
    BY DEF SkipSend, CountOngoing, InferReturns
  <2>2. CASE Async
    <3>1. free' = free
      BY <2>1, <2>2 DEF RestoreFreeCtxId
    <3> QED
      BY <1>2, <1>3, <1>5, <1>8, <1>9, <3>1 DEF OneEach, OwnRange
  <2>3. CASE ~Async
    <3>1. \/ free' = free
          \/ free'[w] = Append(free[w], held[w])
      BY <1>4, <2>1, <2>3 DEF RestoreFreeCtxId, Restore
    <3>2. CASE free' = free
      BY <1>2, <1>3, <1>5, <1>8, <1>9, <3>2 DEF OneEach, OwnRange
    <3>3. CASE free'[w] = Append(free[w], held[w])
      <4>1. \A i \in 1 .. Len(free[w]) : free[w][i] # held[w]
        <5>1. CASE pc[w] = "held"
          BY <1>5, <5>1 DEF OneEach
        <5>2. CASE pc[w] = "infer"
          <6>1. inFlight[w][held[w]] = 1
            BY <1>1, <2>3, <5>2 DEF LoadInv, SyncFlights
          <6> QED
            BY <1>5, <6>1 DEF OneEach
        <5> QED
          BY <1>1, <2>3, <5>1, <5>2 DEF LoadInv, Holding
      <4>2. pc'[w] # "held" /\ inFlight'[w][held[w]] = 0
            /\ finalizing'[w][held[w]] = 0
        BY <1>2, <1>3, <1>7, <2>3
      <4>3. OneEach(w)'
        BY <1>1, <1>4, <1>5, <1>8, <1>9, <3>3, <4>1, <4>2, PutEach
      <4>4. \A i \in 1 .. Len(free'[w]) : free'[w][i] < nctx'[w]
        BY <1>1, <1>3, <1>4, <1>5, <1>6, <3>3, PutRange
      <4> QED
        BY <4>3, <4>4
    <3> QED
      BY <3>1, <3>2, <3>3
  <2> QED
    BY <2>2, <2>3
<1>11. OwnRange(w)'
  BY <1>2, <1>3, <1>5, <1>8, <1>10 DEF OwnRange
<1>12. Quiet(w) => Quiet(w)'
  BY <1>3, <1>8 DEF Quiet
<1>13. SerialWorker(w)'
  BY <1>2, <1>3, <1>5, <1>10, <1>11, <1>12 DEF SerialWorker, FreshPc
<1>14. OpenOwned'
  BY <1>2, <1>3, <1>5, OpenFrame DEF NotOpen, FreshPc
<1>15. \A v \in Worker \ {w} : free'[v] = free[v]
  BY <1>1, SharedFrame DEF SharedWorkerStep
<1> QED
  BY <1>2, <1>3, <1>7, <1>13, <1>14, <1>15, SerialFrame

LEMMA SerialSharedStep ==
  ASSUME SerialInv, RateBase, OnSequenceModel, NEW w \in Worker,
         SharedWorkerStep(w)
  PROVE  SerialInv'
BY SerialComplete, SerialMove, SerialSend, SerialBack DEF SharedWorkerStep

\* A response, and the return of the id.
LEMMA SerialCallback ==
  ASSUME SerialInv, RateBase, NEW w \in Worker, NEW c \in CtxId,
         Callback(w, c)
  PROVE  SerialInv'
<1>1. /\ inFlight \in [Worker -> [CtxId -> Nat]]
      /\ finalizing \in [Worker -> [CtxId -> {0, 1}]]
      /\ free \in [Worker -> Seq(CtxId)] /\ nctx[w] \in Nat
  BY LoadTypesParts DEF RateBase, LoadInv
<1>2. UNCHANGED <<threads, execute, offset, conc, pc, nctx, held, rem>>
  BY DEF Callback, AsyncCallback, AsyncCallbackGivesUp,
     AsyncCallbackFinalize, mainVars, askVars, cfgVars, idVars
<1>3. SerialWorker(w) /\ OwnRange(w) /\ OpenOwned
  BY DEF SerialInv, SerialWorker
<1>4. OpenOwned'
  BY <1>2, <1>3 DEF OpenOwned
<1>5. inFlight[w][c] # 0 \/ finalizing[w][c] # 0
  BY <1>1 DEF Callback, AsyncCallback, AsyncCallbackGivesUp,
     AsyncCallbackFinalize
<1>6. execute /\ pc[w] \notin FreshPc /\ c < nctx[w]
  <2>1. ~(c >= nctx[w])
    BY <1>3, <1>5 DEF OwnRange
  <2> QED
    BY <1>1, <1>3, <1>5, <2>1 DEF SerialWorker, Quiet, CtxId
<1>7. CASE AsyncCallback(w, c) \/ AsyncCallbackGivesUp(w, c)
  <2>1. /\ free' = free
        /\ \A v \in Worker \ {w} : /\ inFlight'[v] = inFlight[v]
                                    /\ finalizing'[v] = finalizing[v]
        /\ \A d \in CtxId \ {c} : /\ inFlight'[w][d] = inFlight[w][d]
                                   /\ finalizing'[w][d] = finalizing[w][d]
        /\ inFlight'[w][c] = inFlight[w][c] - 1
        /\ finalizing'[w][c] \in {0, 1}
        /\ inFlight[w][c] > 0 /\ finalizing[w][c] = 0
    BY <1>1, <1>7 DEF AsyncCallback, AsyncCallbackGivesUp, idVars
  <2>2. OwnRange(w)'
    <3>1. ~(c >= nctx[w])
      BY <1>1, <1>6 DEF CtxId
    <3> QED
      BY <1>2, <1>3, <2>1, <3>1 DEF OwnRange
  <2>3. OneEach(w) => OneEach(w)'
    <3> SUFFICES ASSUME OneEach(w)
                 PROVE  OneEach(w)'
      OBVIOUS
    <3>1. \A i \in 1 .. Len(free[w]) :
             free[w][i] \in CtxId /\ free[w][i] # c
      <4>1. inFlight[w][c] # 0
        BY <1>1, <2>1
      <4> QED
        BY <1>1, <4>1, ElementOfSeq DEF OneEach
    <3>2. pc[w] = "held" => held[w] # c
      BY <1>1, <2>1 DEF OneEach
    <3>3. pc[w] = "held" => held[w] \in CtxId
      BY DEF RateBase, LoadInv, Holding
    <3>4. \A d \in CtxId : inFlight'[w][d] + finalizing'[w][d] <= 1
      <4> TAKE d \in CtxId
      <4>1. CASE d = c
        <5>1. inFlight[w][c] + finalizing[w][c] <= 1 /\ inFlight[w][c] \in Nat
          BY <1>1 DEF OneEach
        <5> QED
          BY <2>1, <4>1, <5>1
      <4>2. CASE d # c
        BY <2>1, <4>2 DEF OneEach
      <4> QED
        BY <4>1, <4>2
    <3>5. \A i \in 1 .. Len(free[w]) :
             /\ inFlight'[w][free[w][i]] = 0
             /\ finalizing'[w][free[w][i]] = 0
             /\ pc[w] = "held" => held[w] # free[w][i]
      BY <2>1, <3>1 DEF OneEach
    <3>6. pc[w] = "held" => /\ inFlight'[w][held[w]] = 0
                            /\ finalizing'[w][held[w]] = 0
      BY <2>1, <3>2, <3>3 DEF OneEach
    <3> QED
      BY <1>2, <2>1, <3>4, <3>5, <3>6 DEF OneEach
  <2>4. SerialWorker(w)'
    BY <1>2, <1>3, <1>6, <2>2, <2>3 DEF SerialWorker
  <2> QED
    BY <1>2, <1>4, <2>1, <2>4, SerialFrame
<1>8. CASE AsyncCallbackFinalize(w, c)
  <2>1. /\ inFlight' = inFlight /\ finalizing[w][c] = 1
        /\ finalizing' = [finalizing EXCEPT ![w][c] = 0]
        /\ Restore(w, c)
    BY <1>8 DEF AsyncCallbackFinalize
  <2>2. /\ \A v \in Worker \ {w} : finalizing'[v] = finalizing[v]
        /\ \A d \in CtxId \ {c} : finalizing'[w][d] = finalizing[w][d]
        /\ finalizing'[w][c] = 0
    BY <1>1, <2>1
  <2>3. /\ \A v \in Worker \ {w} : free'[v] = free[v]
        /\ free'[w] = free[w] \/ free'[w] = Append(free[w], c)
    BY <1>1, <2>1 DEF Restore
  <2>4. \A i \in 1 .. Len(free'[w]) : free'[w][i] < nctx'[w]
    <3>1. CASE free'[w] = free[w]
      BY <1>2, <1>3, <3>1 DEF OwnRange
    <3>2. CASE free'[w] = Append(free[w], c)
      BY <1>1, <1>2, <1>3, <1>6, <3>2, PutRange
    <3> QED
      BY <2>3, <3>1, <3>2
  <2>5. OwnRange(w)'
    BY <1>2, <1>3, <2>1, <2>2, <2>4 DEF OwnRange
  <2>6. ASSUME OneEach(w)
        PROVE  OneEach(w)'
    <3>1. /\ \A i \in 1 .. Len(free[w]) :
                free[w][i] \in CtxId /\ free[w][i] # c
          /\ inFlight[w][c] = 0
      <4>1. \A i \in 1 .. Len(free[w]) : free[w][i] \in CtxId
        BY <1>1, ElementOfSeq
      <4>2. inFlight[w][c] + finalizing[w][c] <= 1 /\ inFlight[w][c] \in Nat
        BY <1>1, <2>6 DEF OneEach
      <4> QED
        BY <2>1, <2>6, <4>1, <4>2 DEF OneEach
    <3>2. \A i \in 1 .. Len(free[w]) :
             /\ inFlight'[w][free[w][i]] = 0
             /\ finalizing'[w][free[w][i]] = 0
      BY <2>1, <2>2, <2>6, <3>1 DEF OneEach
    <3>3. pc[w] = "held" =>
             /\ held[w] \in CtxId /\ held[w] # c
             /\ inFlight'[w][held[w]] = 0 /\ finalizing'[w][held[w]] = 0
      <4>1. pc[w] = "held" => held[w] \in CtxId
        BY DEF RateBase, LoadInv, Holding
      <4> QED
        BY <2>1, <2>2, <2>6, <4>1 DEF OneEach
    <3>4. \A d \in CtxId : inFlight'[w][d] + finalizing'[w][d] <= 1
      <4> TAKE d \in CtxId
      <4>1. CASE d = c
        BY <2>1, <2>2, <3>1, <4>1
      <4>2. CASE d # c
        BY <2>1, <2>2, <2>6, <4>2 DEF OneEach
      <4> QED
        BY <4>1, <4>2
    <3>5. CASE free'[w] = free[w]
      BY <1>2, <2>6, <3>2, <3>3, <3>4, <3>5 DEF OneEach
    <3>6. CASE free'[w] = Append(free[w], c)
      <4>1. inFlight'[w][c] = 0 /\ finalizing'[w][c] = 0
        BY <2>1, <2>2, <3>1
      <4>2. free[w] \in Seq(CtxId)
        BY <1>1
      <4> QED
        BY <1>2, <2>6, <3>1, <3>2, <3>3, <3>4, <3>6, <4>1, <4>2, PutEach
    <3> QED
      BY <2>3, <3>5, <3>6
  <2>7. SerialWorker(w)'
    BY <1>2, <1>3, <1>6, <2>5, <2>6 DEF SerialWorker
  <2> QED
    BY <1>2, <1>4, <2>1, <2>2, <2>3, <2>7, SerialFrame
<1> QED
  BY <1>7, <1>8 DEF Callback

LEMMA SerialNext ==
  ASSUME Serial, RateBase, SerialInv, [RateNext]_rateVars
  PROVE  SerialInv'
<1>1. Tracker = "Fifo" /\ OnSequenceModel /\ Rates = 1
  BY RateTrackerAssumption DEF Serial
<1>2. RateBase'
  BY RateBaseNext
<1>3. CASE \/ SeePaused \/ GenerateSchedule \/ DiscardRecords
           \/ UNCHANGED rateVars
           \/ EndMeasure \/ SignalHandler \/ StopWorkerThreads \/ JoinThreads
  <2>1. UNCHANGED <<threads, execute, offset, conc, pc, nctx, free, held,
                    inFlight, finalizing, rem>>
    <3>1. CASE SeePaused \/ GenerateSchedule \/ UNCHANGED rateVars
      BY <3>1 DEF SeePaused, GenerateSchedule, rateVars, vars, mainVars,
         askVars, workerVars, cfgVars, idVars, reqVars, ctxVars
    <3>2. CASE DiscardRecords \/ EndMeasure
      BY <3>2 DEF DiscardRecords, EndMeasure, workerVars, cfgVars, idVars,
         reqVars, ctxVars
    <3>3. CASE SignalHandler \/ StopWorkerThreads \/ JoinThreads
      BY <3>3 DEF SignalHandler, StopWorkerThreads, JoinThreads, askVars,
         workerVars, cfgVars, idVars, reqVars, ctxVars
    <3> QED
      BY <1>3, <3>1, <3>2, <3>3
  <2> QED
    BY <2>1, SerialUnchanged
<1>4. CASE NotifyWorkers \/ StopNotify
  <2>1. /\ WakeAll
        /\ UNCHANGED <<threads, execute, offset, conc, nctx, free, held,
                       inFlight, finalizing, rem>>
    BY <1>4 DEF NotifyWorkers, StopNotify, askVars, cfgVars, idVars, reqVars,
       ctxVars
  <2> QED
    BY <2>1, SerialWakeAll
<1>5. CASE BeginRate \/ ConfigureThreads \/ ResumeWorkers \/ EndWarmup
  BY <1>1, <1>5, SerialBeginRate, SerialConfigure, SerialResume,
     SerialEndWarmup
<1>6. ASSUME NEW w \in Worker, RateOwnStep(w) \/ SharedWorkerStep(w)
      PROVE  SerialInv'
  BY <1>1, <1>2, <1>6, SerialOwnStep, SerialSharedStep
<1>7. ASSUME NEW w \in Worker, NEW c \in CtxId, Callback(w, c)
      PROVE  SerialInv'
  BY <1>7, SerialCallback
<1> QED
  BY <1>3, <1>4, <1>5, <1>6, <1>7, RateNextCases

\* --serial-sequences with one rate: "a maximum of one request is live per
\* sequence".  No RequestRateWorker is about to send on a sequence whose
\* request, of whichever worker, is still at the server.
THEOREM OneRequestPerSequence ==
  ASSUME Serial
  PROVE  RateSpec => []NotIssuedWhileOutstanding
<1>1. RateInit => RateBase /\ SerialInv
  BY InitRateInv DEF RateInv
<1>2. RateBase /\ SerialInv /\ [RateNext]_rateVars => SerialInv'
  BY SerialNext
<1>3. RateBase /\ SerialInv => NotIssuedWhileOutstanding
  <2> SUFFICES ASSUME RateBase, SerialInv, OnSequenceModel,
                      NEW w \in Worker, pc[w] = "held", NEW v \in Worker,
                      NEW c \in CtxId, offset[v] + c = offset[w] + held[w],
                      inFlight[v][c] # 0
               PROVE  FALSE
    BY DEF NotIssuedWhileOutstanding
  <2>1. /\ held[w] \in CtxId /\ LoadTypes
        /\ threads \in {0, DetermineNumThreads}
    BY DEF RateBase, RateTypeOK, LoadInv, Holding
  <2>2. /\ offset[v] \in Nat /\ offset[w] \in Nat
        /\ conc[v] \in 0 .. MaxContexts /\ conc[w] \in 0 .. MaxContexts
        /\ MaxContexts \in Nat /\ threads \in Nat /\ held[w] \in Nat
        /\ c \in Nat /\ v \in Nat /\ w \in Nat
    BY <2>1, LoadTypesParts, ThreadsType, SizesAssumption DEF CtxId, Worker
  <2>3. OwnRange(v) /\ OwnRange(w) /\ OneEach(w)
    BY DEF SerialInv, SerialWorker
  <2>4. held[w] < nctx[w] /\ ~(c >= nctx[v])
    BY <2>1, <2>3, NoneIsNoId DEF OwnRange
  <2>5. /\ conc[w] # 0 /\ held[w] < conc[w]
        /\ conc[v] # 0 /\ c < conc[v]
    BY <2>2, <2>3, <2>4 DEF OwnRange
  <2>6. v < threads /\ w < threads
    <3>1. ~(v >= threads) /\ ~(w >= threads)
      BY <2>5 DEF RateBase, RateWorkerControl
    <3> QED
      BY <2>2, <3>1
  <2>7. CASE v = w
    <3>1. c = held[w]
      BY <2>2, <2>7
    <3> QED
      BY <2>3, <2>7, <3>1 DEF OneEach
  <2>8. CASE v # w
    <3>1. \/ offset[v] + conc[v] <= offset[w]
          \/ offset[w] + conc[w] <= offset[v]
      BY <2>2, <2>6, <2>8 DEF SerialInv, Disjoint
    <3> QED
      BY <2>2, <2>5, <3>1
  <2> QED
    BY <2>7, <2>8
<1> QED
  BY <1>1, <1>2, <1>3, RateBaseHolds, PTL DEF RateSpec
=============================================================================
