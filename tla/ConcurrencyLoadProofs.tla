----------------------- MODULE ConcurrencyLoadProofs -----------------------
(***************************************************************************)
(* Proofs about ConcurrencyLoad, for every number of threads, every set of *)
(* levels and every mode.  Layers of invariants, each proved from those    *)
(* below it:                                                               *)
(*                                                                         *)
(*   Basic       what LoadWorkerProofs shows of every load manager, and    *)
(*               where a thread can be;                                    *)
(*   Parts       every thread has its part of the request count, once it   *)
(*               has been stored;                                          *)
(*   Plain       a model without sequences uses context 0 only, and its    *)
(*               ids are conserved;                                        *)
(*   Growing     when levels only rise: every thread has its share of the  *)
(*               level and of the sequence statuses, and uses only         *)
(*               contexts of it;                                           *)
(*   Sequences   every open sequence is some context's, and none is open   *)
(*               and no request is out while the shares change.            *)
(***************************************************************************)
EXTENDS ConcurrencyLoad, LoadWorkerProofs

-----------------------------------------------------------------------------
\* The main thread never spreads a level over no threads, and ends when every
\* worker has.
ManagerControl ==
    /\ level \in Levels \cup {0}
    /\ warming => WarmupCount >= 1
    /\ mpc \in {"pausing", "configure", "resume", "notify", "warmup"}
                  \cup Storing => level >= 1
    /\ mpc \in {"configure"} \cup Storing => threads >= 1
    /\ mpc = "end" => \A w \in Launched : Finished(w)

\* Only sequence models are paused.
WorkerControl ==
    \A w \in Worker :
        /\ w >= threads => pc[w] = "none"
        /\ pc[w] \in {"off", "offwait"} \cup Parked => OnSequenceModel

Basic == TypeOK /\ LoadInv /\ ManagerControl /\ WorkerControl

\* Without a request count and a warm-up no worker has a quota.
Unlimited ==
    RequestCount = 0 /\ WarmupCount = 0 => \A w \in Worker : numReq[w] = 0

\* Without sequences only context 0 is used.
OneContext ==
    ~OnSequenceModel =>
        \A w \in Worker :
            /\ held[w] \in {0, None}
            /\ free[w] \in Seq({0})
            /\ \A c \in CtxId \ {0} :
                   inFlight[w][c] = 0 /\ finalizing[w][c] = 0

\* A worker without a context has no id in circulation.
NoContextNoIds ==
    ~OnSequenceModel =>
        \A w \in Worker : nctx[w] = 0 => Circulating(w) = 0 /\ granted[w] = 0

Plain == Unlimited /\ OneContext /\ NoContextNoIds /\ IdsConserved

\* Levels only rise: in a linear search, and with a request count or a warm-up,
\* when there is one level.
Counted == RequestCount # 0 \/ WarmupCount # 0
Rising == Search = "linear" \/ Counted

\* The shares are about to change.
Changing == mpc \in {"pausing", "configure"}

\* The threads there are for a level.
ThreadsOf(n) == IF n < MaxThreads THEN n ELSE MaxThreads

\* Every thread has its share of the level, or has a smaller one while the
\* level is being changed.
Spread ==
    /\ threads <= Target
    /\ Counted /\ (level = 0 \/ Changing) => \A w \in Worker : conc[w] = 0
    /\ \A w \in Worker : w >= threads => conc[w] = 0
    /\ mpc # "pausing" => threads = ThreadsOf(Target)
    /\ \A w \in Worker : w < ThreadsOf(Target) =>
          IF Changing THEN conc[w] <= Share(Target, ThreadsOf(Target), w)
          ELSE conc[w] = Share(Target, ThreadsOf(Target), w)

\* Its sequence statuses begin where its share begins, or earlier while the
\* level is being changed.
Placed ==
    /\ \A w \in Worker : w >= threads => offset[w] = 0
    /\ \A w \in Worker : w < ThreadsOf(Target) =>
          IF Changing \/ mpc = "offsets"
          THEN offset[w] <= SeqStatIndexOffset(Target, ThreadsOf(Target), w)
          ELSE offset[w] = SeqStatIndexOffset(Target, ThreadsOf(Target), w)

\* Every launched thread has its part of the request count, from the moment
\* the main thread has stored it.
Parts ==
    mpc \notin {"pausing", "configure"} \cup Storing =>
        \A w \in Worker :
            w < threads => numReq[w] = Share(Quota, threads, w)

\* Where a worker without a share can be.
NotBegunPc == {"none", "top", "off", "offwait", "noconc", "nccheck",
               "ncblock", "ncsleep", "left"} \cup Parked

\* From the creation of its contexts to the end of its sends.
SendingPc == {"exit1", "send", "held", "infer", "sent"}

\* A worker uses the contexts it has made, and has made no more than its share.
OwnIds(w) ==
    /\ conc[w] = 0 => pc[w] \in NotBegunPc /\ sent[w] = 0
    /\ pc[w] = "left" => nctx[w] = 0
    /\ nctx[w] <= conc[w]
    /\ \A c \in CtxId :
          c >= nctx[w] => inFlight[w][c] = 0 /\ finalizing[w][c] = 0
    /\ \A i \in 1 .. Len(free[w]) :
          /\ free[w][i] < conc[w]
          /\ pc[w] \in SendingPc => free[w][i] < nctx[w]
    /\ held[w] = None \/ held[w] < nctx[w]

\* The threads' ranges of sequence statuses do not overlap, except while the
\* new shares are stored and the offsets are still the old ones.
Ranges ==
    /\ \A w \in Worker : offset[w] + conc[w] <= MaxContexts
    /\ mpc # "offsets" =>
           \A v, w \in Worker :
               v < w /\ conc[w] > 0 => offset[v] + conc[v] <= offset[w]

\* An open sequence is a context's.
OpenOwned ==
    \A s \in Index : rem[s] # 0 =>
        \E w \in Worker : \E c \in OpenCtxs(w) : s = offset[w] + c

\* Where a worker has closed its sequences.
ClosedPc == {"offwait", "exitwait", "done", "left"} \cup Parked

Closed == \A w \in Worker : pc[w] \in ClosedPc => OpenCtxs(w) = {}

\* A worker whose is_paused_ the main thread has seen sends nothing until
\* execute_ is set, whether or not it is still paused; and it has seen every
\* worker with a share.
PauseSeen ==
    Changing =>
        /\ ~execute
        /\ \A w \in Worker : w < checked =>
              /\ OpenCtxs(w) = {}
              /\ \A c \in CtxId : inFlight[w][c] = 0
        /\ mpc = "configure" => \A w \in Worker : conc[w] # 0 => w < checked

\* While the main thread stores the new shares, nothing is open and nothing is
\* sent.
StoresQuiet ==
    mpc \in Storing =>
        /\ ~execute
        /\ \A w \in Worker : \A c \in CtxId : inFlight[w][c] = 0
        /\ \A s \in Index : rem[s] = 0

Growing == Rising => Spread /\ Placed /\ \A w \in Worker : OwnIds(w)

Sequences ==
    Rising /\ OnSequenceModel =>
        Ranges /\ OpenOwned /\ Closed /\ PauseSeen /\ StoresQuiet

IInv == Basic /\ Parts /\ Plain /\ Growing /\ Sequences

-----------------------------------------------------------------------------
(* A worker's own steps.                                                   *)

\* In concurrency mode a restored id goes to the back of the queue.
LEMMA RestoreQueue ==
  ASSUME NEW w, NEW c
  PROVE  Restore(w, c) <=> free' = [free EXCEPT ![w] = Append(@, c)]
BY TrackerAssumption DEF Restore

\* The types of TypeOK are those of LoadWorker and the main thread's.
LEMMA TypesOfAll == TypeOK <=> ManagerTypes /\ LoadTypes
BY DEF TypeOK, LoadTypes

\* The steps of a ConcurrencyWorker that no other worker has.
ConcOwnStep(w) ==
    \/ HandleExecuteOff(w) \/ DeclarePaused(w) \/ Unpause(w)
    \/ HandleNoConcurrency(w) \/ TestConcurrency(w)
    \/ CreateContextsAsNecessary(w) \/ CheckExit(w) \/ TakeCtxId(w)
    \/ WaitForResponses(w)

\* From where to where they go.
ConcMoves ==
    {<<"top", "off">>, <<"top", "noconc">>, <<"offwait", "offcheck">>,
     <<"unpause", "noconc">>, <<"noconc", "nccheck">>, <<"noconc", "ctx">>,
     <<"nccheck", "ctx">>, <<"nccheck", "left">>, <<"nccheck", "ncblock">>,
     <<"ctx", "exit1">>, <<"exit1", "exiting">>, <<"exit2", "exiting">>,
     <<"exit3", "exiting">>, <<"exit1", "send">>, <<"exit2", "wait">>,
     <<"exit2", "exit3">>, <<"exit3", "top">>, <<"send", "held">>,
     <<"send", "exit2">>, <<"wait", "exit3">>}

LEMMA ConcMoveEffect ==
  ASSUME LoadTypes, NEW w \in Worker, ConcOwnStep(w)
  PROVE  /\ pc' \in [Worker -> WorkerPc]
         /\ <<pc[w], pc'[w]>> \in ConcMoves
         /\ \A v \in Worker \ {w} : pc'[v] = pc[v]
         /\ pc'[w] = "off" => OnSequenceModel
         /\ pc'[w] = "ctx" => conc[w] # 0
         /\ pc'[w] = "left" => conc[w] = 0
<1>1. {"off", "noconc", "offcheck", "nccheck", "ctx", "left", "ncblock",
       "exit1", "exiting", "send", "wait", "exit3", "top", "held", "exit2"}
         \subseteq WorkerPc
  BY DEF WorkerPc
<1> USE <1>1
<1>2. CASE HandleExecuteOff(w)
  <2>1. CASE OnSequenceModel /\ ~execute
    BY <1>2, <2>1, GotoType DEF HandleExecuteOff, ConcMoves
  <2>2. CASE ~(OnSequenceModel /\ ~execute)
    BY <1>2, <2>2, GotoType DEF HandleExecuteOff, ConcMoves
  <2> QED
    BY <2>1, <2>2
<1>3. CASE DeclarePaused(w)
  BY <1>3, GotoType DEF DeclarePaused, ConcMoves
<1>4. CASE Unpause(w)
  BY <1>4, GotoType DEF Unpause, ConcMoves
<1>5. CASE HandleNoConcurrency(w)
  BY <1>5, GotoType DEF HandleNoConcurrency, ConcMoves
<1>6. CASE TestConcurrency(w)
  <2>0. conc[w] \in Nat
    BY LoadTypesParts
  <2>1. CASE conc[w] > 0
    BY <1>6, <2>0, <2>1, GotoType DEF TestConcurrency, ConcMoves
  <2>2. CASE ~(conc[w] > 0)
    BY <1>6, <2>0, <2>2, GotoType DEF TestConcurrency, ConcMoves
  <2> QED
    BY <2>1, <2>2
<1>7. CASE CreateContextsAsNecessary(w)
  BY <1>7, GotoType DEF CreateContextsAsNecessary, ConcMoves
<1>8. CASE CheckExit(w)
  BY <1>8, GotoType DEF CheckExit, ConcMoves
<1>9. CASE TakeCtxId(w)
  <2>1. CASE free[w] # <<>> /\ execute /\ ~ShouldExit(w)
    BY <1>9, <2>1, GotoType DEF TakeCtxId, ConcMoves
  <2>2. CASE ~(free[w] # <<>> /\ execute /\ ~ShouldExit(w))
    BY <1>9, <2>2, GotoType DEF TakeCtxId, ConcMoves
  <2> QED
    BY <2>1, <2>2
<1>10. CASE WaitForResponses(w)
  BY <1>10, GotoType DEF WaitForResponses, ConcMoves
<1> QED
  BY <1>2, <1>3, <1>4, <1>5, <1>6, <1>7, <1>8, <1>9, <1>10 DEF ConcOwnStep

\* A worker's tables of contexts and ids are filled with what is there.
LEMMA ConcOwnTypes ==
  ASSUME LoadTypes, NEW w \in Worker, ConcOwnStep(w)
  PROVE  /\ LoadTypes'
         /\ UNCHANGED <<mainVars, cfgVars, sent, badCb, ctxVars, rem>>
         /\ badStatus[w] => badStatus'[w]
         /\ \A v \in Worker \ {w} :
               /\ nctx'[v] = nctx[v] /\ free'[v] = free[v]
               /\ held'[v] = held[v] /\ paused'[v] = paused[v]
               /\ badStatus'[v] = badStatus[v] /\ granted'[v] = granted[v]
<1>1. /\ conc \in [Worker -> 0 .. MaxContexts]
      /\ nctx \in [Worker -> 0 .. MaxContexts]
      /\ free \in [Worker -> Seq(CtxId)]
      /\ held \in [Worker -> CtxId \cup {None}]
      /\ granted \in [Worker -> 0 .. MaxContexts]
      /\ paused \in [Worker -> BOOLEAN]
      /\ notified \in [Worker -> BOOLEAN]
      /\ badStatus \in [Worker -> BOOLEAN]
  BY LoadTypesParts
<1>2. UNCHANGED <<mainVars, cfgVars, sent, badCb, ctxVars, rem>>
  BY DEF ConcOwnStep, HandleExecuteOff, DeclarePaused, Unpause,
     HandleNoConcurrency, TestConcurrency, CreateContextsAsNecessary,
     CheckExit, TakeCtxId, WaitForResponses, reqVars
<1>3. /\ nctx' \in [Worker -> 0 .. MaxContexts]
      /\ \A v \in Worker \ {w} : nctx'[v] = nctx[v]
  <2>1. ContextsNeeded(w) \in 0 .. MaxContexts
    BY <1>1, SizesAssumption DEF ContextsNeeded
  <2> QED
    BY <1>1, <2>1 DEF ConcOwnStep, HandleExecuteOff, DeclarePaused, Unpause,
       HandleNoConcurrency, TestConcurrency, CreateContextsAsNecessary,
       CheckExit, TakeCtxId, WaitForResponses, idVars
<1>4. /\ paused' \in [Worker -> BOOLEAN]
      /\ notified' \in [Worker -> BOOLEAN]
      /\ badStatus' \in [Worker -> BOOLEAN]
      /\ badStatus[w] => badStatus'[w]
      /\ \A v \in Worker \ {w} : /\ paused'[v] = paused[v]
                                  /\ badStatus'[v] = badStatus[v]
  BY <1>1 DEF ConcOwnStep, HandleExecuteOff, DeclarePaused, Unpause,
     HandleNoConcurrency, TestConcurrency, CreateContextsAsNecessary,
     CheckExit, TakeCtxId, WaitForResponses, reqVars, SetPaused
<1>5. /\ free' \in [Worker -> Seq(CtxId)]
      /\ held' \in [Worker -> CtxId \cup {None}]
      /\ granted' \in [Worker -> 0 .. MaxContexts]
      /\ \A v \in Worker \ {w} : /\ free'[v] = free[v] /\ held'[v] = held[v]
                                  /\ granted'[v] = granted[v]
  <2>1. CASE ResetFreeCtxIds(w) /\ held' = held
    <3>1. FreshIds(conc[w]) \in Seq(CtxId)
      BY <1>1, FreshIdsType
    <3> QED
      BY <1>1, <2>1, <3>1 DEF ResetFreeCtxIds, ResetTracker
  <2>2. CASE TakeCtxId(w)
    <3>1. CASE free[w] # <<>> /\ execute /\ ~ShouldExit(w)
      <4>1. Head(free[w]) \in CtxId /\ Tail(free[w]) \in Seq(CtxId)
        BY <1>1, <3>1
      <4> QED
        BY <1>1, <2>2, <3>1, <4>1 DEF TakeCtxId
    <3>2. CASE ~(free[w] # <<>> /\ execute /\ ~ShouldExit(w))
      BY <1>1, <2>2, <3>2 DEF TakeCtxId
    <3> QED
      BY <3>1, <3>2
  <2>3. CASE UNCHANGED <<free, held, granted>>
    BY <1>1, <2>3
  <2> QED
    BY <2>1, <2>2, <2>3 DEF ConcOwnStep, HandleExecuteOff, DeclarePaused,
       Unpause, HandleNoConcurrency, TestConcurrency,
       CreateContextsAsNecessary, CheckExit, WaitForResponses, idVars
<1>6. pc' \in [Worker -> WorkerPc]
  BY ConcMoveEffect
<1>7. wakeHolder' \in Worker \cup {None, Main}
  BY DEF ConcOwnStep, HandleExecuteOff, DeclarePaused, Unpause,
     HandleNoConcurrency, TestConcurrency, CreateContextsAsNecessary,
     CheckExit, TakeCtxId, WaitForResponses, LoadTypes, ThreadTypes
<1>8. LoadTypes'
  BY <1>2, <1>3, <1>4, <1>5, <1>6, <1>7 DEF LoadTypes, ConfigTypes,
     ThreadTypes, IdTypes, StatTypes, ContextTypes, cfgVars, ctxVars
<1> QED
  BY <1>2, <1>3, <1>4, <1>5, <1>8

\* They neither send nor answer a request, and set is_paused_ with none out.
LEMMA ConcOwnKeeps ==
  ASSUME LoadInv, NEW w \in Worker, ConcOwnStep(w)
  PROVE  LoadInv'
<1>1. /\ LoadTypes /\ LoadTypes'
      /\ UNCHANGED <<inFlight, ongoing, finalizing, badCb>>
      /\ badStatus[w] => badStatus'[w]
      /\ \A v \in Worker \ {w} :
            /\ held'[v] = held[v] /\ paused'[v] = paused[v]
            /\ badStatus'[v] = badStatus[v]
  BY ConcOwnTypes DEF LoadInv, ctxVars
<1>2. /\ <<pc[w], pc'[w]>> \in ConcMoves
      /\ \A v \in Worker \ {w} : pc'[v] = pc[v]
  BY <1>1, ConcMoveEffect
<1>3. held'[w] \in CtxId <=> pc'[w] \in {"held", "infer", "sent"}
  <2>1. held[w] \in CtxId <=> pc[w] \in {"held", "infer", "sent"}
    BY DEF LoadInv, Holding
  <2>2. /\ held \in [Worker -> CtxId \cup {None}]
        /\ free \in [Worker -> Seq(CtxId)]
        /\ pc \in [Worker -> WorkerPc]
    BY <1>1, LoadTypesParts
  <2>3. CASE TakeCtxId(w) /\ free[w] # <<>> /\ execute /\ ~ShouldExit(w)
    <3>1. Head(free[w]) \in CtxId
      BY <2>2, <2>3
    <3>2. held'[w] = Head(free[w]) /\ pc'[w] = "held"
      BY <2>2, <2>3 DEF TakeCtxId, Goto
    <3> QED
      BY <3>1, <3>2
  <2>4. CASE ~(TakeCtxId(w) /\ free[w] # <<>> /\ execute /\ ~ShouldExit(w))
    <3>1. held' = held
      BY <2>4 DEF ConcOwnStep, HandleExecuteOff, DeclarePaused, Unpause,
         HandleNoConcurrency, TestConcurrency, CreateContextsAsNecessary,
         CheckExit, TakeCtxId, WaitForResponses, idVars
    <3>2. pc'[w] # "held"
      <4>1. CASE pc[w] = "send"
        <5>1. TakeCtxId(w)
          BY <4>1 DEF ConcOwnStep, HandleExecuteOff, DeclarePaused, Unpause,
             HandleNoConcurrency, TestConcurrency, CreateContextsAsNecessary,
             CheckExit, WaitForResponses
        <5> QED
          BY <2>2, <2>4, <5>1 DEF TakeCtxId, Goto
      <4>2. CASE pc[w] # "send"
        BY <1>2, <4>2 DEF ConcMoves
      <4> QED
        BY <4>1, <4>2
    <3> QED
      BY <1>2, <2>1, <3>1, <3>2 DEF ConcMoves
  <2> QED
    BY <2>3, <2>4
<1>4. /\ paused'[w] => pc'[w] \in Parked
      /\ paused'[w] \/ pc'[w] = "done" =>
             paused[w] \/ pc[w] = "done" \/ NoOngoingRequests(w)
  <2>1. paused[w] => pc[w] \in Parked
    BY DEF LoadInv, Holding
  <2>2. CASE pc[w] = "offwait"
    BY <1>2, <2>2 DEF ConcOwnStep, HandleExecuteOff, DeclarePaused, Unpause,
       HandleNoConcurrency, TestConcurrency, CreateContextsAsNecessary,
       CheckExit, TakeCtxId, WaitForResponses, ConcMoves, Parked
  <2>3. CASE pc[w] = "unpause"
    <3>1. paused' = [paused EXCEPT ![w] = FALSE]
      BY <2>3 DEF ConcOwnStep, HandleExecuteOff, DeclarePaused, Unpause,
         HandleNoConcurrency, TestConcurrency, CreateContextsAsNecessary,
         CheckExit, TakeCtxId, WaitForResponses
    <3>2. ~paused'[w]
      BY <1>1, <3>1, LoadTypesParts
    <3> QED
      BY <1>2, <2>3, <3>2 DEF ConcMoves
  <2>4. CASE pc[w] \notin {"offwait", "unpause"}
    <3>1. ~paused[w] /\ pc[w] \notin Parked /\ pc'[w] # "done"
      BY <1>2, <2>1, <2>4 DEF ConcMoves, Parked
    <3>2. ~paused'[w]
      BY <1>1, <2>4, <3>1, LoadTypesParts DEF ConcOwnStep, HandleExecuteOff,
         DeclarePaused, Unpause, HandleNoConcurrency, TestConcurrency,
         CreateContextsAsNecessary, CheckExit, TakeCtxId, WaitForResponses
    <3> QED
      BY <3>1, <3>2
  <2> QED
    BY <2>2, <2>3, <2>4
<1>5. pc[w] \notin {"infer", "sent"} /\ pc'[w] \notin {"infer", "sent"}
  BY <1>2 DEF ConcMoves
<1>6. \A v \in Worker \ {w} :
         /\ held[v] \in CtxId <=> pc[v] \in {"held", "infer", "sent"}
         /\ paused[v] => pc[v] \in Parked
  BY DEF LoadInv, Holding
<1> QED
  BY <1>1, <1>2, <1>3, <1>4, <1>5, <1>6, OwnStepKeeps

-----------------------------------------------------------------------------
(* The steps of the main thread.                                           *)

\* The new threads are numbered on from the old ones.
LEMMA LaunchEffect ==
  ASSUME Basic, LaunchThreads
  PROVE  /\ mpc = "pausing" /\ mpc' = "configure" /\ PausedSeen
         /\ UNCHANGED <<level, warming, checked, execute, earlyExit,
                        wakeHolder, cfgVars, paused, idVars, reqVars>>
         /\ threads' = ThreadsFor(Target)
         /\ threads' \in 1 .. MaxThreads /\ threads <= threads'
         /\ pc' \in [Worker -> WorkerPc]
         /\ \A w \in Worker :
               \/ pc'[w] = pc[w] /\ (w < threads \/ w >= threads')
               \/ /\ pc[w] = "none" /\ pc'[w] = "top"
                  /\ w >= threads /\ w < threads'
<1>1. /\ mpc = "pausing" /\ mpc' = "configure" /\ PausedSeen
      /\ threads' = ThreadsFor(Target)
      /\ pc' = [w \in Worker |->
                  IF w < ThreadsFor(Target) /\ w >= threads THEN "top"
                                                            ELSE pc[w]]
      /\ UNCHANGED <<level, warming, checked, execute, earlyExit, wakeHolder,
                     cfgVars, paused, idVars, reqVars>>
  BY DEF LaunchThreads
<1>2. /\ threads \in 0 .. MaxThreads /\ MaxThreads \in Nat \ {0}
      /\ Target \in Nat \ {0}
  BY <1>1, SizesAssumption DEF Basic, TypeOK, ManagerTypes, ManagerControl,
     Target
<1>3. threads' \in 1 .. MaxThreads /\ threads <= threads'
  BY <1>1, <1>2 DEF ThreadsFor
<1>4. pc \in [Worker -> WorkerPc] /\ "top" \in WorkerPc
  BY LoadTypesParts DEF Basic, LoadInv, WorkerPc
<1>5. \A w \in Worker : w \in Nat /\ (w >= threads => pc[w] = "none")
  BY DEF Basic, WorkerControl, Worker
<1> QED
  BY <1>1, <1>2, <1>3, <1>4, <1>5

\* Every thread gets its share of the level ...
LEMMA ConfigureEffect ==
  ASSUME Basic, ConfigureThreads
  PROVE  /\ mpc = "configure" /\ mpc' = "offsets"
         /\ wakeHolder' \in Worker \cup {None, Main}
         /\ UNCHANGED <<askVars, execute, earlyExit, offset, numReq, paused,
                        pc, idVars, reqVars>>
         /\ threads \in Nat \ {0} /\ Target \in 1 .. MaxContexts
         /\ conc' \in [Worker -> 0 .. MaxContexts]
         /\ \A w \in Worker :
               IF w < threads THEN conc'[w] = Share(Target, threads, w)
               ELSE conc'[w] = conc[w]
<1>1. /\ mpc = "configure" /\ mpc' = "offsets" /\ wakeHolder' = Main
      /\ UNCHANGED <<askVars, execute, earlyExit, offset, numReq, paused, pc,
                     idVars, reqVars>>
      /\ conc' = [w \in Worker |->
                    IF w < threads THEN Share(Target, threads, w) ELSE conc[w]]
  BY DEF ConfigureThreads, Stored
<1>2. threads \in Nat \ {0} /\ Target \in 1 .. MaxContexts
  BY <1>1, SizesAssumption DEF Basic, TypeOK, ManagerTypes, ManagerControl,
     Target
<1>3. conc \in [Worker -> 0 .. MaxContexts]
  BY LoadTypesParts DEF Basic, LoadInv
<1>4. \A w \in Worker : Share(Target, threads, w) \in 0 .. MaxContexts
  <2> TAKE w \in Worker
  <2>1. w \in Nat
    BY DEF Worker
  <2>2. Share(Target, threads, w) \in 0 .. Target
    BY <1>2, <2>1, ShareType
  <2>3. MaxContexts \in Nat
    BY SizesAssumption
  <2> QED
    BY <1>2, <2>2, <2>3
<1> QED
  BY <1>1, <1>2, <1>3, <1>4

\* ... its part of the sequence statuses ...
LEMMA StoreOffsetsEffect ==
  ASSUME Basic, StoreOffsets
  PROVE  /\ mpc = "offsets" /\ mpc' = "counts"
         /\ UNCHANGED <<askVars, execute, earlyExit, wakeHolder, conc, numReq,
                        paused, pc, idVars, reqVars>>
         /\ threads \in Nat \ {0} /\ Target \in 1 .. MaxContexts
         /\ offset' \in [Worker -> Nat]
         /\ \A w \in Worker :
               IF w < threads
               THEN offset'[w] = SeqStatIndexOffset(Target, threads, w)
               ELSE offset'[w] = offset[w]
<1>1. /\ mpc = "offsets" /\ mpc' = "counts"
      /\ UNCHANGED <<askVars, execute, earlyExit, wakeHolder, conc, numReq,
                     paused, pc, idVars, reqVars>>
      /\ offset' = [w \in Worker |->
                      IF w < threads
                      THEN SeqStatIndexOffset(Target, threads, w)
                      ELSE offset[w]]
  BY DEF StoreOffsets, Stored
<1>2. threads \in Nat \ {0} /\ Target \in 1 .. MaxContexts
  BY <1>1, SizesAssumption DEF Basic, TypeOK, ManagerTypes, ManagerControl,
     Target, Storing
<1>3. offset \in [Worker -> Nat]
  BY LoadTypesParts DEF Basic, LoadInv
<1>4. \A w \in Worker : SeqStatIndexOffset(Target, threads, w) \in Nat
  <2> TAKE w \in Worker
  <2>1. w \in Nat /\ Target \in Nat
    BY <1>2 DEF Worker
  <2> QED
    BY <1>2, <2>1, ShareType
<1> QED
  BY <1>1, <1>2, <1>3, <1>4

\* ... and its part of the request count.
LEMMA StoreCountsEffect ==
  ASSUME Basic, StoreRequestCounts
  PROVE  /\ mpc = "counts" /\ mpc' = "resume"
         /\ wakeHolder' \in Worker \cup {None, Main}
         /\ UNCHANGED <<askVars, execute, earlyExit, conc, offset, paused, pc,
                        idVars, reqVars>>
         /\ threads \in Nat \ {0} /\ Quota \in Nat
         /\ numReq' \in [Worker -> Nat]
         /\ \A w \in Worker :
               IF w < threads THEN numReq'[w] = Share(Quota, threads, w)
               ELSE numReq'[w] = numReq[w]
<1>1. /\ mpc = "counts" /\ mpc' = "resume" /\ wakeHolder' = None
      /\ UNCHANGED <<askVars, execute, earlyExit, conc, offset, paused, pc,
                     idVars, reqVars>>
      /\ numReq' = [w \in Worker |->
                      IF w < threads THEN Share(Quota, threads, w)
                                     ELSE numReq[w]]
  BY DEF StoreRequestCounts, Stored
<1>2. threads \in Nat \ {0} /\ Quota \in Nat
  BY <1>1, SizesAssumption DEF Basic, TypeOK, ManagerTypes, ManagerControl,
     Quota, Storing
<1>3. numReq \in [Worker -> Nat]
  BY LoadTypesParts DEF Basic, LoadInv
<1>4. \A w \in Worker : Share(Quota, threads, w) \in Nat
  <2> TAKE w \in Worker
  <2>1. w \in Nat
    BY DEF Worker
  <2>2. Share(Quota, threads, w) \in 0 .. Quota
    BY <1>2, <2>1, ShareType
  <2> QED
    BY <1>2, <2>2
<1> QED
  BY <1>1, <1>2, <1>3, <1>4

MainStep ==
    \/ \E l \in Levels : BeginLevel(l)
    \/ SeePaused \/ LaunchThreads
    \/ ConfigureThreads \/ StoreOffsets \/ StoreRequestCounts
    \/ ResumeSequenceWorkers \/ NotifyWorkers \/ EndWarmup
    \/ DiscardRecords \/ EndMeasure \/ SignalHandler
    \/ StopWorkerThreads \/ StopNotify \/ JoinThreads

\* What they leave of the workers.
LEMMA ConcManagerKeeps ==
  ASSUME Basic, MainStep
  PROVE  LoadInv'
<1>1. LoadInv
  BY DEF Basic
<1>2. CASE \/ \E l \in Levels : BeginLevel(l)
           \/ SeePaused \/ ResumeSequenceWorkers
  BY <1>1, <1>2, UnchangedKeeps DEF BeginLevel, SeePaused,
     ResumeSequenceWorkers
<1>3. CASE LaunchThreads
  <2>1. /\ UNCHANGED <<wakeHolder, cfgVars, paused, idVars, reqVars>>
        /\ pc' \in [Worker -> WorkerPc]
        /\ \A w \in Worker : \/ pc'[w] = pc[w]
                             \/ pc[w] = "none" /\ pc'[w] = "top"
    BY <1>3, LaunchEffect
  <2>2. LoadTypes'
    BY <1>1, <2>1 DEF LoadInv, LoadTypes, ConfigTypes, ThreadTypes, IdTypes,
       StatTypes, ContextTypes, cfgVars, idVars, reqVars, ctxVars
  <2>3. UNCHANGED <<inFlight, ongoing, finalizing, badCb, badStatus, held,
                    paused>>
    BY <2>1 DEF idVars, reqVars, ctxVars
  <2>4. \A v \in Worker :
          /\ held[v] \in CtxId <=> pc[v] \in {"held", "infer", "sent"}
          /\ paused[v] => pc[v] \in Parked
    BY <1>1 DEF LoadInv, Holding
  <2>5. \A v \in Worker :
          /\ \/ pc[v] \notin {"infer", "sent"}
                /\ pc'[v] \notin {"infer", "sent"}
             \/ pc'[v] = pc[v]
          /\ held[v] \in CtxId <=> pc'[v] \in {"held", "infer", "sent"}
          /\ paused[v] => pc'[v] \in Parked
          /\ pc'[v] = "done" => pc[v] = "done"
    BY <2>1, <2>4 DEF Parked
  <2> QED
    BY <1>1, <2>2, <2>3, <2>5, OwnStepKeeps
<1>4. CASE ConfigureThreads \/ StoreOffsets \/ StoreRequestCounts
  <2>0. /\ conc \in [Worker -> 0 .. MaxContexts]
        /\ offset \in [Worker -> Nat] /\ numReq \in [Worker -> Nat]
        /\ wakeHolder \in Worker \cup {None, Main}
    BY <1>1, LoadTypesParts DEF LoadInv, LoadTypes, ThreadTypes
  <2>1. /\ UNCHANGED <<paused, pc, idVars, reqVars>>
        /\ wakeHolder' \in Worker \cup {None, Main}
        /\ conc' \in [Worker -> 0 .. MaxContexts]
        /\ offset' \in [Worker -> Nat] /\ numReq' \in [Worker -> Nat]
    <3>1. CASE ConfigureThreads
      BY <2>0, <3>1, ConfigureEffect
    <3>2. CASE StoreOffsets
      BY <2>0, <3>2, StoreOffsetsEffect
    <3>3. CASE StoreRequestCounts
      BY <2>0, <3>3, StoreCountsEffect
    <3> QED
      BY <1>4, <3>1, <3>2, <3>3
  <2>2. LoadTypes'
    BY <1>1, <2>1 DEF LoadInv, LoadTypes, ConfigTypes, ThreadTypes, IdTypes,
       StatTypes, ContextTypes, idVars, reqVars, ctxVars
  <2>3. UNCHANGED <<inFlight, ongoing, finalizing, badCb, badStatus, held,
                    paused, pc>>
    BY <2>1 DEF idVars, reqVars, ctxVars
  <2> QED
    BY <1>1, <2>2, <2>3, OwnStepKeeps DEF LoadInv, Holding
<1>5. CASE NotifyWorkers
  BY <1>1, <1>5, WakeAllKeeps DEF NotifyWorkers
<1>6. CASE EndWarmup
  BY <1>1, <1>6, CleanupKeeps DEF EndWarmup
<1> QED
  BY <1>1, <1>2, <1>3, <1>4, <1>5, <1>6, SharedManagerStepKeeps
     DEF MainStep, SharedManagerStep

LEMMA ManagerTypesStep ==
  ASSUME Basic, MainStep
  PROVE  ManagerTypes'
<1>0. ManagerTypes /\ MaxThreads \in Nat
  BY SizesAssumption DEF Basic, TypeOK
<1>1. CASE \E l \in Levels : BeginLevel(l)
  <2>1. PICK l \in Levels : BeginLevel(l)
    BY <1>1
  <2>2. l \in 0 .. MaxContexts /\ 0 \in 0 .. MaxThreads
    BY <1>0, LevelsAssumption, SizesAssumption
  <2>3. warming' \in BOOLEAN /\ execute' \in BOOLEAN
    BY <2>1 DEF BeginLevel, StopExecuting
  <2> QED
    BY <1>0, <2>1, <2>2, <2>3 DEF BeginLevel, ManagerTypes, ManagerPc
<1>2. CASE SeePaused
  BY <1>0, <1>2 DEF SeePaused, ManagerTypes
<1>3. CASE LaunchThreads
  <2>1. threads' \in 1 .. MaxThreads
    BY <1>3, LaunchEffect
  <2> QED
    BY <1>0, <1>3, <2>1 DEF LaunchThreads, ManagerTypes, ManagerPc
<1>4. CASE \/ ConfigureThreads \/ StoreOffsets \/ StoreRequestCounts
           \/ ResumeSequenceWorkers \/ NotifyWorkers
  BY <1>0, <1>4, ModesAssumption DEF ConfigureThreads, StoreOffsets,
     StoreRequestCounts, ResumeSequenceWorkers, NotifyWorkers, askVars,
     ManagerTypes, ManagerPc
<1>5. CASE EndWarmup
  <2>1. execute' \in BOOLEAN
    BY <1>5 DEF EndWarmup, StopExecuting
  <2>2. 0 \in 0 .. MaxThreads
    BY <1>0
  <2> QED
    BY <1>0, <1>5, <2>1, <2>2 DEF EndWarmup, WaitForWarmupAndCleanup,
       ManagerTypes, ManagerPc
<1>6. CASE \/ DiscardRecords \/ EndMeasure \/ SignalHandler
           \/ StopWorkerThreads \/ StopNotify \/ JoinThreads
  BY <1>0, <1>6 DEF DiscardRecords, EndMeasure, SignalHandler,
     StopWorkerThreads, StopNotify, JoinThreads, askVars, ManagerTypes,
     ManagerPc
<1> QED
  BY <1>1, <1>2, <1>3, <1>4, <1>5, <1>6
     DEF MainStep

LEMMA MainControlStep ==
  ASSUME Basic, MainStep
  PROVE  ManagerControl' /\ WorkerControl'
<1>0. /\ ManagerControl /\ WorkerControl
      /\ threads \in Nat /\ WarmupCount \in Nat
  BY SizesAssumption DEF Basic, TypeOK, ManagerTypes
<1>1. CASE \E l \in Levels : BeginLevel(l)
  <2>1. PICK l \in Levels : BeginLevel(l)
    BY <1>1
  <2>2. l >= 1
    BY LevelsAssumption, SizesAssumption
  <2>3. /\ mpc' = "pausing" /\ level' = l /\ warming' = (WarmupCount # 0)
        /\ UNCHANGED <<threads, pc>>
    BY <2>1 DEF BeginLevel, workerVars
  <2>4. warming' => WarmupCount # 0
    BY <2>3, Zenon
  <2>5. WarmupCount # 0 => WarmupCount >= 1
    BY <1>0
  <2> QED
    BY <1>0, <2>2, <2>3, <2>4, <2>5 DEF ManagerControl, WorkerControl,
       Storing
<1>2. CASE LaunchThreads
  <2>1. /\ mpc = "pausing" /\ mpc' = "configure"
        /\ UNCHANGED <<level, warming>>
        /\ threads' >= 1 /\ threads' \in Nat /\ threads <= threads'
        /\ \A w \in Worker :
              \/ pc'[w] = pc[w] /\ (w < threads \/ w >= threads')
              \/ pc'[w] = "top" /\ w < threads'
    BY <1>2, LaunchEffect
  <2>2. ManagerControl'
    BY <1>0, <2>1 DEF ManagerControl, Storing
  <2>3. WorkerControl'
    <3> SUFFICES ASSUME NEW w \in Worker
                 PROVE  /\ w >= threads' => pc'[w] = "none"
                        /\ pc'[w] \in {"off", "offwait"} \cup Parked =>
                               OnSequenceModel
      BY DEF WorkerControl
    <3>1. w \in Nat
      BY DEF Worker
    <3> QED
      BY <1>0, <2>1, <3>1 DEF WorkerControl, Parked
  <2> QED
    BY <2>2, <2>3
<1>3. CASE EndWarmup
  <2>1. /\ mpc' = "pausing" /\ ~warming' /\ level' = level
        /\ mpc = "warmup" /\ \A w \in Worker : pc'[w] = "none"
    BY <1>3 DEF EndWarmup, WaitForWarmupAndCleanup, Each
  <2>2. ManagerControl'
    BY <1>0, <2>1 DEF ManagerControl, Storing
  <2>3. WorkerControl'
    BY <2>1 DEF WorkerControl, Parked
  <2> QED
    BY <2>2, <2>3
<1>4. CASE NotifyWorkers \/ StopNotify
  <2>1. /\ \/ mpc = "notify" /\ mpc' \in {"warmup", "discard"}
           \/ mpc = "stopping" /\ mpc' = "joining"
        /\ UNCHANGED askVars /\ WakeAll
    BY <1>4 DEF NotifyWorkers, StopNotify
  <2>2. \A w \in Worker : \/ pc'[w] = pc[w]
                          \/ pc[w] = "offsleep" /\ pc'[w] = "offcheck"
                          \/ pc[w] = "ncsleep" /\ pc'[w] = "nccheck"
    BY <2>1 DEF WakeAll
  <2>3. ManagerControl'
    BY <1>0, <2>1 DEF ManagerControl, askVars, Storing
  <2>4. WorkerControl'
    BY <1>0, <2>1, <2>2 DEF WorkerControl, Parked, askVars
  <2> QED
    BY <2>3, <2>4
<1>5. CASE JoinThreads
  <2>1. mpc' = "end" /\ UNCHANGED <<level, warming, threads, pc>>
    BY <1>5 DEF JoinThreads, askVars, workerVars
  <2>2. \A w \in Launched' : Finished(w)'
    BY <1>5, <2>1 DEF JoinThreads, Launched, Finished
  <2> QED
    BY <1>0, <2>1, <2>2 DEF ManagerControl, WorkerControl, Storing
<1>6. CASE \/ SeePaused
           \/ ConfigureThreads \/ StoreOffsets \/ StoreRequestCounts
           \/ ResumeSequenceWorkers \/ DiscardRecords
           \/ EndMeasure \/ SignalHandler \/ StopWorkerThreads
  <2>1. UNCHANGED <<level, warming, threads, pc>>
    BY <1>6 DEF SeePaused, ConfigureThreads, StoreOffsets, StoreRequestCounts,
       ResumeSequenceWorkers, DiscardRecords, EndMeasure, SignalHandler,
       StopWorkerThreads, askVars, workerVars
  <2>2. \/ mpc' = mpc
        \/ mpc = "configure" /\ mpc' = "offsets"
        \/ mpc = "offsets" /\ mpc' = "counts"
        \/ mpc = "counts" /\ mpc' = "resume"
        \/ mpc = "resume" /\ mpc' = "notify"
        \/ mpc' \in {"measure", "over", "idle", "stopping"}
    BY <1>6 DEF SeePaused, ConfigureThreads, StoreOffsets, StoreRequestCounts,
       ResumeSequenceWorkers, DiscardRecords, EndMeasure, SignalHandler,
       StopWorkerThreads
  <2>3. Launched' = Launched /\ \A w : Finished(w)' = Finished(w)
    BY <2>1 DEF Launched, Finished
  <2> QED
    BY <1>0, <2>1, <2>2, <2>3 DEF ManagerControl, WorkerControl, Storing
<1> QED
  BY <1>1, <1>2, <1>3, <1>4, <1>5, <1>6 DEF MainStep

\* A worker's step, or a callback, against what it may not disturb.
LEMMA ControlFrame ==
  ASSUME Basic, LoadInv', UNCHANGED mainVars, NEW w \in Worker,
         \A v \in Worker \ {w} : pc'[v] = pc[v],
         pc'[w] = pc[w] \/ <<pc[w], pc'[w]>> \in SharedMoves \cup ConcMoves,
         pc'[w] = "off" /\ pc[w] # "off" => OnSequenceModel
  PROVE  Basic'
<1>1. TypeOK'
  BY TypesOfAll DEF Basic, TypeOK, ManagerTypes, LoadInv, LoadTypes,
     mainVars, askVars
<1>2. ManagerControl'
  <2>1. Launched' = Launched
    BY DEF Launched, mainVars, askVars
  <2>2. \A v \in Worker : Finished(v) => Finished(v)'
    BY DEF Finished, SharedMoves, ConcMoves
  <2>3. Launched \subseteq Worker
    BY DEF Launched
  <2> QED
    BY <2>1, <2>2, <2>3 DEF Basic, ManagerControl, mainVars, askVars
<1>3. WorkerControl'
  <2>1. pc[w] # "none" \/ pc'[w] = "none"
    BY DEF SharedMoves, ConcMoves
  <2>2. pc'[w] \in {"off", "offwait"} \cup Parked =>
            pc[w] \in {"off", "offwait"} \cup Parked \/ OnSequenceModel
    BY DEF SharedMoves, ConcMoves, Parked
  <2> QED
    BY <2>1, <2>2 DEF Basic, WorkerControl, mainVars, askVars
<1> QED
  BY <1>1, <1>2, <1>3 DEF Basic

\* Every step is one of these.
LEMMA ConcNextCases ==
  ASSUME Next
  PROVE  \/ MainStep
         \/ \E w \in Worker : ConcOwnStep(w) \/ SharedWorkerStep(w)
         \/ \E w \in Worker : \E c \in CtxId : Callback(w, c)
         \/ UNCHANGED vars
<1>1. ASSUME NEW w \in Worker, WorkerStep(w)
      PROVE  ConcOwnStep(w) \/ SharedWorkerStep(w)
  BY <1>1 DEF WorkerStep, ConcOwnStep, SharedWorkerStep
<1>2. CASE ManagerStep
  BY <1>2 DEF ManagerStep, MainStep
<1> QED
  BY <1>1, <1>2 DEF Next, MainStep, Terminated

\* A callback moves no thread.
LEMMA CallbackFrame ==
  ASSUME LoadTypes, NEW w \in Worker, NEW c \in CtxId, Callback(w, c)
  PROVE  /\ UNCHANGED <<mainVars, cfgVars, pc, sent, held, granted, nctx,
                        badStatus, rem>>
         /\ \A v \in Worker \ {w} : /\ free'[v] = free[v]
                                     /\ inFlight'[v] = inFlight[v]
                                     /\ finalizing'[v] = finalizing[v]
         /\ \A d \in CtxId \ {c} : /\ inFlight'[w][d] = inFlight[w][d]
                                    /\ finalizing'[w][d] = finalizing[w][d]
         /\ inFlight[w][c] > 0 \/ finalizing[w][c] = 1
         /\ inFlight'[w][c] <= inFlight[w][c]
         /\ \/ free'[w] = free[w]
            \/ finalizing[w][c] = 1 /\ free'[w] = Append(free[w], c)
<1>1. UNCHANGED <<mainVars, cfgVars, pc, sent, held, granted, nctx,
                  badStatus, rem>>
  BY DEF Callback, AsyncCallback, AsyncCallbackGivesUp,
     AsyncCallbackFinalize, idVars
<1>2. /\ free \in [Worker -> Seq(CtxId)]
      /\ inFlight \in [Worker -> [CtxId -> Nat]]
      /\ finalizing \in [Worker -> [CtxId -> {0, 1}]]
  BY LoadTypesParts
<1>3. CASE AsyncCallback(w, c)
  <2>1. /\ free' = free /\ inFlight[w][c] > 0
        /\ inFlight' = [inFlight EXCEPT ![w][c] = inFlight[w][c] - 1]
        /\ finalizing' = [finalizing EXCEPT ![w][c] = 1]
    BY <1>3 DEF AsyncCallback, idVars
  <2> QED
    BY <1>1, <1>2, <2>1
<1>4. CASE AsyncCallbackGivesUp(w, c)
  <2>1. /\ free' = free /\ inFlight[w][c] > 0 /\ finalizing' = finalizing
        /\ inFlight' = [inFlight EXCEPT ![w][c] = inFlight[w][c] - 1]
    BY <1>4 DEF AsyncCallbackGivesUp, idVars
  <2> QED
    BY <1>1, <1>2, <2>1
<1>5. CASE AsyncCallbackFinalize(w, c)
  <2>1. /\ finalizing[w][c] = 1 /\ inFlight' = inFlight
        /\ finalizing' = [finalizing EXCEPT ![w][c] = 0]
        /\ \/ free' = free
           \/ free' = [free EXCEPT ![w] = Append(free[w], c)]
    BY <1>5 DEF AsyncCallbackFinalize, Restore
  <2> QED
    BY <1>1, <1>2, <2>1
<1> QED
  BY <1>3, <1>4, <1>5 DEF Callback

\* Every step keeps the types, the accounting and the control.
LEMMA BasicStep ==
  ASSUME Basic, [Next]_vars
  PROVE  Basic'
<1>0. LoadInv /\ LoadTypes
  BY DEF Basic, LoadInv
<1>1. CASE MainStep
  <2>1. LoadInv' /\ ManagerTypes'
    BY <1>1, ConcManagerKeeps, ManagerTypesStep
  <2>2. TypeOK'
    BY <2>1 DEF TypeOK, LoadInv, LoadTypes
  <2> QED
    BY <1>1, <2>1, <2>2, MainControlStep DEF Basic
<1>2. ASSUME NEW w \in Worker, ConcOwnStep(w)
      PROVE  Basic'
  <2>1. LoadInv' /\ UNCHANGED mainVars
    BY <1>0, <1>2, ConcOwnKeeps, ConcOwnTypes
  <2> QED
    BY <1>0, <1>2, <2>1, ConcMoveEffect, ControlFrame
<1>3. ASSUME NEW w \in Worker, SharedWorkerStep(w)
      PROVE  Basic'
  <2>1. LoadInv' /\ UNCHANGED mainVars
    BY <1>0, <1>3, SharedWorkerStepKeeps, SharedFrame
  <2>2. /\ <<pc[w], pc'[w]>> \in SharedMoves
        /\ \A v \in Worker \ {w} : pc'[v] = pc[v]
    BY <1>0, <1>3, SharedMoveEffect
  <2>3. pc'[w] # "off"
    BY <2>2 DEF SharedMoves
  <2> QED
    BY <2>1, <2>2, <2>3, ControlFrame
<1>4. ASSUME NEW w \in Worker, NEW c \in CtxId, Callback(w, c)
      PROVE  Basic'
  BY <1>0, <1>4, CallbackKeeps, CallbackFrame, ControlFrame
<1>5. CASE UNCHANGED vars
  <2>1. UNCHANGED <<mainVars, workerVars, wakeHolder>>
    BY <1>5 DEF vars
  <2>2. LoadInv'
    BY <1>0, <2>1, UnchangedKeeps
  <2>3. TypeOK' /\ ManagerControl'
    BY <2>1, <2>2 DEF Basic, TypeOK, ManagerTypes, LoadInv, LoadTypes,
       ManagerControl, Launched, Finished, mainVars, askVars, workerVars
  <2>4. WorkerControl'
    BY <2>1 DEF Basic, WorkerControl, mainVars, askVars, workerVars
  <2> QED
    BY <2>2, <2>3, <2>4 DEF Basic
<1> QED
  BY <1>1, <1>2, <1>3, <1>4, <1>5, ConcNextCases

-----------------------------------------------------------------------------
(* Without sequences.                                                      *)

\* Only ReconfigThreads hands out quotas.
LEMMA UnlimitedStep ==
  ASSUME Basic, Unlimited, [Next]_vars
  PROVE  Unlimited'
<1>0. LoadTypes
  BY DEF Basic, LoadInv
<1>1. CASE UNCHANGED cfgVars
  BY <1>1 DEF Unlimited, cfgVars
<1>2. CASE StoreRequestCounts
  <2> SUFFICES ASSUME RequestCount = 0, WarmupCount = 0, NEW w \in Worker
               PROVE  numReq'[w] = 0
    BY DEF Unlimited
  <2>1. threads \in Nat \ {0} /\ w \in Nat /\ Quota = 0
    BY <1>2, StoreCountsEffect DEF Quota, Worker
  <2>2. Share(Quota, threads, w) \in 0 .. 0
    BY <2>1, ShareType
  <2>3. numReq'[w] = Share(Quota, threads, w) \/ numReq'[w] = numReq[w]
    BY <1>2, StoreCountsEffect
  <2> QED
    BY <2>2, <2>3 DEF Unlimited
<1>3. CASE EndWarmup
  BY <1>3 DEF EndWarmup, WaitForWarmupAndCleanup, Each, Unlimited
<1>4. CASE MainStep /\ ~StoreRequestCounts /\ ~EndWarmup
  <2>1. UNCHANGED numReq
    BY <1>4 DEF MainStep, BeginLevel, SeePaused, LaunchThreads,
       ConfigureThreads, StoreOffsets, ResumeSequenceWorkers, NotifyWorkers,
       DiscardRecords, StopNotify, JoinThreads, StopWorkerThreads,
       SignalHandler, EndMeasure, workerVars, cfgVars
  <2> QED
    BY <2>1 DEF Unlimited
<1>5. ASSUME NEW w \in Worker, ConcOwnStep(w) \/ SharedWorkerStep(w)
      PROVE  Unlimited'
  BY <1>0, <1>1, <1>5, ConcOwnTypes, SharedFrame
<1>6. ASSUME NEW w \in Worker, NEW c \in CtxId, Callback(w, c)
      PROVE  Unlimited'
  BY <1>0, <1>1, <1>6, CallbackFrame
<1>7. CASE UNCHANGED vars
  BY <1>1, <1>7 DEF vars, workerVars
<1> QED
  BY <1>2, <1>3, <1>4, <1>5, <1>6, <1>7, ConcNextCases

\* Without sequences no step brings a second context into play.
LEMMA OneContextStep ==
  ASSUME Basic, OneContext, [Next]_vars
  PROVE  OneContext'
<1> SUFFICES ASSUME ~OnSequenceModel
             PROVE  OneContext'
  BY DEF OneContext
<1>0. /\ LoadTypes /\ LoadTypes' /\ 0 \in CtxId
      /\ free \in [Worker -> Seq(CtxId)]
      /\ held \in [Worker -> CtxId \cup {None}]
      /\ inFlight' \in [Worker -> [CtxId -> Nat]]
      /\ inFlight \in [Worker -> [CtxId -> Nat]]
      /\ \A v \in Worker :
            /\ held[v] \in {0, None}
            /\ free[v] \in Seq({0})
            /\ \A c \in CtxId \ {0} :
                   inFlight[v][c] = 0 /\ finalizing[v][c] = 0
  <2>1. LoadTypes /\ LoadTypes'
    BY BasicStep DEF Basic, LoadInv
  <2>2. 0 \in CtxId
    BY SizesAssumption DEF CtxId
  <2>3. inFlight' \in [Worker -> [CtxId -> Nat]]
    BY <2>1 DEF LoadTypes, ContextTypes
  <2> QED
    BY <2>1, <2>2, <2>3, LoadTypesParts DEF OneContext
<1>1. CASE UNCHANGED <<held, free, inFlight, finalizing>>
  BY <1>1 DEF OneContext
<1>2. CASE EndWarmup
  BY <1>2 DEF EndWarmup, WaitForWarmupAndCleanup, Each, EachCtx, OneContext
<1>3. CASE MainStep /\ ~EndWarmup
  BY <1>1, <1>3 DEF MainStep, BeginLevel, SeePaused, LaunchThreads,
     ConfigureThreads, StoreOffsets, StoreRequestCounts,
     ResumeSequenceWorkers, NotifyWorkers, DiscardRecords, StopNotify,
     JoinThreads, StopWorkerThreads, SignalHandler, EndMeasure, workerVars,
     idVars, reqVars, ctxVars
<1>4. ASSUME NEW w \in Worker, ConcOwnStep(w)
      PROVE  OneContext'
  <2>1. /\ UNCHANGED <<inFlight, finalizing>>
        /\ \A v \in Worker \ {w} : free'[v] = free[v] /\ held'[v] = held[v]
    BY <1>0, <1>4, ConcOwnTypes DEF ctxVars
  <2>2. free'[w] \in Seq({0}) /\ held'[w] \in {0, None}
    <3>1. CASE ResetFreeCtxIds(w) /\ held' = held
      <4>1. FreshIds(conc[w]) \in Seq({0})
        BY <1>0, LoadTypesParts, TrackerAssumption DEF FreshIds
      <4> QED
        BY <1>0, <3>1, <4>1 DEF ResetFreeCtxIds, ResetTracker
    <3>2. CASE TakeCtxId(w)
      <4>1. CASE free[w] # <<>> /\ execute /\ ~ShouldExit(w)
        <5>1. Head(free[w]) = 0 /\ Tail(free[w]) \in Seq({0})
          BY <1>0, <4>1
        <5> QED
          BY <1>0, <3>2, <4>1, <5>1 DEF TakeCtxId
      <4>2. CASE ~(free[w] # <<>> /\ execute /\ ~ShouldExit(w))
        BY <1>0, <3>2, <4>2 DEF TakeCtxId
      <4> QED
        BY <4>1, <4>2
    <3>3. CASE UNCHANGED <<free, held>>
      BY <1>0, <3>3
    <3> QED
      BY <1>4, <3>1, <3>2, <3>3 DEF ConcOwnStep, HandleExecuteOff,
         DeclarePaused, Unpause, HandleNoConcurrency, TestConcurrency,
         CreateContextsAsNecessary, CheckExit, WaitForResponses, idVars
  <2> QED
    BY <1>0, <2>1, <2>2 DEF OneContext
<1>5. ASSUME NEW w \in Worker, SharedWorkerStep(w)
      PROVE  OneContext'
  <2>1. /\ finalizing' = finalizing
        /\ \A v \in Worker \ {w} : /\ free'[v] = free[v]
                                    /\ held'[v] = held[v]
                                    /\ inFlight'[v] = inFlight[v]
        /\ free'[w] \in {free[w], Append(free[w], held[w])}
        /\ held'[w] \in {held[w], None}
    BY <1>0, <1>5, SharedFrame
  <2>2. free'[w] = free[w] \/ held[w] \in CtxId
    BY <1>0, <1>5, SharedRestores DEF Basic, LoadInv
  <2>3. free'[w] \in Seq({0})
    <3>1. CASE free'[w] = free[w]
      BY <1>0, <3>1
    <3>2. CASE free'[w] # free[w]
      <4>1. held[w] = 0
        BY <1>0, <2>2, <3>2, NoneIsNoId
      <4>2. Append(free[w], 0) \in Seq({0})
        BY <1>0
      <4> QED
        BY <2>1, <3>2, <4>1, <4>2
    <3> QED
      BY <3>1, <3>2
  <2>4. OpenCtxs(w) = {}
    BY DEF OpenCtxs
  <2>5. \A c \in CtxId \ {0} : inFlight'[w][c] = 0
    <3> TAKE c \in CtxId \ {0}
    <3>1. inFlight'[w][c] <= inFlight[w][c] \/ held[w] = c
      BY <1>0, <1>5, <2>4, SharedSends
    <3>2. held[w] # c
      BY <1>0, NoneIsNoId
    <3>3. inFlight[w][c] = 0 /\ inFlight'[w][c] \in Nat
      BY <1>0
    <3> QED
      BY <3>1, <3>2, <3>3
  <2> QED
    BY <1>0, <2>1, <2>3, <2>5, ZenonT(60) DEF OneContext
<1>6. ASSUME NEW w \in Worker, NEW c \in CtxId, Callback(w, c)
      PROVE  OneContext'
  <2>0. /\ held' = held
        /\ \A v \in Worker \ {w} : /\ free'[v] = free[v]
                                    /\ inFlight'[v] = inFlight[v]
                                    /\ finalizing'[v] = finalizing[v]
        /\ \A d \in CtxId \ {c} : /\ inFlight'[w][d] = inFlight[w][d]
                                   /\ finalizing'[w][d] = finalizing[w][d]
        /\ inFlight[w][c] > 0 \/ finalizing[w][c] = 1
        /\ \/ free'[w] = free[w]
           \/ free'[w] = Append(free[w], c)
    BY <1>0, <1>6, CallbackFrame
  <2>1. c = 0
    BY <1>0, <2>0
  <2>2. Append(free[w], 0) \in Seq({0}) /\ free[w] \in Seq({0})
    BY <1>0
  <2>3. free'[w] \in Seq({0})
    BY <2>0, <2>1, <2>2
  <2>4. \A v \in Worker : held'[v] \in {0, None} /\ free'[v] \in Seq({0})
    BY <1>0, <2>0, <2>3
  <2>5. \A v \in Worker : \A d \in CtxId \ {0} :
           inFlight'[v][d] = 0 /\ finalizing'[v][d] = 0
    <3> TAKE v \in Worker
    <3> TAKE d \in CtxId \ {0}
    <3>1. inFlight[v][d] = 0 /\ finalizing[v][d] = 0
      BY <1>0
    <3>2. CASE v = w
      BY <2>0, <2>1, <3>1, <3>2
    <3>3. CASE v # w
      BY <2>0, <3>1, <3>3
    <3> QED
      BY <3>2, <3>3
  <2> QED
    BY <2>4, <2>5 DEF OneContext
<1>7. CASE UNCHANGED vars
  BY <1>1, <1>7 DEF vars, workerVars, idVars, reqVars, ctxVars
<1> QED
  BY <1>2, <1>3, <1>4, <1>5, <1>6, <1>7, ConcNextCases

-----------------------------------------------------------------------------
(* The ids in circulation, without sequences.                              *)

\* What a step has to leave alone to keep the ids conserved.
SameCirculation ==
    /\ \A v \in Worker : Circulating(v)' = Circulating(v)
    /\ UNCHANGED <<granted, nctx>>
    /\ earlyExit => earlyExit'
    /\ \A v \in Worker : badStatus[v] => badStatus'[v]
    /\ \A v \in Worker : badCb[v] => badCb'[v]

\* The places an id can be in are counted by numbers.
LEMMA CirculatingParts ==
  ASSUME TypeOK, NEW w \in Worker
  PROVE  /\ 0 \in CtxId
         /\ Len(free[w]) \in Nat
         /\ inFlight[w][0] \in Nat
         /\ finalizing[w][0] \in {0, 1}
<1>1. 0 \in CtxId
  BY SizesAssumption DEF CtxId
<1>2. /\ free \in [Worker -> Seq(CtxId)]
      /\ inFlight \in [Worker -> [CtxId -> Nat]]
      /\ finalizing \in [Worker -> [CtxId -> {0, 1}]]
  BY DEF TypeOK, IdTypes, ContextTypes
<1>3. inFlight[w] \in [CtxId -> Nat] /\ finalizing[w] \in [CtxId -> {0, 1}]
  BY <1>2
<1> QED
  BY <1>1, <1>2, <1>3

\* Such a step keeps them conserved.
LEMMA SameCirculationStep ==
  ASSUME NoContextNoIds, IdsConserved, SameCirculation
  PROVE  NoContextNoIds' /\ IdsConserved'
<1>1. NoContextNoIds'
  BY DEF NoContextNoIds, SameCirculation
<1>2. IdsConserved'
  BY DEF IdsConserved, SameCirculation
<1> QED
  BY <1>1, <1>2

\* So does one that loses an id of a worker that is on its way out.
LEMMA DroppedIdStep ==
  ASSUME NoContextNoIds, IdsConserved, NEW w \in Worker,
         granted[w] \in Nat, Circulating(w) \in Nat \ {0},
         Circulating(w)' = Circulating(w) - 1,
         \A v \in Worker \ {w} : Circulating(v)' = Circulating(v),
         UNCHANGED <<granted, nctx>>,
         earlyExit => earlyExit',
         \A v \in Worker : badStatus[v] => badStatus'[v],
         \A v \in Worker : badCb[v] => badCb'[v],
         \/ earlyExit' \/ badStatus'[w] \/ badCb'[w]
         \/ RequestCount # 0 \/ WarmupCount # 0
  PROVE  NoContextNoIds' /\ IdsConserved'
<1>1. CASE OnSequenceModel
  BY <1>1 DEF NoContextNoIds, IdsConserved
<1>2. CASE ~OnSequenceModel
  <2>1. nctx[w] # 0
    BY <1>2 DEF NoContextNoIds
  <2>2. NoContextNoIds'
    BY <1>2, <2>1 DEF NoContextNoIds
  <2>3. Circulating(w)' <= granted[w]
    BY <1>2 DEF IdsConserved
  <2>4. IdsConserved'
    BY <1>2, <2>3 DEF IdsConserved
  <2> QED
    BY <2>2, <2>4
<1> QED
  BY <1>1, <1>2

\* Every step keeps the ids conserved: it moves one from place to place, or
\* refills the tracker of a worker that had none, or drops one on the way out.
LEMMA ConservationStep ==
  ASSUME Basic, Plain, [Next]_vars
  PROVE  (NoContextNoIds /\ IdsConserved)'
<1> SUFFICES ASSUME ~OnSequenceModel
             PROVE  (NoContextNoIds /\ IdsConserved)'
  BY DEF NoContextNoIds, IdsConserved
<1>0. /\ pc \in [Worker -> WorkerPc]
      /\ held \in [Worker -> CtxId \cup {None}]
      /\ free \in [Worker -> Seq(CtxId)]
      /\ nctx \in [Worker -> 0 .. MaxContexts]
      /\ granted \in [Worker -> 0 .. MaxContexts]
      /\ badStatus \in [Worker -> BOOLEAN]
      /\ badCb \in [Worker -> BOOLEAN]
      /\ inFlight \in [Worker -> [CtxId -> Nat]]
      /\ finalizing \in [Worker -> [CtxId -> {0, 1}]]
      /\ Holding /\ WorkerControl /\ OneContext
      /\ 0 \in CtxId
  BY SizesAssumption DEF Basic, TypeOK, ThreadTypes, IdTypes, StatTypes,
     ContextTypes, CtxId, Plain, LoadInv
<1> USE <1>0 DEF mainVars, askVars, workerVars, cfgVars, idVars, ctxVars,
        reqVars, Plain
<1>1. ASSUME NEW l \in Levels, BeginLevel(l)
      PROVE  (NoContextNoIds /\ IdsConserved)'
  <2>1. SameCirculation
    BY <1>1 DEF BeginLevel, SameCirculation, Circulating
  <2> QED
    BY <2>1, SameCirculationStep
<1>2. CASE SeePaused
  <2>1. SameCirculation
    BY <1>2 DEF SeePaused, SameCirculation, Circulating
  <2> QED
    BY <2>1, SameCirculationStep
<1>3. CASE LaunchThreads
  <2>1. \A v \in Worker : pc'[v] = "held" <=> pc[v] = "held"
    <3>1. \A v \in Worker :
          pc'[v] = pc[v] \/ (pc'[v] = "top" /\ v >= threads)
      BY <1>3 DEF LaunchThreads
    <3> QED
      BY <3>1 DEF WorkerControl
  <2>2. SameCirculation
    BY <1>3, <2>1 DEF LaunchThreads, SameCirculation, Circulating
  <2> QED
    BY <2>2, SameCirculationStep
<1>4. CASE ConfigureThreads \/ StoreOffsets \/ StoreRequestCounts
  <2>1. SameCirculation
    <3>1. CASE ConfigureThreads
      BY <3>1 DEF ConfigureThreads, SameCirculation, Circulating
    <3>2. CASE StoreOffsets
      BY <3>2 DEF StoreOffsets, SameCirculation, Circulating
    <3>3. CASE StoreRequestCounts
      BY <3>3 DEF StoreRequestCounts, SameCirculation, Circulating
    <3> QED
      BY <1>4, <3>1, <3>2, <3>3
  <2> QED
    BY <2>1, SameCirculationStep
<1>5. CASE ResumeSequenceWorkers
  <2>1. SameCirculation
    BY <1>5 DEF ResumeSequenceWorkers, SameCirculation, Circulating
  <2> QED
    BY <2>1, SameCirculationStep
<1>6. CASE NotifyWorkers
  <2>1. SameCirculation
    BY <1>6 DEF NotifyWorkers, WakeAll, SameCirculation, Circulating
  <2> QED
    BY <2>1, SameCirculationStep
<1>7. CASE EndWarmup
  <2>1. \A v \in Worker : Circulating(v)' = 0 /\ granted'[v] = 0
    BY <1>7 DEF EndWarmup, WaitForWarmupAndCleanup, Circulating, Each, EachCtx
  <2> QED
    BY <2>1 DEF NoContextNoIds, IdsConserved
<1>8. CASE StopNotify
  <2>1. SameCirculation
    BY <1>8 DEF StopNotify, WakeAll, SameCirculation, Circulating
  <2> QED
    BY <2>1, SameCirculationStep
<1>9. CASE JoinThreads
  <2>1. SameCirculation
    BY <1>9 DEF JoinThreads, SameCirculation, Circulating
  <2> QED
    BY <2>1, SameCirculationStep
<1>10. CASE DiscardRecords \/ EndMeasure \/ StopWorkerThreads
  <2>1. UNCHANGED <<pc, free, granted, nctx, inFlight, finalizing>>
    BY <1>10 DEF DiscardRecords, EndMeasure, StopWorkerThreads
  <2>2. SameCirculation
    BY <1>10, <2>1 DEF DiscardRecords, EndMeasure, StopWorkerThreads,
       SameCirculation, Circulating
  <2> QED
    BY <2>2, SameCirculationStep
<1>11. CASE SignalHandler
  <2>1. SameCirculation
    BY <1>11 DEF SignalHandler, SameCirculation, Circulating
  <2> QED
    BY <2>1, SameCirculationStep
<1>12. ASSUME NEW w \in Worker, HandleExecuteOff(w)
       PROVE  (NoContextNoIds /\ IdsConserved)'
  <2>1. SameCirculation
    BY <1>12 DEF HandleExecuteOff, Goto, SameCirculation, Circulating
  <2> QED
    BY <2>1, SameCirculationStep
<1>13. ASSUME NEW w \in Worker, CompleteForPause(w)
       PROVE  (NoContextNoIds /\ IdsConserved)'
  <2>2. UNCHANGED <<inFlight, badStatus>>
    BY <1>13, CompleteEffect
       DEF CompleteForPause, Basic, LoadInv
  <2>3. SameCirculation
    BY <1>13, <2>2 DEF CompleteForPause, Goto, SameCirculation, Circulating
  <2> QED
    BY <2>3, SameCirculationStep
<1>14. ASSUME NEW w \in Worker, DeclarePaused(w)
       PROVE  (NoContextNoIds /\ IdsConserved)'
  BY <1>14 DEF DeclarePaused, WorkerControl
<1>15. ASSUME NEW w \in Worker, TestExecute(w)
       PROVE  (NoContextNoIds /\ IdsConserved)'
  <2>1. SameCirculation
    BY <1>15 DEF TestExecute, Goto, SameCirculation, Circulating
  <2> QED
    BY <2>1, SameCirculationStep
<1>16. ASSUME NEW w \in Worker, Unpause(w)
       PROVE  (NoContextNoIds /\ IdsConserved)'
  <2>1. SameCirculation
    BY <1>16 DEF Unpause, Goto, SameCirculation, Circulating
  <2> QED
    BY <2>1, SameCirculationStep
<1>17. ASSUME NEW w \in Worker, HandleNoConcurrency(w)
       PROVE  (NoContextNoIds /\ IdsConserved)'
  <2>1. SameCirculation
    BY <1>17 DEF HandleNoConcurrency, Goto, SameCirculation, Circulating
  <2> QED
    BY <2>1, SameCirculationStep
<1>18. ASSUME NEW w \in Worker, TestConcurrency(w)
       PROVE  (NoContextNoIds /\ IdsConserved)'
  <2>1. SameCirculation
    BY <1>18 DEF TestConcurrency, Goto, SameCirculation, Circulating
  <2> QED
    BY <2>1, SameCirculationStep
<1>19. ASSUME NEW w \in Worker, Sleep(w)
       PROVE  (NoContextNoIds /\ IdsConserved)'
  <2>1. SameCirculation
    BY <1>19 DEF Sleep, Goto, SameCirculation, Circulating
  <2> QED
    BY <2>1, SameCirculationStep
<1>20. ASSUME NEW w \in Worker, CreateContextsAsNecessary(w)
       PROVE  (NoContextNoIds /\ IdsConserved)'
  <2>1. CASE LacksContexts(w)
    <3>1. nctx[w] = 0 /\ ContextsNeeded(w) = 1
      BY <2>1 DEF LacksContexts, ContextsNeeded
    <3>2. Circulating(w) = 0
      BY <3>1 DEF NoContextNoIds
    <3>3. conc[w] \in Nat /\ Len(FreshIds(conc[w])) = conc[w]
      BY TrackerAssumption DEF Basic, TypeOK, ConfigTypes, FreshIds
    <3>4. /\ free' = [free EXCEPT ![w] = FreshIds(conc[w])]
          /\ granted' = [granted EXCEPT ![w] = conc[w]]
          /\ nctx' = [nctx EXCEPT ![w] = 1]
          /\ pc[w] = "ctx" /\ pc' = [pc EXCEPT ![w] = "exit1"]
          /\ UNCHANGED <<inFlight, finalizing, badCb, earlyExit>>
      BY <1>20, <2>1, <3>1 DEF CreateContextsAsNecessary, ResetFreeCtxIds,
         ResetTracker, Goto
    <3>5. Len(free[w]) = 0 /\ inFlight[w][0] = 0 /\ finalizing[w][0] = 0
      BY <3>2, <3>4 DEF Circulating, Basic
    <3>6. Circulating(w)' = conc[w]
      BY <3>3, <3>4, <3>5 DEF Circulating, Basic
    <3>7. \A v \in Worker : v # w => Circulating(v)' = Circulating(v)
      BY <3>4 DEF Circulating, Basic
    <3>8. \A v \in Worker : badStatus[v] => badStatus'[v]
      BY <1>20 DEF CreateContextsAsNecessary
    <3>9. NoContextNoIds'
      BY <3>4, <3>7 DEF NoContextNoIds
    <3>10. IdsConserved'
      BY <3>3, <3>4, <3>6, <3>7, <3>8 DEF IdsConserved
    <3> QED
      BY <3>9, <3>10
  <2>2. CASE ~LacksContexts(w)
    <3>1. SameCirculation
      BY <1>20, <2>2 DEF CreateContextsAsNecessary, Goto, SameCirculation,
         Circulating
    <3> QED
      BY <3>1, SameCirculationStep
  <2> QED
    BY <2>1, <2>2
<1>21. ASSUME NEW w \in Worker, CheckExit(w)
       PROVE  (NoContextNoIds /\ IdsConserved)'
  <2>1. SameCirculation
    BY <1>21 DEF CheckExit, Goto, SameCirculation, Circulating
  <2> QED
    BY <2>1, SameCirculationStep
<1>22. ASSUME NEW w \in Worker, TakeCtxId(w)
       PROVE  (NoContextNoIds /\ IdsConserved)'
  <2>1. CASE free[w] # <<>> /\ execute /\ ~ShouldExit(w)
    <3>1. Len(Tail(free[w])) = Len(free[w]) - 1
      BY <2>1
    <3>2. /\ free' = [free EXCEPT ![w] = Tail(free[w])]
          /\ pc[w] = "send" /\ pc' = [pc EXCEPT ![w] = "held"]
      BY <1>22, <2>1 DEF TakeCtxId, Goto
    <3>3. \A v \in Worker : Circulating(v)' = Circulating(v)
      <4>1. \A v \in Worker : v # w => Circulating(v)' = Circulating(v)
        BY <1>22, <3>1, <3>2 DEF TakeCtxId, Circulating
      <4>2. Circulating(w)' = Circulating(w)
        <5> DEFINE n == Len(free[w])
                   m == inFlight[w][0]
                   k == finalizing[w][0]
        <5>1. n \in Nat /\ m \in Nat /\ k \in Int
          BY CirculatingParts DEF Basic
        <5>2. Circulating(w) = n + 0 + m + k
          BY <1>22, <3>1, <3>2 DEF TakeCtxId, Circulating
        <5>3. Circulating(w)' = (n - 1) + 1 + m + k
          BY <1>22, <3>1, <3>2 DEF TakeCtxId, Circulating
        <5> HIDE DEF n, m, k
        <5> QED
          BY <5>1, <5>2, <5>3
      <4> QED
        BY <4>1, <4>2
    <3> QED
      BY <1>22, <3>3, SameCirculationStep DEF TakeCtxId, SameCirculation
  <2>2. CASE ~(free[w] # <<>> /\ execute /\ ~ShouldExit(w))
    <3>1. SameCirculation
      BY <1>22, <2>2 DEF TakeCtxId, Goto, SameCirculation, Circulating
    <3> QED
      BY <3>1, SameCirculationStep
  <2> QED
    BY <2>1, <2>2
<1>23. ASSUME NEW w \in Worker, SkipSend(w)
       PROVE  (NoContextNoIds /\ IdsConserved)'
  <2>1. held[w] = 0
    BY <1>23 DEF SkipSend, Holding, OneContext, None, CtxId
  <2>2. \A v \in Worker : v # w => Circulating(v)' = Circulating(v)
    BY <1>23, RestoreQueue DEF SkipSend, RestoreFreeCtxId, Goto, Circulating
  <2>3. CASE ~Async
    <3>1. /\ free' = [free EXCEPT ![w] = Append(free[w], 0)]
          /\ pc[w] = "held" /\ pc' = [pc EXCEPT ![w] = "send"]
      BY <1>23, <2>1, <2>3, RestoreQueue DEF SkipSend, RestoreFreeCtxId, Goto
    <3>2. Len(Append(free[w], 0)) = Len(free[w]) + 1
      OBVIOUS
    <3>3. \A v \in Worker : Circulating(v)' = Circulating(v)
      <4>1. \A v \in Worker : v # w => Circulating(v)' = Circulating(v)
        BY <1>23, <3>1, <3>2 DEF SkipSend, Circulating
      <4>2. Circulating(w)' = Circulating(w)
        <5> DEFINE n == Len(free[w])
                   m == inFlight[w][0]
                   k == finalizing[w][0]
        <5>1. n \in Nat /\ m \in Nat /\ k \in Int
          BY CirculatingParts DEF Basic
        <5>2. Circulating(w) = n + 1 + m + k
          BY <1>23, <3>1, <3>2 DEF SkipSend, Circulating
        <5>3. Circulating(w)' = (n + 1) + 0 + m + k
          BY <1>23, <3>1, <3>2 DEF SkipSend, Circulating
        <5> HIDE DEF n, m, k
        <5> QED
          BY <5>1, <5>2, <5>3
      <4> QED
        BY <4>1, <4>2
    <3>4. SameCirculation
      BY <1>23, <3>3 DEF SkipSend, SameCirculation
    <3> QED
      BY <3>4, SameCirculationStep
  <2>4. CASE Async
    <3>0. /\ pc[w] = "held" /\ pc'[w] = "send"
          /\ UNCHANGED <<free, inFlight, finalizing>>
      BY <1>23, <2>4, RestoreQueue DEF SkipSend, RestoreFreeCtxId, Goto
    <3>1. /\ Circulating(w) \in Nat /\ Circulating(w) # 0
          /\ Circulating(w)' = Circulating(w) - 1
      <4>1. /\ Len(free[w]) \in Nat /\ inFlight[w][0] \in Nat
            /\ finalizing[w][0] \in {0, 1}
        BY CirculatingParts DEF Basic
      <4> QED
        BY <3>0, <4>1 DEF Circulating
    <3>2. \/ earlyExit \/ badStatus[w] \/ badCb[w]
          \/ RequestCount # 0 \/ WarmupCount # 0
      BY <1>23 DEF SkipSend, Refused, ShouldExit, Unlimited
    <3>3. UNCHANGED <<granted, nctx, earlyExit, badStatus, badCb>>
      BY <1>23 DEF SkipSend
    <3>4. granted[w] \in Nat
      OBVIOUS
    <3> QED
      BY <2>2, <3>1, <3>2, <3>3, <3>4, DroppedIdStep
  <2> QED
    BY <2>3, <2>4, ModesAssumption
<1>24. ASSUME NEW w \in Worker, SendAsync(w)
       PROVE  (NoContextNoIds /\ IdsConserved)'
  <2>1. held[w] = 0
    BY <1>24 DEF SendAsync, Holding, OneContext, None, CtxId
  <2> DEFINE n == Len(free[w])
             m == inFlight[w][0]
             k == finalizing[w][0]
  <2>2. n \in Nat /\ m \in Nat /\ k \in Nat
    BY CirculatingParts DEF Basic
  <2>2a. granted[w] \in Nat
    OBVIOUS
  <2>3. /\ pc[w] = "held" /\ pc' = [pc EXCEPT ![w] = "sent"]
        /\ UNCHANGED <<free, finalizing, granted, nctx, earlyExit, badCb>>
    BY <1>24 DEF SendAsync, Goto
  <2>4. Circulating(w) = n + 1 + m + k
    BY <2>3 DEF Circulating
  <2>5. CASE /\ inFlight' = [inFlight EXCEPT ![w][0] = m + 1]
             /\ UNCHANGED badStatus
    <3>1. \A v \in Worker : v # w => Circulating(v)' = Circulating(v)
      BY <2>3, <2>5 DEF Circulating
    <3>2. Circulating(w)' = n + 0 + (m + 1) + k
      BY <2>3, <2>5 DEF Circulating
    <3> HIDE DEF n, m, k
    <3>3. Circulating(w)' = Circulating(w)
      BY <2>2, <2>4, <3>2
    <3> QED
      BY <2>3, <2>5, <3>1, <3>3, SameCirculationStep DEF SameCirculation
  <2>6. CASE /\ UNCHANGED inFlight
             /\ badStatus' = [badStatus EXCEPT ![w] = TRUE]
    <3>1. \A v \in Worker \ {w} : Circulating(v)' = Circulating(v)
      BY <2>3, <2>6 DEF Circulating
    <3>2. Circulating(w)' = n + 0 + m + k
      BY <2>3, <2>6 DEF Circulating
    <3> HIDE DEF n, m, k
    <3>4. /\ Circulating(w) \in Nat \ {0}
          /\ Circulating(w)' = Circulating(w) - 1
      BY <2>2, <2>4, <3>2
    <3>5. badStatus'[w] /\ \A v \in Worker : badStatus[v] => badStatus'[v]
      BY <2>6
    <3> QED
      BY <2>2a, <2>3, <3>1, <3>4, <3>5, DroppedIdStep
  <2> QED
    BY <1>24, <2>1, <2>5, <2>6 DEF SendAsync
<1>25. ASSUME NEW w \in Worker, CountOngoing(w)
       PROVE  (NoContextNoIds /\ IdsConserved)'
  <2>1. UNCHANGED free
    BY <1>25, RestoreQueue DEF CountOngoing, RestoreFreeCtxId, Holding
  <2>2. SameCirculation
    BY <1>25, <2>1 DEF CountOngoing, Goto, SameCirculation, Circulating
  <2> QED
    BY <2>2, SameCirculationStep
<1>26. ASSUME NEW w \in Worker, SendSync(w)
       PROVE  (NoContextNoIds /\ IdsConserved)'
  <2>1. held[w] = 0
    BY <1>26 DEF SendSync, Holding, OneContext, None, CtxId
  <2>2. /\ inFlight' = [inFlight EXCEPT ![w][0] = inFlight[w][0] + 1]
        /\ pc[w] = "held" /\ pc' = [pc EXCEPT ![w] = "infer"]
    BY <1>26, <2>1 DEF SendSync, Goto
  <2>3. \A v \in Worker : Circulating(v)' = Circulating(v)
    <3>1. \A v \in Worker : v # w => Circulating(v)' = Circulating(v)
      BY <1>26, <2>2 DEF SendSync, Circulating
    <3>2. Circulating(w)' = Circulating(w)
      <4> DEFINE n == Len(free[w])
                 m == inFlight[w][0]
                 k == finalizing[w][0]
      <4>1. n \in Nat /\ m \in Nat /\ k \in Int
        BY CirculatingParts DEF Basic
      <4>2. Circulating(w) = n + 1 + m + k
        BY <1>26, <2>2 DEF SendSync, Circulating
      <4>3. Circulating(w)' = n + 0 + (m + 1) + k
        BY <1>26, <2>2 DEF SendSync, Circulating
      <4> HIDE DEF n, m, k
      <4> QED
        BY <4>1, <4>2, <4>3
    <3> QED
      BY <3>1, <3>2
  <2> QED
    BY <1>26, <2>3, SameCirculationStep DEF SendSync, SameCirculation
<1>27. ASSUME NEW w \in Worker, InferReturns(w)
       PROVE  (NoContextNoIds /\ IdsConserved)'
  <2>1. held[w] = 0 /\ ~Async
    BY <1>27 DEF InferReturns, Holding, OneContext, None, CtxId
  <2>2. /\ inFlight' = [inFlight EXCEPT ![w][0] = inFlight[w][0] - 1]
        /\ pc[w] = "infer" /\ pc' = [pc EXCEPT ![w] = "send"]
        /\ free' = [free EXCEPT ![w] = Append(free[w], 0)]
    BY <1>27, <2>1, RestoreQueue DEF InferReturns, Goto, RestoreFreeCtxId
  <2>3. Len(Append(free[w], 0)) = Len(free[w]) + 1
    OBVIOUS
  <2>4. \A v \in Worker : Circulating(v)' = Circulating(v)
    <3>1. \A v \in Worker : v # w => Circulating(v)' = Circulating(v)
      BY <1>27, <2>2, <2>3 DEF InferReturns, Circulating
    <3>2. Circulating(w)' = Circulating(w)
      <4> DEFINE n == Len(free[w])
                 m == inFlight[w][0]
                 k == finalizing[w][0]
      <4>1. n \in Nat /\ m \in Nat /\ k \in Int
        BY CirculatingParts DEF Basic
      <4>2. Circulating(w) = n + 0 + m + k
        BY <1>27, <2>2, <2>3 DEF InferReturns, Circulating
      <4>3. Circulating(w)' = (n + 1) + 0 + (m - 1) + k
        BY <1>27, <2>2, <2>3 DEF InferReturns, Circulating
      <4> HIDE DEF n, m, k
      <4> QED
        BY <4>1, <4>2, <4>3
    <3> QED
      BY <3>1, <3>2
  <2> QED
    BY <1>27, <2>4, SameCirculationStep DEF InferReturns, SameCirculation
<1>28. ASSUME NEW w \in Worker, WaitForResponses(w)
       PROVE  (NoContextNoIds /\ IdsConserved)'
  <2>1. SameCirculation
    BY <1>28 DEF WaitForResponses, Goto, SameCirculation, Circulating
  <2> QED
    BY <2>1, SameCirculationStep
<1>29. ASSUME NEW w \in Worker, CompleteForExit(w)
       PROVE  (NoContextNoIds /\ IdsConserved)'
  <2>2. UNCHANGED <<inFlight, badStatus>>
    BY <1>29, CompleteEffect
       DEF CompleteForExit, Basic, LoadInv
  <2>3. SameCirculation
    BY <1>29, <2>2 DEF CompleteForExit, Goto, SameCirculation, Circulating
  <2> QED
    BY <2>3, SameCirculationStep
<1>30. ASSUME NEW w \in Worker, LeaveInfer(w)
       PROVE  (NoContextNoIds /\ IdsConserved)'
  <2>1. SameCirculation
    BY <1>30 DEF LeaveInfer, Goto, SameCirculation, Circulating
  <2> QED
    BY <2>1, SameCirculationStep
<1>31. ASSUME NEW w \in Worker, NEW c \in CtxId,
              AsyncCallback(w, c)
       PROVE  (NoContextNoIds /\ IdsConserved)'
  <2>1. c = 0
    BY <1>31 DEF AsyncCallback, OneContext
  <2>2. /\ inFlight' = [inFlight EXCEPT ![w][0] = inFlight[w][0] - 1]
        /\ finalizing[w][0] = 0
        /\ finalizing' = [finalizing EXCEPT ![w][0] = 1]
    BY <1>31, <2>1 DEF AsyncCallback
  <2>3. \A v \in Worker : Circulating(v)' = Circulating(v)
    <3>1. \A v \in Worker : v # w => Circulating(v)' = Circulating(v)
      BY <1>31, <2>2 DEF AsyncCallback, Circulating
    <3>2. Circulating(w)' = Circulating(w)
      <4> DEFINE n == Len(free[w])
                 m == inFlight[w][0]
                 k == finalizing[w][0]
                 Held == IF pc[w] = "held" THEN 1 ELSE 0
      <4>1. n \in Nat /\ m \in Nat /\ k \in Int /\ Held \in Int
        BY CirculatingParts DEF Basic
      <4>2. Circulating(w) = n + Held + m + 0
        BY <1>31, <2>2 DEF AsyncCallback, Circulating
      <4>3. Circulating(w)' = n + Held + (m - 1) + 1
        BY <1>31, <2>2 DEF AsyncCallback, Circulating
      <4> HIDE DEF n, m, k, Held
      <4> QED
        BY <4>1, <4>2, <4>3
    <3> QED
      BY <3>1, <3>2
  <2> QED
    BY <1>31, <2>3, SameCirculationStep DEF AsyncCallback, SameCirculation
<1>31g. ASSUME NEW w \in Worker, NEW c \in CtxId,
              AsyncCallbackGivesUp(w, c)
       PROVE  (NoContextNoIds /\ IdsConserved)'
  <2>1. c = 0
    BY <1>31g DEF AsyncCallbackGivesUp, OneContext
  <2> DEFINE n == Len(free[w])
             m == inFlight[w][0]
             k == finalizing[w][0]
             Held == IF pc[w] = "held" THEN 1 ELSE 0
  <2>2. /\ inFlight' = [inFlight EXCEPT ![w][0] = m - 1]
        /\ m > 0
        /\ badCb' = [badCb EXCEPT ![w] = TRUE]
        /\ UNCHANGED <<pc, free, finalizing, granted, nctx, earlyExit,
                       badStatus>>
    BY <1>31g, <2>1 DEF AsyncCallbackGivesUp
  <2>3. \A v \in Worker \ {w} : Circulating(v)' = Circulating(v)
    BY <2>2 DEF Circulating
  <2>4. /\ Circulating(w) = n + Held + m + k
        /\ Circulating(w)' = n + Held + (m - 1) + k
    BY <2>2 DEF Circulating
  <2>5. n \in Nat /\ m \in Nat /\ k \in Nat /\ Held \in Nat
    BY CirculatingParts DEF Basic
  <2>5a. granted[w] \in Nat
    OBVIOUS
  <2>6. badCb'[w] /\ \A v \in Worker : badCb[v] => badCb'[v]
    BY <2>2
  <2> HIDE DEF n, m, k, Held
  <2>7. /\ Circulating(w) \in Nat \ {0}
        /\ Circulating(w)' = Circulating(w) - 1
    BY <2>2, <2>4, <2>5
  <2> QED
    BY <2>2, <2>3, <2>5a, <2>6, <2>7, DroppedIdStep
<1>32. ASSUME NEW w \in Worker, NEW c \in CtxId,
              AsyncCallbackFinalize(w, c)
       PROVE  (NoContextNoIds /\ IdsConserved)'
  <2>1. c = 0
    BY <1>32, RestoreQueue DEF AsyncCallbackFinalize, OneContext
  <2>2. Len(Append(free[w], 0)) = Len(free[w]) + 1
    OBVIOUS
  <2>3. /\ free' = [free EXCEPT ![w] = Append(free[w], 0)]
        /\ finalizing[w][0] = 1
        /\ finalizing' = [finalizing EXCEPT ![w][0] = 0]
    BY <1>32, <2>1, RestoreQueue DEF AsyncCallbackFinalize
  <2>4. \A v \in Worker : Circulating(v)' = Circulating(v)
    <3>1. \A v \in Worker : v # w => Circulating(v)' = Circulating(v)
      BY <1>32, <2>2, <2>3, RestoreQueue DEF AsyncCallbackFinalize, Circulating
    <3>2. Circulating(w)' = Circulating(w)
      <4> DEFINE n == Len(free[w])
                 m == inFlight[w][0]
                 k == finalizing[w][0]
                 Held == IF pc[w] = "held" THEN 1 ELSE 0
      <4>1. n \in Nat /\ m \in Nat /\ k \in Int /\ Held \in Int
        BY CirculatingParts DEF Basic
      <4>2. Circulating(w) = n + Held + m + 1
        BY <1>32, <2>2, <2>3, RestoreQueue DEF AsyncCallbackFinalize,
           Circulating
      <4>3. Circulating(w)' = (n + 1) + Held + m + 0
        BY <1>32, <2>2, <2>3, RestoreQueue DEF AsyncCallbackFinalize,
           Circulating
      <4> HIDE DEF n, m, k, Held
      <4> QED
        BY <4>1, <4>2, <4>3
    <3> QED
      BY <3>1, <3>2
  <2> QED
    BY <1>32, <2>4, SameCirculationStep, RestoreQueue DEF
       AsyncCallbackFinalize, SameCirculation
<1>33. CASE UNCHANGED vars
  <2>1. SameCirculation
    BY <1>33 DEF vars, mainVars, askVars, workerVars, cfgVars, idVars,
       ctxVars, reqVars, SameCirculation, Circulating
  <2> QED
    BY <2>1, SameCirculationStep
<1> QED
  BY <1>1, <1>2, <1>3, <1>4, <1>5, <1>6, <1>7, <1>8, <1>9, <1>10, <1>11,
     <1>12, <1>13, <1>14, <1>15, <1>16, <1>17, <1>18, <1>19, <1>20, <1>21,
     <1>22, <1>23, <1>24, <1>25, <1>26, <1>27, <1>28, <1>29, <1>30, <1>31,
     <1>31g, <1>32, <1>33
     DEF Next, ManagerStep, WorkerStep, Callback, Terminated

-----------------------------------------------------------------------------
(* The shares of a level that rises.                                       *)

\* There are as many threads as the level, or all there may be.
LEMMA ThreadsOfType ==
  ASSUME NEW n \in Nat
  PROVE  /\ ThreadsOf(n) \in 0 .. MaxThreads /\ ThreadsOf(n) <= n
         /\ n # 0 => ThreadsOf(n) # 0
BY SizesAssumption DEF ThreadsOf

\* No thread's share falls when the level rises, and new threads are added
\* only where each has a share of 1.
LEMMA ShareRises ==
  ASSUME NEW a \in Nat \ {0}, NEW b \in Nat, a < b, NEW w \in Nat,
         w < ThreadsOf(a)
  PROVE  Share(a, ThreadsOf(a), w) <= Share(b, ThreadsOf(b), w)
<1>0. /\ MaxThreads \in Nat \ {0}
      /\ ThreadsOf(a) \in Nat \ {0} /\ ThreadsOf(b) \in Nat \ {0}
      /\ ThreadsOf(b) <= b
  BY SizesAssumption DEF ThreadsOf
<1> DEFINE m == ThreadsOf(a)
           n == ThreadsOf(b)
           p == a \div m
           q == b \div n
           r == a % m
           s == b % n
<1>1. p \in Nat /\ r \in 0 .. m - 1 /\ a = m * p + r
  BY <1>0, DivMod
<1>2. q \in Nat /\ s \in 0 .. n - 1 /\ b = n * q + s
  BY <1>0, DivMod
<1>3. /\ Share(a, ThreadsOf(a), w) = p + (IF w < r THEN 1 ELSE 0)
      /\ Share(b, ThreadsOf(b), w) = q + (IF w < s THEN 1 ELSE 0)
  BY DEF Share
<1>4. CASE a >= MaxThreads
  <2>1. m = n
    BY <1>0, <1>4 DEF ThreadsOf
  <2> HIDE DEF p, q, r, s, m, n
  <2>2. CASE q < p
    <3>1. PICK d \in Nat : p = q + 1 + d
      <4>1. p - q - 1 \in Nat /\ p = q + 1 + (p - q - 1)
        BY <1>1, <1>2, <2>2
      <4> QED
        BY <4>1
    <3>2. n \in Nat
      BY <1>0 DEF n
    <3>3. n * p = n * q + n + n * d /\ n * d \in Nat /\ n * q \in Nat
      BY <1>1, <1>2, <3>1, <3>2
    <3> QED
      BY <1>1, <1>2, <2>1, <3>2, <3>3
  <2>3. CASE q = p
    <3>1. n * q \in Nat
      BY <1>0, <1>2 DEF n
    <3>2. r <= s
      BY <1>1, <1>2, <2>1, <2>3, <3>1
    <3> QED
      BY <1>1, <1>2, <1>3, <2>3, <3>2
  <2>4. CASE q > p
    BY <1>1, <1>2, <1>3, <2>4
  <2> QED
    BY <1>1, <1>2, <2>2, <2>3, <2>4
<1>5. CASE a < MaxThreads
  <2>1. m = a
    BY <1>5 DEF ThreadsOf
  <2>2. m \in Nat \ {0} /\ n \in Nat \ {0} /\ n <= b
    BY <1>0
  <2> HIDE DEF p, q, r, s, m, n
  <2>3. p = 1 /\ r = 0
    <3>1. p # 0
      BY <1>1, <2>1, <2>2
    <3>2. CASE p > 1
      <4>1. PICK d \in Nat : p = 2 + d
        <5>1. p - 2 \in Nat /\ p = 2 + (p - 2)
          BY <1>1, <3>2
        <5> QED
          BY <5>1
      <4>2. m * p = m + m + m * d /\ m * d \in Nat
        BY <2>2, <4>1
      <4> QED
        BY <1>1, <2>1, <2>2, <4>2
    <3>3. CASE p = 1
      BY <1>1, <2>1, <2>2, <3>3
    <3> QED
      BY <1>1, <3>1, <3>2, <3>3
  <2>4. q # 0
    <3>1. q = 0 => b = s
      BY <1>2, <2>2
    <3> QED
      BY <1>2, <2>2, <3>1
  <2> QED
    BY <1>1, <1>2, <1>3, <2>3, <2>4
<1> QED
  BY <1>0, <1>4, <1>5

\* Nor does the beginning of its part of the sequence statuses.
LEMMA OffsetRises ==
  ASSUME NEW a \in Nat \ {0}, NEW b \in Nat, a < b, NEW w \in Nat,
         w < ThreadsOf(a)
  PROVE  SeqStatIndexOffset(a, ThreadsOf(a), w)
           <= SeqStatIndexOffset(b, ThreadsOf(b), w)
<1>0. /\ MaxThreads \in Nat \ {0}
      /\ ThreadsOf(a) \in Nat \ {0} /\ ThreadsOf(b) \in Nat \ {0}
      /\ ThreadsOf(b) <= b
  BY SizesAssumption DEF ThreadsOf
<1> DEFINE m == ThreadsOf(a)
           n == ThreadsOf(b)
           p == a \div m
           q == b \div n
           r == a % m
           s == b % n
<1>1. p \in Nat /\ r \in 0 .. m - 1 /\ a = m * p + r
  BY <1>0, DivMod
<1>2. q \in Nat /\ s \in 0 .. n - 1 /\ b = n * q + s
  BY <1>0, DivMod
<1>3. /\ SeqStatIndexOffset(a, ThreadsOf(a), w)
            = w * p + (IF w < r THEN w ELSE r)
      /\ SeqStatIndexOffset(b, ThreadsOf(b), w)
            = w * q + (IF w < s THEN w ELSE s)
  BY DEF SeqStatIndexOffset
<1>4. CASE a >= MaxThreads
  <2>1. m = n /\ m \in Nat
    BY <1>0, <1>4 DEF ThreadsOf
  <2> HIDE DEF p, q, r, s, m, n
  <2>2. w * p \in Nat /\ w * q \in Nat
    BY <1>1, <1>2
  <2>3. CASE q < p
    <3>1. PICK d \in Nat : p = q + 1 + d
      <4>1. p - q - 1 \in Nat /\ p = q + 1 + (p - q - 1)
        BY <1>1, <1>2, <2>3
      <4> QED
        BY <4>1
    <3>2. n * p = n * q + n + n * d /\ n * d \in Nat /\ n * q \in Nat
      BY <1>1, <1>2, <2>1, <3>1
    <3> QED
      BY <1>1, <1>2, <2>1, <3>2
  <2>4. CASE q = p
    <3>1. n * q \in Nat
      BY <1>2, <2>1
    <3>2. r <= s
      BY <1>1, <1>2, <2>1, <2>4, <3>1
    <3> QED
      BY <1>1, <1>2, <1>3, <2>2, <2>4, <3>2
  <2>5. CASE q > p
    <3>1. PICK d \in Nat : q = p + 1 + d
      <4>1. q - p - 1 \in Nat /\ q = p + 1 + (q - p - 1)
        BY <1>1, <1>2, <2>5
      <4> QED
        BY <4>1
    <3>2. w * q = w * p + w + w * d /\ w * d \in Nat
      BY <1>1, <3>1
    <3> QED
      BY <1>1, <1>2, <1>3, <2>2, <3>2
  <2> QED
    BY <1>1, <1>2, <2>3, <2>4, <2>5
<1>5. CASE a < MaxThreads
  <2>1. m = a /\ m \in Nat \ {0}
    BY <1>0, <1>5 DEF ThreadsOf
  <2>2. n \in Nat \ {0} /\ n <= b
    BY <1>0
  <2> HIDE DEF p, q, r, s, m, n
  <2>3. p = 1 /\ r = 0
    <3>1. p # 0
      BY <1>1, <2>1
    <3>2. CASE p > 1
      <4>1. PICK d \in Nat : p = 2 + d
        <5>1. p - 2 \in Nat /\ p = 2 + (p - 2)
          BY <1>1, <3>2
        <5> QED
          BY <5>1
      <4>2. m * p = m + m + m * d /\ m * d \in Nat
        BY <2>1, <4>1
      <4> QED
        BY <1>1, <2>1, <4>2
    <3>3. CASE p = 1
      BY <1>1, <2>1, <3>3
    <3> QED
      BY <1>1, <3>1, <3>2, <3>3
  <2>4. q # 0
    <3>1. q = 0 => b = s
      BY <1>2, <2>2
    <3> QED
      BY <1>2, <2>2, <3>1
  <2>5. PICK d \in Nat : q = 1 + d
    <3>1. q - 1 \in Nat /\ q = 1 + (q - 1)
      BY <1>2, <2>4
    <3> QED
      BY <3>1
  <2>6. w * q = w + w * d /\ w * d \in Nat
    BY <2>5
  <2>7. SeqStatIndexOffset(a, ThreadsOf(a), w) = w
    BY <1>3, <2>3
  <2> QED
    BY <1>2, <1>3, <2>6, <2>7
<1> QED
  BY <1>0, <1>4, <1>5

\* What stays of the spread where no thread and no share changes.
LEMMA SpreadFrame ==
  ASSUME Spread, UNCHANGED <<level, warming, threads, conc>>,
         \/ mpc' = mpc
         \/ mpc' # "pausing" /\ ~Changing /\ ~Changing'
  PROVE  Spread'
<1>1. Target' = Target
  BY DEF Target
<1>2. CASE mpc' = mpc
  BY <1>1, <1>2 DEF Spread, Changing
<1>3. CASE mpc' # "pausing" /\ ~Changing /\ ~Changing'
  <2>1. mpc # "pausing"
    BY <1>3 DEF Changing
  <2>2. threads = ThreadsOf(Target)
    BY <2>1 DEF Spread
  <2> QED
    BY <1>1, <1>3, <2>2 DEF Spread
<1> QED
  BY <1>2, <1>3

\* No search asks for the level it has, and a linear one asks for more.
LEMMA NextLevelDiffers ==
  ASSUME level \in Levels \cup {0}, NEW l \in NextLevels
  PROVE  l # level /\ (Search = "linear" => level < l)
<1>1. \A k \in Levels : k \in Nat \ {0}
  BY LevelsAssumption, SizesAssumption
<1> QED
  BY <1>1 DEF NextLevels

\* BeginLevel asks for more, or for the first level.
LEMMA BeginLevelSpreads ==
  ASSUME Basic, Spread, Rising, NEW l \in Levels, BeginLevel(l)
  PROVE  Spread'
<1>0. /\ l \in Nat \ {0} /\ level \in Nat /\ threads \in Nat
      /\ WarmupCount \in Nat /\ MaxThreads \in Nat \ {0}
      /\ conc \in [Worker -> 0 .. MaxContexts] /\ MaxContexts \in Nat
      /\ level \in Levels \cup {0}
  BY LevelsAssumption, SizesAssumption, LoadTypesParts DEF Basic, TypeOK,
     ManagerTypes, ManagerControl, LoadInv
<1>1. /\ mpc = "idle" /\ mpc' = "pausing" /\ level' = l
      /\ warming' = (WarmupCount # 0)
      /\ threads' = threads /\ conc' = conc
  BY DEF BeginLevel, workerVars, cfgVars
<1>2. level < l /\ (Counted => level = 0)
  <2>1. CASE Counted
    <3>1. level # l
      BY <1>0, NextLevelDiffers DEF BeginLevel
    <3>2. \A k, j \in Levels : k = j
      BY <2>1, CountsAssumption DEF Counted
    <3>3. level = 0
      BY <1>0, <3>1, <3>2
    <3> QED
      BY <1>0, <3>3
  <2>2. CASE ~Counted
    BY <1>0, <2>2, NextLevelDiffers DEF Rising, BeginLevel
  <2> QED
    BY <2>1, <2>2
<1>3. Target' \in Nat \ {0}
  BY <1>0, <1>1 DEF Target
<1>4. \A w \in Worker : w \in Nat
  BY DEF Worker
<1>5. /\ ThreadsOf(Target') \in Nat \ {0}
      /\ \A w \in Worker : Share(Target', ThreadsOf(Target'), w) \in Nat
  <2>1. \A n \in Nat \ {0} : ThreadsOf(n) \in Nat \ {0}
    BY <1>0 DEF ThreadsOf
  <2>2. \A n, m \in Nat \ {0} : \A w \in Worker : Share(n, m, w) \in Nat
    BY <1>4, ShareType
  <2> QED
    BY <1>3, <2>1, <2>2
<1>6. CASE Counted
  <2>1. level = 0 /\ Target = 0
    BY <1>0, <1>2, <1>6 DEF Target
  <2>2. \A w \in Worker : conc[w] = 0
    BY <1>6, <2>1 DEF Spread
  <2>3. threads = 0
    BY <1>0, <2>1 DEF Spread
  <2>4. threads' <= Target'
    BY <1>1, <1>3, <2>3
  <2>5. \A w \in Worker :
           conc'[w] = 0 /\ 0 <= Share(Target', ThreadsOf(Target'), w)
    BY <1>1, <1>5, <2>2
  <2> QED
    BY <1>1, <2>4, <2>5 DEF Spread, Changing
<1>7. CASE ~Counted
  <2>1. Target = level /\ Target' = l
    <3>1. WarmupCount = 0
      BY <1>7 DEF Counted
    <3>2. ~warming
      BY <3>1 DEF Basic, ManagerControl
    <3>3. ~warming'
      BY <1>1, <3>1, Zenon
    <3> QED
      BY <1>1, <3>2, <3>3 DEF Target
  <2>2. threads = ThreadsOf(level)
    BY <1>1, <2>1 DEF Spread
  <2>3. threads' <= Target'
    BY <1>0, <1>1, <1>2, <2>1 DEF Spread
  <2>4. \A w \in Worker : w >= threads' => conc'[w] = 0
    BY <1>1 DEF Spread
  <2>5. \A w \in Worker : w < ThreadsOf(l) =>
           conc'[w] <= Share(l, ThreadsOf(l), w)
    <3> SUFFICES ASSUME NEW w \in Worker
                 PROVE  conc[w] <= Share(l, ThreadsOf(l), w)
      BY <1>1
    <3>0. w \in Nat /\ Share(l, ThreadsOf(l), w) \in Nat
      BY <1>4, <1>5, <2>1
    <3>1. CASE w < threads
      <4>1. conc[w] = Share(level, ThreadsOf(level), w)
        BY <1>1, <2>1, <2>2, <3>1 DEF Spread, Changing
      <4>2. level # 0
        BY <1>0, <2>2, <3>0, <3>1, SizesAssumption DEF ThreadsOf
      <4> QED
        BY <1>0, <1>2, <2>2, <3>0, <3>1, <4>1, <4>2, ShareRises
    <3>2. CASE ~(w < threads)
      <4>1. conc[w] = 0
        BY <1>0, <3>0, <3>2 DEF Spread
      <4> QED
        BY <3>0, <4>1
    <3> QED
      BY <3>1, <3>2
  <2> QED
    BY <1>1, <1>7, <2>1, <2>3, <2>4, <2>5 DEF Spread, Changing
<1> QED
  BY <1>6, <1>7

\* The threads are launched first, then each gets its share.
LEMMA SpreadStep ==
  ASSUME Basic, Spread, Rising, [Next]_vars
  PROVE  Spread'
<1>0. /\ LoadTypes /\ threads \in 0 .. MaxThreads
      /\ MaxThreads \in Nat \ {0} /\ WarmupCount \in Nat
      /\ level \in Nat /\ level \in Levels \cup {0}
      /\ \A w \in Worker : w \in Nat
  BY SizesAssumption, LevelsAssumption DEF Basic, LoadInv, TypeOK,
     ManagerTypes, ManagerControl, Worker
<1>1. CASE \E l \in Levels : BeginLevel(l)
  BY <1>1, BeginLevelSpreads
<1>2. CASE LaunchThreads
  <2>1. /\ mpc = "pausing" /\ mpc' = "configure"
        /\ UNCHANGED <<level, warming, conc>>
        /\ threads' = ThreadsFor(Target)
    BY <1>2, LaunchEffect DEF cfgVars
  <2>2. Target \in Nat /\ Target' = Target
    BY <1>0, <2>1 DEF Target
  <2>3. threads <= Target
    BY DEF Spread
  <2>4. /\ threads' = ThreadsOf(Target) /\ threads' <= Target
        /\ threads' \in Nat /\ threads <= threads'
    BY <1>0, <2>1, <2>2, <2>3 DEF ThreadsFor, ThreadsOf
  <2>5. \A w \in Worker : w >= threads' => conc[w] = 0
    BY <1>0, <2>4 DEF Spread
  <2> QED
    BY <2>1, <2>2, <2>4, <2>5 DEF Spread, Changing
<1>3. CASE ConfigureThreads
  <2>1. /\ mpc = "configure" /\ mpc' = "offsets"
        /\ UNCHANGED <<level, warming, threads>>
        /\ \A w \in Worker :
              IF w < threads THEN conc'[w] = Share(Target, threads, w)
                             ELSE conc'[w] = conc[w]
    BY <1>3, ConfigureEffect DEF askVars
  <2>2. /\ threads = ThreadsOf(Target) /\ Target' = Target /\ level # 0
        /\ threads <= Target
    BY <2>1 DEF Spread, Target, Basic, ManagerControl
  <2>3. \A w \in Worker : w >= threads => conc'[w] = 0
    <3> TAKE w \in Worker
    <3>1. w >= threads => ~(w < threads)
      BY <1>0
    <3> QED
      BY <2>1, <3>1 DEF Spread
  <2>4. \A w \in Worker : w < threads => conc'[w] = Share(Target, threads, w)
    BY <2>1
  <2> QED
    BY <2>1, <2>2, <2>3, <2>4 DEF Spread, Changing
<1>4. CASE EndWarmup
  <2>1. /\ mpc' = "pausing" /\ threads' = 0 /\ ~warming' /\ level' = level
        /\ \A w \in Worker : conc'[w] = 0
    BY <1>4 DEF EndWarmup, WaitForWarmupAndCleanup, Each
  <2>2. Target' = level
    BY <2>1 DEF Target
  <2>3. \A w \in Worker :
           w < ThreadsOf(level) => 0 <= Share(level, ThreadsOf(level), w)
    <3> SUFFICES ASSUME NEW w \in Worker, w < ThreadsOf(level)
                 PROVE  0 <= Share(level, ThreadsOf(level), w)
      OBVIOUS
    <3>1. ThreadsOf(level) \in Nat \ {0} /\ w \in Nat
      BY <1>0 DEF ThreadsOf
    <3> QED
      BY <1>0, <3>1, ShareType
  <2>4. threads' <= Target'
    BY <1>0, <2>1, <2>2
  <2> QED
    BY <2>1, <2>2, <2>3, <2>4 DEF Spread, Changing
<1>5. CASE MainStep /\ ~(\E l \in Levels : BeginLevel(l)) /\ ~LaunchThreads
           /\ ~ConfigureThreads /\ ~EndWarmup
  <2>1. UNCHANGED <<level, warming, threads, conc>>
    BY <1>5 DEF MainStep, SeePaused, StoreOffsets, StoreRequestCounts,
       ResumeSequenceWorkers, NotifyWorkers, DiscardRecords, EndMeasure,
       SignalHandler, StopWorkerThreads, StopNotify, JoinThreads, askVars,
       workerVars, cfgVars
  <2>2. \/ mpc' = mpc
        \/ mpc' # "pausing" /\ ~Changing /\ ~Changing'
    BY <1>5 DEF MainStep, SeePaused, StoreOffsets, StoreRequestCounts,
       ResumeSequenceWorkers, NotifyWorkers, DiscardRecords, EndMeasure,
       SignalHandler, StopWorkerThreads, StopNotify, JoinThreads, Changing
  <2> QED
    BY <2>1, <2>2, SpreadFrame
<1>6. ASSUME NEW w \in Worker, ConcOwnStep(w) \/ SharedWorkerStep(w)
      PROVE  Spread'
  <2>1. UNCHANGED <<mainVars, cfgVars>>
    BY <1>0, <1>6, ConcOwnTypes, SharedFrame
  <2> QED
    BY <2>1, SpreadFrame DEF mainVars, askVars, cfgVars
<1>7. ASSUME NEW w \in Worker, NEW c \in CtxId, Callback(w, c)
      PROVE  Spread'
  <2>1. UNCHANGED <<mainVars, cfgVars>>
    BY <1>0, <1>7, CallbackFrame
  <2> QED
    BY <2>1, SpreadFrame DEF mainVars, askVars, cfgVars
<1>8. CASE UNCHANGED vars
  BY <1>8, SpreadFrame DEF vars, mainVars, askVars, workerVars, cfgVars
<1> QED
  BY <1>1, <1>2, <1>3, <1>4, <1>5, <1>6, <1>7, <1>8, ConcNextCases
     DEF MainStep

\* Where no thread is launched and no offset stored, they stay in place.
LEMMA PlacedFrame ==
  ASSUME Placed, UNCHANGED <<level, warming, threads, offset>>,
         \/ mpc' = mpc
         \/ mpc = "configure" /\ mpc' = "offsets"
         \/ /\ ~Changing /\ ~Changing'
            /\ mpc # "offsets" /\ mpc' # "offsets"
  PROVE  Placed'
<1>1. Target' = Target
  BY DEF Target
<1>2. (Changing \/ mpc = "offsets") = (Changing' \/ mpc' = "offsets")
  BY DEF Changing
<1> QED
  BY <1>1, <1>2 DEF Placed

\* Nothing moves before the new offsets are stored.
LEMMA BeginLevelPlaces ==
  ASSUME Basic, Spread, Placed, Rising, NEW l \in Levels, BeginLevel(l)
  PROVE  Placed'
<1>0. /\ l \in Nat \ {0} /\ level \in Nat /\ threads \in Nat
      /\ WarmupCount \in Nat /\ level \in Levels \cup {0}
      /\ \A w \in Worker : w \in Nat
  BY LevelsAssumption, SizesAssumption DEF Basic, TypeOK, ManagerTypes,
     ManagerControl, Worker
<1>1. /\ mpc = "idle" /\ mpc' = "pausing" /\ level' = l
      /\ warming' = (WarmupCount # 0)
      /\ UNCHANGED <<threads, offset>>
  BY DEF BeginLevel, workerVars, cfgVars
<1>2. Target' \in Nat \ {0}
  BY <1>0, <1>1 DEF Target
<1>3. ASSUME NEW w \in Worker, w < ThreadsOf(Target')
      PROVE  offset[w] <= SeqStatIndexOffset(Target', ThreadsOf(Target'), w)
  <2>1. /\ ThreadsOf(Target') \in Nat \ {0}
        /\ SeqStatIndexOffset(Target', ThreadsOf(Target'), w) \in Nat
    <3>1. \A n \in Nat \ {0} : ThreadsOf(n) \in Nat \ {0}
      BY SizesAssumption DEF ThreadsOf
    <3>2. \A n, m \in Nat \ {0} : SeqStatIndexOffset(n, m, w) \in Nat
      BY <1>0, ShareType
    <3> QED
      BY <1>2, <3>1, <3>2
  <2>2. CASE w >= threads
    BY <2>1, <2>2 DEF Placed
  <2>3. CASE w < threads
    <3>1. threads = ThreadsOf(Target) /\ threads <= Target
      BY <1>1 DEF Spread
    <3>2. level # 0
      BY <1>0, <2>3, <3>1 DEF Target
    <3>3. ~Counted /\ level < l
      <4>1. level # l
        BY <1>0, NextLevelDiffers DEF BeginLevel
      <4>2. Counted => \A k, j \in Levels : k = j
        BY CountsAssumption DEF Counted
      <4>3. ~Counted
        BY <1>0, <3>2, <4>1, <4>2
      <4> QED
        BY <1>0, <4>3, NextLevelDiffers DEF Rising, BeginLevel
    <3>4. Target = level /\ Target' = l
      <4>1. WarmupCount = 0
        BY <3>3 DEF Counted
      <4>2. ~warming
        BY <1>0, <4>1 DEF Basic, ManagerControl
      <4>3. ~warming'
        BY <1>1, <4>1, Zenon
      <4> QED
        BY <1>1, <4>2, <4>3 DEF Target
    <3>5. offset[w] = SeqStatIndexOffset(level, ThreadsOf(level), w)
      BY <1>1, <2>3, <3>1, <3>4 DEF Placed, Changing
    <3> QED
      BY <1>0, <2>3, <3>1, <3>2, <3>3, <3>4, <3>5, OffsetRises
  <2> QED
    BY <1>0, <2>2, <2>3
<1> QED
  BY <1>1, <1>3 DEF Placed, Changing

\* The offsets are stored last.
LEMMA PlacedStep ==
  ASSUME Basic, Spread, Placed, Rising, [Next]_vars
  PROVE  Placed'
<1>0. /\ LoadTypes /\ threads \in Nat /\ WarmupCount \in Nat /\ level \in Nat
      /\ \A w \in Worker : w \in Nat
  BY SizesAssumption DEF Basic, LoadInv, TypeOK, ManagerTypes, Worker
<1>1. CASE \E l \in Levels : BeginLevel(l)
  BY <1>1, BeginLevelPlaces
<1>2. CASE LaunchThreads
  <2>1. /\ mpc = "pausing" /\ mpc' = "configure"
        /\ UNCHANGED <<level, warming, offset>>
        /\ threads' \in Nat /\ threads <= threads'
    BY <1>2, LaunchEffect DEF cfgVars
  <2>2. Target' = Target
    BY <2>1 DEF Target
  <2>3. \A w \in Worker : w >= threads' => offset[w] = 0
    BY <1>0, <2>1 DEF Placed
  <2> QED
    BY <2>1, <2>2, <2>3 DEF Placed, Changing
<1>3. CASE StoreOffsets
  <2>1. /\ mpc = "offsets" /\ mpc' = "counts"
        /\ UNCHANGED <<level, warming, threads>>
        /\ \A w \in Worker :
              IF w < threads
              THEN offset'[w] = SeqStatIndexOffset(Target, threads, w)
              ELSE offset'[w] = offset[w]
    BY <1>3, StoreOffsetsEffect DEF askVars
  <2>2. threads = ThreadsOf(Target) /\ Target' = Target
    BY <2>1 DEF Spread, Target
  <2>3. \A w \in Worker : w >= threads => offset'[w] = 0
    <3> TAKE w \in Worker
    <3>1. w >= threads => ~(w < threads)
      BY <1>0
    <3> QED
      BY <2>1, <3>1 DEF Placed
  <2> QED
    BY <2>1, <2>2, <2>3 DEF Placed, Changing
<1>4. CASE EndWarmup
  <2>1. /\ mpc' = "pausing" /\ ~warming' /\ level' = level
        /\ \A w \in Worker : offset'[w] = 0
    BY <1>4 DEF EndWarmup, WaitForWarmupAndCleanup, Each
  <2>2. Target' = level
    BY <2>1 DEF Target
  <2>3. \A w \in Worker : w < ThreadsOf(level) =>
           0 <= SeqStatIndexOffset(level, ThreadsOf(level), w)
    <3> SUFFICES ASSUME NEW w \in Worker, w < ThreadsOf(level)
                 PROVE  0 <= SeqStatIndexOffset(level, ThreadsOf(level), w)
      OBVIOUS
    <3>1. ThreadsOf(level) \in Nat \ {0} /\ w \in Nat
      BY <1>0, SizesAssumption DEF ThreadsOf
    <3> QED
      BY <1>0, <3>1, ShareType
  <2> QED
    BY <2>1, <2>2, <2>3 DEF Placed, Changing
<1>5. CASE MainStep /\ ~(\E l \in Levels : BeginLevel(l)) /\ ~LaunchThreads
           /\ ~StoreOffsets /\ ~EndWarmup
  <2>1. UNCHANGED <<level, warming, threads, offset>>
    BY <1>5 DEF MainStep, SeePaused, ConfigureThreads, StoreRequestCounts,
       ResumeSequenceWorkers, NotifyWorkers, DiscardRecords, EndMeasure,
       SignalHandler, StopWorkerThreads, StopNotify, JoinThreads, askVars,
       workerVars, cfgVars
  <2>2. \/ mpc' = mpc
        \/ mpc = "configure" /\ mpc' = "offsets"
        \/ /\ ~Changing /\ ~Changing'
           /\ mpc # "offsets" /\ mpc' # "offsets"
    BY <1>5 DEF MainStep, SeePaused, ConfigureThreads, StoreRequestCounts,
       ResumeSequenceWorkers, NotifyWorkers, DiscardRecords, EndMeasure,
       SignalHandler, StopWorkerThreads, StopNotify, JoinThreads, Changing
  <2> QED
    BY <2>1, <2>2, PlacedFrame
<1>6. ASSUME NEW w \in Worker, ConcOwnStep(w) \/ SharedWorkerStep(w)
      PROVE  Placed'
  <2>1. UNCHANGED <<mainVars, cfgVars>>
    BY <1>0, <1>6, ConcOwnTypes, SharedFrame
  <2> QED
    BY <2>1, PlacedFrame DEF mainVars, askVars, cfgVars
<1>7. ASSUME NEW w \in Worker, NEW c \in CtxId, Callback(w, c)
      PROVE  Placed'
  <2>1. UNCHANGED <<mainVars, cfgVars>>
    BY <1>0, <1>7, CallbackFrame
  <2> QED
    BY <2>1, PlacedFrame DEF mainVars, askVars, cfgVars
<1>8. CASE UNCHANGED vars
  BY <1>8, PlacedFrame DEF vars, mainVars, askVars, workerVars, cfgVars
<1> QED
  BY <1>1, <1>2, <1>3, <1>4, <1>5, <1>6, <1>7, <1>8, ConcNextCases

\* A thread's share does not fall.
LEMMA ConfigureRises ==
  ASSUME Basic, Spread, ConfigureThreads, NEW w \in Worker
  PROVE  conc[w] <= conc'[w]
<1>1. /\ mpc = "configure" /\ threads \in Nat
      /\ conc[w] \in Nat /\ w \in Nat
      /\ IF w < threads THEN conc'[w] = Share(Target, threads, w)
                        ELSE conc'[w] = conc[w]
  BY ConfigureEffect, LoadTypesParts DEF Basic, LoadInv, Worker
<1>2. threads = ThreadsOf(Target) /\ Changing
  BY <1>1 DEF Spread, Changing
<1> QED
  BY <1>1, <1>2 DEF Spread

-----------------------------------------------------------------------------
(* A worker's contexts.                                                    *)

\* A worker without a share has made no context, and has nothing open and
\* nothing out.
LEMMA NoShareNothingOut ==
  ASSUME LoadTypes, NEW w \in Worker, OwnIds(w), nctx[w] = 0
  PROVE  /\ OpenCtxs(w) = {}
         /\ \A c \in CtxId : inFlight[w][c] = 0 /\ finalizing[w][c] = 0
<1>1. \A c \in CtxId : c \in Nat /\ c >= nctx[w]
  BY DEF CtxId
<1> QED
  BY <1>1 DEF OpenCtxs, OwnIds

\* What OwnIds looks at.
LEMMA OwnIdsFrame ==
  ASSUME LoadTypes, LoadTypes', NEW w \in Worker, OwnIds(w),
         conc'[w] >= conc[w], nctx'[w] = nctx[w],
         pc'[w] \in SendingPc => pc[w] \in SendingPc,
         pc'[w] = "left" => pc[w] = "left" \/ nctx[w] = 0,
         conc'[w] = 0 => pc'[w] \in NotBegunPc /\ sent'[w] = 0,
         held'[w] \in {held[w], None},
         free'[w] = free[w],
         inFlight'[w] = inFlight[w], finalizing'[w] = finalizing[w]
  PROVE  OwnIds(w)'
<1>1. /\ conc[w] \in Nat /\ conc'[w] \in Nat /\ nctx[w] \in Nat
      /\ free[w] \in Seq(CtxId)
  <2>1. conc' \in [Worker -> 0 .. MaxContexts]
    BY DEF LoadTypes, ConfigTypes
  <2>2. conc[w] \in Nat /\ nctx[w] \in Nat /\ free[w] \in Seq(CtxId)
    BY LoadTypesParts
  <2> QED
    BY <2>1, <2>2
<1>2. \A i \in 1 .. Len(free[w]) : free[w][i] \in Nat
  <2>1. \A i \in 1 .. Len(free[w]) : free[w][i] \in CtxId
    BY <1>1
  <2> QED
    BY <2>1 DEF CtxId
<1>3. \A i \in 1 .. Len(free'[w]) :
         /\ free'[w][i] < conc'[w]
         /\ pc'[w] \in SendingPc => free'[w][i] < nctx'[w]
  BY <1>1, <1>2 DEF OwnIds
<1>4. nctx'[w] <= conc'[w]
  BY <1>1 DEF OwnIds
<1>5. \A c \in CtxId :
         c >= nctx'[w] => inFlight'[w][c] = 0 /\ finalizing'[w][c] = 0
  BY DEF OwnIds
<1>6. held'[w] = None \/ held'[w] < nctx'[w]
  BY DEF OwnIds
<1>7. pc'[w] = "left" => nctx'[w] = 0
  BY DEF OwnIds
<1> QED
  BY <1>3, <1>4, <1>5, <1>6, <1>7 DEF OwnIds

\* What the main thread's steps leave of them.
LEMMA MainOwnIds ==
  ASSUME Basic, Spread, \A v \in Worker : OwnIds(v), MainStep,
         NEW w \in Worker
  PROVE  OwnIds(w)'
<1>0. LoadTypes /\ LoadTypes' /\ OwnIds(w)
  BY ConcManagerKeeps DEF Basic, LoadInv
<1>1. /\ conc[w] \in Nat /\ \A c \in CtxId : c \in Nat
  BY <1>0, LoadTypesParts DEF CtxId
<1>2. CASE ConfigureThreads
  <2>1. conc[w] <= conc'[w] /\ conc'[w] \in Nat
    BY <1>2, ConfigureRises, ConfigureEffect
  <2>2. UNCHANGED <<pc, idVars, reqVars>>
    BY <1>2, ConfigureEffect
  <2>3. conc'[w] = 0 => conc[w] = 0
    BY <1>1, <2>1
  <2>4. conc'[w] = 0 => pc'[w] \in NotBegunPc /\ sent'[w] = 0
    BY <2>2, <2>3 DEF OwnIds, reqVars
  <2> QED
    BY <1>0, <1>1, <2>1, <2>2, <2>4, OwnIdsFrame DEF idVars, reqVars, ctxVars
<1>3. CASE EndWarmup
  <2>1. /\ pc'[w] = "none" /\ sent'[w] = 0 /\ nctx'[w] = 0 /\ conc'[w] = 0
        /\ held'[w] = None /\ free'[w] = <<>>
        /\ \A c \in CtxId : inFlight'[w][c] = 0 /\ finalizing'[w][c] = 0
    BY <1>3 DEF EndWarmup, WaitForWarmupAndCleanup, Each, EachCtx
  <2> QED
    BY <2>1 DEF OwnIds, NotBegunPc
<1>4. CASE LaunchThreads
  <2>1. /\ pc'[w] = pc[w] \/ pc'[w] = "top"
        /\ UNCHANGED <<cfgVars, idVars, reqVars>>
    BY <1>4, LaunchEffect
  <2>2. conc'[w] = 0 => pc'[w] \in NotBegunPc /\ sent'[w] = 0
    BY <1>0, <2>1 DEF OwnIds, cfgVars, reqVars, NotBegunPc
  <2>3. conc'[w] >= conc[w]
    BY <1>1, <2>1 DEF cfgVars
  <2>4. /\ pc'[w] \in SendingPc => pc[w] \in SendingPc
        /\ pc'[w] = "left" => pc[w] = "left"
    BY <2>1 DEF SendingPc
  <2> QED
    BY <1>0, <2>1, <2>2, <2>3, <2>4, OwnIdsFrame DEF idVars, reqVars, ctxVars
<1>5. CASE EndMeasure
  <2>1. /\ UNCHANGED <<cfgVars, pc, idVars, ctxVars>>
        /\ sent'[w] = sent[w] \/ sent'[w] = 0
    BY <1>5 DEF EndMeasure, Each
  <2>2. conc'[w] = 0 => pc'[w] \in NotBegunPc /\ sent'[w] = 0
    BY <1>0, <2>1 DEF OwnIds, cfgVars
  <2>3. conc'[w] >= conc[w]
    BY <1>1, <2>1 DEF cfgVars
  <2> QED
    BY <1>0, <2>1, <2>2, <2>3, OwnIdsFrame DEF idVars, ctxVars
<1>6. CASE NotifyWorkers \/ StopNotify
  <2>1. WakeAll /\ UNCHANGED <<cfgVars, idVars, reqVars>>
    BY <1>6 DEF NotifyWorkers, StopNotify
  <2>2. \/ pc'[w] = pc[w]
        \/ pc[w] = "offsleep" /\ pc'[w] = "offcheck"
        \/ pc[w] = "ncsleep" /\ pc'[w] = "nccheck"
    BY <2>1 DEF WakeAll
  <2>3. conc'[w] = 0 => pc'[w] \in NotBegunPc /\ sent'[w] = 0
    BY <1>0, <2>1, <2>2 DEF OwnIds, cfgVars, reqVars, NotBegunPc, Parked
  <2>4. conc'[w] >= conc[w]
    BY <1>1, <2>1 DEF cfgVars
  <2>5. /\ pc'[w] \in SendingPc => pc[w] \in SendingPc
        /\ pc'[w] = "left" => pc[w] = "left"
    BY <2>2 DEF SendingPc
  <2> QED
    BY <1>0, <2>1, <2>3, <2>4, <2>5, OwnIdsFrame DEF idVars, reqVars, ctxVars
<1>7. CASE \/ \E l \in Levels : BeginLevel(l)
           \/ SeePaused \/ StoreOffsets \/ StoreRequestCounts
           \/ ResumeSequenceWorkers \/ DiscardRecords \/ SignalHandler
           \/ StopWorkerThreads \/ JoinThreads
  <2>1. UNCHANGED <<conc, pc, idVars, reqVars>>
    BY <1>7 DEF BeginLevel, SeePaused, StoreOffsets, StoreRequestCounts,
       ResumeSequenceWorkers, DiscardRecords, SignalHandler,
       StopWorkerThreads, JoinThreads, workerVars, cfgVars
  <2> QED
    BY <1>0, <2>1 DEF OwnIds, idVars, reqVars, ctxVars
<1> QED
  BY <1>2, <1>3, <1>4, <1>5, <1>6, <1>7 DEF MainStep

\* A new context is one of the worker's share, and so are the ids that the
\* tracker is given.
LEMMA CreateOwnIds ==
  ASSUME Basic, OneContext, NEW w \in Worker, OwnIds(w),
         CreateContextsAsNecessary(w)
  PROVE  OwnIds(w)'
<1>0. /\ LoadTypes /\ LoadTypes' /\ conc[w] \in Nat
      /\ conc[w] \in 0 .. MaxContexts /\ nctx[w] \in Nat
      /\ nctx \in [Worker -> 0 .. MaxContexts]
      /\ free \in [Worker -> Seq(CtxId)]
      /\ \A c \in CtxId : c \in Nat
  <2>1. LoadTypes /\ LoadTypes'
    BY ConcOwnTypes DEF Basic, LoadInv, ConcOwnStep
  <2> QED
    BY <2>1, LoadTypesParts DEF CtxId
<1>1. /\ pc[w] = "ctx" /\ pc'[w] = "exit1"
      /\ UNCHANGED <<cfgVars, held, sent, ctxVars>>
  BY <1>0, LoadTypesParts, GotoType
     DEF CreateContextsAsNecessary, Goto
<1>2. conc[w] # 0
  BY <1>1 DEF OwnIds, NotBegunPc, Parked
<1>3. ContextsNeeded(w) \in Nat /\ ContextsNeeded(w) <= conc[w]
  BY <1>0, <1>2 DEF ContextsNeeded
<1>4. CASE LacksContexts(w)
  <2>1. /\ nctx' = [nctx EXCEPT ![w] = ContextsNeeded(w)]
        /\ free' = [free EXCEPT ![w] = FreshIds(conc[w])]
    BY <1>4 DEF CreateContextsAsNecessary, ResetFreeCtxIds, ResetTracker
  <2>2. nctx'[w] = ContextsNeeded(w) /\ free'[w] = FreshIds(conc[w])
    BY <1>0, <2>1
  <2>3. nctx[w] < nctx'[w] /\ nctx'[w] \in Nat
    BY <1>0, <1>3, <1>4, <2>2 DEF LacksContexts
  <2>4. \A i \in 1 .. Len(free'[w]) :
           free'[w][i] < conc[w] /\ free'[w][i] < nctx'[w]
    <3>1. FreshIds(conc[w]) =
            [i \in 1 .. conc[w] |-> IF Tracker = "Fifo" THEN i - 1 ELSE 0]
      BY TrackerAssumption DEF FreshIds
    <3>2. Len(free'[w]) = conc[w]
      BY <1>0, <2>2, <3>1
    <3>3. \A i \in 1 .. conc[w] :
             free'[w][i] = IF OnSequenceModel THEN i - 1 ELSE 0
      BY <2>2, <3>1, TrackerAssumption
    <3> QED
      BY <1>0, <1>2, <2>2, <3>2, <3>3 DEF ContextsNeeded
  <2>5. \A c \in CtxId : c >= nctx'[w] =>
           inFlight'[w][c] = 0 /\ finalizing'[w][c] = 0
    <3> TAKE c \in CtxId
    <3>1. c >= nctx'[w] => c >= nctx[w]
      BY <1>0, <2>3
    <3> QED
      BY <1>1, <3>1 DEF OwnIds, ctxVars
  <2>6. held'[w] = None \/ held'[w] < nctx'[w]
    <3>1. held \in [Worker -> CtxId \cup {None}]
      BY <1>0, LoadTypesParts
    <3>2. held[w] # None => held[w] \in Nat
      BY <1>0, <3>1
    <3> QED
      BY <1>0, <1>1, <2>3, <3>2 DEF OwnIds
  <2> QED
    BY <1>1, <1>2, <1>3, <2>2, <2>4, <2>5, <2>6 DEF OwnIds, cfgVars
<1>5. CASE ~LacksContexts(w)
  <2>1. nctx' = nctx /\ free' = free
    BY <1>5 DEF CreateContextsAsNecessary
  <2>2. \A i \in 1 .. Len(free[w]) : free[w][i] < nctx[w]
    <3> TAKE i \in 1 .. Len(free[w])
    <3>1. ContextsNeeded(w) <= nctx[w]
      BY <1>0, <1>3, <1>5 DEF LacksContexts
    <3>2. free[w][i] < conc[w] /\ free[w][i] \in Nat
      BY <1>0 DEF OwnIds
    <3>3. CASE OnSequenceModel
      BY <1>0, <3>1, <3>2, <3>3 DEF ContextsNeeded
    <3>4. CASE ~OnSequenceModel
      <4>1. free[w][i] = 0
        BY <3>4 DEF OneContext
      <4> QED
        BY <1>0, <3>1, <3>4, <4>1 DEF ContextsNeeded
    <3> QED
      BY <3>3, <3>4
  <2> QED
    BY <1>1, <1>2, <2>1, <2>2 DEF OwnIds, cfgVars, ctxVars
<1> QED
  BY <1>4, <1>5

\* A worker's own step makes contexts of its share, and takes and refills ids
\* of them.
LEMMA ConcOwnOwnIds ==
  ASSUME Basic, OneContext, NEW w \in Worker, OwnIds(w), ConcOwnStep(w)
  PROVE  OwnIds(w)'
<1>0. /\ LoadTypes /\ LoadTypes'
      /\ conc \in [Worker -> 0 .. MaxContexts]
      /\ conc[w] \in Nat /\ conc[w] \in 0 .. MaxContexts
      /\ nctx[w] \in Nat
      /\ free \in [Worker -> Seq(CtxId)]
      /\ held \in [Worker -> CtxId \cup {None}]
  <2>1. LoadTypes /\ LoadTypes'
    BY ConcOwnTypes DEF Basic, LoadInv
  <2> QED
    BY <2>1, LoadTypesParts
<1>1. UNCHANGED <<cfgVars, sent, ctxVars>>
  BY <1>0, ConcOwnTypes
<1>2. /\ <<pc[w], pc'[w]>> \in ConcMoves
      /\ pc'[w] = "ctx" => conc[w] # 0
      /\ pc'[w] = "left" => conc[w] = 0
  BY <1>0, ConcMoveEffect
<1>3. conc'[w] = 0 => pc'[w] \in NotBegunPc /\ sent'[w] = 0
  BY <1>1, <1>2 DEF OwnIds, cfgVars, ConcMoves, NotBegunPc, Parked
<1>4. pc'[w] = "left" => nctx[w] = 0
  BY <1>0, <1>2 DEF OwnIds
<1>5. CASE CreateContextsAsNecessary(w)
  BY <1>5, CreateOwnIds
<1>6. CASE DeclarePaused(w)
  <2>1. /\ pc[w] = "offwait" /\ pc'[w] = "offcheck"
        /\ free' = [free EXCEPT ![w] = FreshIds(conc[w])]
        /\ nctx' = nctx /\ held' = held
    BY <1>0, <1>6, LoadTypesParts DEF DeclarePaused, Goto, ResetFreeCtxIds,
       ResetTracker
  <2>2. \A i \in 1 .. Len(free'[w]) : free'[w][i] < conc[w]
    <3>1. FreshIds(conc[w]) =
            [i \in 1 .. conc[w] |-> IF Tracker = "Fifo" THEN i - 1 ELSE 0]
      BY TrackerAssumption DEF FreshIds
    <3>2. Len(free'[w]) = conc[w] /\ free'[w] = FreshIds(conc[w])
      BY <1>0, <2>1, <3>1
    <3>3. \A i \in 1 .. conc[w] : free'[w][i] \in {i - 1, 0}
      BY <3>1, <3>2
    <3> QED
      BY <1>0, <3>2, <3>3
  <2> QED
    BY <1>1, <1>3, <2>1, <2>2 DEF OwnIds, cfgVars, ctxVars, SendingPc
<1>7. CASE TakeCtxId(w) /\ free[w] # <<>> /\ execute /\ ~ShouldExit(w)
  <2>1. /\ pc[w] = "send" /\ pc'[w] = "held" /\ nctx' = nctx
        /\ held'[w] = Head(free[w]) /\ free'[w] = Tail(free[w])
    BY <1>0, <1>7, LoadTypesParts DEF TakeCtxId, Goto
  <2>2. /\ Len(free[w]) \in Nat \ {0} /\ Head(free[w]) = free[w][1]
        /\ Len(Tail(free[w])) = Len(free[w]) - 1
        /\ \A i \in 1 .. Len(Tail(free[w])) : Tail(free[w])[i] = free[w][i + 1]
    BY <1>0, <1>7
  <2>3. \A i \in 1 .. Len(free[w]) :
           free[w][i] < conc[w] /\ free[w][i] < nctx[w]
    BY <2>1 DEF OwnIds, SendingPc
  <2>4. held'[w] < nctx[w]
    BY <2>1, <2>2, <2>3
  <2>5. \A i \in 1 .. Len(free'[w]) :
           free'[w][i] < conc[w] /\ free'[w][i] < nctx[w]
    BY <2>1, <2>2, <2>3
  <2> QED
    BY <1>1, <1>3, <2>1, <2>4, <2>5 DEF OwnIds, cfgVars, ctxVars
<1>8. CASE /\ ~CreateContextsAsNecessary(w) /\ ~DeclarePaused(w)
           /\ ~(TakeCtxId(w) /\ free[w] # <<>> /\ execute /\ ~ShouldExit(w))
  <2>1. UNCHANGED <<nctx, free, held>>
    BY <1>8 DEF ConcOwnStep, HandleExecuteOff, Unpause, HandleNoConcurrency,
       TestConcurrency, CheckExit, TakeCtxId, WaitForResponses, idVars
  <2>2. pc'[w] # "exit1"
    BY <1>8, <1>0, LoadTypesParts DEF ConcOwnStep, HandleExecuteOff,
       Unpause, HandleNoConcurrency, TestConcurrency, CheckExit, TakeCtxId,
       WaitForResponses, Goto
  <2>3. pc'[w] \in SendingPc => pc[w] \in SendingPc
    BY <1>2, <2>2 DEF ConcMoves, SendingPc
  <2>4. conc'[w] >= conc[w]
    BY <1>0, <1>1 DEF cfgVars
  <2> QED
    BY <1>0, <1>1, <1>3, <1>4, <2>1, <2>3, <2>4, OwnIdsFrame DEF ctxVars
<1> QED
  BY <1>5, <1>6, <1>7, <1>8

\* A step that all workers have gives an id back, and sends on contexts there
\* are.
LEMMA SharedOwnIds ==
  ASSUME Basic, NEW w \in Worker, OwnIds(w), SharedWorkerStep(w)
  PROVE  OwnIds(w)'
<1>0. /\ LoadTypes /\ LoadTypes' /\ Holding
      /\ conc[w] \in Nat /\ nctx[w] \in Nat /\ free[w] \in Seq(CtxId)
      /\ held[w] \in CtxId \cup {None}
      /\ inFlight[w] \in [CtxId -> Nat]
      /\ inFlight'[w] \in [CtxId -> Nat]
  <2>1. LoadTypes /\ LoadTypes' /\ Holding
    BY SharedWorkerStepKeeps DEF Basic, LoadInv
  <2>2. inFlight' \in [Worker -> [CtxId -> Nat]]
    BY <2>1 DEF LoadTypes, ContextTypes
  <2> QED
    BY <2>1, <2>2, LoadTypesParts
<1>1. /\ UNCHANGED <<cfgVars, nctx, finalizing>>
      /\ held'[w] \in {held[w], None}
      /\ free'[w] \in {free[w], Append(free[w], held[w])}
  BY <1>0, SharedFrame
<1>2. <<pc[w], pc'[w]>> \in SharedMoves
  BY <1>0, SharedMoveEffect
<1>3. conc[w] = 0 => pc'[w] \in NotBegunPc /\ sent'[w] = 0
  <2> SUFFICES ASSUME conc[w] = 0
               PROVE  pc'[w] \in NotBegunPc /\ sent'[w] = 0
    OBVIOUS
  <2>1. pc[w] \in NotBegunPc /\ sent[w] = 0 /\ nctx[w] = 0
    BY <1>0 DEF OwnIds
  <2>2. OpenCtxs(w) = {} /\ pc[w] # "held"
    BY <1>0, <2>1, NoShareNothingOut DEF NotBegunPc, Parked
  <2>3. sent'[w] = sent[w]
    BY <1>0, <2>2, SharedSends
  <2> QED
    BY <1>2, <2>1, <2>3 DEF NotBegunPc, Parked, SharedMoves
<1>4. /\ pc'[w] \in SendingPc => pc[w] \in SendingPc
      /\ pc'[w] # "left"
  BY <1>2 DEF SharedMoves, SendingPc
<1>5. free'[w] = free[w] \/ held[w] \in CtxId
  BY <1>0, SharedRestores
<1>6. \A c \in CtxId : c >= nctx[w] => inFlight'[w][c] = 0
  <2> SUFFICES ASSUME NEW c \in CtxId, c >= nctx[w]
               PROVE  inFlight'[w][c] = 0
    OBVIOUS
  <2>1. inFlight[w][c] = 0
    BY DEF OwnIds
  <2>2. c \in Nat /\ c # None /\ held[w] # c
    BY <1>0 DEF OwnIds, CtxId, None
  <2>3. c \notin OpenCtxs(w)
    BY <1>0, <2>2 DEF OpenCtxs
  <2>4. inFlight'[w][c] <= inFlight[w][c]
    BY <1>0, <2>2, <2>3, SharedSends
  <2> QED
    BY <1>0, <2>1, <2>4
<1>7. \A i \in 1 .. Len(free'[w]) :
         /\ free'[w][i] < conc[w]
         /\ pc'[w] \in SendingPc => free'[w][i] < nctx[w]
  <2>1. CASE free'[w] = free[w]
    BY <1>4, <2>1 DEF OwnIds
  <2>2. CASE free'[w] # free[w]
    <3>1. held[w] \in CtxId /\ held[w] \in Nat
      BY <1>5, <2>2 DEF CtxId
    <3>2. held[w] < nctx[w] /\ held[w] < conc[w]
      BY <1>0, <3>1 DEF OwnIds, None
    <3>3. free'[w] = Append(free[w], held[w])
      BY <1>1, <2>2
    <3>4. /\ Len(free'[w]) = Len(free[w]) + 1
          /\ \A i \in 1 .. Len(free[w]) : free'[w][i] = free[w][i]
          /\ free'[w][Len(free[w]) + 1] = held[w]
      BY <1>0, <3>1, <3>3
    <3>5. \A i \in 1 .. Len(free'[w]) :
             i \in 1 .. Len(free[w]) \/ free'[w][i] = held[w]
      BY <1>0, <3>4
    <3> QED
      BY <1>4, <3>2, <3>4, <3>5 DEF OwnIds
  <2> QED
    BY <2>1, <2>2
<1> QED
  BY <1>1, <1>3, <1>4, <1>6, <1>7 DEF OwnIds, cfgVars

\* A callback gives its own id back.
LEMMA CallbackOwnIds ==
  ASSUME Basic, NEW w \in Worker, OwnIds(w), NEW c \in CtxId, Callback(w, c)
  PROVE  OwnIds(w)'
<1>0. /\ LoadTypes /\ LoadTypes' /\ c \in Nat
      /\ conc[w] \in Nat /\ nctx[w] \in Nat /\ free[w] \in Seq(CtxId)
      /\ inFlight[w] \in [CtxId -> Nat]
  <2>1. LoadTypes /\ LoadTypes'
    BY CallbackKeeps DEF Basic, LoadInv
  <2> QED
    BY <2>1, LoadTypesParts DEF CtxId
<1>1. /\ UNCHANGED <<cfgVars, pc, sent, held, nctx>>
      /\ \A d \in CtxId \ {c} : /\ inFlight'[w][d] = inFlight[w][d]
                                 /\ finalizing'[w][d] = finalizing[w][d]
      /\ inFlight[w][c] > 0 \/ finalizing[w][c] = 1
      /\ free'[w] \in {free[w], Append(free[w], c)}
  BY <1>0, CallbackFrame
<1>2. c < nctx[w]
  <2>1. c >= nctx[w] => inFlight[w][c] = 0 /\ finalizing[w][c] = 0
    BY DEF OwnIds
  <2> QED
    BY <1>0, <1>1, <2>1
<1>3. \A d \in CtxId :
         d >= nctx[w] => inFlight'[w][d] = 0 /\ finalizing'[w][d] = 0
  <2> TAKE d \in CtxId
  <2>1. d >= nctx[w] => d # c
    BY <1>0, <1>2
  <2> QED
    BY <1>1, <2>1 DEF OwnIds
<1>4. \A i \in 1 .. Len(free'[w]) :
         /\ free'[w][i] < conc[w]
         /\ pc[w] \in SendingPc => free'[w][i] < nctx[w]
  <2>1. CASE free'[w] = free[w]
    BY <2>1 DEF OwnIds
  <2>2. CASE free'[w] = Append(free[w], c)
    <3>1. c < conc[w]
      BY <1>0, <1>2 DEF OwnIds
    <3>2. /\ Len(free'[w]) = Len(free[w]) + 1
          /\ \A i \in 1 .. Len(free[w]) : free'[w][i] = free[w][i]
          /\ free'[w][Len(free[w]) + 1] = c
      BY <1>0, <2>2
    <3>3. \A i \in 1 .. Len(free'[w]) :
             i \in 1 .. Len(free[w]) \/ free'[w][i] = c
      BY <1>0, <3>2
    <3> QED
      BY <1>2, <3>1, <3>2, <3>3 DEF OwnIds
  <2> QED
    BY <1>1, <2>1, <2>2
<1> QED
  BY <1>1, <1>3, <1>4 DEF OwnIds, cfgVars

\* Every step keeps the spread and the ids.
LEMMA GrowingStep ==
  ASSUME Basic, Plain, Growing, [Next]_vars
  PROVE  Growing'
<1> SUFFICES ASSUME Rising
             PROVE  Spread' /\ Placed' /\ \A v \in Worker : OwnIds(v)'
  BY DEF Growing, Rising, Counted
<1>0. /\ LoadTypes /\ LoadTypes' /\ Spread /\ Placed
      /\ \A v \in Worker : OwnIds(v)
  BY BasicStep DEF Growing, Basic, LoadInv
<1>1. Spread' /\ Placed'
  BY <1>0, SpreadStep, PlacedStep
<1>2. ASSUME NEW w \in Worker, NEW v \in Worker, v # w,
             conc'[v] = conc[v], nctx'[v] = nctx[v], pc'[v] = pc[v],
             sent'[v] = sent[v], held'[v] = held[v], free'[v] = free[v],
             inFlight'[v] = inFlight[v], finalizing'[v] = finalizing[v]
      PROVE  OwnIds(v)'
  BY <1>0, <1>2 DEF OwnIds
<1>3. ASSUME NEW v \in Worker
      PROVE  OwnIds(v)'
  <2>1. CASE MainStep
    BY <1>0, <2>1, MainOwnIds
  <2>2. ASSUME NEW w \in Worker, ConcOwnStep(w)
        PROVE  OwnIds(v)'
    <3>1. CASE v = w
      BY <1>0, <2>2, <3>1, ConcOwnOwnIds DEF Plain
    <3>2. CASE v # w
      <4>1. /\ UNCHANGED <<cfgVars, sent, ctxVars>> /\ pc'[v] = pc[v]
            /\ nctx'[v] = nctx[v] /\ free'[v] = free[v] /\ held'[v] = held[v]
        BY <1>0, <2>2, <3>2, ConcOwnTypes, ConcMoveEffect, ZenonT(60)
      <4> QED
        BY <1>2, <3>2, <4>1 DEF cfgVars, ctxVars
    <3> QED
      BY <3>1, <3>2
  <2>3. ASSUME NEW w \in Worker, SharedWorkerStep(w)
        PROVE  OwnIds(v)'
    <3>1. CASE v = w
      BY <1>0, <2>3, <3>1, SharedOwnIds
    <3>2. CASE v # w
      <4>1. /\ UNCHANGED <<cfgVars, nctx, finalizing>> /\ pc'[v] = pc[v]
            /\ free'[v] = free[v] /\ held'[v] = held[v]
            /\ sent'[v] = sent[v] /\ inFlight'[v] = inFlight[v]
        BY <1>0, <2>3, <3>2, SharedFrame, SharedMoveEffect
      <4> QED
        BY <1>2, <3>2, <4>1 DEF cfgVars
    <3> QED
      BY <3>1, <3>2
  <2>4. ASSUME NEW w \in Worker, NEW c \in CtxId, Callback(w, c)
        PROVE  OwnIds(v)'
    <3>1. CASE v = w
      BY <1>0, <2>4, <3>1, CallbackOwnIds
    <3>2. CASE v # w
      <4>1. /\ UNCHANGED <<cfgVars, pc, sent, held, nctx>>
            /\ free'[v] = free[v] /\ inFlight'[v] = inFlight[v]
            /\ finalizing'[v] = finalizing[v]
        BY <1>0, <2>4, <3>2, CallbackFrame
      <4> QED
        BY <1>2, <3>2, <4>1 DEF cfgVars
    <3> QED
      BY <3>1, <3>2
  <2>5. CASE UNCHANGED vars
    BY <1>0, <2>5 DEF OwnIds, vars, workerVars, cfgVars, idVars, reqVars,
       ctxVars
  <2> QED
    BY <2>1, <2>2, <2>3, <2>4, <2>5, ConcNextCases
<1> QED
  BY <1>1, <1>3

-----------------------------------------------------------------------------
(* The request count.                                                      *)

\* The parts are stored before a level is sent, and stay until the next.
LEMMA PartsStep ==
  ASSUME Basic, Parts, [Next]_vars
  PROVE  Parts'
<1>0. LoadTypes
  BY DEF Basic, LoadInv
<1>1. ASSUME UNCHANGED <<warming, threads, numReq>>,
             \/ mpc' = mpc
             \/ mpc' \in {"pausing", "configure"} \cup Storing
             \/ mpc \notin {"pausing", "configure"} \cup Storing
      PROVE  Parts'
  <2>1. Quota' = Quota
    BY <1>1 DEF Quota
  <2> QED
    BY <1>1, <2>1 DEF Parts
<1>2. CASE \/ \E l \in Levels : BeginLevel(l)
           \/ LaunchThreads \/ ConfigureThreads \/ StoreOffsets \/ EndWarmup
  <2>1. mpc' \in {"pausing", "configure"} \cup Storing
    BY <1>2 DEF BeginLevel, LaunchThreads, ConfigureThreads, StoreOffsets,
       EndWarmup, WaitForWarmupAndCleanup, Storing
  <2> QED
    BY <2>1 DEF Parts
<1>3. CASE StoreRequestCounts
  <2>1. UNCHANGED <<warming, threads>>
    BY <1>3 DEF StoreRequestCounts, askVars
  <2>2. Quota' = Quota
    BY <2>1 DEF Quota
  <2>3. \A w \in Worker : w < threads => numReq'[w] = Share(Quota, threads, w)
    BY <1>3, StoreCountsEffect
  <2> QED
    BY <2>1, <2>2, <2>3 DEF Parts
<1>4. CASE \/ SeePaused \/ ResumeSequenceWorkers \/ NotifyWorkers
           \/ DiscardRecords \/ EndMeasure \/ SignalHandler
           \/ StopWorkerThreads \/ StopNotify \/ JoinThreads
  <2>1. UNCHANGED <<warming, threads, numReq>>
    BY <1>4 DEF SeePaused, ResumeSequenceWorkers, NotifyWorkers,
       DiscardRecords, EndMeasure, SignalHandler, StopWorkerThreads,
       StopNotify, JoinThreads, askVars, workerVars, cfgVars
  <2>2. mpc' = mpc \/ mpc \notin {"pausing", "configure"} \cup Storing
    BY <1>4 DEF SeePaused, ResumeSequenceWorkers, NotifyWorkers,
       DiscardRecords, EndMeasure, SignalHandler, StopWorkerThreads,
       StopNotify, JoinThreads, Storing
  <2> QED
    BY <1>1, <2>1, <2>2
<1>5. ASSUME NEW w \in Worker, ConcOwnStep(w) \/ SharedWorkerStep(w)
      PROVE  Parts'
  <2>1. UNCHANGED <<mainVars, cfgVars>>
    BY <1>0, <1>5, ConcOwnTypes, SharedFrame
  <2> QED
    BY <1>1, <2>1 DEF mainVars, askVars, cfgVars
<1>6. ASSUME NEW w \in Worker, NEW c \in CtxId, Callback(w, c)
      PROVE  Parts'
  <2>1. UNCHANGED <<mainVars, cfgVars>>
    BY <1>0, <1>6, CallbackFrame
  <2> QED
    BY <1>1, <2>1 DEF mainVars, askVars, cfgVars
<1>7. CASE UNCHANGED vars
  BY <1>1, <1>7 DEF vars, mainVars, askVars, workerVars, cfgVars
<1> QED
  BY <1>2, <1>3, <1>4, <1>5, <1>6, <1>7, ConcNextCases DEF MainStep

\* There are no more threads than requests, so no part is 0, "no limit".
LEMMA NoEmptyPart ==
  ASSUME Basic, Growing, Quota # 0, NEW w \in Launched
  PROVE  Share(Quota, threads, w) \in Nat \ {0}
<1>0. /\ threads \in Nat /\ level \in Nat /\ level \in Levels \cup {0}
      /\ WarmupCount \in Nat /\ RequestCount \in Nat
      /\ w \in Nat /\ w < threads
      /\ \A l \in Levels : l \in Nat
  BY SizesAssumption, LevelsAssumption DEF Basic, TypeOK, ManagerTypes,
     ManagerControl, Launched, Worker
<1>1. Counted
  BY DEF Quota, Counted
<1>2. threads <= Target
  BY <1>1 DEF Growing, Rising, Spread
<1>3. Target <= Quota
  <2>1. CASE warming
    BY <1>0, <2>1 DEF Target, Quota
  <2>2. CASE ~warming
    <3>1. Target = level /\ Quota = RequestCount
      BY <2>2 DEF Target, Quota
    <3>2. level <= RequestCount
      BY <1>0, <3>1, CountsAssumption
    <3> QED
      BY <3>1, <3>2
  <2> QED
    BY <2>1, <2>2
<1>4. Target \in Nat /\ Quota \in Nat
  BY <1>0 DEF Target, Quota
<1>5. threads \in Nat \ {0} /\ Quota >= threads
  BY <1>0, <1>2, <1>3, <1>4
<1> QED
  BY <1>0, <1>4, <1>5, ShareAtLeastOne

\* A step that counts a request is one of its worker's, which has seen in
\* ShouldExit that there is one left of its part.
LEMMA CountStep ==
  ASSUME Basic, Parts, Growing, [Next]_vars, ~OnSequenceModel, Quota # 0,
         mpc \notin {"pausing", "configure"} \cup Storing,
         NEW w \in Launched, sent'[w] > sent[w]
  PROVE  sent[w] < Share(Quota, threads, w)
<1>0. /\ LoadTypes /\ w \in Worker /\ w < threads
      /\ sent[w] \in Nat /\ numReq[w] \in Nat
  BY LoadTypesParts DEF Basic, LoadInv, Launched
<1>1. numReq[w] = Share(Quota, threads, w) /\ numReq[w] # 0
  BY <1>0, NoEmptyPart DEF Parts
<1>2. CASE MainStep
  <2>1. sent' = sent \/ sent'[w] = 0
    BY <1>0, <1>2 DEF MainStep, BeginLevel, SeePaused, LaunchThreads,
       ConfigureThreads, StoreOffsets, StoreRequestCounts,
       ResumeSequenceWorkers, NotifyWorkers, EndWarmup,
       WaitForWarmupAndCleanup, DiscardRecords, EndMeasure, SignalHandler,
       StopWorkerThreads, StopNotify, JoinThreads, Each, workerVars, reqVars
  <2> QED
    BY <1>0, <2>1
<1>3. ASSUME NEW v \in Worker, ConcOwnStep(v)
      PROVE  FALSE
  <2>1. sent' = sent
    BY <1>0, <1>3, ConcOwnTypes
  <2> QED
    BY <1>0, <2>1
<1>4. ASSUME NEW v \in Worker, SharedWorkerStep(v)
      PROVE  sent[w] < numReq[w]
  <2>1. CASE v = w
    BY <1>0, <1>1, <1>4, <2>1, SharedCounts
  <2>2. CASE v # w
    <3>1. sent'[w] = sent[w]
      BY <1>0, <1>4, <2>2, SharedFrame
    <3> QED
      BY <1>0, <3>1
  <2> QED
    BY <2>1, <2>2
<1>5. ASSUME NEW v \in Worker, NEW c \in CtxId, Callback(v, c)
      PROVE  FALSE
  <2>1. sent' = sent
    BY <1>0, <1>5, CallbackFrame
  <2> QED
    BY <1>0, <2>1
<1>6. CASE UNCHANGED vars
  BY <1>0, <1>6 DEF vars, workerVars, reqVars
<1> QED
  BY <1>1, <1>2, <1>3, <1>4, <1>5, <1>6, ConcNextCases

-----------------------------------------------------------------------------
(* The sequences.                                                          *)

\* No sequence status is of two workers.
LEMMA OneOwner ==
  ASSUME LoadTypes, Ranges, mpc # "offsets",
         NEW v \in Worker, NEW w \in Worker,
         NEW c \in Nat, NEW d \in Nat, c < conc[v], d < conc[w],
         offset[v] + c = offset[w] + d
  PROVE  v = w /\ c = d
<1>1. /\ conc[v] \in Nat /\ conc[w] \in Nat /\ offset[v] \in Nat
      /\ offset[w] \in Nat /\ v \in Int /\ w \in Int
  <2>1. v \in Int /\ w \in Int
    BY DEF Worker
  <2> QED
    BY <2>1, LoadTypesParts
<1>2. ~(v < w)
  BY <1>1 DEF Ranges
<1>3. ~(w < v)
  BY <1>1 DEF Ranges
<1> QED
  BY <1>1, <1>2, <1>3

\* A worker opens sequences on its share of the statuses.
LEMMA OpenInShare ==
  ASSUME LoadTypes, NEW w \in Worker, OwnIds(w), NEW c \in OpenCtxs(w)
  PROVE  /\ c \in Nat /\ c \in CtxId /\ c < nctx[w] /\ c < conc[w]
         /\ offset[w] + c \in Index /\ rem[offset[w] + c] # 0
<1>1. conc[w] \in Nat /\ nctx[w] \in Nat
  BY LoadTypesParts
<1> QED
  BY <1>1 DEF OpenCtxs, OwnIds, CtxId

\* When the shares change, no sequence is open and no request is out.
LEMMA QuietConfigure ==
  ASSUME Basic, Rising, OnSequenceModel, Growing, Sequences,
         mpc = "configure"
  PROVE  /\ \A w \in Worker : \A c \in CtxId : inFlight[w][c] = 0
         /\ \A w \in Worker : OpenCtxs(w) = {}
         /\ \A s \in Index : rem[s] = 0
<1>0. /\ LoadTypes /\ OpenOwned
      /\ \A w \in Worker : OwnIds(w) /\ nctx[w] \in Nat
  BY LoadTypesParts DEF Basic, LoadInv, Growing, Sequences
<1>1. ASSUME NEW w \in Worker
      PROVE  OpenCtxs(w) = {} /\ \A c \in CtxId : inFlight[w][c] = 0
  <2>1. CASE conc[w] = 0
    <3>1. nctx[w] = 0
      BY <1>0, <2>1 DEF OwnIds
    <3> QED
      BY <1>0, <3>1, NoShareNothingOut
  <2>2. CASE conc[w] # 0
    BY <2>2 DEF Sequences, PauseSeen, Changing
  <2> QED
    BY <2>1, <2>2
<1> QED
  BY <1>0, <1>1 DEF OpenOwned

\* When every thread there is has ended, no sequence is open.
LEMMA QuietFinished ==
  ASSUME Basic, Rising, OnSequenceModel, Growing, Sequences,
         \A w \in Launched : Finished(w)
  PROVE  \A s \in Index : rem[s] = 0
<1>0. /\ LoadTypes /\ OpenOwned /\ Closed /\ Spread /\ threads \in Nat
      /\ \A w \in Worker : w \in Nat /\ OwnIds(w) /\ nctx[w] \in Nat
  BY LoadTypesParts DEF Basic, LoadInv, TypeOK, ManagerTypes, Growing,
     Sequences, Worker
<1>1. ASSUME NEW w \in Worker
      PROVE  OpenCtxs(w) = {}
  <2>1. CASE w < threads
    BY <1>0, <2>1 DEF Launched, Finished, Closed, ClosedPc
  <2>2. CASE ~(w < threads)
    <3>1. nctx[w] = 0
      BY <1>0, <2>2 DEF Spread, OwnIds
    <3> QED
      BY <1>0, <3>1, NoShareNothingOut
  <2> QED
    BY <2>1, <2>2
<1> QED
  BY <1>0, <1>1 DEF OpenOwned

\* The main thread's steps: the shares change only where no sequence is open.
LEMMA SequencesMainStep ==
  ASSUME Basic, Growing, Sequences, MainStep
  PROVE  Sequences'
<1> SUFFICES ASSUME Rising, OnSequenceModel
             PROVE  /\ Ranges' /\ OpenOwned' /\ Closed' /\ PauseSeen'
                    /\ StoresQuiet'
  BY DEF Sequences, Rising, Counted
<1>0. /\ LoadTypes /\ LoadInv /\ threads \in Nat /\ checked \in Nat
      /\ Ranges /\ OpenOwned /\ Closed /\ PauseSeen /\ StoresQuiet
      /\ Spread /\ Placed
      /\ \A w \in Worker : w \in Nat /\ OwnIds(w)
  BY DEF Basic, LoadInv, TypeOK, ManagerTypes, Growing, Sequences, Worker
<1>1. CASE ConfigureThreads
  <2>1. /\ mpc = "configure" /\ mpc' = "offsets"
        /\ threads \in Nat \ {0} /\ Target \in 1 .. MaxContexts
        /\ UNCHANGED <<offset, nctx, rem, inFlight, execute>>
        /\ \A w \in Worker :
              IF w < threads THEN conc'[w] = Share(Target, threads, w)
                             ELSE conc'[w] = conc[w]
    BY <1>1, ConfigureEffect DEF idVars, reqVars, ctxVars
  <2>2. /\ \A s \in Index : rem'[s] = 0
        /\ \A w \in Worker : \A c \in CtxId : inFlight'[w][c] = 0
    BY <2>1, QuietConfigure
  <2>3. OpenOwned' /\ Closed'
    BY <2>2 DEF OpenOwned, Closed, OpenCtxs
  <2>4. ASSUME NEW w \in Worker
        PROVE  offset'[w] + conc'[w] <= MaxContexts
    <3>1. CASE w < threads
      <4> DEFINE o == SeqStatIndexOffset(Target, threads, w)
                 k == Share(Target, threads, w)
                 n == SeqStatIndexOffset(Target, threads, w + 1)
      <4>1. o + k <= n /\ n <= Target
        BY <1>0, <2>1, <3>1, SharesDisjoint
      <4>2. o \in Nat /\ k \in Nat /\ n \in Nat
        <5>1. w \in Nat /\ w + 1 \in Nat /\ Target \in Nat
          BY <1>0, <2>1
        <5>2. \A i \in Nat : /\ Share(Target, threads, i) \in 0 .. Target
                              /\ SeqStatIndexOffset(Target, threads, i) \in Nat
          BY <2>1, <5>1, ShareType
        <5> QED
          BY <5>1, <5>2
      <4>3. conc'[w] = k
        BY <2>1, <3>1
      <4>4. offset'[w] <= o /\ offset'[w] \in Nat
        <5>1. threads = ThreadsOf(Target)
          BY <1>0, <2>1 DEF Spread
        <5>2. offset[w] <= o
          BY <1>0, <2>1, <3>1, <5>1 DEF Placed, Changing
        <5> QED
          BY <1>0, <2>1, <5>2, LoadTypesParts
      <4> HIDE DEF o, k, n
      <4> QED
        BY <2>1, <4>1, <4>2, <4>3, <4>4, SizesAssumption
    <3>2. CASE ~(w < threads)
      BY <2>1, <3>2, <1>0 DEF Ranges
    <3> QED
      BY <3>1, <3>2
  <2>5. PauseSeen' /\ StoresQuiet'
    BY <1>0, <2>1, <2>2 DEF PauseSeen, StoresQuiet, Changing
  <2> QED
    BY <2>1, <2>3, <2>4, <2>5 DEF Ranges
<1>1o. CASE StoreOffsets
  <2>1. /\ mpc = "offsets" /\ mpc' = "counts"
        /\ threads \in Nat \ {0} /\ Target \in 1 .. MaxContexts
        /\ UNCHANGED <<conc, nctx, rem, inFlight, execute>>
        /\ \A w \in Worker :
              IF w < threads
              THEN offset'[w] = SeqStatIndexOffset(Target, threads, w)
              ELSE offset'[w] = offset[w]
    BY <1>1o, StoreOffsetsEffect DEF idVars, reqVars, ctxVars
  <2>2. /\ \A s \in Index : rem'[s] = 0
        /\ \A w \in Worker : \A c \in CtxId : inFlight'[w][c] = 0
        /\ ~execute'
    BY <1>0, <2>1 DEF StoresQuiet, Storing
  <2>3. OpenOwned' /\ Closed'
    BY <2>2 DEF OpenOwned, Closed, OpenCtxs
  <2>4. /\ threads = ThreadsOf(Target)
        /\ \A w \in Worker : IF w < threads
                               THEN conc[w] = Share(Target, threads, w)
                               ELSE conc[w] = 0
    <3>1. \A w \in Worker : ~(w < threads) => w >= threads
      BY <1>0
    <3> QED
      BY <1>0, <2>1, <3>1 DEF Spread, Changing
  <2>5. ASSUME NEW w \in Worker
        PROVE  offset'[w] + conc[w] <= MaxContexts
    <3>1. CASE w < threads
      <4> DEFINE o == SeqStatIndexOffset(Target, threads, w)
                 k == Share(Target, threads, w)
                 n == SeqStatIndexOffset(Target, threads, w + 1)
      <4>1. o + k <= n /\ n <= Target
        BY <1>0, <2>1, <3>1, SharesDisjoint
      <4>2. o \in Nat /\ k \in Nat /\ n \in Nat
        <5>1. w \in Nat /\ w + 1 \in Nat /\ Target \in Nat
          BY <1>0, <2>1
        <5>2. \A i \in Nat : /\ Share(Target, threads, i) \in 0 .. Target
                              /\ SeqStatIndexOffset(Target, threads, i) \in Nat
          BY <2>1, <5>1, ShareType
        <5> QED
          BY <5>1, <5>2
      <4>3. conc[w] = k /\ offset'[w] = o
        BY <2>1, <2>4, <3>1
      <4> HIDE DEF o, k, n
      <4> QED
        BY <2>1, <4>1, <4>2, <4>3, SizesAssumption
    <3>2. CASE ~(w < threads)
      BY <2>1, <3>2, <1>0 DEF Ranges
    <3> QED
      BY <3>1, <3>2
  <2>6. ASSUME NEW v \in Worker, NEW w \in Worker, v < w, conc[w] > 0
        PROVE  offset'[v] + conc[v] <= offset'[w]
    <3>1. w < threads
      BY <2>4, <2>6
    <3>2. v < threads
      BY <1>0, <2>6, <3>1
    <3> QED
      BY <1>0, <2>1, <2>4, <2>6, <3>1, <3>2, SharesDisjoint
  <2>7. Ranges'
    BY <2>1, <2>5, <2>6 DEF Ranges
  <2>8. PauseSeen' /\ StoresQuiet'
    BY <2>1, <2>2 DEF PauseSeen, StoresQuiet, Changing
  <2> QED
    BY <2>3, <2>7, <2>8
<1>2. CASE EndWarmup
  <2>1. /\ mpc' = "pausing" /\ rem' = rem /\ checked' = 0 /\ ~execute'
        /\ \A w \in Launched : Finished(w)
        /\ \A w \in Worker : nctx'[w] = 0 /\ conc'[w] = 0 /\ offset'[w] = 0
    BY <1>2 DEF EndWarmup, WaitForWarmupAndCleanup, Each, StopExecuting
  <2>2. \A s \in Index : rem'[s] = 0
    BY <2>1, QuietFinished
  <2>3. Ranges'
    BY <2>1, SizesAssumption DEF Ranges
  <2>4. OpenOwned' /\ Closed'
    BY <2>2 DEF OpenOwned, Closed, OpenCtxs
  <2>5. PauseSeen' /\ StoresQuiet'
    BY <1>0, <2>1 DEF PauseSeen, StoresQuiet, Storing
  <2> QED
    BY <2>3, <2>4, <2>5
<1>3. CASE MainStep /\ ~ConfigureThreads /\ ~StoreOffsets /\ ~EndWarmup
  <2>1. UNCHANGED <<offset, conc, nctx, rem, inFlight>>
    BY <1>3 DEF MainStep, BeginLevel, SeePaused, LaunchThreads,
       StoreRequestCounts, ResumeSequenceWorkers, NotifyWorkers,
       DiscardRecords, EndMeasure, SignalHandler, StopWorkerThreads,
       StopNotify, JoinThreads, workerVars, cfgVars, idVars, reqVars, ctxVars
  <2>1a. mpc' \in Storing => mpc' = mpc /\ execute' = execute
    BY <1>3 DEF MainStep, BeginLevel, SeePaused, LaunchThreads,
       StoreRequestCounts, ResumeSequenceWorkers, NotifyWorkers,
       DiscardRecords, EndMeasure, SignalHandler, StopWorkerThreads,
       StopNotify, JoinThreads, Storing
  <2>1b. mpc' # "offsets" => mpc # "offsets"
    BY <1>3 DEF MainStep, BeginLevel, SeePaused, LaunchThreads,
       StoreRequestCounts, ResumeSequenceWorkers, NotifyWorkers,
       DiscardRecords, EndMeasure, SignalHandler, StopWorkerThreads,
       StopNotify, JoinThreads
  <2>2. \A w \in Worker : pc'[w] \in ClosedPc => pc[w] \in ClosedPc
    <3>1. CASE LaunchThreads
      BY <3>1, LaunchEffect DEF ClosedPc, Parked
    <3>2. CASE NotifyWorkers \/ StopNotify
      <4>1. \A w \in Worker : \/ pc'[w] = pc[w]
                              \/ pc[w] = "offsleep"
                              \/ pc'[w] = "nccheck"
        BY <3>2 DEF NotifyWorkers, StopNotify, WakeAll
      <4> QED
        BY <4>1 DEF ClosedPc, Parked
    <3>3. CASE ~(LaunchThreads \/ NotifyWorkers \/ StopNotify)
      BY <1>3, <3>3 DEF MainStep, BeginLevel, SeePaused,
         StoreRequestCounts, ResumeSequenceWorkers, DiscardRecords,
         EndMeasure, SignalHandler, StopWorkerThreads, JoinThreads, workerVars
    <3> QED
      BY <3>1, <3>2, <3>3
  <2>3. \A w \in Worker : OpenCtxs(w)' = OpenCtxs(w)
    BY <2>1 DEF OpenCtxs
  <2>4. Ranges' /\ OpenOwned' /\ Closed'
    BY <1>0, <2>1, <2>1b, <2>2, <2>3 DEF Ranges, OpenOwned, Closed
  <2>4a. StoresQuiet'
    BY <1>0, <2>1, <2>1a DEF StoresQuiet
  <2>5. PauseSeen'
    <3>1. CASE \E l \in Levels : BeginLevel(l)
      <4>1. ~execute' /\ checked' = 0 /\ mpc' = "pausing"
        BY <3>1 DEF BeginLevel, StopExecuting
      <4> QED
        BY <1>0, <4>1 DEF PauseSeen
    <3>2. CASE SeePaused
      <4>1. /\ mpc = "pausing" /\ mpc' = mpc /\ execute' = execute
            /\ checked < threads /\ paused[checked] /\ checked' = checked + 1
        BY <3>2 DEF SeePaused
      <4>2. checked \in Worker
        BY <1>0, <4>1, SizesAssumption DEF Worker, Basic, TypeOK,
           ManagerTypes
      <4>3. /\ OpenCtxs(checked) = {}
            /\ \A c \in CtxId : inFlight[checked][c] = 0
        BY <1>0, <4>1, <4>2 DEF LoadInv, Holding, QuietWhenPausedOrDone,
           Closed, ClosedPc
      <4>4. \A w \in Worker : w < checked' => w < checked \/ w = checked
        BY <1>0, <4>1
      <4>5. \A w \in Worker : w < checked' =>
               OpenCtxs(w) = {} /\ \A c \in CtxId : inFlight[w][c] = 0
        BY <1>0, <4>1, <4>3, <4>4 DEF PauseSeen, Changing
      <4> QED
        BY <1>0, <2>1, <2>3, <4>1, <4>5 DEF PauseSeen, Changing
    <3>3. CASE LaunchThreads
      <4>1. /\ mpc = "pausing" /\ PausedSeen
            /\ UNCHANGED <<checked, execute>>
        BY <3>3, LaunchEffect
      <4>2. \A w \in Worker : conc[w] # 0 => w < checked
        <5> TAKE w \in Worker
        <5>1. checked = threads
          BY <4>1 DEF PausedSeen
        <5> QED
          BY <1>0, <5>1 DEF Spread
      <4> QED
        BY <1>0, <2>1, <2>3, <4>1, <4>2 DEF PauseSeen, Changing
    <3>4. CASE SignalHandler
      <4>1. UNCHANGED <<mpc, checked, execute>>
        BY <3>4 DEF SignalHandler, askVars
      <4> QED
        BY <1>0, <2>1, <2>3, <4>1 DEF PauseSeen, Changing
    <3>5. CASE ~(\/ \E l \in Levels : BeginLevel(l)
                 \/ SeePaused \/ LaunchThreads \/ SignalHandler)
      <4>1. mpc' \notin {"pausing", "configure"}
        BY <1>3, <3>5 DEF MainStep, StoreRequestCounts,
           ResumeSequenceWorkers, NotifyWorkers, DiscardRecords, EndMeasure,
           StopWorkerThreads, StopNotify, JoinThreads
      <4> QED
        BY <4>1 DEF PauseSeen, Changing
    <3> QED
      BY <3>1, <3>2, <3>3, <3>4, <3>5
  <2> QED
    BY <2>4, <2>4a, <2>5
<1> QED
  BY <1>1, <1>1o, <1>2, <1>3

\* A worker's own step opens nothing: the contexts it adds are on its own
\* statuses, which nobody else has left open.
LEMMA SequencesOwnStep ==
  ASSUME Basic, Plain, Growing, Growing', Sequences,
         NEW w \in Worker, ConcOwnStep(w)
  PROVE  Sequences'
<1> SUFFICES ASSUME Rising, OnSequenceModel
             PROVE  /\ Ranges' /\ OpenOwned' /\ Closed' /\ PauseSeen'
                    /\ StoresQuiet'
  BY DEF Sequences, Rising, Counted
<1>0. /\ LoadTypes /\ Ranges /\ OpenOwned /\ Closed /\ PauseSeen
      /\ StoresQuiet
      /\ \A v \in Worker : OwnIds(v) /\ OwnIds(v)'
  BY DEF Basic, LoadInv, Growing, Sequences, Rising, Counted
<1>1. /\ UNCHANGED <<mainVars, cfgVars, ctxVars, rem>>
      /\ \A v \in Worker \ {w} : nctx'[v] = nctx[v]
      /\ LoadTypes'
  BY <1>0, ConcOwnTypes
<1>2. /\ <<pc[w], pc'[w]>> \in ConcMoves
      /\ \A v \in Worker \ {w} : pc'[v] = pc[v]
  BY <1>0, ConcMoveEffect
<1>3. nctx[w] <= nctx'[w]
  <2>1. nctx[w] \in Nat
    BY <1>0, LoadTypesParts
  <2>2. CASE CreateContextsAsNecessary(w) /\ LacksContexts(w)
    <3>1. nctx' = [nctx EXCEPT ![w] = ContextsNeeded(w)]
      BY <2>2 DEF CreateContextsAsNecessary
    <3>2. nctx'[w] = ContextsNeeded(w)
      BY <1>0, <3>1, LoadTypesParts
    <3>3. ContextsNeeded(w) \in Nat
      BY <1>0, LoadTypesParts DEF ContextsNeeded
    <3> QED
      BY <2>1, <2>2, <3>2, <3>3 DEF LacksContexts
  <2>3. CASE ~(CreateContextsAsNecessary(w) /\ LacksContexts(w))
    <3>1. nctx' = nctx
      BY <2>3 DEF ConcOwnStep, HandleExecuteOff, DeclarePaused, Unpause,
         HandleNoConcurrency, TestConcurrency, CreateContextsAsNecessary,
         CheckExit, TakeCtxId, WaitForResponses, idVars
    <3> QED
      BY <2>1, <3>1
  <2> QED
    BY <2>2, <2>3
<1>4. ASSUME NEW v \in Worker, NEW c \in OpenCtxs(v)'
      PROVE  c \in OpenCtxs(v)
  <2>1. /\ c \in CtxId /\ c \in Nat /\ c < nctx'[v]
        /\ offset[v] + c \in Index /\ rem[offset[v] + c] # 0
    BY <1>1, <1>4 DEF OpenCtxs, cfgVars, CtxId
  <2>2. c < conc[v]
    <3>1. nctx'[v] <= conc[v]
      BY <1>0, <1>1 DEF OwnIds, cfgVars
    <3>2. nctx'[v] \in Nat /\ conc[v] \in Nat
      BY <1>0, <1>1, LoadTypesParts DEF LoadTypes, IdTypes
    <3> QED
      BY <2>1, <3>1, <3>2
  <2>3. PICK u \in Worker :
           \E d \in OpenCtxs(u) : offset[v] + c = offset[u] + d
    BY <1>0, <2>1 DEF OpenOwned
  <2>4. PICK d \in OpenCtxs(u) : offset[v] + c = offset[u] + d
    BY <2>3
  <2>5. d \in Nat /\ d < conc[u]
    BY <1>0, OpenInShare
  <2>5a. mpc # "offsets"
    BY <1>0, <2>1 DEF StoresQuiet, Storing
  <2>6. u = v /\ d = c
    BY <1>0, <2>1, <2>2, <2>4, <2>5, <2>5a, OneOwner
  <2> QED
    BY <2>6
<1>5. ASSUME NEW v \in Worker, NEW c \in OpenCtxs(v)
      PROVE  c \in OpenCtxs(v)'
  <2>1. c \in Nat /\ c < nctx[v]
    BY <1>0, OpenInShare
  <2>2. c < nctx'[v]
    <3>1. CASE v = w
      <4>1. nctx[w] \in Nat /\ nctx'[w] \in Nat
        BY <1>0, <1>1, LoadTypesParts DEF LoadTypes, IdTypes
      <4> QED
        BY <1>3, <2>1, <3>1, <4>1
    <3>2. CASE v # w
      BY <1>1, <2>1, <3>2
    <3> QED
      BY <3>1, <3>2
  <2> QED
    BY <1>1, <2>2 DEF OpenCtxs, cfgVars
<1>6. \A v \in Worker : OpenCtxs(v)' = OpenCtxs(v)
  BY <1>4, <1>5
<1>7. Ranges' /\ OpenOwned' /\ StoresQuiet'
  BY <1>0, <1>1, <1>6 DEF Ranges, OpenOwned, StoresQuiet, cfgVars, mainVars,
     ctxVars
<1>8. Closed'
  <2>1. pc'[w] \in ClosedPc => pc[w] \in ClosedPc \/ pc'[w] = "left"
    BY <1>2 DEF ConcMoves, ClosedPc, Parked
  <2>2. pc'[w] = "left" => OpenCtxs(w) = {}
    <3>1. pc'[w] = "left" => conc[w] = 0
      BY <1>0, ConcMoveEffect
    <3>2. conc[w] = 0 => nctx[w] = 0
      BY <1>0, LoadTypesParts DEF OwnIds
    <3> QED
      BY <1>0, <3>1, <3>2, NoShareNothingOut
  <2> QED
    BY <1>0, <1>2, <1>6, <2>1, <2>2 DEF Closed
<1>9. PauseSeen'
  BY <1>0, <1>1, <1>6 DEF PauseSeen, Changing, mainVars, askVars, cfgVars,
     ctxVars
<1> QED
  BY <1>7, <1>8, <1>9

\* A request is sent on a sequence status of the worker's own, unless the
\* level is being changed; and a worker that stops closes what it has open.
LEMMA SequencesSharedStep ==
  ASSUME Basic, Growing, Sequences, NEW w \in Worker, SharedWorkerStep(w)
  PROVE  Sequences'
<1> SUFFICES ASSUME Rising, OnSequenceModel
             PROVE  /\ Ranges' /\ OpenOwned' /\ Closed' /\ PauseSeen'
                    /\ StoresQuiet'
  BY DEF Sequences, Rising, Counted
<1>0. /\ LoadTypes /\ Holding
      /\ Ranges /\ OpenOwned /\ Closed /\ PauseSeen /\ StoresQuiet
      /\ \A v \in Worker : OwnIds(v)
      /\ nctx[w] \in Nat /\ conc[w] \in Nat
  BY LoadTypesParts DEF Basic, LoadInv, Growing, Sequences, Rising, Counted
<1>1. /\ UNCHANGED <<mainVars, cfgVars, nctx>>
      /\ \A v \in Worker \ {w} : inFlight'[v] = inFlight[v]
  BY <1>0, SharedFrame
<1>2. /\ <<pc[w], pc'[w]>> \in SharedMoves
      /\ \A v \in Worker \ {w} : pc'[v] = pc[v]
  BY <1>0, SharedMoveEffect
<1>3. ASSUME pc[w] = "held", ~Refused(w)
      PROVE  /\ held[w] \in CtxId /\ held[w] \in Nat
             /\ held[w] < nctx[w] /\ held[w] < conc[w]
             /\ ~Changing /\ mpc \notin Storing
  <2>1. held[w] \in CtxId /\ held[w] \in Nat /\ held[w] # None
    BY <1>0, <1>3 DEF Holding, CtxId, None
  <2>2. held[w] < nctx[w] /\ nctx[w] <= conc[w]
    BY <1>0, <2>1 DEF OwnIds
  <2>3. execute
    BY <1>3 DEF Refused
  <2> QED
    BY <1>0, <2>1, <2>2, <2>3 DEF PauseSeen, StoresQuiet
<1>4. \A s \in Index :
         \/ rem'[s] \in {0, rem[s]}
         \/ /\ s = offset[w] + held[w]
            /\ pc[w] = "held" /\ ~Refused(w)
  BY <1>0, SharedSends
<1>5. Ranges'
  BY <1>0, <1>1 DEF Ranges, cfgVars, mainVars
<1>6. OpenOwned'
  <2> SUFFICES ASSUME NEW s \in Index, rem'[s] # 0
               PROVE  \E v \in Worker : \E c \in OpenCtxs(v)' :
                          s = offset'[v] + c
    BY DEF OpenOwned
  <2>1. CASE rem[s] # 0
    <3>1. PICK v \in Worker : \E c \in OpenCtxs(v) : s = offset[v] + c
      BY <1>0, <2>1 DEF OpenOwned
    <3>2. PICK c \in OpenCtxs(v) : s = offset[v] + c
      BY <3>1
    <3>3. c \in OpenCtxs(v)'
      BY <1>1, <3>2 DEF OpenCtxs, cfgVars
    <3> QED
      BY <1>1, <3>2, <3>3 DEF cfgVars
  <2>2. CASE rem[s] = 0
    <3>1. /\ s = offset[w] + held[w] /\ held[w] \in CtxId
          /\ held[w] < nctx[w]
      BY <1>3, <1>4, <2>2
    <3>2. held[w] \in OpenCtxs(w)'
      BY <1>1, <3>1 DEF OpenCtxs, cfgVars
    <3> QED
      BY <1>1, <3>1, <3>2 DEF cfgVars
  <2> QED
    BY <2>1, <2>2
<1>7. ASSUME NEW v \in Worker, NEW c \in OpenCtxs(v)', c \notin OpenCtxs(v)
      PROVE  v = w /\ c = held[w] /\ pc[w] = "held" /\ ~Changing
  <2>1. /\ c \in CtxId /\ c \in Nat /\ c < nctx[v]
        /\ offset[v] + c \in Index /\ rem'[offset[v] + c] # 0
    BY <1>1, <1>7 DEF OpenCtxs, cfgVars, CtxId
  <2>2. rem[offset[v] + c] = 0
    BY <1>7, <2>1 DEF OpenCtxs
  <2>3. offset[v] + c = offset[w] + held[w] /\ pc[w] = "held" /\ ~Refused(w)
    BY <1>4, <2>1, <2>2
  <2>4. c < conc[v]
    <3>1. nctx[v] \in Nat /\ conc[v] \in Nat /\ nctx[v] <= conc[v]
      BY <1>0, LoadTypesParts DEF OwnIds
    <3> QED
      BY <2>1, <3>1
  <2>5. mpc # "offsets"
    BY <1>3, <2>3 DEF Storing
  <2> QED
    BY <1>0, <1>3, <2>1, <2>3, <2>4, <2>5, OneOwner
<1>8. Closed'
  <2> SUFFICES ASSUME NEW v \in Worker, pc'[v] \in ClosedPc,
                      NEW c \in OpenCtxs(v)'
               PROVE  FALSE
    BY DEF Closed
  <2>1. c \in OpenCtxs(v)
    <3>1. pc[w] = "held" => pc'[w] \notin ClosedPc
      BY <1>2 DEF SharedMoves, ClosedPc, Parked
    <3> QED
      BY <1>7, <3>1
  <2>2. pc[v] \notin ClosedPc
    BY <1>0, <2>1 DEF Closed
  <2>3. v = w /\ pc[w] \in {"off", "exiting"}
    BY <1>2, <2>2 DEF SharedMoves, ClosedPc, Parked
  <2>4. rem'[offset[w] + c] = 0
    BY <1>0, <2>1, <2>3, SharedSends
  <2> QED
    BY <1>1, <2>3, <2>4 DEF OpenCtxs, cfgVars
<1>9. PauseSeen'
  <2> SUFFICES ASSUME Changing
               PROVE  PauseSeen'
    BY <1>1 DEF PauseSeen, Changing, mainVars
  <2>1. \A v \in Worker : OpenCtxs(v) = {} => OpenCtxs(v)' = {}
    BY <1>7
  <2>2. ASSUME NEW v \in Worker, v < checked, NEW c \in CtxId
        PROVE  inFlight'[v][c] = 0
    <3>1. inFlight[v][c] = 0 /\ OpenCtxs(v) = {}
      BY <1>0, <2>2 DEF PauseSeen
    <3>2. CASE v = w
      <4>1. inFlight'[w][c] <= inFlight[w][c]
        BY <1>0, <1>3, <3>1, <3>2, SharedSends
      <4>2. inFlight' \in [Worker -> [CtxId -> Nat]]
        BY SharedWorkerStepKeeps DEF Basic, LoadInv, LoadTypes, ContextTypes
      <4>3. inFlight'[w][c] \in Nat
        BY <4>2
      <4> QED
        BY <3>1, <3>2, <4>1, <4>3
    <3>3. CASE v # w
      BY <1>1, <3>1, <3>3
    <3> QED
      BY <3>2, <3>3
  <2> QED
    BY <1>0, <1>1, <2>1, <2>2 DEF PauseSeen, Changing, mainVars, askVars,
       cfgVars
<1>10. StoresQuiet'
  <2> SUFFICES ASSUME mpc \in Storing
               PROVE  StoresQuiet'
    BY <1>1 DEF StoresQuiet, mainVars
  <2>1. ~(pc[w] = "held" /\ ~Refused(w))
    BY <1>3
  <2>2. \A s \in Index : rem[s] = 0
    BY <1>0 DEF StoresQuiet
  <2>3. \A s \in Index : rem'[s] = 0
    BY <1>4, <2>1, <2>2
  <2>4. ASSUME NEW v \in Worker, NEW c \in CtxId
        PROVE  inFlight'[v][c] = 0
    <3>1. inFlight[v][c] = 0 /\ OpenCtxs(v) = {}
      BY <1>0, <2>2 DEF StoresQuiet, OpenCtxs
    <3>2. CASE v = w
      <4>1. inFlight'[w][c] <= inFlight[w][c]
        BY <1>0, <2>1, <3>1, <3>2, SharedSends
      <4>2. inFlight' \in [Worker -> [CtxId -> Nat]]
        BY SharedWorkerStepKeeps DEF Basic, LoadInv, LoadTypes, ContextTypes
      <4>3. inFlight'[w][c] \in Nat
        BY <4>2
      <4> QED
        BY <3>1, <3>2, <4>1, <4>3
    <3>3. CASE v # w
      BY <1>1, <3>1, <3>3
    <3> QED
      BY <3>2, <3>3
  <2> QED
    BY <1>0, <1>1, <2>3, <2>4 DEF StoresQuiet, mainVars
<1> QED
  BY <1>5, <1>6, <1>8, <1>9, <1>10

\* Every step keeps the sequences apart.
LEMMA SequencesStep ==
  ASSUME Basic, Plain, Growing, Growing', Sequences, [Next]_vars
  PROVE  Sequences'
<1>0. LoadTypes
  BY DEF Basic, LoadInv
<1>1. CASE MainStep
  BY <1>1, SequencesMainStep
<1>2. ASSUME NEW w \in Worker, ConcOwnStep(w)
      PROVE  Sequences'
  BY <1>2, SequencesOwnStep
<1>3. ASSUME NEW w \in Worker, SharedWorkerStep(w)
      PROVE  Sequences'
  BY <1>3, SequencesSharedStep
<1>4. ASSUME NEW w \in Worker, NEW c \in CtxId, Callback(w, c)
      PROVE  Sequences'
  <2>1. UNCHANGED <<mainVars, cfgVars, pc, nctx, rem>>
    BY <1>0, <1>4, CallbackFrame
  <2>2. ASSUME NEW v \in Worker, NEW d \in CtxId, inFlight[v][d] = 0
        PROVE  inFlight'[v][d] = 0
    <3>1. /\ inFlight'[w][c] <= inFlight[w][c]
          /\ v # w => inFlight'[v] = inFlight[v]
          /\ d # c => inFlight'[w][d] = inFlight[w][d]
      BY <1>0, <1>4, CallbackFrame
    <3>2. inFlight' \in [Worker -> [CtxId -> Nat]]
      BY <1>4, CallbackKeeps DEF Basic, LoadInv, LoadTypes, ContextTypes
    <3>3. inFlight'[w][c] \in Nat
      BY <3>2
    <3> QED
      BY <2>2, <3>1, <3>3
  <2> QED
    BY <2>1, <2>2 DEF Sequences, Ranges, OpenOwned, Closed, PauseSeen,
       StoresQuiet, Changing, Rising, Counted, OpenCtxs, mainVars, askVars,
       cfgVars
<1>5. CASE UNCHANGED vars
  BY <1>5 DEF Sequences, Ranges, OpenOwned, Closed, PauseSeen, StoresQuiet,
     Changing, Rising, Counted, OpenCtxs, vars, mainVars, askVars,
     workerVars, cfgVars, idVars, reqVars, ctxVars
<1> QED
  BY <1>1, <1>2, <1>3, <1>4, <1>5, ConcNextCases

-----------------------------------------------------------------------------
(* The theorems.                                                           *)

\* The invariant holds when the manager has been constructed.
LEMMA InitIInv ==
  ASSUME Init
  PROVE  IInv
<1>0. InitLoad /\ LoadInv
  BY InitLoadInv DEF Init
<1>1. ManagerTypes
  <2>1. 0 \in 0 .. MaxContexts /\ 0 \in 0 .. MaxThreads
    BY SizesAssumption
  <2>2. "idle" \in ManagerPc
    BY DEF ManagerPc
  <2> QED
    BY <2>1, <2>2 DEF Init, InitLoad, ManagerTypes
<1>2. Basic
  <2>1. TypeOK
    BY <1>0, <1>1, TypesOfAll DEF LoadInv
  <2>2. ManagerControl
    BY DEF Init, InitLoad, ManagerControl, Storing
  <2>3. WorkerControl
    BY DEF Init, InitLoad, WorkerControl, Each, Parked
  <2> QED
    BY <1>0, <2>1, <2>2, <2>3 DEF Basic
<1>3. \A w \in Worker : /\ free[w] = <<>> /\ held[w] = None /\ pc[w] = "none"
                         /\ conc[w] = 0 /\ offset[w] = 0 /\ numReq[w] = 0
                         /\ nctx[w] = 0 /\ granted[w] = 0 /\ sent[w] = 0
                         /\ \A c \in CtxId :
                               inFlight[w][c] = 0 /\ finalizing[w][c] = 0
  BY <1>0 DEF InitLoad, Each, EachCtx
<1>4. Plain
  <2>1. \A w \in Worker : Circulating(w) = 0 /\ granted[w] = 0
    <3> TAKE w \in Worker
    <3>1. 0 \in CtxId
      BY SizesAssumption DEF CtxId
    <3>2. /\ Len(free[w]) = 0 /\ pc[w] # "held" /\ granted[w] = 0
          /\ inFlight[w][0] = 0 /\ finalizing[w][0] = 0
      BY <1>3, <3>1
    <3> QED
      BY <3>2 DEF Circulating
  <2>2. NoContextNoIds /\ IdsConserved
    BY <2>1 DEF NoContextNoIds, IdsConserved
  <2>3. Unlimited /\ OneContext
    <3>1. <<>> \in Seq({0})
      OBVIOUS
    <3> QED
      BY <1>3, <3>1 DEF Unlimited, OneContext
  <2> QED
    BY <2>2, <2>3 DEF Plain
<1>5. Growing
  <2>1. \A w \in Worker : OwnIds(w)
    BY <1>3 DEF OwnIds, NotBegunPc
  <2>2. Spread
    <3>1. /\ mpc = "idle" /\ level = 0 /\ threads = 0 /\ ~warming
      BY <1>0 DEF InitLoad
    <3>2. Target = 0 /\ ~Changing
      BY <3>1 DEF Target, Changing
    <3>3. ThreadsOf(0) = 0 /\ \A w \in Worker : ~(w < 0)
      BY SizesAssumption DEF ThreadsOf, Worker
    <3> QED
      BY <1>3, <3>1, <3>2, <3>3 DEF Spread
  <2>3. Placed
    <3>1. level = 0 /\ threads = 0 /\ ~warming
      BY <1>0 DEF InitLoad
    <3>2. Target = 0
      BY <3>1 DEF Target
    <3>3. ThreadsOf(0) = 0 /\ \A w \in Worker : ~(w < 0)
      BY SizesAssumption DEF ThreadsOf, Worker
    <3> QED
      BY <1>3, <3>2, <3>3 DEF Placed
  <2> QED
    BY <2>1, <2>2, <2>3 DEF Growing
<1>6. Sequences
  <2>1. Ranges
    BY <1>3, SizesAssumption DEF Ranges
  <2>2. \A s \in Index : rem[s] = 0
    BY <1>0 DEF InitLoad
  <2>3. OpenOwned /\ Closed
    BY <1>3, <2>2 DEF OpenOwned, Closed, ClosedPc, Parked
  <2>4. PauseSeen /\ StoresQuiet
    BY <1>0 DEF InitLoad, PauseSeen, StoresQuiet, Changing, Storing
  <2> QED
    BY <2>1, <2>3, <2>4 DEF Sequences
<1>7. Parts
  <2>1. threads = 0 /\ \A w \in Worker : ~(w < 0)
    BY <1>0 DEF InitLoad, Worker
  <2> QED
    BY <2>1 DEF Parts
<1> QED
  BY <1>2, <1>4, <1>5, <1>6, <1>7 DEF IInv

\* Every step keeps it.
LEMMA IInvStep ==
  ASSUME IInv, [Next]_vars
  PROVE  IInv'
<1>1. Basic'
  BY BasicStep DEF IInv
<1>2. Plain'
  BY UnlimitedStep, OneContextStep, ConservationStep DEF IInv, Plain
<1>3. Growing'
  BY GrowingStep DEF IInv
<1>4. Sequences'
  BY <1>3, SequencesStep DEF IInv
<1>5. Parts'
  BY PartsStep DEF IInv
<1> QED
  BY <1>1, <1>2, <1>3, <1>4, <1>5 DEF IInv

\* So it holds always.
LEMMA Invariance == Spec => []IInv
<1>1. Init => IInv
  BY InitIInv
<1>2. IInv /\ [Next]_vars => IInv'
  BY IInvStep
<1> QED
  BY <1>1, <1>2, PTL DEF Spec

\* Every variable keeps its type: in particular no counter of requests in
\* flight goes below zero, no tracker holds an id that is no context's, and
\* max_threads_ bounds the threads.
THEOREM TypeCorrect == Spec => []TypeOK
<1>1. IInv => TypeOK
  BY DEF IInv, Basic
<1> QED
  BY <1>1, Invariance, PTL

\* total_ongoing_requests_ counts the requests that are at the server, for
\* every number of threads and contexts, through pauses, level changes,
\* warm-up and exit: what WaitForOngoingRequests waits for is what it should.
THEOREM OngoingCorrect == Spec => []OngoingAccounted
<1>1. IInv => OngoingAccounted
  BY DEF IInv, Basic, LoadInv
<1> QED
  BY <1>1, Invariance, PTL

\* A worker that declares itself paused, or that left through
\* HandleExitConditions, has no request at the server.
THEOREM QuietCorrect == Spec => []QuietWhenPausedOrDone
<1>1. IInv => QuietWhenPausedOrDone
  BY DEF IInv, Basic, LoadInv
<1> QED
  BY <1>1, Invariance, PTL

\* Without sequences the ids of a worker are conserved on their way through
\* tracker, send, response and callback: never more requests are outstanding
\* than the tracker was given, and none is lost unless the worker is leaving.
THEOREM ConservationCorrect == Spec => []IdsConserved
<1>1. IInv => IdsConserved
  BY DEF IInv, Plain
<1> QED
  BY <1>1, Invariance, PTL

\* From the moment ReconfigThreads has stored the parts of --request-count, or
\* of the warm-up, ShouldExit holds every worker to its own, for every number
\* of threads and whatever a worker has sent before: none is 0, "no limit",
\* because no more threads are launched than there are requests.
THEOREM CountCorrect == Spec => RequestCountKept
<1>1. ASSUME IInv, [Next]_vars, ~OnSequenceModel, Quota # 0,
             mpc \notin {"pausing", "configure"} \cup Storing,
             NEW w \in Launched, sent'[w] > sent[w]
      PROVE  sent[w] < Share(Quota, threads, w)
  BY <1>1, CountStep DEF IInv
<1>2. IInv /\ [Next]_vars =>
        [/\ ~OnSequenceModel
         /\ Quota # 0
         /\ mpc \notin {"pausing", "configure"} \cup Storing
         => \A w \in Launched :
                sent'[w] > sent[w] => sent[w] < Share(Quota, threads, w)]_vars
  BY <1>1
<1> QED
  BY <1>2, Invariance, PTL DEF Spec, RequestCountKept

\* When levels only rise, ReconfigThreads hands the sequence statuses over
\* with no request out and no sequence open, whoever was interrupted before;
\* and GetSeqStatIndex stays within them, whatever contexts a thread has.
THEOREM HandOverCorrect ==
  ASSUME Rising
  PROVE  Spec => []HandedOverWhole
<1>1. ASSUME IInv
      PROVE  QuiescentReconfig
  <2>1. Basic /\ Growing /\ Sequences
    BY <1>1 DEF IInv
  <2>2. CASE mpc = "configure"
    BY <2>1, <2>2, QuietConfigure DEF QuiescentReconfig
  <2>3. CASE mpc # "configure"
    BY <2>1, <2>3 DEF Sequences, StoresQuiet, QuiescentReconfig
  <2> QED
    BY <2>2, <2>3
<1>2. ASSUME IInv
      PROVE  IndexInRange
  <2> SUFFICES ASSUME OnSequenceModel, NEW w \in Worker
               PROVE  /\ \A c \in 0 .. nctx[w] - 1 : offset[w] + c \in Index
                      /\ held[w] # None => held[w] < nctx[w]
    BY DEF IndexInRange
  <2>1. LoadTypes /\ OwnIds(w) /\ Ranges
    BY <1>2 DEF IInv, Basic, LoadInv, Growing, Sequences
  <2>2. /\ conc[w] \in Nat /\ nctx[w] \in Nat /\ offset[w] \in Nat
        /\ nctx[w] <= conc[w] /\ offset[w] + conc[w] <= MaxContexts
        /\ MaxContexts \in Nat
    BY <2>1, LoadTypesParts, SizesAssumption DEF OwnIds, Ranges
  <2>3. \A c \in 0 .. nctx[w] - 1 : offset[w] + c \in Index
    BY <2>2 DEF Index
  <2> QED
    BY <2>1, <2>3 DEF OwnIds
<1>3. IInv => HandedOverWhole
  BY <1>1, <1>2 DEF HandedOverWhole
<1> QED
  BY <1>3, Invariance, PTL

\* When levels only rise, the threads are joined with no request at the
\* server: who left without waiting had never had a share of a level.
THEOREM NothingOutlives ==
  ASSUME Rising
  PROVE  Spec => []NoRequestOutlivesRun
<1>1. ASSUME IInv, mpc = "end", NEW w \in Worker, NEW c \in CtxId
      PROVE  inFlight[w][c] = 0
  <2>1. /\ LoadTypes /\ OwnIds(w) /\ Spread /\ ManagerControl
        /\ QuietWhenPausedOrDone
        /\ threads \in Nat /\ w \in Nat /\ nctx[w] \in Nat
    BY <1>1, LoadTypesParts DEF IInv, Basic, LoadInv, Growing, TypeOK,
       ManagerTypes, Worker
  <2>2. CASE w < threads /\ pc[w] = "done"
    BY <2>1, <2>2 DEF QuietWhenPausedOrDone
  <2>3. CASE ~(w < threads /\ pc[w] = "done")
    <3>1. w < threads => pc[w] = "left"
      BY <1>1, <2>1, <2>3 DEF ManagerControl, Launched, Finished
    <3>2. ~(w < threads) => conc[w] = 0
      BY <2>1 DEF Spread
    <3>3. nctx[w] = 0
      BY <2>1, <3>1, <3>2 DEF OwnIds
    <3> QED
      BY <2>1, <3>3, NoShareNothingOut
  <2> QED
    BY <2>2, <2>3
<1>2. IInv => NoRequestOutlivesRun
  BY <1>1 DEF NoRequestOutlivesRun
<1> QED
  BY <1>2, Invariance, PTL
=============================================================================
