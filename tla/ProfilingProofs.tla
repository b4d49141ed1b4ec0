--------------------------- MODULE ProfilingProofs ---------------------------
(***************************************************************************)
(* The inference profiler, for every search, range, stability threshold,   *)
(* limit and number of trials, and whatever fails: no record is lost or    *)
(* counted twice, only stable levels are reported, the bracket of a binary *)
(* search holds, and no thread polls the metrics for nothing.              *)
(***************************************************************************)
EXTENDS Profiling, TLAPS

-----------------------------------------------------------------------------
(* Bags of records, and the windows that are kept *)

\* The number of records is a number.
LEMMA CountType ==
  ASSUME NEW b \in Bag, NEW S
  PROVE  Count(b, S) \in Nat
<1>1. /\ b[-1] \in Nat /\ b[0] \in Nat /\ b[1] \in Nat /\ b[2] \in Nat
      /\ b[EMPTY] \in Nat
  BY DEF Bag, Stamps, EMPTY
<1> QED
  BY <1>1 DEF Count

LEMMA TotalIs ==
  ASSUME NEW b
  PROVE  Total(b) = b[-1] + b[0] + b[1] + b[2] + b[EMPTY]
BY DEF Total, Count, Stamps, EMPTY

LEMMA NoRecordsTotal == NoRecords \in Bag /\ Total(NoRecords) = 0
BY TotalIs DEF NoRecords, Bag, Stamps, EMPTY

LEMMA MaxShift ==
  ASSUME NEW t \in Int
  PROVE  Max({-1, t}) = IF t > -1 THEN t ELSE -1
<1>1. \E x \in {-1, t} : \A y \in {-1, t} : x >= y
  OBVIOUS
<1> QED
  BY <1>1 DEF Max

\* A window that starts later sees the same records.
LEMMA RebaseTotal ==
  ASSUME NEW b \in Bag, NEW base \in 0 .. 2
  PROVE  Rebase(b, base) \in Bag /\ Total(Rebase(b, base)) = Total(b)
<1> DEFINE at(s) == {t \in Stamps \ {EMPTY} : Max({-1, t - base}) = s}
<1>1. Rebase(b, base) = [s \in Stamps |->
                           IF s = EMPTY THEN b[EMPTY] ELSE Count(b, at(s))]
  BY DEF Rebase
<1>2. \A s : Count(b, at(s)) \in Nat
  BY CountType
<1>3. /\ b[-1] \in Nat /\ b[0] \in Nat /\ b[1] \in Nat /\ b[2] \in Nat
      /\ b[EMPTY] \in Nat
  BY DEF Bag, Stamps, EMPTY
<1>4. Rebase(b, base) \in Bag
  <2> HIDE DEF at
  <2>1. \A s \in Stamps :
           (IF s = EMPTY THEN b[EMPTY] ELSE Count(b, at(s))) \in Nat
    BY <1>2, <1>3
  <2> QED
    BY <1>1, <2>1 DEF Bag
<1> DEFINE sh(t) == IF t - base > -1 THEN t - base ELSE -1
<1>5. \A t \in {-1, 0, 1, 2} : Max({-1, t - base}) = sh(t)
  BY MaxShift
<1>6. \A s : at(s) = {t \in {-1, 0, 1, 2} : sh(t) = s}
  BY <1>5 DEF Stamps, EMPTY
<1>7. \A s : EMPTY \notin at(s)
  OBVIOUS
<1>8. \A s, t \in {-1, 0, 1, 2} : t \in at(s) <=> sh(t) = s
  BY <1>6
<1> HIDE DEF at
<1>9. \A s \in {-1, 0, 1, 2} :
         Count(b, at(s)) = (IF sh(-1) = s THEN b[-1] ELSE 0)
                           + (IF sh(0) = s THEN b[0] ELSE 0)
                           + (IF sh(1) = s THEN b[1] ELSE 0)
                           + (IF sh(2) = s THEN b[2] ELSE 0)
  BY <1>3, <1>7, <1>8 DEF Count
<1>10. Total(Rebase(b, base)) = Count(b, at(-1)) + Count(b, at(0))
                                + Count(b, at(1)) + Count(b, at(2))
                                + b[EMPTY]
  BY <1>1, TotalIs DEF Stamps, EMPTY
<1>11. Count(b, at(-1)) + Count(b, at(0)) + Count(b, at(1)) + Count(b, at(2))
         = b[-1] + b[0] + b[1] + b[2]
  <2>1. CASE base = 0
    BY <2>1, <1>3, <1>9
  <2>2. CASE base = 1
    BY <2>2, <1>3, <1>9
  <2>3. CASE base = 2
    BY <2>3, <1>3, <1>9
  <2> QED
    BY <2>1, <2>2, <2>3
<1> QED
  BY <1>2, <1>3, <1>4, <1>10, <1>11, TotalIs

\* Pushing a window's result keeps the last three, in order.
LEMMA PushKeeps ==
  ASSUME NEW s \in Seq(Windows), Len(s) <= 3, NEW w \in Windows
  PROVE  LET t == Last3(Append(s, w))
         IN  /\ t \in Seq(Windows) /\ Len(t) \in 1 .. 3 /\ t[Len(t)] = w
             /\ \E d \in {0, 1} :
                   /\ Len(t) = Len(s) + 1 - d
                   /\ \A i \in 1 .. Len(t) - 1 : /\ i + d \in 1 .. Len(s)
                                                 /\ t[i] = s[i + d]
<1> DEFINE a == Append(s, w)
<1>1. /\ a \in Seq(Windows) /\ Len(a) = Len(s) + 1 /\ Len(s) \in Nat
      /\ a[Len(s) + 1] = w
      /\ \A i \in 1 .. Len(s) : a[i] = s[i]
  OBVIOUS
<1>2. CASE Len(a) > 3
  <2>1. Len(s) = 3
    <3>1. Len(s) \in Nat /\ Len(s) + 1 > 3 /\ Len(s) <= 3
      BY <1>1, <1>2
    <3>2. \A n \in Nat : n + 1 > 3 /\ n <= 3 => n = 3
      OBVIOUS
    <3> QED
      BY <3>1, <3>2
  <2>2. /\ Tail(a) \in Seq(Windows) /\ Len(Tail(a)) = 3
        /\ \A i \in 1 .. 3 : Tail(a)[i] = a[i + 1]
    BY <1>1, <2>1
  <2> QED
    BY <1>1, <1>2, <2>1, <2>2 DEF Last3
<1>3. CASE Len(a) <= 3
  <2>1. Last3(a) = a
    BY <1>1, <1>3 DEF Last3
  <2> HIDE DEF a
  <2>2. \A i \in 1 .. Len(a) - 1 : i + 0 \in 1 .. Len(s) /\ a[i] = s[i + 0]
    BY <1>1
  <2>3. Len(a) = Len(s) + 1 - 0 /\ Len(a) \in 1 .. 3
    BY <1>1, <1>3
  <2> QED
    BY <1>1, <2>1, <2>2, <2>3 DEF a
<1> QED
  BY <1>1, <1>2, <1>3

-----------------------------------------------------------------------------
(* The settings, and which steps change what *)

\* Profile<T> has returned or thrown, and the process is about to end.
Over == pc \in {"barrier", "destroy", "done"}

\* The configuration has the types of the command line.
LEMMA ConfigTypes ==
  ASSUME NEW c \in Configs
  PROVE  /\ c.mode \in {"NONE", "LINEAR", "BINARY"}
         /\ c.start \in Nat /\ c.end \in Nat /\ c.step \in Nat
         /\ c.limit \in Nat /\ c.records \in Nat
         /\ c.counted \in BOOLEAN /\ c.countWindows \in BOOLEAN
         /\ c.async \in BOOLEAN /\ c.metrics \in BOOLEAN
         /\ c.server \in BOOLEAN /\ c.mpi \in BOOLEAN
         /\ c.max_trials \in Nat \ {0}
         /\ c.latencies \subseteq Nat \ {0}
BY ProfilingAssumption DEF Config

\* What the environment and the polling thread do to the variables of the
\* main thread: nothing but move the records, the clock and the metrics.
Environment ==
    \/ Respond \/ Store \/ Tick \/ SignalHandler \/ WorkerFails \/ QueryLoop
    \/ PeerJudges \/ PeerExchanges \/ UNCHANGED vars

LEMMA EnvironmentKeeps ==
  ASSUME Environment
  PROVE  UNCHANGED <<cfg, pc, search, met, statuses, collected, wins, trials,
                     first, stable, staleStats, kept, outcome>>
BY DEF Environment, Respond, Store, Tick, SignalHandler, WorkerFails,
   QueryLoop, PeerJudges, PeerExchanges, vars, records, window, results, world

\* The steps of the main thread that take no record: they keep the records
\* and the clock.
TakesNothing ==
    \/ CheckHealth \/ ReadStartStats \/ BeginWindow \/ CheckMetrics
    \/ CloseWindow \/ CountWindowFails \/ Judge \/ AllMPIRanksAreStable
    \/ AfterLoop \/ Stop \/ Join \/ Settle \/ NextLevel \/ Barrier \/ Destroy

LEMMA TakesNothingKeeps ==
  ASSUME TakesNothing
  PROVE  UNCHANGED <<clock, pend, stored, kept, balance>>
BY DEF TakesNothing, CheckHealth, ReadStartStats, BeginWindow, CheckMetrics,
   CloseWindow, CountWindowFails, Judge, AllMPIRanksAreStable, AfterLoop, Stop,
   Join, Settle, NextLevel, Barrier, Destroy, records

LEMMA NextCases ==
  ASSUME [Next]_vars
  PROVE  \/ Environment \/ TakesNothing
         \/ ApplyLevel \/ BeginFirstWindow \/ ReadEndStatsFails \/ Summarize
BY DEF Next, Main, Environment, TakesNothing, Finished

-----------------------------------------------------------------------------
(* The records *)

RecordTypes ==
    /\ cfg \in Configs
    /\ clock \in 0 .. 2
    /\ pend \in Bag /\ stored \in Bag /\ kept \in Bag /\ balance \in Int
    /\ pc = "closing" => clock >= 1
    /\ Total(pend) + Total(stored) <= cfg.records

RecordInv == RecordTypes /\ RecordsConserved

\* One record more with one stamp.
LEMMA PlusOne ==
  ASSUME NEW b \in Bag, NEW s \in Stamps, NEW d \in {-1, 1},
         d = -1 => b[s] > 0
  PROVE  /\ [b EXCEPT ![s] = @ + d] \in Bag
         /\ Total([b EXCEPT ![s] = @ + d]) = Total(b) + d
<1> DEFINE c == [b EXCEPT ![s] = @ + d]
<1>1. /\ b[-1] \in Nat /\ b[0] \in Nat /\ b[1] \in Nat /\ b[2] \in Nat
      /\ b[EMPTY] \in Nat /\ b[s] \in Nat
  BY DEF Bag, Stamps, EMPTY
<1>2. b[s] + d \in Nat
  BY <1>1
<1>3. c \in Bag
  BY <1>2 DEF Bag
<1>4. \A t \in Stamps : c[t] = IF t = s THEN b[s] + d ELSE b[t]
  BY DEF Bag
<1> HIDE DEF c
<1>5. c[-1] + c[0] + c[1] + c[2] + c[EMPTY]
        = b[-1] + b[0] + b[1] + b[2] + b[EMPTY] + d
  BY <1>1, <1>4 DEF Stamps, EMPTY
<1> QED
  BY <1>3, <1>5, TotalIs DEF c

\* What Summarize takes and what it leaves make up what there was.
LEMMA TakenAndLeft ==
  ASSUME NEW b \in Bag
  PROVE  /\ Remaining(b) \in Bag
         /\ Taken(b) \in Nat
         /\ Taken(b) + Total(Remaining(b)) = Total(b)
<1>1. /\ b[-1] \in Nat /\ b[0] \in Nat /\ b[1] \in Nat /\ b[2] \in Nat
      /\ b[EMPTY] \in Nat
  BY DEF Bag, Stamps, EMPTY
<1>2. Remaining(b) \in Bag
  BY DEF Remaining, Bag, Valid, Stamps, EMPTY
<1>3. Taken(b) = b[0] + b[1] + b[EMPTY]
  BY <1>1 DEF Taken, Count, Valid, EMPTY
<1>4. Total(Remaining(b)) = b[-1] + b[2]
  BY <1>1, TotalIs DEF Remaining, Valid, Stamps, EMPTY
<1> QED
  BY <1>1, <1>2, <1>3, <1>4, TotalIs

LEMMA OneMore ==
  ASSUME NEW b \in Bag, NEW s \in Stamps
  PROVE  /\ [b EXCEPT ![s] = @ + 1] \in Bag
         /\ Total([b EXCEPT ![s] = @ + 1]) = Total(b) + 1
<1> DEFINE d == 1
<1>1. d \in {-1, 1} /\ (d = -1 => b[s] > 0) /\ d = 1
  OBVIOUS
<1> HIDE DEF d
<1>2. /\ [b EXCEPT ![s] = @ + d] \in Bag
      /\ Total([b EXCEPT ![s] = @ + d]) = Total(b) + d
  BY <1>1, PlusOne
<1> QED
  BY <1>1, <1>2

LEMMA OneLess ==
  ASSUME NEW b \in Bag, NEW s \in Stamps, b[s] > 0
  PROVE  /\ [b EXCEPT ![s] = @ - 1] \in Bag
         /\ Total([b EXCEPT ![s] = @ - 1]) = Total(b) - 1
<1> DEFINE d == -1
<1>1. d \in {-1, 1} /\ (d = -1 => b[s] > 0) /\ d = -1
  OBVIOUS
<1> HIDE DEF d
<1>2. /\ [b EXCEPT ![s] = @ + d] \in Bag
      /\ Total([b EXCEPT ![s] = @ + d]) = Total(b) + d
  BY <1>1, PlusOne
<1>3. b[s] \in Nat /\ Total(b) \in Nat
  BY CountType DEF Bag, Total
<1>4. b[s] + d = b[s] - 1 /\ Total(b) + d = Total(b) - 1
  BY <1>1, <1>3
<1> QED
  BY <1>2, <1>4

LEMMA UnionTotal ==
  ASSUME NEW a \in Bag, NEW b \in Bag
  PROVE  Union(a, b) \in Bag /\ Total(Union(a, b)) = Total(a) + Total(b)
<1>1. /\ a[-1] \in Nat /\ a[0] \in Nat /\ a[1] \in Nat /\ a[2] \in Nat
      /\ a[EMPTY] \in Nat
      /\ b[-1] \in Nat /\ b[0] \in Nat /\ b[1] \in Nat /\ b[2] \in Nat
      /\ b[EMPTY] \in Nat
  BY DEF Bag, Stamps, EMPTY
<1>2. Union(a, b) \in Bag
  BY DEF Union, Bag
<1>3. Total(Union(a, b)) = (a[-1] + b[-1]) + (a[0] + b[0]) + (a[1] + b[1])
                           + (a[2] + b[2]) + (a[EMPTY] + b[EMPTY])
  BY TotalIs DEF Union, Stamps, EMPTY
<1> QED
  BY <1>1, <1>2, <1>3, TotalIs

LEMMA CfgKept ==
  ASSUME [Next]_vars
  PROVE  cfg' = cfg
BY DEF Next, Main, Finished, Respond, Store, Tick, SignalHandler,
   WorkerFails, QueryLoop, PeerJudges, PeerExchanges, ApplyLevel, CheckHealth,
   BeginFirstWindow, ReadStartStats, BeginWindow, CheckMetrics, CloseWindow,
   CountWindowFails, ReadEndStatsFails, Summarize, Judge,
   AllMPIRanksAreStable, AfterLoop, Stop, Join, Settle, NextLevel, Barrier,
   Destroy, vars

LEMMA RecordInit == Init => RecordInv
<1> SUFFICES ASSUME Init PROVE RecordInv
  OBVIOUS
<1>1. /\ clock = 0 /\ pend = NoRecords /\ stored = NoRecords
      /\ kept = NoRecords /\ balance = 0 /\ pc = "apply" /\ cfg \in Configs
  BY DEF Init
<1>2. cfg.records \in Nat
  BY <1>1, ConfigTypes
<1> QED
  BY <1>1, <1>2, NoRecordsTotal DEF RecordInv, RecordTypes, RecordsConserved

\* Every step keeps RecordInv.
LEMMA RecordStep ==
  ASSUME RecordInv, [Next]_vars
  PROVE  RecordInv'
<1> USE DEF RecordInv, RecordTypes, RecordsConserved
<1>1. /\ Total(pend) \in Nat /\ Total(stored) \in Nat /\ Total(kept) \in Nat
      /\ cfg.records \in Nat
  BY CountType, ConfigTypes DEF Total
<1>2. cfg' = cfg
  BY CfgKept
<1>3. CASE UNCHANGED <<clock, pend, stored, kept, balance>>
           /\ (pc' = "closing" => pc = "closing" \/ clock = 1)
  BY <1>2, <1>3
<1>4. CASE Respond
  <2>1. PICK s \in {clock, EMPTY} : pend' = [pend EXCEPT ![s] = @ + 1]
    BY <1>4 DEF Respond
  <2>2. s \in Stamps
    BY DEF Stamps
  <2>3. /\ pend' \in Bag /\ Total(pend') = Total(pend) + 1
    BY <2>1, <2>2, OneMore
  <2>4. /\ balance' = balance + 1 /\ UNCHANGED <<pc, clock, stored, kept>>
        /\ Total(pend) + Total(stored) < cfg.records
    BY <1>4 DEF Respond
  <2>5. Total(pend') + Total(stored') <= cfg'.records
    BY <1>1, <1>2, <2>3, <2>4
  <2>6. RecordTypes'
    BY <1>2, <2>3, <2>4, <2>5
  <2>7. balance' = Total(pend') + Total(stored') + Total(kept')
    BY <1>1, <2>3, <2>4
  <2> QED
    BY <2>6, <2>7
<1>5. CASE Store
  <2>1. PICK s \in Stamps : /\ pend[s] > 0
                            /\ pend' = [pend EXCEPT ![s] = @ - 1]
                            /\ stored' = [stored EXCEPT ![s] = @ + 1]
    BY <1>5 DEF Store
  <2>3. /\ pend' \in Bag /\ Total(pend') = Total(pend) - 1
    BY <2>1, OneLess
  <2>4. /\ stored' \in Bag /\ Total(stored') = Total(stored) + 1
    BY <2>1, OneMore
  <2>5. UNCHANGED <<pc, clock, kept, balance>>
    BY <1>5 DEF Store
  <2> QED
    BY <1>1, <1>2, <2>3, <2>4, <2>5
<1>6. CASE Tick
  <2>1. /\ clock' = clock + 1 /\ clock < 2
        /\ UNCHANGED <<pc, pend, stored, kept, balance>>
    BY <1>6 DEF Tick
  <2> QED
    BY <1>2, <2>1
<1>7. CASE SignalHandler \/ WorkerFails \/ QueryLoop \/ PeerJudges
           \/ PeerExchanges \/ UNCHANGED vars
  BY <1>3, <1>7 DEF SignalHandler, WorkerFails, QueryLoop, PeerJudges,
     PeerExchanges, vars, records
<1>8. CASE TakesNothing
  <2>1. CloseWindow => clock = 1
    BY DEF CloseWindow
  <2>2. (\/ CheckHealth \/ ReadStartStats \/ BeginWindow \/ CheckMetrics
         \/ CountWindowFails \/ AfterLoop \/ Stop \/ Join \/ Barrier
         \/ Destroy) => pc' # "closing"
    BY DEF CheckHealth, ReadStartStats, BeginWindow, CheckMetrics,
       CountWindowFails, AfterLoop, Stop, Join, Barrier, Destroy,
       MeasureFails
  <2>3. Judge \/ AllMPIRanksAreStable => pc' # "closing"
    BY DEF Judge, AllMPIRanksAreStable, NextTrial
  <2>4. Settle => pc' # "closing"
    BY DEF Settle
  <2>5. NextLevel => pc' # "closing"
    BY ConfigTypes DEF NextLevel, NextLinear, NextBinary, Finish, Continue
  <2>6. pc' = "closing" => clock = 1
    BY <1>8, <2>1, <2>2, <2>3, <2>4, <2>5 DEF TakesNothing
  <2> QED
    BY <1>3, <1>8, <2>6, TakesNothingKeeps
<1>9. CASE ApplyLevel
  <2>1. /\ stored' = NoRecords /\ kept' = NoRecords /\ balance' = Total(pend)
        /\ UNCHANGED <<clock, pend>> /\ pc' # "closing"
    BY <1>9 DEF ApplyLevel
  <2>2. /\ Total(stored') = 0 /\ Total(kept') = 0
        /\ stored' \in Bag /\ kept' \in Bag
    BY <2>1, NoRecordsTotal
  <2>4. Total(pend') + Total(stored') <= cfg.records
    BY <1>1, <2>1, <2>2
  <2> QED
    BY <1>1, <1>2, <2>1, <2>2, <2>4
<1>10. CASE BeginFirstWindow
  <2>1. /\ clock' = 0 /\ pend' = Rebase(pend, clock)
        /\ stored' = Rebase(stored, clock) /\ kept' = Rebase(kept, clock)
        /\ balance' = balance /\ pc' # "closing"
    BY <1>10 DEF BeginFirstWindow
  <2>2. /\ pend' \in Bag /\ Total(pend') = Total(pend)
        /\ stored' \in Bag /\ Total(stored') = Total(stored)
        /\ kept' \in Bag /\ Total(kept') = Total(kept)
    BY <2>1, RebaseTotal
  <2> QED
    BY <1>2, <2>1, <2>2
<1>11. CASE ReadEndStatsFails
  <2>1. /\ clock' = clock - 1 /\ pend' = Rebase(pend, 1)
        /\ stored' = Rebase(stored, 1) /\ kept' = Rebase(kept, 1)
        /\ balance' = balance /\ pc = "closing" /\ pc' = "judge"
    BY <1>11 DEF ReadEndStatsFails, NextWindow, MeasureFails
  <2>2. /\ pend' \in Bag /\ Total(pend') = Total(pend)
        /\ stored' \in Bag /\ Total(stored') = Total(stored)
        /\ kept' \in Bag /\ Total(kept') = Total(kept)
    BY <2>1, RebaseTotal
  <2>3. clock' \in 0 .. 2
    BY <2>1
  <2> QED
    BY <1>2, <2>1, <2>2, <2>3
<1>12. CASE Summarize
  <2> DEFINE all == Gather(stored, kept)
  <2>1. /\ clock' = clock - 1 /\ pend' = Rebase(pend, 1)
        /\ stored' = Rebase(NoRecords, 1)
        /\ kept' = Rebase(Remaining(all), 1)
        /\ balance' = balance - Taken(all)
        /\ pc = "closing" /\ pc' = "judge"
    BY <1>12 DEF Summarize, NextWindow
  <2>2. all \in Bag /\ Total(all) = Total(stored) + Total(kept)
    BY UnionTotal DEF Gather
  <2>3. /\ Remaining(all) \in Bag /\ Taken(all) \in Nat
        /\ Taken(all) + Total(Remaining(all)) = Total(all)
    BY <2>2, TakenAndLeft
  <2>4. /\ pend' \in Bag /\ Total(pend') = Total(pend)
    BY <2>1, RebaseTotal
  <2>5. /\ stored' \in Bag /\ Total(stored') = 0
    BY <2>1, RebaseTotal, NoRecordsTotal
  <2>6. /\ kept' \in Bag /\ Total(kept') = Total(Remaining(all))
    BY <2>1, <2>3, RebaseTotal
  <2>7. clock' \in 0 .. 2
    BY <2>1
  <2>8. Total(Remaining(all)) \in Nat
    BY <2>3, CountType DEF Total
  <2> HIDE DEF all
  <2>9. balance' = Total(pend') + Total(stored') + Total(kept')
    BY <1>1, <2>1, <2>2, <2>3, <2>4, <2>5, <2>6, <2>8
  <2>10. Total(pend') + Total(stored') <= cfg.records
    BY <1>1, <2>4, <2>5
  <2>11. balance' \in Int
    BY <2>1, <2>3
  <2> QED
    BY <1>2, <2>1, <2>4, <2>5, <2>6, <2>7, <2>9, <2>10, <2>11
<1> QED
  BY <1>4, <1>5, <1>6, <1>7, <1>8, <1>9, <1>10, <1>11, <1>12, NextCases
  DEF Environment

\* Every response that got its timestamp in an experiment is in one place:
\* with its thread, kept for a later window, or taken by one window, once,
\* whatever windows fail and however late records are stored.
THEOREM RecordsAreConserved == Spec => []RecordsConserved
<1>1. Init => RecordInv
  BY RecordInit
<1>2. RecordInv /\ [Next]_vars => RecordInv'
  BY RecordStep
<1>3. RecordInv => RecordsConserved
  BY DEF RecordInv
<1> QED
  BY <1>1, <1>2, <1>3, PTL DEF Spec

-----------------------------------------------------------------------------
(* The polling of the metrics *)

LoopPc == {"none", "query", "wait", "thrown", "ended"}

\* Only the start of an experiment's first window waits for a loop that is
\* being replaced, and the one that runs is joined before the report.
PollingInv ==
    /\ cfg \in Configs
    /\ metrics \in [keep : BOOLEAN, loop : LoopPc, orphan : LoopPc,
                    samples : SUBSET {"this", "old"},
                    taken : SUBSET {"this", "old"}]
    /\ metrics.orphan # "none" => pc = "rejoin"
    /\ metrics.loop # "none" => /\ cfg.metrics
                                /\ pc \notin {"apply", "settle", "next"}
    /\ pc = "done" => ~Running(metrics.loop)

LEMMA PollingInit == Init => PollingInv
<1> SUFFICES ASSUME Init PROVE PollingInv
  OBVIOUS
<1>1. metrics = [keep |-> FALSE, loop |-> "none", orphan |-> "none",
                 samples |-> {}, taken |-> {}]
      /\ pc = "apply" /\ cfg \in Configs
  BY DEF Init
<1> QED
  BY <1>1 DEF PollingInv, LoopPc, Running

\* The steps that leave the metrics alone.
LEMMA PollingGeneric ==
  ASSUME PollingInv, UNCHANGED <<cfg, metrics>>,
         pc' = pc \/ /\ pc \notin {"rejoin", "done"}
                     /\ pc' \notin {"done", "apply", "settle", "next"}
  PROVE  PollingInv'
BY DEF PollingInv, Running

\* Every step keeps PollingInv.
LEMMA PollingStep ==
  ASSUME PollingInv, [Next]_vars
  PROVE  PollingInv'
<1>1. cfg' = cfg
  BY CfgKept
<1>2. CASE \/ Respond \/ Store \/ Tick \/ SignalHandler \/ WorkerFails
           \/ PeerJudges \/ PeerExchanges \/ UNCHANGED vars
  BY <1>1, <1>2, PollingGeneric DEF Respond, Store, Tick, SignalHandler,
     WorkerFails, PeerJudges, PeerExchanges, vars
<1>3. CASE \/ CheckHealth \/ BeginWindow \/ CountWindowFails
           \/ ReadEndStatsFails \/ Summarize
  BY <1>1, <1>3, PollingGeneric DEF CheckHealth, BeginWindow,
     CountWindowFails, MeasureFails, ReadEndStatsFails, Summarize
<1>4. CASE Judge \/ AllMPIRanksAreStable
  BY <1>1, <1>4, PollingGeneric DEF Judge, AllMPIRanksAreStable, NextTrial
<1>5. CASE QueryLoop
  <2>1. pc' = pc
    BY <1>5 DEF QueryLoop
  <2>2. PICK l \in {"loop", "orphan"} : Running(metrics[l])
           /\ \/ metrics' = [metrics EXCEPT ![l] = "wait",
                                            !.samples = @ \cup {"this"}]
              \/ metrics' = [metrics EXCEPT ![l] = "thrown"]
              \/ metrics' = [metrics EXCEPT ![l] = IF metrics.keep
                                                   THEN "query" ELSE "ended"]
    BY <1>5 DEF QueryLoop, Running
  <2>3. CASE l = "loop"
    <3>1. metrics.loop \in {"query", "wait"}
      BY <2>2, <2>3 DEF Running
    <3>2. \/ metrics' = [metrics EXCEPT !.loop = "wait",
                                        !.samples = @ \cup {"this"}]
          \/ metrics' = [metrics EXCEPT !.loop = "thrown"]
          \/ metrics' = [metrics EXCEPT !.loop = IF metrics.keep
                                              THEN "query" ELSE "ended"]
      BY <2>2, <2>3
    <3>3. metrics'.orphan = metrics.orphan
      BY <3>2 DEF PollingInv
    <3>4. metrics' \in [keep : BOOLEAN, loop : LoopPc, orphan : LoopPc,
                        samples : SUBSET {"this", "old"},
                        taken : SUBSET {"this", "old"}]
      <4>1. /\ metrics.samples \in SUBSET {"this", "old"}
            /\ metrics.samples \cup {"this"} \in SUBSET {"this", "old"}
        BY DEF PollingInv
      <4>2. /\ "wait" \in LoopPc /\ "thrown" \in LoopPc
            /\ (IF metrics.keep THEN "query" ELSE "ended") \in LoopPc
        BY DEF LoopPc
      <4>3. \E v \in LoopPc, s \in SUBSET {"this", "old"} :
               \/ metrics' = [metrics EXCEPT !.loop = v, !.samples = s]
               \/ metrics' = [metrics EXCEPT !.loop = v]
        BY <3>2, <4>1, <4>2
      <4> QED
        BY <4>3 DEF PollingInv
    <3>5. pc # "done" /\ metrics.loop # "none"
      BY <3>1 DEF PollingInv, Running
    <3> QED
      BY <1>1, <2>1, <3>3, <3>4, <3>5 DEF PollingInv
  <2>4. CASE l = "orphan"
    <3>1. metrics.orphan \in {"query", "wait"} /\ pc = "rejoin"
      BY <2>2, <2>4 DEF PollingInv, Running
    <3>2. \/ metrics' = [metrics EXCEPT !.orphan = "wait",
                                        !.samples = @ \cup {"this"}]
          \/ metrics' = [metrics EXCEPT !.orphan = "thrown"]
          \/ metrics' = [metrics EXCEPT !.orphan = IF metrics.keep
                                              THEN "query" ELSE "ended"]
      BY <2>2, <2>4
    <3>3. metrics'.loop = metrics.loop
      BY <3>2 DEF PollingInv
    <3>4. metrics' \in [keep : BOOLEAN, loop : LoopPc, orphan : LoopPc,
                        samples : SUBSET {"this", "old"},
                        taken : SUBSET {"this", "old"}]
      <4>1. /\ metrics.samples \in SUBSET {"this", "old"}
            /\ metrics.samples \cup {"this"} \in SUBSET {"this", "old"}
        BY DEF PollingInv
      <4>2. /\ "wait" \in LoopPc /\ "thrown" \in LoopPc
            /\ (IF metrics.keep THEN "query" ELSE "ended") \in LoopPc
        BY DEF LoopPc
      <4>3. \E v \in LoopPc, s \in SUBSET {"this", "old"} :
               \/ metrics' = [metrics EXCEPT !.orphan = v, !.samples = s]
               \/ metrics' = [metrics EXCEPT !.orphan = v]
        BY <3>2, <4>1, <4>2
      <4> QED
        BY <4>3 DEF PollingInv
    <3> QED
      BY <1>1, <2>1, <3>1, <3>3, <3>4 DEF PollingInv
  <2> QED
    BY <2>3, <2>4
<1>6. CASE BeginFirstWindow
  BY <1>1, <1>6 DEF BeginFirstWindow, StartQueryingMetrics, PollingInv,
     LoopPc, Running
<1>7. CASE ReadStartStats
  BY <1>1, <1>7 DEF ReadStartStats, MeasureFails, PollingInv, LoopPc, Running
<1>8. CASE CheckMetrics
  BY <1>1, <1>8 DEF CheckMetrics, CheckQueryingStatus, MeasureFails,
     PollingInv, LoopPc, Running
<1>9. CASE CloseWindow
  BY <1>1, <1>9 DEF CloseWindow, GetLatestMetrics, PollingInv, LoopPc, Running
<1>10. CASE AfterLoop
  BY <1>1, <1>10 DEF AfterLoop, PollingInv, LoopPc, Running
<1>11. CASE Stop \/ Barrier
  BY <1>1, <1>11 DEF Stop, Barrier, StopQueryingMetrics, PollingInv, LoopPc,
     Running
<1>12. CASE Join \/ Destroy
  BY <1>1, <1>12 DEF Join, Destroy, PollingInv, LoopPc, Running
<1>13. CASE Settle
  BY <1>1, <1>13 DEF Settle, PollingInv, LoopPc, Running
<1>14. CASE NextLevel
  <2>1. /\ pc = "next" /\ metrics' = metrics
        /\ pc' \in {"apply", "barrier"}
    BY <1>14, ConfigTypes DEF PollingInv, NextLevel, NextLinear, NextBinary,
       Finish, Continue
  <2> QED
    BY <1>1, <2>1 DEF PollingInv, Running
<1>15. CASE ApplyLevel
  BY <1>1, <1>15 DEF ApplyLevel, PollingInv, LoopPc, Running
<1> QED
  BY <1>2, <1>3, <1>4, <1>5, <1>6, <1>7, <1>8, <1>9, <1>10, <1>11, <1>12,
     <1>13, <1>14, <1>15 DEF Next, Main, Finished

\* No thread polls the server's metrics once an experiment has reported: the
\* loop is stopped and joined before, also when it had thrown or another one
\* had been started over it, and the process never ends with one.
THEOREM PollingIsStopped == Spec => []PollingStopped
<1>1. Init => PollingInv
  BY PollingInit
<1>2. PollingInv /\ [Next]_vars => PollingInv'
  BY PollingStep
<1>3. PollingInv => PollingStopped
  BY DEF PollingInv, PollingStopped, Running
<1> QED
  BY <1>1, <1>2, <1>3, PTL DEF Spec

-----------------------------------------------------------------------------
(* The levels of the search *)

Searches == [level : Nat, lo : Nat, hi : Nat,
             turn : {"first", "last", "bisect"}]

SearchInv ==
    /\ cfg \in Configs
    /\ search \in Searches
    /\ met \in [DOMAIN met -> BOOLEAN]

LEMMA SearchInit == Init => SearchInv
<1> SUFFICES ASSUME Init PROVE SearchInv
  OBVIOUS
<1>1. cfg \in Configs
  BY DEF Init
<1>2. cfg.start \in Nat /\ cfg.end \in Nat
  BY <1>1, ConfigTypes
<1>3. search \in Searches
  BY <1>2 DEF Init, Searches
<1>4. met \in [DOMAIN met -> BOOLEAN]
  BY DEF Init
<1> QED
  BY <1>1, <1>3, <1>4 DEF SearchInv

\* Only NextLevel changes the search, and only Settle the verdicts.
LEMMA SearchKept ==
  ASSUME [Next]_vars, ~NextLevel
  PROVE  search' = search
BY DEF Next, Main, Finished, Respond, Store, Tick, SignalHandler,
   WorkerFails, QueryLoop, PeerJudges, PeerExchanges, ApplyLevel, CheckHealth,
   BeginFirstWindow, ReadStartStats, BeginWindow, CheckMetrics, CloseWindow,
   CountWindowFails, ReadEndStatsFails, Summarize, Judge,
   AllMPIRanksAreStable, AfterLoop, Stop, Join, Settle, Barrier, Destroy,
   vars, results

LEMMA VerdictsKept ==
  ASSUME [Next]_vars, ~Settle
  PROVE  met' = met /\ statuses' = statuses
BY DEF Next, Main, Finished, Respond, Store, Tick, SignalHandler,
   WorkerFails, QueryLoop, PeerJudges, PeerExchanges, ApplyLevel, CheckHealth,
   BeginFirstWindow, ReadStartStats, BeginWindow, CheckMetrics, CloseWindow,
   CountWindowFails, ReadEndStatsFails, Summarize, Judge,
   AllMPIRanksAreStable, AfterLoop, Stop, Join, NextLevel, Barrier, Destroy,
   vars, results

\* What a verdict on the level is.
LEMMA SettleIs ==
  ASSUME Settle
  PROVE  \/ /\ pc = "settle" /\ pc' = "barrier" /\ outcome' = "error"
            /\ UNCHANGED <<met, statuses>>
         \/ \E b \in BOOLEAN :
               /\ pc = "settle"
               /\ met' = [l \in DOMAIN met \cup {search.level} |->
                            IF l = search.level THEN b ELSE met[l]]
               /\ \/ pc' = "next" /\ outcome' = outcome
                  \/ pc' = "done" /\ outcome' = "terminate"
<1> DEFINE meets == stable /\ ~(/\ cfg.limit # NO_LIMIT
                                /\ MergedLatency >= cfg.limit)
<1>1. meets \in BOOLEAN
  OBVIOUS
<1> QED
  BY <1>1, Zenon DEF Settle

LEMMA SearchStep ==
  ASSUME SearchInv, [Next]_vars
  PROVE  SearchInv'
<1>1. cfg' \in Configs
  BY CfgKept DEF SearchInv
<1>2. search' \in Searches
  <2>1. CASE ~NextLevel
    BY <2>1, SearchKept DEF SearchInv
  <2>2. CASE NextLevel
    <3>1. /\ cfg.end \in Nat /\ cfg.step \in Nat
          /\ search.level \in Nat /\ search.lo \in Nat /\ search.hi \in Nat
          /\ cfg.mode \in {"NONE", "LINEAR", "BINARY"}
      BY ConfigTypes DEF SearchInv, Searches
    <3>2. CASE cfg.mode = "NONE"
      BY <2>2, <3>2 DEF SearchInv, NextLevel, Finish
    <3>3. CASE cfg.mode = "LINEAR"
      <4>1. search.level + cfg.step \in Nat
        BY <3>1
      <4>2. NextLinear
        BY <2>2, <3>3 DEF NextLevel
      <4>3. \/ search' = search
            \/ search' = [search EXCEPT !.level = search.level + cfg.step]
        BY <4>2 DEF NextLinear, Finish, Continue
      <4> QED
        BY <4>1, <4>3 DEF SearchInv, Searches
    <3>4. CASE cfg.mode = "BINARY"
      <4> DEFINE now == IF search.turn = "bisect" THEN Halve(search)
                        ELSE [search EXCEPT !.turn = "bisect"]
                 mid == (now.hi + now.lo) \div 2
      <4>1. now \in Searches /\ now.hi \in Nat /\ now.lo \in Nat
        BY <3>1 DEF Halve, SearchInv, Searches
      <4>2. mid \in Nat
        <5> HIDE DEF now
        <5> QED
          BY <4>1
      <4>3. NextBinary
        BY <2>2, <3>4 DEF NextLevel
      <4>4. \/ search' = search \/ search' = now
            \/ search' = [search EXCEPT !.level = cfg.end, !.turn = "last"]
            \/ search' = [now EXCEPT !.level = mid]
        BY <4>3 DEF NextBinary, Finish, Continue
      <4> HIDE DEF now, mid
      <4> QED
        BY <3>1, <4>1, <4>2, <4>4 DEF SearchInv, Searches
    <3> QED
      BY <3>1, <3>2, <3>3, <3>4
  <2> QED
    BY <2>1, <2>2
<1>3. met' \in [DOMAIN met' -> BOOLEAN]
  <2>1. CASE ~Settle
    BY <2>1, VerdictsKept DEF SearchInv
  <2>2. CASE Settle
    <3>1. CASE met' = met
      BY <3>1 DEF SearchInv
    <3>2. CASE \E b \in BOOLEAN :
                  met' = [l \in DOMAIN met \cup {search.level} |->
                            IF l = search.level THEN b ELSE met[l]]
      BY <3>2 DEF SearchInv
    <3> QED
      BY <2>2, <3>1, <3>2, SettleIs
  <2> QED
    BY <2>1, <2>2
<1> QED
  BY <1>1, <1>2, <1>3 DEF SearchInv

-----------------------------------------------------------------------------
(* The windows of an experiment *)

\* The main thread is past a first window of the experiment.
PastFirst == pc \in {"judge", "exchange", "after", "stop", "join", "settle"}

WindowInv ==
    /\ wins \in Seq(Windows) /\ Len(wins) <= 3
    /\ staleStats \in BOOLEAN
    /\ staleStats => cfg.server /\ (wins = << >> \/ ~wins[Len(wins)].ok)
    /\ StatsCoverWindow
    /\ PastFirst => wins # << >>
    /\ pc # "apply" => \A i \in DOMAIN wins : wins[i].ok =>
                          search.level \in collected /\ wins[i].ips > 0

LEMMA FailedWindowType == FailedWindow \in Windows
BY DEF FailedWindow, Windows

\* What Summarize makes of a window's records.
LEMMA SummarizeWindowIs ==
  ASSUME RecordInv, PollingInv, staleStats \in BOOLEAN,
         NEW b \in Bag, NEW lat \in cfg.latencies
  PROVE  LET w == SummarizeWindow(b, lat)
         IN  w \in Windows /\ (w.wide => staleStats) /\ (w.ok => w.ips > 0)
<1>1. Count(b, Valid) \in Nat
  BY CountType
<1>2. lat \in Nat /\ metrics.taken \in SUBSET {"this", "old"}
  BY ConfigTypes DEF RecordInv, RecordTypes, PollingInv
<1>3. CASE Count(b, Valid) = 0
  BY <1>3, FailedWindowType DEF SummarizeWindow, FailedWindow
<1>4. CASE Count(b, Valid) # 0
  <2> DEFINE n == Count(b, Valid)
             e == IF b[1] > 0 THEN 1 ELSE 0
  <2>1. SummarizeWindow(b, lat) =
          [ok |-> TRUE, ips |-> n, lat |-> lat, tags |-> metrics.taken,
           wide |-> staleStats, end |-> e]
    BY <1>4 DEF SummarizeWindow
  <2>2. n \in Nat /\ n > 0 /\ e \in {0, 1}
    BY <1>1, <1>4
  <2> HIDE DEF n, e
  <2> QED
    BY <1>2, <2>1, <2>2 DEF Windows
<1> QED
  BY <1>3, <1>4

\* The steps that push a window's result, and what they push.
Pushed(w) ==
    /\ wins' = Last3(Append(wins, w))
    /\ pc' = "judge" /\ pc # "apply" /\ search' = search
    /\ collected \subseteq collected'
    /\ w \in Windows /\ staleStats' \in BOOLEAN
    /\ w.wide => staleStats
    /\ w.ok => w.ips > 0 /\ search.level \in collected' /\ ~staleStats'
    /\ staleStats' => staleStats \/ cfg.server

LEMMA FailedIsPushed ==
  ASSUME wins' = Last3(Append(wins, FailedWindow)),
         pc' = "judge", pc # "apply",
         search' = search, collected' = collected, staleStats' \in BOOLEAN,
         staleStats' => staleStats \/ cfg.server
  PROVE  \E w \in Windows : Pushed(w)
<1>1. FailedWindow \in Windows /\ ~FailedWindow.wide /\ ~FailedWindow.ok
  BY FailedWindowType DEF FailedWindow
<1> QED
  BY <1>1 DEF Pushed

LEMMA WindowSteps ==
  ASSUME RecordInv, PollingInv, SearchInv, WindowInv, [Next]_vars
  PROVE  \/ \E w \in Windows : Pushed(w)
         \/ /\ ApplyLevel
         \/ /\ wins' = wins /\ staleStats' \in BOOLEAN
            /\ staleStats' => staleStats
            /\ collected' = collected
            /\ search'.level = search.level \/ pc' = "apply"
            /\ pc = "apply" => pc' = "apply"
            /\ pc' \in {"exchange", "after", "stop", "join", "settle"}
                 => PastFirst
            /\ pc' = "judge" => pc = "judge"
<1> DEFINE Quiet == /\ wins' = wins /\ staleStats' \in BOOLEAN
                    /\ staleStats' => staleStats
                    /\ collected' = collected
                    /\ search'.level = search.level \/ pc' = "apply"
                    /\ pc = "apply" => pc' = "apply"
                    /\ pc' \in {"exchange", "after", "stop", "join", "settle"}
                         => PastFirst
                    /\ pc' = "judge" => pc = "judge"
<1>0. staleStats \in BOOLEAN
  BY DEF WindowInv
<1>1. CASE Environment
  <2>1. Quiet
    BY <1>0, <1>1, EnvironmentKeeps DEF PastFirst
  <2> QED
    BY <2>1
<1>2. CASE CheckHealth \/ BeginFirstWindow \/ BeginWindow \/ CloseWindow
  <2>1. Quiet
    BY <1>0, <1>2 DEF CheckHealth, BeginFirstWindow, BeginWindow, CloseWindow,
       window, results, PastFirst
  <2> QED
    BY <2>1
<1>3. CASE Judge \/ AllMPIRanksAreStable
  <2>1. Quiet
    <3>1. /\ pc \in {"judge", "exchange"}
          /\ UNCHANGED <<wins, staleStats, collected, search>>
      BY <1>3 DEF Judge, AllMPIRanksAreStable, results
    <3>2. pc' \in {"exchange", "top", "after"}
      BY <1>3 DEF Judge, AllMPIRanksAreStable, NextTrial
    <3> QED
      BY <1>0, <3>1, <3>2 DEF PastFirst
  <2> QED
    BY <2>1
<1>4. CASE AfterLoop \/ Stop \/ Join \/ Barrier \/ Destroy
  <2>1. Quiet
    <3>1. UNCHANGED <<wins, staleStats, collected, search>>
      BY <1>4 DEF AfterLoop, Stop, Join, Barrier, Destroy, window, results
    <3>2. \/ pc \in {"after", "stop", "join"} /\ pc' # "judge"
          \/ pc \in {"barrier", "destroy"} /\ pc' \in {"destroy", "done"}
      BY <1>4 DEF AfterLoop, Stop, Join, Barrier, Destroy
    <3> QED
      BY <1>0, <3>1, <3>2 DEF PastFirst
  <2> QED
    BY <2>1
<1>5. CASE Settle
  <2>1. Quiet
    BY <1>0, <1>5 DEF Settle, window, PastFirst
  <2> QED
    BY <2>1
<1>6. CASE NextLevel
  <2>1. /\ pc = "next" /\ pc' \in {"apply", "barrier"}
        /\ UNCHANGED <<wins, staleStats, collected>>
    BY <1>6, ConfigTypes DEF RecordInv, RecordTypes, NextLevel, NextLinear,
       NextBinary, Finish, Continue, window
  <2>2. pc' = "apply" \/ search'.level = search.level
    <3>1. CASE cfg.mode = "NONE"
      BY <1>6, <3>1 DEF NextLevel, Finish
    <3>2. CASE cfg.mode = "LINEAR"
      BY <1>6, <3>2 DEF NextLevel, NextLinear, Finish, Continue
    <3>3. CASE cfg.mode = "BINARY"
      <4>1. /\ cfg.mode # "NONE" /\ cfg.mode # "LINEAR"
            /\ Halve(search).level = search.level
            /\ [search EXCEPT !.turn = "bisect"].level = search.level
        BY <3>3 DEF Halve, SearchInv, Searches
      <4>2. NextBinary
        BY <1>6, <3>3, <4>1 DEF NextLevel
      <4> QED
        BY <4>1, <4>2 DEF NextBinary, Finish, Continue
    <3> QED
      BY <3>1, <3>2, <3>3, ConfigTypes DEF RecordInv, RecordTypes
  <2>3. Quiet
    BY <1>0, <2>1, <2>2
  <2> QED
    BY <2>3
<1>7. CASE ReadStartStats
  <2>1. CASE pc' = "status" /\ staleStats' = FALSE /\ wins' = wins
    <3>1. Quiet
      BY <1>7, <2>1 DEF ReadStartStats, results
    <3> QED
      BY <3>1
  <2>2. CASE MeasureFails /\ staleStats' = staleStats
    BY <1>0, <1>7, <2>2, FailedIsPushed DEF ReadStartStats, MeasureFails,
       Push, results
  <2> QED
    BY <1>7, <2>1, <2>2 DEF ReadStartStats
<1>8. CASE CheckMetrics
  <2>1. CASE pc' = "sleep" /\ wins' = wins
    <3>1. Quiet
      BY <1>0, <1>8, <2>1 DEF CheckMetrics, results
    <3> QED
      BY <3>1
  <2>2. CASE MeasureFails
    BY <1>0, <1>8, <2>2, FailedIsPushed DEF CheckMetrics, MeasureFails,
       Push, results
  <2> QED
    BY <1>8, <2>1, <2>2 DEF CheckMetrics
<1>9. CASE CountWindowFails
  BY <1>0, <1>9, FailedIsPushed DEF CountWindowFails, MeasureFails, Push,
     results
<1>10. CASE ReadEndStatsFails
  BY <1>10, FailedIsPushed DEF ReadEndStatsFails, MeasureFails, Push,
     results, PrevStats
<1>11. CASE Summarize
  <2> DEFINE all == Gather(stored, kept)
  <2>1. all \in Bag
    BY UnionTotal DEF Gather, RecordInv, RecordTypes
  <2>2. /\ pc = "closing" /\ pc' = "judge" /\ search' = search
        /\ collected' = collected \cup {search.level}
        /\ staleStats' = FALSE
    BY <1>11 DEF Summarize, PrevStats
  <2>3. CASE \E lat \in cfg.latencies :
                wins' = Last3(Append(wins, SummarizeWindow(all, lat)))
    <3>1. PICK lat \in cfg.latencies :
             wins' = Last3(Append(wins, SummarizeWindow(all, lat)))
      BY <2>3
    <3> DEFINE w == SummarizeWindow(all, lat)
    <3>2. w \in Windows /\ (w.wide => staleStats) /\ (w.ok => w.ips > 0)
      BY <1>0, <2>1, SummarizeWindowIs
    <3>3. wins' = Last3(Append(wins, w))
      BY <3>1
    <3> HIDE DEF w
    <3> QED
      BY <2>2, <3>2, <3>3 DEF Pushed
  <2>4. CASE wins' = Last3(Append(wins, FailedWindow))
    <3>1. FailedWindow \in Windows /\ ~FailedWindow.wide /\ ~FailedWindow.ok
      BY FailedWindowType DEF FailedWindow
    <3> QED
      BY <2>2, <2>4, <3>1 DEF Pushed
  <2> QED
    BY <1>11, <2>3, <2>4 DEF Summarize, Push
<1> QED
  BY <1>1, <1>2, <1>3, <1>4, <1>5, <1>6, <1>7, <1>8, <1>9, <1>10, <1>11,
     NextCases DEF TakesNothing

LEMMA WindowInit == Init => WindowInv
<1> SUFFICES ASSUME Init PROVE WindowInv
  OBVIOUS
<1>1. wins = << >> /\ staleStats = FALSE /\ pc = "apply"
  BY DEF Init
<1>2. << >> \in Seq(Windows) /\ Len(<< >>) = 0 /\ DOMAIN << >> = {}
  OBVIOUS
<1>3. wins \in Seq(Windows) /\ Len(wins) <= 3 /\ DOMAIN wins = {}
  BY <1>1, <1>2
<1>4. staleStats \in BOOLEAN /\ ~staleStats
  BY <1>1
<1>5. StatsCoverWindow
  BY <1>3 DEF StatsCoverWindow
<1> QED
  BY <1>1, <1>3, <1>4, <1>5 DEF WindowInv, PastFirst

\* Every step keeps WindowInv.
LEMMA WindowStep ==
  ASSUME RecordInv, PollingInv, SearchInv, WindowInv, [Next]_vars
  PROVE  WindowInv'
<1>1. cfg' = cfg
  BY CfgKept
<1>2. CASE ApplyLevel
  <2>1. wins' = << >> /\ staleStats' = staleStats
    BY <1>2 DEF ApplyLevel
  <2>2. pc' \in {"top", "barrier"}
    BY <1>2 DEF ApplyLevel
  <2>3. << >> \in Seq(Windows) /\ Len(<< >>) = 0 /\ DOMAIN << >> = {}
    OBVIOUS
  <2> QED
    BY <1>1, <2>1, <2>2, <2>3 DEF WindowInv, StatsCoverWindow, PastFirst
<1>3. CASE /\ wins' = wins /\ staleStats' \in BOOLEAN
           /\ staleStats' => staleStats
           /\ collected' = collected
           /\ search'.level = search.level \/ pc' = "apply"
           /\ pc = "apply" => pc' = "apply"
           /\ pc' \in {"exchange", "after", "stop", "join", "settle"}
                => PastFirst
           /\ pc' = "judge" => pc = "judge"
  <2>1. PastFirst' => PastFirst
    BY <1>3 DEF PastFirst
  <2> QED
    BY <1>1, <1>3, <2>1 DEF WindowInv, StatsCoverWindow
<1>4. CASE \E w \in Windows : Pushed(w)
  <2>1. PICK w \in Windows : Pushed(w)
    BY <1>4
  <2> DEFINE t == Last3(Append(wins, w))
  <2>2. /\ wins \in Seq(Windows) /\ Len(wins) <= 3 /\ Len(wins) \in Nat
    BY DEF WindowInv
  <2>3. /\ t \in Seq(Windows) /\ Len(t) \in 1 .. 3 /\ t[Len(t)] = w
        /\ \E d \in {0, 1} :
              /\ Len(t) = Len(wins) + 1 - d
              /\ \A i \in 1 .. Len(t) - 1 : /\ i + d \in 1 .. Len(wins)
                                            /\ t[i] = wins[i + d]
    BY <2>2, PushKeeps
  <2>4. wins' = t
    BY <2>1 DEF Pushed
  <2> HIDE DEF t
  <2>5. PICK d \in {0, 1} :
           /\ Len(t) = Len(wins) + 1 - d
           /\ \A i \in 1 .. Len(t) - 1 : /\ i + d \in 1 .. Len(wins)
                                         /\ t[i] = wins[i + d]
    BY <2>3
  <2>6. DOMAIN t = 1 .. Len(t) /\ DOMAIN wins = 1 .. Len(wins)
    BY <2>2, <2>3
  <2>7. \A i \in 1 .. Len(t) : i = Len(t) \/ i \in 1 .. Len(t) - 1
    BY <2>3
  <2>8. /\ pc # "apply" /\ pc' = "judge" /\ search' = search
        /\ collected \subseteq collected'
        /\ w.wide => staleStats
        /\ w.ok => w.ips > 0 /\ search.level \in collected' /\ ~staleStats'
        /\ staleStats' => staleStats \/ cfg.server
        /\ staleStats' \in BOOLEAN
    BY <2>1 DEF Pushed
  <2>9. staleStats' => cfg'.server /\ ~t[Len(t)].ok
    BY <1>1, <2>3, <2>8 DEF WindowInv
  <2>10. \A i \in 1 .. Len(t) : t[i].wide =>
            (i > 1 => ~t[i - 1].ok) /\ cfg.server
    <3> SUFFICES ASSUME NEW i \in 1 .. Len(t), t[i].wide
                 PROVE  (i > 1 => ~t[i - 1].ok) /\ cfg.server
      OBVIOUS
    <3>1. CASE i \in 1 .. Len(t) - 1
      <4>1. i + d \in DOMAIN wins /\ t[i] = wins[i + d]
        BY <2>5, <2>6, <3>1
      <4>2. (i + d > 1 => ~wins[i + d - 1].ok) /\ cfg.server
        BY <4>1 DEF WindowInv, StatsCoverWindow
      <4>3. i > 1 => /\ i - 1 \in 1 .. Len(t) - 1 /\ i + d > 1
                     /\ (i - 1) + d = i + d - 1
        BY <3>1, <2>3
      <4>4. i > 1 => t[i - 1] = wins[i + d - 1]
        BY <2>5, <4>3
      <4> QED
        BY <4>2, <4>3, <4>4
    <3>2. CASE i = Len(t)
      <4>1. staleStats
        BY <2>3, <2>8, <3>2
      <4>2. cfg.server /\ (wins = << >> \/ ~wins[Len(wins)].ok)
        BY <4>1 DEF WindowInv
      <4>3. i > 1 => ~t[i - 1].ok
        <5> SUFFICES ASSUME i > 1 PROVE ~t[i - 1].ok
          OBVIOUS
        <5>1. i - 1 \in 1 .. Len(t) - 1
          BY <2>3, <3>2
        <5>2. t[i - 1] = wins[(i - 1) + d] /\ (i - 1) + d \in 1 .. Len(wins)
          BY <2>5, <5>1
        <5>3. (i - 1) + d = Len(wins)
          BY <2>2, <2>5, <3>2
        <5>4. wins # << >>
          BY <5>2, <5>3
        <5> QED
          BY <4>2, <5>2, <5>3, <5>4
      <4> QED
        BY <4>2, <4>3
    <3> QED
      BY <2>7, <3>1, <3>2
  <2>11. \A i \in 1 .. Len(t) : t[i].ok =>
            search.level \in collected' /\ t[i].ips > 0
    <3> SUFFICES ASSUME NEW i \in 1 .. Len(t), t[i].ok
                 PROVE  search.level \in collected' /\ t[i].ips > 0
      OBVIOUS
    <3>1. CASE i \in 1 .. Len(t) - 1
      <4>1. i + d \in DOMAIN wins /\ t[i] = wins[i + d]
        BY <2>5, <2>6, <3>1
      <4> QED
        BY <2>8, <4>1 DEF WindowInv
    <3>2. CASE i = Len(t)
      BY <2>3, <2>8, <3>2
    <3> QED
      BY <2>7, <3>1, <3>2
  <2>12. t # << >> /\ Len(t) <= 3
    BY <2>3
  <2>13. StatsCoverWindow'
    BY <1>1, <2>4, <2>6, <2>10 DEF StatsCoverWindow
  <2> QED
    BY <1>1, <2>3, <2>4, <2>6, <2>8, <2>9, <2>11, <2>12, <2>13 DEF WindowInv
<1> QED
  BY <1>2, <1>3, <1>4, WindowSteps

\* What every step keeps of an experiment.
ProfilingInv == RecordInv /\ PollingInv /\ SearchInv /\ WindowInv

LEMMA ProfilingInvInit == Init => ProfilingInv
BY RecordInit, PollingInit, SearchInit, WindowInit DEF ProfilingInv

LEMMA ProfilingInvStep ==
  ASSUME ProfilingInv, [Next]_vars
  PROVE  ProfilingInv'
BY RecordStep, PollingStep, SearchStep, WindowStep DEF ProfilingInv

LEMMA ProfilingInvHolds == Spec => []ProfilingInv
<1>1. Init => ProfilingInv
  BY ProfilingInvInit
<1>2. ProfilingInv /\ [Next]_vars => ProfilingInv'
  BY ProfilingInvStep
<1> QED
  BY <1>1, <1>2, PTL DEF Spec

\* The server's statistics of a window, which are differences between two
\* readings, cover requests of an earlier window only where that window
\* failed, and counts none of its requests.
THEOREM StatisticsCoverTheirWindow == Spec => []StatsCoverWindow
<1>1. ProfilingInv => StatsCoverWindow
  BY DEF ProfilingInv, WindowInv
<1> QED
  BY <1>1, ProfilingInvHolds, PTL

-----------------------------------------------------------------------------
(* The bracket of a binary search *)

\* A binary search of more than one level, with a step.
Narrowing == cfg.mode = "BINARY" /\ cfg.start < cfg.end /\ cfg.step > 0

\* Before the first level, and the second, the bracket is the range.
AtFirst ==
    /\ search.level = cfg.start /\ search.lo = cfg.start
    /\ search.hi = cfg.end
    /\ DOMAIN met \subseteq {cfg.start}
    /\ pc = "next" => cfg.start \in DOMAIN met

AtLast ==
    /\ search.level = cfg.end /\ search.lo = cfg.start
    /\ search.hi = cfg.end
    /\ DOMAIN met \subseteq {cfg.start, cfg.end}
    /\ cfg.start \in DOMAIN met /\ met[cfg.start]
    /\ pc = "next" => cfg.end \in DOMAIN met

\* The whole range met the threshold.
EndMet == Over /\ DOMAIN met = {cfg.start, cfg.end} /\ met[cfg.end]

\* The level that is measured is strictly inside the bracket.
Bracketed ==
    /\ search.lo < search.hi
    /\ search.lo \in DOMAIN met /\ search.hi \in DOMAIN met
    /\ met[search.lo] /\ ~met[search.hi]
    /\ ~Over => search.lo < search.level /\ search.level < search.hi
    /\ pc = "next" => search.level \in DOMAIN met
    /\ Over /\ outcome = "ok" => search.hi - search.lo <= cfg.step

BracketInv ==
    Narrowing =>
        /\ search.turn = "first" => AtFirst
        /\ search.turn = "last" => AtLast
        /\ search.turn = "bisect" => EndMet \/ Bracketed

LEMMA BracketInit == Init => BracketInv
<1> SUFFICES ASSUME Init PROVE BracketInv
  OBVIOUS
<1>1. /\ search = [level |-> cfg.start, lo |-> cfg.start, hi |-> cfg.end,
                   turn |-> "first"]
      /\ met = << >> /\ pc = "apply"
  BY DEF Init
<1>2. DOMAIN met = {}
  BY <1>1
<1> QED
  BY <1>1, <1>2 DEF BracketInv, AtFirst

\* The other steps do not lead to a verdict or a successful end.
LEMMA OtherSteps ==
  ASSUME [Next]_vars, ~NextLevel, ~Settle
  PROVE  /\ pc' = "next" => pc = "next"
         /\ Over => Over'
         /\ Over' /\ outcome' = "ok" => Over /\ outcome = "ok"
         /\ outcome' = "ok" => outcome = "ok"
<1>1. CASE Environment
  BY <1>1, EnvironmentKeeps DEF Over
<1>2. CASE \/ ReadStartStats \/ BeginWindow \/ CheckMetrics
           \/ CloseWindow \/ CountWindowFails \/ BeginFirstWindow
           \/ ReadEndStatsFails \/ Summarize
  BY <1>2 DEF ReadStartStats, BeginWindow, CheckMetrics, CloseWindow,
     CountWindowFails, BeginFirstWindow, ReadEndStatsFails, Summarize,
     MeasureFails, Over
<1>3. CASE Judge \/ AllMPIRanksAreStable
  BY <1>3 DEF Judge, AllMPIRanksAreStable, NextTrial, Over
<1>4. CASE CheckHealth \/ ApplyLevel
  BY <1>4 DEF CheckHealth, ApplyLevel, Over
<1>5. CASE AfterLoop \/ Stop \/ Join
  BY <1>5 DEF AfterLoop, Stop, Join, Over
<1>6. CASE Barrier \/ Destroy
  BY <1>6 DEF Barrier, Destroy, Over
<1> QED
  BY <1>1, <1>2, <1>3, <1>4, <1>5, <1>6, NextCases DEF TakesNothing

\* The middle of a bracket wider than the step is strictly inside it.
LEMMA Middle ==
  ASSUME NEW lo \in Nat, NEW hi \in Nat, NEW step \in Nat,
         step > 0, ~(hi - lo <= step)
  PROVE  lo < (hi + lo) \div 2 /\ (hi + lo) \div 2 < hi
<1>1. hi - lo >= 2
  OBVIOUS
<1>2. \A n \in Nat : 2 * (n \div 2) <= n /\ n <= 2 * (n \div 2) + 1
                     /\ n \div 2 \in Nat
  BY Z3
<1>3. /\ 2 * ((hi + lo) \div 2) <= hi + lo
      /\ hi + lo <= 2 * ((hi + lo) \div 2) + 1
      /\ (hi + lo) \div 2 \in Nat
  BY <1>2
<1> QED
  BY <1>1, <1>3

\* A verdict is on the level that is measured.
LEMMA BracketSettle ==
  ASSUME SearchInv, BracketInv, Settle, cfg' = cfg
  PROVE  BracketInv'
<1>0. pc = "settle" /\ search' = search
  BY DEF Settle
<1> SUFFICES ASSUME Narrowing
             PROVE  /\ search.turn = "first" => AtFirst'
                    /\ search.turn = "last" => AtLast'
                    /\ search.turn = "bisect" => (EndMet \/ Bracketed)'
  BY <1>0 DEF BracketInv, Narrowing
<1>1. CASE pc' = "barrier" /\ outcome' = "error" /\ met' = met
  BY <1>0, <1>1 DEF BracketInv, AtFirst, AtLast, EndMet, Bracketed, Over
<1>2. CASE \E b \in BOOLEAN :
              /\ met' = [l \in DOMAIN met \cup {search.level} |->
                           IF l = search.level THEN b ELSE met[l]]
              /\ \/ pc' = "next" /\ outcome' = outcome
                 \/ pc' = "done" /\ outcome' = "terminate"
  <2>1. PICK b \in BOOLEAN :
              /\ met' = [l \in DOMAIN met \cup {search.level} |->
                           IF l = search.level THEN b ELSE met[l]]
              /\ \/ pc' = "next" /\ outcome' = outcome
                 \/ pc' = "done" /\ outcome' = "terminate"
    BY <1>2
  <2>2. /\ DOMAIN met' = DOMAIN met \cup {search.level}
        /\ \A l \in DOMAIN met : l # search.level => met'[l] = met[l]
    BY <2>1
  <2>3. /\ search.level \in Nat /\ search.lo \in Nat /\ search.hi \in Nat
    BY DEF SearchInv, Searches
  <2>4. search.turn = "first" => AtFirst'
    BY <1>0, <2>1, <2>2 DEF BracketInv, AtFirst
  <2>5. search.turn = "last" => AtLast'
    <3> SUFFICES ASSUME search.turn = "last" PROVE AtLast'
      OBVIOUS
    <3>1. AtLast /\ cfg.start # cfg.end
      BY ConfigTypes DEF BracketInv, SearchInv, Narrowing
    <3> QED
      BY <1>0, <2>1, <2>2, <3>1 DEF AtLast
  <2>6. search.turn = "bisect" => Bracketed'
    <3> SUFFICES ASSUME search.turn = "bisect" PROVE Bracketed'
      OBVIOUS
    <3>1. Bracketed /\ ~Over
      BY <1>0 DEF BracketInv, EndMet, Over
    <3>2. search.lo # search.level /\ search.hi # search.level
      BY <2>3, <3>1 DEF Bracketed
    <3>3. /\ search.lo \in DOMAIN met' /\ search.hi \in DOMAIN met'
          /\ met'[search.lo] /\ ~met'[search.hi]
      BY <2>2, <3>1, <3>2 DEF Bracketed
    <3>4. ~(Over' /\ outcome' = "ok")
      BY <2>1 DEF Over
    <3> QED
      BY <1>0, <2>2, <3>1, <3>3, <3>4 DEF Bracketed
  <2> QED
    BY <2>4, <2>5, <2>6
<1> QED
  BY <1>1, <1>2, SettleIs

\* The next level is in the middle of the half that is kept.
LEMMA BracketNext ==
  ASSUME SearchInv, BracketInv, NextLevel, cfg' = cfg
  PROVE  BracketInv'
<1>0. pc = "next" /\ met' = met
  BY DEF NextLevel
<1> SUFFICES ASSUME Narrowing
             PROVE  /\ search'.turn = "first" => AtFirst'
                    /\ search'.turn = "last" => AtLast'
                    /\ search'.turn = "bisect" => (EndMet \/ Bracketed)'
  BY DEF BracketInv, Narrowing
<1>1. NextBinary /\ ~Over
  <2>1. cfg.mode # "NONE" /\ cfg.mode # "LINEAR" /\ cfg.mode = "BINARY"
    BY DEF Narrowing
  <2> QED
    BY <1>0, <2>1 DEF NextLevel, Over
<1>2. /\ cfg.start \in Nat /\ cfg.end \in Nat /\ cfg.step \in Nat
      /\ cfg.start < cfg.end /\ cfg.step > 0
  BY ConfigTypes DEF SearchInv, Narrowing
<1>3. CASE search.turn = "first"
  <2>1. AtFirst /\ DOMAIN met = {cfg.start}
    BY <1>0, <1>3 DEF BracketInv, AtFirst
  <2>2. CASE met[search.level]
    <3>1. /\ pc' = "apply"
          /\ search' = [search EXCEPT !.level = cfg.end, !.turn = "last"]
      BY <1>1, <1>3, <2>2 DEF NextBinary, Continue
    <3>2. /\ search'.level = cfg.end /\ search'.turn = "last"
          /\ search'.lo = search.lo /\ search'.hi = search.hi
      BY <3>1 DEF SearchInv, Searches
    <3> QED
      BY <1>0, <2>1, <2>2, <3>1, <3>2 DEF AtFirst, AtLast
  <2>3. CASE ~met[search.level]
    <3>1. pc' = "barrier" /\ search' = search
      BY <1>1, <1>3, <2>3 DEF NextBinary, Finish
    <3> QED
      BY <1>0, <1>3, <2>1, <3>1 DEF AtFirst
  <2> QED
    BY <2>2, <2>3
<1>4. CASE search.turn = "last"
  <2> DEFINE now == [search EXCEPT !.turn = "bisect"]
  <2>1. AtLast /\ DOMAIN met = {cfg.start, cfg.end}
    BY <1>0, <1>4 DEF BracketInv, AtLast
  <2>2. /\ now.lo = cfg.start /\ now.hi = cfg.end /\ now.turn = "bisect"
        /\ now.level = cfg.end /\ now \in Searches
    BY <2>1 DEF SearchInv, Searches, AtLast
  <2>3. IF met[search.level] \/ now.hi - now.lo <= cfg.step
        THEN pc' = "barrier" /\ outcome' = "ok" /\ search' = now
        ELSE /\ pc' = "apply" /\ outcome' = outcome
             /\ search' = [now EXCEPT !.level = (now.hi + now.lo) \div 2]
    BY <1>1, <1>4 DEF NextBinary, Continue
  <2> HIDE DEF now
  <2>4. CASE met[search.level]
    BY <1>0, <2>1, <2>2, <2>3, <2>4 DEF AtLast, EndMet, Over
  <2>5. CASE ~met[search.level] /\ now.hi - now.lo <= cfg.step
    <3>1. pc' = "barrier" /\ outcome' = "ok" /\ search' = now
      BY <2>3, <2>5
    <3>2. Bracketed'
      BY <1>0, <1>2, <2>1, <2>2, <2>5, <3>1 DEF AtLast, Bracketed, Over
    <3> QED
      BY <2>2, <3>1, <3>2
  <2>6. CASE ~met[search.level] /\ ~(now.hi - now.lo <= cfg.step)
    <3>1. /\ pc' = "apply"
          /\ search' = [now EXCEPT !.level = (now.hi + now.lo) \div 2]
      BY <2>3, <2>6
    <3>2. /\ search'.level = (now.hi + now.lo) \div 2
          /\ search'.lo = now.lo /\ search'.hi = now.hi
          /\ search'.turn = "bisect"
      BY <2>2, <3>1 DEF Searches
    <3>3. /\ now.lo < (now.hi + now.lo) \div 2
          /\ (now.hi + now.lo) \div 2 < now.hi
      BY <1>2, <2>2, <2>6, Middle
    <3>4. Bracketed'
      BY <1>0, <1>2, <2>1, <2>2, <2>6, <3>1, <3>2, <3>3
      DEF AtLast, Bracketed, Over
    <3> QED
      BY <3>2, <3>4
  <2> QED
    BY <2>4, <2>5, <2>6
<1>5. CASE search.turn = "bisect"
  <2> DEFINE now == Halve(search)
  <2>1. Bracketed /\ search.level \in DOMAIN met
    BY <1>0, <1>1, <1>5 DEF BracketInv, EndMet, Bracketed
  <2>2. /\ search.lo < search.level /\ search.level < search.hi
        /\ search.level \in Nat /\ search.lo \in Nat /\ search.hi \in Nat
    BY <1>1, <2>1 DEF Bracketed, SearchInv, Searches
  <2>3. /\ now \in Searches /\ now.turn = "bisect"
        /\ now.lo \in Nat /\ now.hi \in Nat /\ now.lo < now.hi
        /\ now.lo \in DOMAIN met /\ now.hi \in DOMAIN met
        /\ met[now.lo] /\ ~met[now.hi]
    <3>1. CASE met[search.level]
      <4>1. now = [search EXCEPT !.lo = search.level]
        BY <3>1 DEF Halve
      <4>2. /\ now.lo = search.level /\ now.hi = search.hi
            /\ now.turn = "bisect" /\ now \in Searches
        BY <1>5, <2>2, <4>1 DEF SearchInv, Searches
      <4> HIDE DEF now
      <4> QED
        BY <2>1, <2>2, <3>1, <4>2 DEF Bracketed
    <3>2. CASE ~met[search.level]
      <4>1. now = [search EXCEPT !.hi = search.level]
        BY <3>2 DEF Halve
      <4>2. /\ now.hi = search.level /\ now.lo = search.lo
            /\ now.turn = "bisect" /\ now \in Searches
        BY <1>5, <2>2, <4>1 DEF SearchInv, Searches
      <4> HIDE DEF now
      <4> QED
        BY <2>1, <2>2, <3>2, <4>2 DEF Bracketed
    <3> QED
      BY <3>1, <3>2
  <2>4. IF now.hi - now.lo <= cfg.step
        THEN pc' = "barrier" /\ outcome' = "ok" /\ search' = now
        ELSE /\ pc' = "apply" /\ outcome' = outcome
             /\ search' = [now EXCEPT !.level = (now.hi + now.lo) \div 2]
    BY <1>1, <1>5 DEF NextBinary, Continue
  <2> HIDE DEF now
  <2>5. CASE now.hi - now.lo <= cfg.step
    <3>1. Bracketed'
      BY <1>0, <2>3, <2>4, <2>5 DEF Bracketed, Over
    <3> QED
      BY <2>3, <2>4, <2>5, <3>1
  <2>6. CASE ~(now.hi - now.lo <= cfg.step)
    <3>1. /\ pc' = "apply"
          /\ search' = [now EXCEPT !.level = (now.hi + now.lo) \div 2]
      BY <2>4, <2>6
    <3>2. /\ search'.level = (now.hi + now.lo) \div 2
          /\ search'.lo = now.lo /\ search'.hi = now.hi
          /\ search'.turn = "bisect"
      BY <2>3, <3>1 DEF Searches
    <3>3. /\ now.lo < (now.hi + now.lo) \div 2
          /\ (now.hi + now.lo) \div 2 < now.hi
      BY <1>2, <2>3, <2>6, Middle
    <3>4. Bracketed'
      BY <1>0, <2>3, <3>1, <3>2, <3>3 DEF Bracketed, Over
    <3> QED
      BY <3>2, <3>4
  <2> QED
    BY <2>5, <2>6
<1> QED
  BY <1>3, <1>4, <1>5 DEF SearchInv, Searches

\* Every step keeps BracketInv.
LEMMA BracketStep ==
  ASSUME SearchInv, BracketInv, [Next]_vars
  PROVE  BracketInv'
<1>1. cfg' = cfg
  BY CfgKept
<1>2. CASE ~NextLevel /\ ~Settle
  <2>1. search' = search /\ met' = met
    BY <1>2, SearchKept, VerdictsKept
  <2>2. /\ pc' = "next" => pc = "next"
        /\ Over => Over'
        /\ Over' /\ outcome' = "ok" => Over /\ outcome = "ok"
    BY <1>2, OtherSteps
  <2>3. AtFirst => AtFirst'
    BY <1>1, <2>1, <2>2 DEF AtFirst
  <2>4. AtLast => AtLast'
    BY <1>1, <2>1, <2>2 DEF AtLast
  <2>5. EndMet => EndMet'
    BY <1>1, <2>1, <2>2 DEF EndMet
  <2>6. Bracketed => Bracketed'
    BY <1>1, <2>1, <2>2 DEF Bracketed
  <2>7. Narrowing' = Narrowing
    BY <1>1 DEF Narrowing
  <2> QED
    BY <2>1, <2>3, <2>4, <2>5, <2>6, <2>7 DEF BracketInv
<1> QED
  BY <1>1, <1>2, BracketNext, BracketSettle

\* A search ends well only when it is over.
LEMMA SuccessStep ==
  ASSUME SearchInv, outcome = "ok" => Over, [Next]_vars
  PROVE  outcome' = "ok" => Over'
<1>1. CASE ~NextLevel /\ ~Settle
  BY <1>1, OtherSteps
<1>2. CASE Settle
  BY <1>2, SettleIs DEF Over
<1>3. CASE NextLevel
  <2>1. \/ pc' = "barrier"
        \/ pc = "next" /\ outcome' = outcome
    BY <1>3, ConfigTypes DEF SearchInv, NextLevel, NextLinear, NextBinary,
       Finish, Continue
  <2> QED
    BY <2>1 DEF Over
<1> QED
  BY <1>1, <1>2, <1>3

\* At every moment of a binary search, after failed experiments and
\* interrupts too, the lower end of the bracket met the threshold and its
\* upper end did not; a search that ends well has narrowed it to the step.
THEOREM BracketIsKept == Spec => []BracketHolds
<1> DEFINE SuccessInv == outcome = "ok" => Over
<1>1. Init => BracketInv /\ SuccessInv
  <2>1. Init => SuccessInv
    BY DEF Init
  <2> QED
    BY <2>1, BracketInit
<1>2. /\ ProfilingInv /\ BracketInv /\ SuccessInv
      /\ [Next]_vars
      => (BracketInv /\ SuccessInv)'
  BY BracketStep, SuccessStep DEF ProfilingInv
<1>3. BracketInv /\ SuccessInv => BracketHolds
  <2> SUFFICES ASSUME BracketInv, SuccessInv, Narrowing,
                      search.turn = "bisect",
                      ~(DOMAIN met = {cfg.start, cfg.end} /\ met[cfg.end])
               PROVE  /\ met[search.lo] /\ ~met[search.hi]
                      /\ search.lo < search.hi
                      /\ outcome = "ok" => search.hi - search.lo <= cfg.step
    BY DEF BracketHolds, Narrowing
  <2>1. Bracketed
    BY DEF BracketInv, EndMet
  <2> QED
    BY <2>1 DEF Bracketed
<1> QED
  BY <1>1, <1>2, <1>3, ProfilingInvHolds, PTL DEF Spec

-----------------------------------------------------------------------------
(* The levels that are reported *)

\* A stable experiment has windows that agree.
StableInv ==
    pc \in {"exchange", "after", "stop", "join", "settle"} /\ stable =>
        cfg.counted \/ DetermineStability(~cfg.async)

\* What a stable run agrees on with its latencies, it does without them.
LEMMA StabilityWeakens ==
  ASSUME DetermineStability(TRUE), NEW b \in BOOLEAN
  PROVE  DetermineStability(b)
BY DEF DetermineStability

LEMMA StableStep ==
  ASSUME ProfilingInv, StableInv, [Next]_vars
  PROVE  StableInv'
<1>1. cfg' = cfg /\ cfg.async \in BOOLEAN
  BY CfgKept, ConfigTypes DEF ProfilingInv, SearchInv
<1>2. CASE /\ wins' = wins /\ (stable' => stable)
           /\ pc' \in {"exchange", "after", "stop", "join", "settle"} =>
                 pc \in {"exchange", "after", "stop", "join", "settle"}
  <2>1. DetermineStability(~cfg.async)' = DetermineStability(~cfg.async)
    BY <1>1, <1>2 DEF DetermineStability
  <2> QED
    BY <1>1, <1>2, <2>1 DEF StableInv
<1>3. CASE pc' \notin {"exchange", "after", "stop", "join", "settle"}
  BY <1>3 DEF StableInv
<1>4. CASE Environment
  BY <1>2, <1>4, EnvironmentKeeps
<1>5. CASE \/ ReadStartStats \/ BeginWindow \/ CheckMetrics \/ CheckHealth
           \/ CloseWindow \/ CountWindowFails \/ BeginFirstWindow
           \/ ReadEndStatsFails \/ Summarize \/ ApplyLevel
  BY <1>3, <1>5 DEF ReadStartStats, BeginWindow, CheckMetrics, CheckHealth,
     CloseWindow, CountWindowFails, BeginFirstWindow, ReadEndStatsFails,
     Summarize, ApplyLevel, MeasureFails
<1>6. CASE Settle \/ Barrier \/ Destroy
  BY <1>3, <1>6 DEF Settle, Barrier, Destroy
<1>7. CASE NextLevel
  <2>1. pc' \in {"apply", "barrier"}
    BY <1>7, ConfigTypes DEF ProfilingInv, SearchInv, NextLevel, NextLinear,
       NextBinary, Finish, Continue
  <2> QED
    BY <1>3, <2>1
<1>8. CASE Stop \/ Join \/ AllMPIRanksAreStable
  BY <1>2, <1>8 DEF Stop, Join, AllMPIRanksAreStable, window
<1>9. CASE Judge
  <2>1. wins' = wins /\ stable' = (cfg.counted \/ DetermineStability(TRUE))
    BY <1>9 DEF Judge
  <2>2. stable' => cfg.counted \/ DetermineStability(~cfg.async)
    BY <1>1, <2>1, StabilityWeakens
  <2>3. DetermineStability(~cfg.async)' = DetermineStability(~cfg.async)
    BY <1>1, <2>1 DEF DetermineStability
  <2> QED
    BY <1>1, <2>2, <2>3 DEF StableInv
<1>10. CASE AfterLoop
  <2>1. /\ wins' = wins /\ pc = "after"
        /\ stable' = (stable \/ (cfg.async /\ DetermineStability(FALSE)))
    BY <1>10 DEF AfterLoop
  <2>2. cfg.async => DetermineStability(FALSE) = DetermineStability(~cfg.async)
    BY <1>1 DEF DetermineStability
  <2>3. stable' => cfg.counted \/ DetermineStability(~cfg.async)
    BY <2>1, <2>2 DEF StableInv
  <2>4. DetermineStability(~cfg.async)' = DetermineStability(~cfg.async)
    BY <1>1, <2>1 DEF DetermineStability
  <2> QED
    BY <1>1, <2>3, <2>4 DEF StableInv
<1> QED
  BY <1>4, <1>5, <1>6, <1>7, <1>8, <1>9, <1>10, NextCases DEF TakesNothing

\* The extremes of three values.
LEMMA Extremes ==
  ASSUME NEW a \in Nat, NEW b \in Nat, NEW c \in Nat
  PROVE  LET S == {a, b, c}
         IN  /\ Max(S) \in S /\ \A x \in S : x <= Max(S)
             /\ Min(S) \in S /\ \A x \in S : Min(S) <= x
<1> DEFINE S == {a, b, c}
<1>1. \E x \in S : \A y \in S : x >= y
  OBVIOUS
<1>2. \E x \in S : \A y \in S : x <= y
  OBVIOUS
<1>3. Max(S) \in S /\ \A y \in S : Max(S) >= y
  <2> HIDE DEF S
  <2> QED
    BY <1>1 DEF Max
<1>4. Min(S) \in S /\ \A y \in S : Min(S) <= y
  <2> HIDE DEF S
  <2> QED
    BY <1>2 DEF Min
<1>5. S \subseteq Nat
  OBVIOUS
<1> HIDE DEF S
<1>6. /\ Max(S) \in S /\ \A x \in S : x <= Max(S)
      /\ Min(S) \in S /\ \A x \in S : Min(S) <= x
  BY <1>3, <1>4, <1>5
<1> QED
  BY <1>6 DEF S

\* Products are monotonic.
LEMMA TimesGrows ==
  ASSUME NEW k \in Nat, NEW x \in Nat, NEW y \in Nat, x <= y
  PROVE  k * x <= k * y /\ (k > 0 /\ x < y => k * x < k * y)
BY Z3

\* A quotient is at least what its numerator covers.
LEMMA QuotientCovers ==
  ASSUME NEW n \in Nat, NEW d \in Nat, d > 0, NEW m \in Nat, d * m <= n
  PROVE  n \div d >= m
<1>1. /\ n \div d \in Nat /\ n < d * ((n \div d) + 1)
  BY Z3
<1> DEFINE v == n \div d
<1> HIDE DEF v
<1>2. v \in Nat /\ n < d * (v + 1)
  BY <1>1 DEF v
<1>3. ASSUME v < m PROVE FALSE
  <2>1. v + 1 \in Nat /\ v + 1 <= m
    BY <1>2, <1>3
  <2>2. d * (v + 1) <= d * m
    BY <2>1, TimesGrows
  <2>3. d * (v + 1) \in Nat /\ d * m \in Nat
    BY <2>1, Z3
  <2> QED
    BY <1>2, <2>2, <2>3
<1>4. v >= m
  BY <1>2, <1>3
<1> QED
  BY <1>4 DEF v

\* A weighted mean is at least the smallest value.
LEMMA MeanIsCovered ==
  ASSUME NEW p \in Nat, NEW q \in Nat, NEW r \in Nat, p > 0,
         NEW a \in Nat, NEW b \in Nat, NEW c \in Nat,
         NEW m \in Nat, m <= a, m <= b, m <= c
  PROVE  (p * a + q * b + r * c) \div (p + q + r) >= m
<1>1. p * m <= p * a /\ q * m <= q * b /\ r * m <= r * c
  BY TimesGrows
<1>2. /\ p * m \in Nat /\ q * m \in Nat /\ r * m \in Nat
      /\ p * a \in Nat /\ q * b \in Nat /\ r * c \in Nat
  BY Z3
<1>3. (p + q + r) * m = p * m + q * m + r * m
  BY Z3
<1> DEFINE n == p * a + q * b + r * c
           d == p + q + r
<1>4. n \in Nat /\ d \in Nat /\ d > 0 /\ d * m <= n
  BY <1>1, <1>2, <1>3
<1> HIDE DEF n, d
<1>5. n \div d >= m
  BY <1>4, QuotientCovers
<1> QED
  BY <1>5 DEF n, d

\* With three windows within the threshold, no latency is over the limit by
\* more than the threshold when the merged latency is under it.
LEMMA LimitCovers ==
  ASSUME NEW a \in Nat, NEW b \in Nat, NEW c \in Nat,
         WithinPct({a, b, c}),
         NEW merged \in Nat, merged >= Min({a, b, c}),
         NEW limit \in Nat, merged < limit,
         NEW x \in {a, b, c}
  PROVE  100 * x < (100 + StabilityPct) * limit
<1> DEFINE S == {a, b, c}
           lo == Min(S)
           hi == Max(S)
           k == 100 + StabilityPct
<1>1. lo \in S /\ hi \in S /\ x <= hi
  BY Extremes
<1>2. lo \in Nat /\ hi \in Nat /\ x \in Nat
  BY <1>1
<1>3. k \in Nat /\ k > 0
  BY ProfilingAssumption
<1>4. 100 * hi <= k * lo
  BY DEF WithinPct
<1>5. lo < limit
  <2>1. merged >= lo
    OBVIOUS
  <2> HIDE DEF lo
  <2> QED
    BY <1>2, <2>1
<1> HIDE DEF lo, hi, k
<1>6. k * lo < k * limit
  BY <1>2, <1>3, <1>5, TimesGrows
<1>7. k * lo \in Nat /\ k * limit \in Nat
  BY <1>2, <1>3, Z3
<1>8. 100 * x <= 100 * hi
  BY <1>1, <1>2
<1>9. 100 * x < k * limit
  BY <1>2, <1>4, <1>6, <1>7, <1>8
<1> QED
  BY <1>9 DEF k

\* What is reported, step by step.
LEMMA ReportStep ==
  ASSUME ProfilingInv, StableInv, [Next]_vars, statuses' # statuses
  PROVE  /\ \A w \in SeqRange(wins) : w.ok /\ w.ips > 0
         /\ cfg.counted \/ /\ Len(wins) = 3
                           /\ WithinPct({w.ips : w \in SeqRange(wins)})
         /\ ~cfg.async /\ ~cfg.counted =>
              /\ WithinPct({w.lat : w \in SeqRange(wins)})
              /\ cfg.limit = NO_LIMIT
                 \/ \A w \in SeqRange(wins) :
                        100 * w.lat < (100 + StabilityPct) * cfg.limit
         /\ search.level \in collected
<1>1. Settle
  BY VerdictsKept
<1> DEFINE meets == stable /\ ~(/\ cfg.limit # NO_LIMIT
                                /\ MergedLatency >= cfg.limit)
<1>2. /\ pc = "settle"
      /\ ~(\E w \in SeqRange(wins) : ~w.ok)
      /\ meets
  BY <1>1 DEF Settle
<1>3. /\ wins \in Seq(Windows) /\ wins # << >>
      /\ \A i \in DOMAIN wins : wins[i].ok =>
            search.level \in collected /\ wins[i].ips > 0
  BY <1>2 DEF ProfilingInv, WindowInv, PastFirst
<1>4. \A i \in DOMAIN wins : wins[i].ok
  BY <1>2 DEF SeqRange
<1>5. \A w \in SeqRange(wins) : w.ok /\ w.ips > 0
  BY <1>3, <1>4 DEF SeqRange
<1>6. search.level \in collected
  <2>1. 1 \in DOMAIN wins
    BY <1>3
  <2> QED
    BY <1>3, <1>4, <2>1
<1>7. cfg.counted \/ DetermineStability(~cfg.async)
  BY <1>2 DEF StableInv
<1>8. cfg.counted \/ /\ Len(wins) = 3
                     /\ WithinPct({w.ips : w \in SeqRange(wins)})
  BY <1>7 DEF DetermineStability
<1>9. ASSUME ~cfg.async, ~cfg.counted
      PROVE  /\ WithinPct({w.lat : w \in SeqRange(wins)})
             /\ cfg.limit = NO_LIMIT
                \/ \A w \in SeqRange(wins) :
                       100 * w.lat < (100 + StabilityPct) * cfg.limit
  <2>1. Len(wins) = 3 /\ WithinPct({w.lat : w \in SeqRange(wins)})
    BY <1>7, <1>9 DEF DetermineStability
  <2>2. ASSUME cfg.limit # NO_LIMIT, NEW v \in SeqRange(wins)
        PROVE  100 * v.lat < (100 + StabilityPct) * cfg.limit
    <3> DEFINE a == wins[1].lat
               b == wins[2].lat
               c == wins[3].lat
               p == wins[1].ips
               q == wins[2].ips
               r == wins[3].ips
    <3>1. DOMAIN wins = {1, 2, 3}
      BY <1>3, <2>1
    <3>2. /\ wins[1] \in Windows /\ wins[2] \in Windows
          /\ wins[3] \in Windows
      BY <1>3, <3>1
    <3>3. /\ a \in Nat /\ b \in Nat /\ c \in Nat
          /\ p \in Nat /\ q \in Nat /\ r \in Nat
      BY <3>2 DEF Windows
    <3>4. p > 0
      BY <1>3, <1>4, <3>1
    <3>5. SeqRange(wins) = {wins[1], wins[2], wins[3]}
      BY <3>1 DEF SeqRange
    <3>6. {w.lat : w \in SeqRange(wins)} = {a, b, c} /\ v.lat \in {a, b, c}
      BY <2>2, <3>5
    <3>7. MergedLatency = (p * a + q * b + r * c) \div (p + q + r)
      BY <3>1 DEF MergedLatency
    <3>8. cfg.limit \in Nat
      BY ConfigTypes DEF ProfilingInv, SearchInv
    <3>9. ~(MergedLatency >= cfg.limit)
      BY <1>2, <2>2
    <3> DEFINE m == Min({a, b, c})
               n == p * a + q * b + r * c
               d == p + q + r
    <3>10. m \in Nat /\ m <= a /\ m <= b /\ m <= c
      <4>1. /\ m \in {a, b, c} /\ \A x \in {a, b, c} : m <= x
        BY <3>3, Extremes
      <4> HIDE DEF m, a, b, c
      <4> QED
        BY <3>3, <4>1
    <3> HIDE DEF m, a, b, c, p, q, r
    <3>11. n \div d >= m
      BY <3>3, <3>4, <3>10, MeanIsCovered
    <3>12. n \in Nat /\ d \in Nat /\ d > 0
      <4>1. p * a \in Nat /\ q * b \in Nat /\ r * c \in Nat
        BY <3>3, Z3
      <4> QED
        BY <3>3, <3>4, <4>1
    <3> HIDE DEF n, d
    <3>13. n \div d \in Nat
      BY <3>12, Z3
    <3>14. MergedLatency = n \div d
      BY <3>7 DEF n, d
    <3>15. MergedLatency < cfg.limit
      BY <3>8, <3>9, <3>13, <3>14
    <3>16. MergedLatency \in Nat /\ MergedLatency >= Min({a, b, c})
      BY <3>11, <3>13, <3>14 DEF m
    <3>17. WithinPct({a, b, c})
      BY <2>1, <3>6
    <3> QED
      BY <3>3, <3>6, <3>8, <3>15, <3>16, <3>17, LimitCovers
  <2> QED
    BY <2>1, <2>2
<1> QED
  BY <1>5, <1>6, <1>8, <1>9

\* A level is reported only after windows that all succeeded and agreed, and
\* with a latency limit no window's latency is above it by more than the
\* threshold, though the code compares only the mean with it.
THEOREM ReportsAreStable == Spec => ReportedIsStable
<1>1. Init => StableInv
  BY DEF Init, StableInv
<1>2. ProfilingInv /\ StableInv /\ [Next]_vars => StableInv'
  BY StableStep
<1>3. ProfilingInv /\ StableInv /\ [Next]_vars =>
        [statuses' # statuses =>
         /\ \A w \in SeqRange(wins) : w.ok /\ w.ips > 0
         /\ cfg.counted \/ /\ Len(wins) = 3
                           /\ WithinPct({w.ips : w \in SeqRange(wins)})
         /\ ~cfg.async /\ ~cfg.counted =>
              /\ WithinPct({w.lat : w \in SeqRange(wins)})
              /\ cfg.limit = NO_LIMIT
                 \/ \A w \in SeqRange(wins) :
                        100 * w.lat < (100 + StabilityPct) * cfg.limit
         /\ search.level \in collected]_vars
  BY ReportStep
<1> QED
  BY <1>1, <1>2, <1>3, ProfilingInvHolds, PTL DEF Spec, ReportedIsStable
=============================================================================
