-------------------------- MODULE LoadWorkerProofs --------------------------
(***************************************************************************)
(* What ConcurrencyLoadProofs and RequestRateProofs have in common: the    *)
(* shares of the threads, for every total and every number of threads, and *)
(* what the steps of LoadWorker keep, for every number of threads and      *)
(* contexts and in every mode.                                             *)
(***************************************************************************)
EXTENDS LoadWorker, FiniteSetTheorems, TLAPS

-----------------------------------------------------------------------------
(* The shares.                                                             *)

\* Division with remainder, in the form the backend can use.
LEMMA DivMod ==
  ASSUME NEW total \in Nat, NEW n \in Nat \ {0}
  PROVE  /\ total \div n \in Nat
         /\ total % n \in 0 .. n - 1
         /\ total = n * (total \div n) + (total % n)
<1>1. total \div n \in Nat
  BY SMT
<1>2. total % n \in 0 .. n - 1
  BY SMT
<1>3. total = n * (total \div n) + (total % n)
  BY SMT
<1> QED
  BY <1>1, <1>2, <1>3

\* A thread's share is a number no larger than the total.
THEOREM ShareType ==
  ASSUME NEW total \in Nat, NEW n \in Nat \ {0}, NEW i \in Nat
  PROVE  /\ Share(total, n, i) \in 0 .. total
         /\ SeqStatIndexOffset(total, n, i) \in Nat
<1> DEFINE q == total \div n
           r == total % n
<1>1. q \in Nat /\ r \in 0 .. n - 1 /\ total = n * q + r
  BY DivMod
<1>2. n * q >= q
  <2> HIDE DEF q, r
  <2>1. n * q = (n - 1) * q + q /\ (n - 1) * q \in Nat
    BY <1>1
  <2> QED
    BY <1>1, <2>1
<1>3. i * q \in Nat
  BY <1>1
<1> HIDE DEF q, r
<1>4. Share(total, n, i) = q + (IF i < r THEN 1 ELSE 0)
  BY DEF Share, q, r
<1>5. SeqStatIndexOffset(total, n, i) = i * q + (IF i < r THEN i ELSE r)
  BY DEF SeqStatIndexOffset, q, r
<1> QED
  BY <1>1, <1>2, <1>3, <1>4, <1>5

\* When there is at least one for each thread, none is left without.
LEMMA ShareAtLeastOne ==
  ASSUME NEW total \in Nat, NEW n \in Nat \ {0}, NEW i \in Nat, total >= n
  PROVE  Share(total, n, i) \in Nat \ {0}
<1> DEFINE q == total \div n
           r == total % n
<1>1. q \in Nat /\ r \in 0 .. n - 1 /\ total = n * q + r
  BY DivMod
<1>2. Share(total, n, i) = q + (IF i < r THEN 1 ELSE 0)
  BY DEF Share, q, r
<1> HIDE DEF q, r
<1>3. q # 0
  <2>1. q = 0 => n * q = 0
    BY <1>1
  <2> QED
    BY <1>1, <2>1
<1> QED
  BY <1>1, <1>2, <1>3

\* The offsets are the running sum that ReconfigThreads keeps in
\* seq_stat_index_offset: it starts at 0 and grows by each thread's share, so
\* the threads' ranges of sequence statuses are adjacent and do not overlap;
\* after the last thread it has reached the total, so nothing is left over.
THEOREM SharesPartition ==
  ASSUME NEW total \in Nat, NEW n \in Nat \ {0}
  PROVE  /\ SeqStatIndexOffset(total, n, 0) = 0
         /\ \A i \in 0 .. n - 1 :
              SeqStatIndexOffset(total, n, i + 1)
                = SeqStatIndexOffset(total, n, i)
                    + Share(total, n, i)
         /\ SeqStatIndexOffset(total, n, n) = total
<1> DEFINE q == total \div n
           r == total % n
           O(i) == i * q + (IF i < r THEN i ELSE r)
<1>1. q \in Nat /\ r \in 0 .. n - 1 /\ total = n * q + r
  BY DivMod
<1>2. \A i : SeqStatIndexOffset(total, n, i) = O(i)
  BY DEF SeqStatIndexOffset
<1>3. \A i : Share(total, n, i) = q + (IF i < r THEN 1 ELSE 0)
  BY DEF Share
<1> HIDE DEF q, r
<1>4. O(0) = 0
  BY <1>1
<1>5. O(n) = total
  BY <1>1
<1>6. ASSUME NEW i \in 0 .. n - 1
      PROVE  O(i + 1) = O(i) + (q + (IF i < r THEN 1 ELSE 0))
  <2>1. (i + 1) * q = i * q + q
    BY <1>1
  <2>2. i * q \in Nat
    BY <1>1
  <2> QED
    BY <1>1, <2>1, <2>2
<1> QED
  BY <1>2, <1>3, <1>4, <1>5, <1>6
\* The ranges of the threads do not overlap, and the last one ends where the
\* total does.
LEMMA SharesDisjoint ==
  ASSUME NEW total \in Nat, NEW n \in Nat \ {0},
         NEW v \in Nat, NEW w \in Nat, v < w
  PROVE  /\ SeqStatIndexOffset(total, n, v) + Share(total, n, v)
              <= SeqStatIndexOffset(total, n, w)
         /\ w <= n => SeqStatIndexOffset(total, n, w) <= total
<1> DEFINE q == total \div n
           r == total % n
           O(i) == i * q + (IF i < r THEN i ELSE r)
<1>1. q \in Nat /\ r \in 0 .. n - 1 /\ total = n * q + r
  BY DivMod
<1>2. \A i : SeqStatIndexOffset(total, n, i) = O(i)
  BY DEF SeqStatIndexOffset
<1>3. \A i : Share(total, n, i) = q + (IF i < r THEN 1 ELSE 0)
  BY DEF Share
<1> HIDE DEF q, r
<1>4. ASSUME NEW i \in Nat, NEW j \in Nat, i <= j
      PROVE  i * q <= j * q
  <2>1. PICK d \in Nat : j = i + d
    <3>1. j - i \in Nat /\ j = i + (j - i)
      BY <1>4
    <3> QED
      BY <3>1
  <2>2. j * q = i * q + d * q /\ d * q \in Nat /\ i * q \in Nat
    BY <1>1, <2>1
  <2> QED
    BY <2>2
<1>5. O(v) + (q + (IF v < r THEN 1 ELSE 0)) <= O(w)
  <2>1. (v + 1) * q <= w * q
    BY <1>4
  <2>2. (v + 1) * q = v * q + q
    BY <1>1
  <2>3. v * q \in Nat /\ w * q \in Nat
    BY <1>1
  <2> QED
    BY <1>1, <2>1, <2>2, <2>3
<1>6. ASSUME w <= n
      PROVE  O(w) <= total
  <2>1. w * q <= n * q
    BY <1>4, <1>6
  <2>2. w * q \in Nat /\ n * q \in Nat
    BY <1>1
  <2> QED
    BY <1>1, <2>1, <2>2
<1> QED
  BY <1>2, <1>3, <1>5, <1>6

-----------------------------------------------------------------------------
(* Types.                                                                  *)

LoadTypes ==
    ConfigTypes /\ ThreadTypes /\ IdTypes /\ StatTypes /\ ContextTypes


\* An update of one context keeps the type of a table of contexts.
LEMMA UpdateCtx ==
  ASSUME NEW V, NEW f \in [Worker -> [CtxId -> V]],
         NEW w \in Worker, NEW c \in CtxId, NEW v \in V
  PROVE  [f EXCEPT ![w][c] = v] \in [Worker -> [CtxId -> V]]
OBVIOUS

\* The counters of a context are numbers.
LEMMA CtxCounts ==
  ASSUME LoadTypes, NEW w \in Worker, NEW c \in CtxId
  PROVE  inFlight[w][c] \in Nat /\ ongoing[w][c] \in Int
BY DEF LoadTypes, ContextTypes

\* The tables that Init and the warm-up's clean-up make.
LEMMA EachType ==
  ASSUME NEW V, NEW v \in V
  PROVE  Each(v) \in [Worker -> V] /\ EachCtx(v) \in [Worker -> [CtxId -> V]]
BY DEF Each, EachCtx

\* A restored id goes to the back of the queue, if there is one.
LEMMA RestoreType ==
  ASSUME LoadTypes, NEW w \in Worker, NEW c \in CtxId, Restore(w, c)
  PROVE  free' \in [Worker -> Seq(CtxId)]
<1>1. Append(free[w], c) \in Seq(CtxId) /\ free \in [Worker -> Seq(CtxId)]
  BY DEF LoadTypes, IdTypes
<1> QED
  BY <1>1 DEF Restore

\* ResetFreeCtxIds fills the tracker with ids of contexts.
LEMMA FreshIdsType ==
  ASSUME NEW n \in 0 .. MaxContexts
  PROVE  FreshIds(n) \in Seq(CtxId)
<1>1. CASE Tracker = "Rand"
  BY <1>1 DEF FreshIds
<1>2. CASE Tracker # "Rand"
  <2>1. FreshIds(n) \in [1 .. n -> CtxId]
    BY <1>2, SizesAssumption DEF FreshIds, CtxId
  <2> QED
    BY <2>1
<1> QED
  BY <1>1, <1>2

\* The count of requests sent stays below its cap.
LEMMA SentAfterType ==
  ASSUME LoadTypes, NEW w \in Worker, NEW n \in Nat
  PROVE  SentAfter(w, n) \in 0 .. SentCap
<1>1. sent[w] \in 0 .. SentCap
  BY DEF LoadTypes, StatTypes
<1>2. SentCap \in Nat
  BY SizesAssumption DEF SentCap
<1> QED
  BY <1>1, <1>2 DEF SentAfter

\* A worker's contexts can be counted.
LEMMA FiniteCtxs == IsFiniteSet(CtxId)
BY SizesAssumption, FS_Interval DEF CtxId

\* A request leaves remaining_queries_ a natural number.
LEMMA AdvanceSequenceType ==
  ASSUME LoadTypes, NEW w \in Worker, AdvanceSequence(w)
  PROVE  rem' \in [Index -> Nat]
<1> DEFINE s == offset[w] + held[w]
<1>1. rem \in [Index -> Nat]
  BY DEF LoadTypes, ContextTypes
<1>2. CASE ~OnSequenceModel
  BY <1>1, <1>2 DEF AdvanceSequence
<1>3. CASE OnSequenceModel /\ s \notin Index
  <2>1. \A v : [rem EXCEPT ![s] = v] = rem
    BY <1>1, <1>3
  <2> QED
    BY <1>1, <1>3, <2>1 DEF AdvanceSequence
<1>4. CASE OnSequenceModel /\ s \in Index
  <2>1. rem[s] \in Nat
    BY <1>1, <1>4
  <2>2. CASE rem[s] = 0
    <3>1. PICK len \in SeqLengths : rem' = [rem EXCEPT ![s] = len - 1]
      BY <1>4, <2>2 DEF AdvanceSequence
    <3>2. len - 1 \in Nat
      BY SizesAssumption
    <3> QED
      BY <1>1, <3>1, <3>2
  <2>3. CASE rem[s] # 0
    <3>1. rem' = [rem EXCEPT ![s] = rem[s] - 1]
      BY <1>4, <2>3 DEF AdvanceSequence
    <3>2. rem[s] - 1 \in Nat
      BY <2>1, <2>3
    <3> QED
      BY <1>1, <3>1, <3>2
  <2> QED
    BY <2>2, <2>3
<1> QED
  BY <1>2, <1>3, <1>4

\* It changes the status of its own sequence only.
LEMMA AdvanceSequenceEffect ==
  ASSUME LoadTypes, NEW w \in Worker, AdvanceSequence(w)
  PROVE  /\ ~OnSequenceModel => rem' = rem
         /\ \A s \in Index : s # offset[w] + held[w] => rem'[s] = rem[s]
BY DEF AdvanceSequence, LoadTypes, ContextTypes

\* What the last requests of the open sequences do to the counters.  Each is
\* counted, and only the one that failed is counted without being sent.
LEMMA CompleteEffect ==
  ASSUME LoadTypes, NEW w \in Worker, CompleteOngoingSequences(w)
  PROVE  /\ rem' \in [Index -> Nat]
         /\ inFlight' \in [Worker -> [CtxId -> Nat]]
         /\ ongoing' \in [Worker -> [CtxId -> Int]]
         /\ sent' \in [Worker -> 0 .. SentCap]
         /\ badStatus' \in [Worker -> BOOLEAN]
         /\ badStatus[w] => badStatus'[w]
         /\ \A v \in Worker \ {w} : /\ inFlight'[v] = inFlight[v]
                                     /\ ongoing'[v] = ongoing[v]
                                     /\ badStatus'[v] = badStatus[v]
         /\ ~Async \/ ~OnSequenceModel =>
                inFlight' = inFlight /\ ongoing' = ongoing
         /\ ~OnSequenceModel => badStatus' = badStatus
         /\ \A s \in Index : rem'[s] \in {0, rem[s]}
         /\ \A c \in OpenCtxs(w) : rem'[offset[w] + c] = 0
         /\ \A v \in Worker \ {w} : sent'[v] = sent[v]
         /\ OpenCtxs(w) = {} =>
                UNCHANGED <<inFlight, ongoing, sent, badStatus, rem>>
         /\ \A c \in CtxId \ OpenCtxs(w) : inFlight'[w][c] = inFlight[w][c]
         /\ \A c \in CtxId :
                LET more == ongoing'[w][c] - ongoing[w][c]
                    out  == inFlight'[w][c] - inFlight[w][c]
                IN  /\ more >= out
                    /\ more = out \/ (MayLose /\ badStatus'[w])
<1>1. /\ rem \in [Index -> Nat]
      /\ inFlight \in [Worker -> [CtxId -> Nat]]
      /\ ongoing \in [Worker -> [CtxId -> Int]]
      /\ sent \in [Worker -> 0 .. SentCap]
      /\ badStatus \in [Worker -> BOOLEAN]
  BY DEF LoadTypes, ContextTypes, StatTypes
<1>2. rem' \in [Index -> Nat]
  BY <1>1 DEF CompleteOngoingSequences
<1>3. PICK f \in FailingAt(w) :
        LET live  == {c \in OpenCtxs(w) : ~badStatus[w] /\ c < f}
            tried == {c \in OpenCtxs(w) : ~badStatus[w] /\ c <= f}
        IN  /\ inFlight' = [inFlight EXCEPT ![w] = [c \in CtxId |->
                inFlight[w][c] + (IF Async /\ c \in live THEN 1 ELSE 0)]]
            /\ ongoing' = [ongoing EXCEPT ![w] = [c \in CtxId |->
                ongoing[w][c] + (IF Async /\ c \in tried THEN 1 ELSE 0)]]
            /\ sent' = [sent EXCEPT ![w] = SentAfter(w, Cardinality(tried))]
            /\ badStatus' = [badStatus EXCEPT ![w] =
                                badStatus[w] \/ f # MaxContexts]
  BY DEF CompleteOngoingSequences
<1> DEFINE live  == {c \in OpenCtxs(w) : ~badStatus[w] /\ c < f}
           tried == {c \in OpenCtxs(w) : ~badStatus[w] /\ c <= f}
           out   == [c \in CtxId |-> IF Async /\ c \in live THEN 1 ELSE 0]
           more  == [c \in CtxId |-> IF Async /\ c \in tried THEN 1 ELSE 0]
<1>4. /\ f \in Nat
      /\ f # MaxContexts /\ Async => MayLose
      /\ f # MaxContexts => OnSequenceModel
      /\ OpenCtxs(w) \subseteq CtxId
      /\ ~OnSequenceModel => OpenCtxs(w) = {}
  BY SizesAssumption DEF FailingAt, OpenCtxs, CtxId
<1>5. /\ out \in [CtxId -> Nat] /\ more \in [CtxId -> Nat]
      /\ \A c \in CtxId : more[c] >= out[c]
      /\ ~Async \/ ~OnSequenceModel =>
            \A c \in CtxId : out[c] = 0 /\ more[c] = 0
  BY <1>4 DEF CtxId
<1>6. \A c \in CtxId : more[c] = out[c] \/ (MayLose /\ f # MaxContexts)
  BY <1>4, SizesAssumption DEF CtxId
<1>7. /\ inFlight' = [inFlight EXCEPT ![w] =
                        [c \in CtxId |-> inFlight[w][c] + out[c]]]
      /\ ongoing' = [ongoing EXCEPT ![w] =
                        [c \in CtxId |-> ongoing[w][c] + more[c]]]
  BY <1>3
<1>8. sent' \in [Worker -> 0 .. SentCap]
  <2>1. Cardinality(tried) \in Nat
    BY FiniteCtxs, <1>4, FS_Subset, FS_CardinalityType
  <2> HIDE DEF tried
  <2>2. sent' = [sent EXCEPT ![w] = SentAfter(w, Cardinality(tried))]
    BY <1>3 DEF tried
  <2> QED
    BY <1>1, <2>1, <2>2, SentAfterType
<1> HIDE DEF out, more, live, tried
<1>9. /\ inFlight' \in [Worker -> [CtxId -> Nat]]
      /\ ongoing' \in [Worker -> [CtxId -> Int]]
  <2>1. /\ [c \in CtxId |-> inFlight[w][c] + out[c]] \in [CtxId -> Nat]
        /\ [c \in CtxId |-> ongoing[w][c] + more[c]] \in [CtxId -> Int]
    BY <1>1, <1>5
  <2> QED
    BY <1>1, <1>7, <2>1
<1>10. /\ badStatus' \in [Worker -> BOOLEAN]
       /\ badStatus'[w] = (badStatus[w] \/ f # MaxContexts)
       /\ ~OnSequenceModel => badStatus' = badStatus
  BY <1>1, <1>3, <1>4
<1>11. \A v \in Worker \ {w} : /\ inFlight'[v] = inFlight[v]
                               /\ ongoing'[v] = ongoing[v]
                               /\ badStatus'[v] = badStatus[v]
  BY <1>1, <1>3, <1>7
<1>12. \A c \in CtxId : /\ inFlight'[w][c] = inFlight[w][c] + out[c]
                         /\ ongoing'[w][c] = ongoing[w][c] + more[c]
  BY <1>1, <1>7
<1>13. ASSUME ~Async \/ ~OnSequenceModel
       PROVE  inFlight' = inFlight /\ ongoing' = ongoing
  <2>1. \A c \in CtxId : /\ inFlight'[w][c] = inFlight[w][c]
                          /\ ongoing'[w][c] = ongoing[w][c]
    BY <1>1, <1>5, <1>12, <1>13
  <2>2. inFlight'[w] = inFlight[w] /\ ongoing'[w] = ongoing[w]
    BY <1>1, <1>9, <2>1
  <2> QED
    BY <1>1, <1>9, <1>11, <2>2
<1>14. \A c \in CtxId :
          /\ ongoing'[w][c] - ongoing[w][c] >= inFlight'[w][c] - inFlight[w][c]
          /\ \/ ongoing'[w][c] - ongoing[w][c] =
                    inFlight'[w][c] - inFlight[w][c]
             \/ MayLose /\ badStatus'[w]
  BY <1>1, <1>5, <1>6, <1>10, <1>12
<1>15. /\ \A s \in Index : rem'[s] \in {0, rem[s]}
       /\ \A c \in OpenCtxs(w) : rem'[offset[w] + c] = 0
  BY DEF CompleteOngoingSequences, OpenCtxs
<1>16. \A v \in Worker \ {w} : sent'[v] = sent[v]
  BY <1>1, <1>3
<1>17. ASSUME OpenCtxs(w) = {}
       PROVE  UNCHANGED <<inFlight, ongoing, sent, badStatus, rem>>
  <2>1. f = MaxContexts /\ tried = {} /\ live = {}
    BY <1>17 DEF FailingAt, live, tried
  <2>2. \A c \in CtxId : out[c] = 0 /\ more[c] = 0
    BY <2>1 DEF out, more
  <2>3. inFlight' = inFlight /\ ongoing' = ongoing
    <3>1. \A c \in CtxId : /\ inFlight'[w][c] = inFlight[w][c]
                            /\ ongoing'[w][c] = ongoing[w][c]
      BY <1>1, <1>12, <2>2
    <3>2. inFlight'[w] = inFlight[w] /\ ongoing'[w] = ongoing[w]
      BY <1>1, <1>9, <3>1
    <3> QED
      BY <1>1, <1>9, <1>11, <3>2
  <2>4. sent' = sent
    <3>1. SentAfter(w, 0) = sent[w]
      <4>1. sent[w] \in 0 .. SentCap /\ SentCap \in Nat
        BY <1>1, SizesAssumption DEF SentCap
      <4> QED
        BY <4>1 DEF SentAfter
    <3>2. sent' = [sent EXCEPT ![w] = SentAfter(w, 0)]
      BY <1>3, <2>1, FS_EmptySet DEF tried
    <3> QED
      BY <1>1, <3>1, <3>2
  <2>5. badStatus' = badStatus
    BY <1>1, <1>3, <2>1
  <2>6. rem' = rem
    BY <1>1, <1>17 DEF CompleteOngoingSequences
  <2> QED
    BY <2>3, <2>4, <2>5, <2>6
<1>18. \A c \in CtxId \ OpenCtxs(w) : inFlight'[w][c] = inFlight[w][c]
  <2>1. \A c \in CtxId \ OpenCtxs(w) : out[c] = 0
    BY DEF out, live
  <2> QED
    BY <1>1, <1>12, <2>1
<1> QED
  BY <1>2, <1>8, <1>9, <1>10, <1>11, <1>13, <1>14, <1>15, <1>16, <1>17,
     <1>18

-----------------------------------------------------------------------------
(* What holds in both modes.                                               *)

Parked == {"offcheck", "offblock", "offsleep", "unpause"}

\* Where a worker is, against what it holds and what mode it runs in.
Holding ==
    \A w \in Worker :
        /\ paused[w] => pc[w] \in Parked
        /\ held[w] \in CtxId <=> pc[w] \in {"held", "infer", "sent"}
        /\ pc[w] = "infer" => ~Async
        /\ pc[w] = "sent" => Async
        /\ pc[w] = "sent" /\ badStatus[w] => MayLose

\* In synchronous mode the only request in flight is the one a worker is
\* blocked on, and there are no callbacks.
SyncFlights ==
    ~Async =>
        \A w \in Worker : \A c \in CtxId :
            /\ inFlight[w][c] =
                 IF pc[w] = "infer" /\ held[w] = c THEN 1 ELSE 0
            /\ ongoing[w][c] = 0
            /\ finalizing[w][c] = 0

LoadInv == /\ LoadTypes /\ Holding /\ SyncFlights
           /\ OngoingAccounted /\ QuietWhenPausedOrDone

\* The types, one by one.
LEMMA LoadTypesParts ==
  ASSUME LoadTypes
  PROVE  /\ conc \in [Worker -> 0 .. MaxContexts]
         /\ offset \in [Worker -> Nat]
         /\ numReq \in [Worker -> Nat]
         /\ paused \in [Worker -> BOOLEAN]
         /\ pc \in [Worker -> WorkerPc]
         /\ nctx \in [Worker -> 0 .. MaxContexts]
         /\ free \in [Worker -> Seq(CtxId)]
         /\ held \in [Worker -> CtxId \cup {None}]
         /\ granted \in [Worker -> 0 .. MaxContexts]
         /\ notified \in [Worker -> BOOLEAN]
         /\ sent \in [Worker -> 0 .. SentCap]
         /\ badStatus \in [Worker -> BOOLEAN]
         /\ badCb \in [Worker -> BOOLEAN]
         /\ inFlight \in [Worker -> [CtxId -> Nat]]
         /\ ongoing \in [Worker -> [CtxId -> Int]]
         /\ finalizing \in [Worker -> [CtxId -> {0, 1}]]
         /\ rem \in [Index -> Nat]
BY DEF LoadTypes, ConfigTypes, ThreadTypes, IdTypes, StatTypes, ContextTypes

LEMMA NoneIsNoId == None \notin CtxId
BY DEF None, CtxId

\* The program counters of the steps below are program counters.
LEMMA GotoType ==
  ASSUME LoadTypes, NEW w \in Worker, NEW l \in WorkerPc, Goto(w, l)
  PROVE  /\ pc' \in [Worker -> WorkerPc]
         /\ pc'[w] = l
         /\ \A v \in Worker \ {w} : pc'[v] = pc[v]
BY LoadTypesParts DEF Goto

\* Before the first thread is launched.
LEMMA InitLoadInv ==
  ASSUME InitLoad
  PROVE  LoadInv
<1>1. LoadTypes
  <2>1. /\ 0 \in 0 .. MaxContexts /\ 0 \in 0 .. SentCap
        /\ <<>> \in Seq(CtxId)
    BY SizesAssumption DEF SentCap
  <2>2. "none" \in WorkerPc
    BY DEF WorkerPc
  <2>3. /\ inFlight \in [Worker -> [CtxId -> Nat]]
        /\ ongoing \in [Worker -> [CtxId -> Int]]
        /\ finalizing \in [Worker -> [CtxId -> {0, 1}]]
    BY DEF InitLoad, EachCtx
  <2>4. /\ conc \in [Worker -> 0 .. MaxContexts]
        /\ offset \in [Worker -> Nat] /\ numReq \in [Worker -> Nat]
        /\ paused \in [Worker -> BOOLEAN] /\ pc \in [Worker -> WorkerPc]
        /\ nctx \in [Worker -> 0 .. MaxContexts]
        /\ free \in [Worker -> Seq(CtxId)]
        /\ held \in [Worker -> CtxId \cup {None}]
        /\ notified \in [Worker -> BOOLEAN]
        /\ badStatus \in [Worker -> BOOLEAN] /\ badCb \in [Worker -> BOOLEAN]
        /\ sent \in [Worker -> 0 .. SentCap]
        /\ granted \in [Worker -> 0 .. MaxContexts]
    BY <2>1, <2>2 DEF InitLoad, Each
  <2> QED
    BY <2>1, <2>2, <2>3, <2>4 DEF InitLoad, LoadTypes,
       ConfigTypes, ThreadTypes, IdTypes, StatTypes, ContextTypes
<1>2. Holding
  BY NoneIsNoId DEF InitLoad, Holding, Each
<1>3. SyncFlights
  BY DEF InitLoad, SyncFlights, Each, EachCtx
<1>4. OngoingAccounted /\ QuietWhenPausedOrDone
  BY DEF InitLoad, OngoingAccounted, Uncounted, QuietWhenPausedOrDone, Each,
     EachCtx
<1> QED
  BY <1>1, <1>2, <1>3, <1>4 DEF LoadInv

\* Who waits for no request has none out.
LEMMA NothingOngoing ==
  ASSUME LoadInv, NEW w \in Worker, NoOngoingRequests(w), pc[w] # "sent",
         pc[w] # "infer"
  PROVE  \A c \in CtxId : inFlight[w][c] = 0
BY ModesAssumption, LoadTypesParts DEF LoadInv, NoOngoingRequests,
   OngoingAccounted, Uncounted, SyncFlights

\* A step that neither sends nor answers a request.
LEMMA OwnStepKeeps ==
  ASSUME LoadInv, LoadTypes',
         UNCHANGED <<inFlight, ongoing, finalizing, badCb>>,
         \A v \in Worker :
             /\ badStatus[v] => badStatus'[v]
             /\ \/ pc[v] \notin {"infer", "sent"}
                   /\ pc'[v] \notin {"infer", "sent"}
                \/ /\ pc'[v] = pc[v] /\ held'[v] = held[v]
                   /\ badStatus'[v] = badStatus[v]
             /\ held'[v] \in CtxId <=> pc'[v] \in {"held", "infer", "sent"}
             /\ paused'[v] => pc'[v] \in Parked
             /\ paused'[v] \/ pc'[v] = "done" =>
                    \/ paused[v] \/ pc[v] = "done"
                    \/ NoOngoingRequests(v)
  PROVE  LoadInv'
<1>1. Holding'
  BY DEF LoadInv, Holding
<1>2. SyncFlights'
  BY DEF LoadInv, SyncFlights
<1>3. OngoingAccounted'
  <2>1. \A v \in Worker : \A c \in CtxId :
            Uncounted(v, c)' = Uncounted(v, c)
    BY DEF Uncounted
  <2> QED
    BY <2>1 DEF LoadInv, OngoingAccounted
<1>4. QuietWhenPausedOrDone'
  <2> SUFFICES ASSUME NEW v \in Worker, paused'[v] \/ pc'[v] = "done"
               PROVE  \A c \in CtxId : inFlight[v][c] = 0
    BY DEF QuietWhenPausedOrDone
  <2>1. CASE paused[v] \/ pc[v] = "done"
    BY <2>1 DEF LoadInv, QuietWhenPausedOrDone
  <2>2. CASE NoOngoingRequests(v)
    <3>1. pc[v] \notin {"infer", "sent"}
      BY DEF Parked
    <3> QED
      BY <2>2, <3>1, NothingOngoing
  <2> QED
    BY <2>1, <2>2
<1> QED
  BY <1>1, <1>2, <1>3, <1>4 DEF LoadInv

\* The steps of the main thread that both managers make.
LEMMA UnchangedKeeps ==
  ASSUME LoadInv, UNCHANGED <<workerVars, wakeHolder>>
  PROVE  LoadInv'
<1>1. LoadTypes'
  BY DEF LoadInv, LoadTypes, ConfigTypes, ThreadTypes, IdTypes, StatTypes,
     ContextTypes, workerVars, cfgVars, idVars, reqVars, ctxVars
<1>2. Holding'
  BY DEF LoadInv, Holding, workerVars, idVars, reqVars
<1> QED
  BY <1>1, <1>2, OwnStepKeeps DEF LoadInv, Holding, workerVars, idVars,
     reqVars, ctxVars

LEMMA WakeAllKeeps ==
  ASSUME LoadInv, WakeAll,
         UNCHANGED <<wakeHolder, cfgVars, paused, idVars, reqVars>>
  PROVE  LoadInv'
<1>1. pc' \in [Worker -> WorkerPc]
  BY LoadTypesParts DEF LoadInv, WakeAll, WorkerPc
<1>2. LoadTypes'
  BY <1>1 DEF LoadInv, LoadTypes, ConfigTypes, ThreadTypes, IdTypes,
     StatTypes, ContextTypes, cfgVars, idVars, reqVars, ctxVars
<1>3. \A v \in Worker :
        \/ pc'[v] = pc[v]
        \/ pc[v] = "offsleep" /\ pc'[v] = "offcheck"
        \/ pc[v] = "ncsleep" /\ pc'[v] = "nccheck"
  BY DEF WakeAll
<1>4. \A v \in Worker : /\ held'[v] = held[v] /\ paused'[v] = paused[v]
                         /\ badStatus'[v] = badStatus[v]
  BY DEF idVars, reqVars
<1>5. \A v \in Worker :
         /\ held'[v] \in CtxId <=> pc'[v] \in {"held", "infer", "sent"}
         /\ paused'[v] => pc'[v] \in Parked
  BY <1>3, <1>4 DEF LoadInv, Holding, Parked
<1>6. UNCHANGED <<inFlight, ongoing, finalizing, badCb>>
  BY DEF reqVars, ctxVars
<1> QED
  BY <1>2, <1>3, <1>4, <1>5, <1>6, OwnStepKeeps

LEMMA CleanupKeeps ==
  ASSUME LoadInv, WaitForWarmupAndCleanup
  PROVE  LoadInv'
<1>1. LoadTypes'
  <2>1. /\ 0 \in 0 .. MaxContexts /\ 0 \in 0 .. SentCap
        /\ <<>> \in Seq(CtxId) /\ "none" \in WorkerPc
    BY SizesAssumption DEF SentCap, WorkerPc
  <2>2. /\ inFlight' \in [Worker -> [CtxId -> Nat]]
        /\ ongoing' \in [Worker -> [CtxId -> Int]]
        /\ finalizing' \in [Worker -> [CtxId -> {0, 1}]]
        /\ rem' \in [Index -> Nat]
    BY LoadTypesParts DEF LoadInv, WaitForWarmupAndCleanup, EachCtx
  <2>3. /\ conc' \in [Worker -> 0 .. MaxContexts]
        /\ offset' \in [Worker -> Nat] /\ numReq' \in [Worker -> Nat]
        /\ paused' \in [Worker -> BOOLEAN] /\ pc' \in [Worker -> WorkerPc]
        /\ nctx' \in [Worker -> 0 .. MaxContexts]
        /\ free' \in [Worker -> Seq(CtxId)]
        /\ held' \in [Worker -> CtxId \cup {None}]
        /\ notified' \in [Worker -> BOOLEAN]
        /\ badStatus' \in [Worker -> BOOLEAN]
        /\ badCb' \in [Worker -> BOOLEAN]
        /\ sent' \in [Worker -> 0 .. SentCap]
        /\ granted' \in [Worker -> 0 .. MaxContexts]
    BY <2>1 DEF WaitForWarmupAndCleanup, Each
  <2>4. wakeHolder' = wakeHolder
    BY DEF WaitForWarmupAndCleanup
  <2> QED
    BY <2>2, <2>3, <2>4 DEF LoadInv, LoadTypes, ConfigTypes, ThreadTypes,
       IdTypes, StatTypes, ContextTypes
<1>2. \A v \in Worker : /\ pc'[v] = "none" /\ ~paused'[v] /\ held'[v] = None
                         /\ \A c \in CtxId : /\ inFlight'[v][c] = 0
                                             /\ ongoing'[v][c] = 0
                                             /\ finalizing'[v][c] = 0
  BY DEF WaitForWarmupAndCleanup, Each, EachCtx
<1>3. Holding' /\ SyncFlights' /\ QuietWhenPausedOrDone'
  BY <1>2, NoneIsNoId DEF Holding, SyncFlights, QuietWhenPausedOrDone
<1>4. OngoingAccounted'
  BY <1>2 DEF OngoingAccounted, Uncounted
<1> QED
  BY <1>1, <1>3, <1>4 DEF LoadInv

LEMMA EndMeasureKeeps ==
  ASSUME LoadInv, EndMeasure
  PROVE  LoadInv'
<1>1. LoadTypes'
  <2>1. sent' \in [Worker -> 0 .. SentCap]
    <3>1. 0 \in 0 .. SentCap
      BY SizesAssumption DEF SentCap
    <3> QED
      BY <3>1, LoadTypesParts DEF LoadInv, EndMeasure, Each
  <2> QED
    BY <2>1 DEF LoadInv, EndMeasure, LoadTypes, ConfigTypes, ThreadTypes,
       IdTypes, StatTypes, ContextTypes, cfgVars, idVars, ctxVars
<1>2. UNCHANGED <<inFlight, ongoing, finalizing, badCb, pc, held, paused,
                  badStatus>>
  BY DEF EndMeasure, idVars, ctxVars
<1> QED
  BY <1>1, <1>2, OwnStepKeeps DEF LoadInv, Holding

SharedManagerStep ==
    \/ WaitForWarmupAndCleanup \/ EndMeasure \/ SignalHandler
    \/ StopWorkerThreads \/ StopNotify \/ JoinThreads \/ DiscardRecords

LEMMA SharedManagerStepKeeps ==
  ASSUME LoadInv, SharedManagerStep
  PROVE  LoadInv'
<1>1. CASE \/ SignalHandler \/ StopWorkerThreads \/ JoinThreads
           \/ DiscardRecords
  BY <1>1, UnchangedKeeps DEF SignalHandler, StopWorkerThreads, JoinThreads,
     DiscardRecords
<1>2. CASE StopNotify
  BY <1>2, WakeAllKeeps DEF StopNotify
<1> QED
  BY <1>1, <1>2, CleanupKeeps, EndMeasureKeeps DEF SharedManagerStep

-----------------------------------------------------------------------------
(* The steps of a worker, and the callbacks.                               *)

SharedWorkerStep(w) ==
    \/ CompleteForPause(w) \/ TestExecute(w) \/ Sleep(w)
    \/ SkipSend(w) \/ SendAsync(w) \/ CountOngoing(w)
    \/ SendSync(w) \/ InferReturns(w)
    \/ CompleteForExit(w) \/ LeaveInfer(w)

\* The close of the sequences, for a pause and for the exit.
LEMMA CompleteKeeps ==
  ASSUME LoadInv, NEW w \in Worker, CompleteForPause(w) \/ CompleteForExit(w)
  PROVE  LoadInv'
<1>1. /\ LoadTypes /\ CompleteOngoingSequences(w)
      /\ pc[w] \in {"off", "exiting"} /\ pc'[w] \in {"offwait", "exitwait"}
      /\ \A v \in Worker \ {w} : pc'[v] = pc[v]
      /\ pc' \in [Worker -> WorkerPc]
      /\ UNCHANGED <<wakeHolder, cfgVars, paused, idVars, notified, badCb,
                     finalizing>>
  <2>1. "offwait" \in WorkerPc /\ "exitwait" \in WorkerPc
    BY DEF WorkerPc
  <2> QED
    BY <2>1, GotoType DEF LoadInv, CompleteForPause, CompleteForExit
<1>2. LoadTypes'
  BY <1>1, CompleteEffect, LoadTypesParts DEF LoadTypes, ConfigTypes,
     ThreadTypes, IdTypes, StatTypes, ContextTypes, cfgVars, idVars
<1>3. /\ \A v \in Worker \ {w} : /\ inFlight'[v] = inFlight[v]
                                  /\ ongoing'[v] = ongoing[v]
                                  /\ badStatus'[v] = badStatus[v]
      /\ ~Async => inFlight' = inFlight /\ ongoing' = ongoing
  BY <1>1, CompleteEffect
<1>4. held' = held /\ paused' = paused /\ finalizing' = finalizing
      /\ badCb' = badCb
  BY <1>1 DEF idVars
<1>5. ~paused[w]
  BY <1>1 DEF LoadInv, Holding, Parked
<1>6. Holding'
  BY <1>1, <1>3, <1>4, <1>5 DEF LoadInv, Holding
<1>7. SyncFlights'
  BY <1>1, <1>3, <1>4 DEF LoadInv, SyncFlights
<1>8. OngoingAccounted'
  <2> SUFFICES ASSUME Async, NEW v \in Worker, NEW c \in CtxId
               PROVE
                 /\ ongoing'[v][c] >= inFlight'[v][c] - Uncounted(v, c)'
                 /\ \/ ongoing'[v][c] = inFlight'[v][c] - Uncounted(v, c)'
                    \/ MayLose /\ (badStatus'[v] \/ badCb'[v])
    BY DEF OngoingAccounted
  <2>1. /\ ongoing[v][c] >= inFlight[v][c] - Uncounted(v, c)
        /\ \/ ongoing[v][c] = inFlight[v][c] - Uncounted(v, c)
           \/ MayLose /\ (badStatus[v] \/ badCb[v])
    BY DEF LoadInv, OngoingAccounted
  <2>2. CASE v # w
    <3>1. Uncounted(v, c)' = Uncounted(v, c)
      BY <1>1, <1>3, <1>4, <2>2 DEF Uncounted
    <3> QED
      BY <1>3, <1>4, <2>1, <2>2, <3>1
  <2>3. CASE v = w
    <3> DEFINE m == ongoing[w][c]
               i == inFlight[w][c]
               n == ongoing'[w][c]
               j == inFlight'[w][c]
    <3>1. Uncounted(v, c)' = 0 /\ Uncounted(v, c) = 0
      BY <1>1, <2>3 DEF Uncounted
    <3>2. m \in Int /\ i \in Int /\ n \in Int /\ j \in Int
      BY <1>1, <1>2, LoadTypesParts, CompleteEffect
    <3>3. /\ n - m >= j - i
          /\ n - m = j - i \/ (MayLose /\ badStatus'[w])
          /\ badStatus[w] => badStatus'[w]
      BY <1>1, CompleteEffect
    <3>4. /\ m >= i - 0
          /\ m = i - 0 \/ (MayLose /\ (badStatus[w] \/ badCb[w]))
      BY <2>1, <2>3, <3>1
    <3> HIDE DEF m, i, n, j
    <3>5. n >= j /\ (n = j \/ (MayLose /\ (badStatus'[w] \/ badCb[w])))
      <4>1. n >= j
        BY <3>2, <3>3, <3>4
      <4>2. CASE m = i - 0 /\ n - m = j - i
        <5>1. n = j
          BY <3>2, <4>2
        <5> QED
          BY <4>1, <5>1
      <4> QED
        BY <3>3, <3>4, <4>1, <4>2
    <3>6. /\ n >= j - 0
          /\ n = j - 0 \/ (MayLose /\ (badStatus'[w] \/ badCb'[w]))
      <4>1. n - 0 = n /\ j - 0 = j
        BY <3>2
      <4> QED
        BY <1>4, <3>5, <4>1
    <3> QED
      BY <2>3, <3>1, <3>6 DEF n, j
  <2> QED
    BY <2>2, <2>3
<1>9. QuietWhenPausedOrDone'
  BY <1>1, <1>3, <1>4, <1>5 DEF LoadInv, QuietWhenPausedOrDone
<1> QED
  BY <1>2, <1>6, <1>7, <1>8, <1>9 DEF LoadInv

LEMMA TestExecuteKeeps ==
  ASSUME LoadInv, NEW w \in Worker, TestExecute(w) \/ Sleep(w)
  PROVE  LoadInv'
<1>1. /\ pc' \in [Worker -> WorkerPc]
      /\ \A v \in Worker \ {w} : pc'[v] = pc[v]
      /\ wakeHolder' \in Worker \cup {None, Main}
      /\ UNCHANGED <<cfgVars, paused, idVars, reqVars>>
      /\ \/ pc[w] = "offcheck" /\ pc'[w] \in {"unpause", "offblock"}
         \/ pc[w] = "offblock" /\ pc'[w] = "offsleep"
         \/ pc[w] = "ncblock" /\ pc'[w] = "ncsleep"
  <2>1. {"unpause", "offblock", "offsleep", "ncsleep"} \subseteq WorkerPc
    BY DEF WorkerPc
  <2>2. CASE TestExecute(w) /\ (earlyExit \/ execute)
    BY <2>1, <2>2, GotoType DEF LoadInv, TestExecute, LoadTypes, ThreadTypes
  <2>3. CASE TestExecute(w) /\ ~(earlyExit \/ execute)
    BY <2>1, <2>3, GotoType DEF LoadInv, TestExecute
  <2>4. CASE Sleep(w)
    BY <2>1, <2>4, GotoType DEF LoadInv, Sleep
  <2> QED
    BY <2>2, <2>3, <2>4
<1>2. LoadTypes'
  BY <1>1 DEF LoadInv, LoadTypes, ConfigTypes, ThreadTypes, IdTypes,
     StatTypes, ContextTypes, cfgVars, idVars, reqVars, ctxVars
<1>3. UNCHANGED <<inFlight, ongoing, finalizing, badCb, held, paused,
                  badStatus>>
  BY <1>1 DEF idVars, reqVars, ctxVars
<1>4. \A v \in Worker :
         /\ held'[v] \in CtxId <=> pc'[v] \in {"held", "infer", "sent"}
         /\ paused'[v] => pc'[v] \in Parked
  BY <1>1, <1>3 DEF LoadInv, Holding, Parked
<1> QED
  BY <1>1, <1>2, <1>3, <1>4, OwnStepKeeps

\* RestoreFreeCtxId keeps the type of the queue.
LEMMA RestoreFreeType ==
  ASSUME LoadTypes, NEW w \in Worker, held[w] \in CtxId, RestoreFreeCtxId(w)
  PROVE  free' \in [Worker -> Seq(CtxId)]
<1>1. CASE Async
  BY <1>1, LoadTypesParts DEF RestoreFreeCtxId
<1>2. CASE ~Async
  BY <1>2, RestoreType DEF RestoreFreeCtxId
<1> QED
  BY <1>1, <1>2

LEMMA SkipSendKeeps ==
  ASSUME LoadInv, NEW w \in Worker, SkipSend(w)
  PROVE  LoadInv'
<1>1. held[w] \in CtxId
  BY DEF LoadInv, Holding, SkipSend
<1>2. /\ pc' \in [Worker -> WorkerPc] /\ pc[w] = "held" /\ pc'[w] = "send"
      /\ \A v \in Worker \ {w} : pc'[v] = pc[v]
  <2>1. "send" \in WorkerPc
    BY DEF WorkerPc
  <2> QED
    BY <2>1, GotoType DEF LoadInv, SkipSend
<1>3. free' \in [Worker -> Seq(CtxId)]
  BY <1>1, RestoreFreeType DEF LoadInv, SkipSend
<1>4. /\ held' \in [Worker -> CtxId \cup {None}] /\ held'[w] = None
      /\ \A v \in Worker \ {w} : held'[v] = held[v]
  BY LoadTypesParts DEF LoadInv, SkipSend
<1>5. LoadTypes'
  BY <1>2, <1>3, <1>4 DEF LoadInv, SkipSend, LoadTypes, ConfigTypes,
     ThreadTypes, IdTypes, StatTypes, ContextTypes, cfgVars, reqVars, ctxVars
<1>6. UNCHANGED <<inFlight, ongoing, finalizing, badCb, paused, badStatus>>
  BY DEF SkipSend, reqVars, ctxVars
<1>7. \A v \in Worker :
         /\ held'[v] \in CtxId <=> pc'[v] \in {"held", "infer", "sent"}
         /\ paused'[v] => pc'[v] \in Parked
  BY <1>2, <1>4, <1>6, NoneIsNoId DEF LoadInv, Holding, Parked
<1> QED
  BY <1>2, <1>4, <1>5, <1>6, <1>7, OwnStepKeeps

\* The flags that a request may change, and the status of its sequence.
LEMMA SendTypes ==
  ASSUME LoadInv, NEW w \in Worker, SendAsync(w) \/ SendSync(w)
  PROVE  /\ LoadTypes'
         /\ held[w] \in CtxId /\ pc[w] = "held" /\ ~paused[w]
         /\ ~badStatus[w]
         /\ \A v \in Worker \ {w} : pc'[v] = pc[v] /\ paused'[v] = paused[v]
         /\ inFlight' \in [Worker -> [CtxId -> Nat]]
<1>1. /\ held[w] \in CtxId /\ pc[w] = "held" /\ ~paused[w]
      /\ ~badStatus[w]
  BY DEF LoadInv, Holding, SendAsync, SendSync, Parked, Refused, ShouldExit
<1>2. /\ pc' \in [Worker -> WorkerPc]
      /\ \A v \in Worker \ {w} : pc'[v] = pc[v]
  <2>1. {"sent", "infer"} \subseteq WorkerPc
    BY DEF WorkerPc
  <2> QED
    BY <2>1, GotoType DEF LoadInv, SendAsync, SendSync
<1>3. sent' \in [Worker -> 0 .. SentCap]
  <2>1. SentAfter(w, 1) \in 0 .. SentCap
    BY SentAfterType DEF LoadInv
  <2> QED
    BY <2>1, LoadTypesParts DEF LoadInv, SendAsync, SendSync
<1>4. rem' \in [Index -> Nat]
  BY AdvanceSequenceType DEF LoadInv, SendAsync, SendSync
<1>5. inFlight' \in [Worker -> [CtxId -> Nat]]
  <2>1. inFlight \in [Worker -> [CtxId -> Nat]]
    BY LoadTypesParts DEF LoadInv
  <2>2. inFlight[w][held[w]] + 1 \in Nat
    BY <1>1, <2>1
  <2>3. [inFlight EXCEPT ![w][held[w]] = inFlight[w][held[w]] + 1]
          \in [Worker -> [CtxId -> Nat]]
    BY <1>1, <2>1, <2>2, UpdateCtx
  <2> QED
    BY <2>1, <2>3 DEF SendAsync, SendSync
<1>6. badStatus' \in [Worker -> BOOLEAN]
  BY LoadTypesParts DEF LoadInv, SendAsync, SendSync
<1>7. UNCHANGED <<wakeHolder, cfgVars, paused, idVars, notified, badCb,
                  ongoing, finalizing>>
  BY DEF SendAsync, SendSync
<1>8. LoadTypes'
  BY <1>2, <1>3, <1>4, <1>5, <1>6, <1>7 DEF LoadInv, LoadTypes, ConfigTypes,
     ThreadTypes, IdTypes, StatTypes, ContextTypes, cfgVars, idVars
<1> QED
  BY <1>1, <1>2, <1>5, <1>7, <1>8

LEMMA SendAsyncKeeps ==
  ASSUME LoadInv, NEW w \in Worker, SendAsync(w)
  PROVE  LoadInv'
<1>1. /\ LoadTypes' /\ held[w] \in CtxId /\ pc[w] = "held" /\ ~paused[w]
      /\ ~badStatus[w] /\ \A v \in Worker \ {w} : pc'[v] = pc[v]
  BY SendTypes
<1>2. /\ Async /\ pc'[w] = "sent"
      /\ UNCHANGED <<held, paused, badCb, ongoing, finalizing>>
  BY LoadTypesParts DEF LoadInv, SendAsync, Goto, idVars
<1>3. \/ /\ inFlight' = [inFlight EXCEPT ![w][held[w]] =
                           inFlight[w][held[w]] + 1]
         /\ badStatus' = badStatus
      \/ /\ MayLose /\ inFlight' = inFlight
         /\ badStatus' = [badStatus EXCEPT ![w] = TRUE]
  BY DEF SendAsync
<1>4. Holding'
  <2>1. \A v \in Worker \ {w} : badStatus'[v] = badStatus[v]
    BY <1>3, LoadTypesParts DEF LoadInv
  <2>2. badStatus'[w] => MayLose
    BY <1>1, <1>3
  <2> QED
    BY <1>1, <1>2, <2>1, <2>2 DEF LoadInv, Holding
<1>5. SyncFlights'
  BY <1>2 DEF SyncFlights
<1>6. OngoingAccounted'
  <2>1. /\ inFlight \in [Worker -> [CtxId -> Nat]]
        /\ ongoing \in [Worker -> [CtxId -> Int]]
        /\ badStatus \in [Worker -> BOOLEAN]
    BY LoadTypesParts DEF LoadInv
  <2>2. CASE /\ inFlight' = [inFlight EXCEPT ![w][held[w]] =
                               inFlight[w][held[w]] + 1]
             /\ badStatus' = badStatus
    BY <1>1, <1>2, <2>1, <2>2 DEF LoadInv, OngoingAccounted, Uncounted
  <2>3. CASE /\ MayLose /\ inFlight' = inFlight
             /\ badStatus' = [badStatus EXCEPT ![w] = TRUE]
    BY <1>1, <1>2, <2>1, <2>3 DEF LoadInv, OngoingAccounted, Uncounted
  <2> QED
    BY <1>3, <2>2, <2>3
<1>7. QuietWhenPausedOrDone'
  <2>1. \A v \in Worker \ {w} : inFlight'[v] = inFlight[v]
    BY <1>3, LoadTypesParts DEF LoadInv
  <2> QED
    BY <1>1, <1>2, <2>1 DEF LoadInv, QuietWhenPausedOrDone
<1> QED
  BY <1>1, <1>4, <1>5, <1>6, <1>7 DEF LoadInv

LEMMA SendSyncKeeps ==
  ASSUME LoadInv, NEW w \in Worker, SendSync(w)
  PROVE  LoadInv'
<1>1. /\ LoadTypes' /\ held[w] \in CtxId /\ pc[w] = "held" /\ ~paused[w]
      /\ \A v \in Worker \ {w} : pc'[v] = pc[v]
  BY SendTypes
<1>2. /\ ~Async /\ pc'[w] = "infer"
      /\ inFlight' = [inFlight EXCEPT ![w][held[w]] =
                        inFlight[w][held[w]] + 1]
      /\ UNCHANGED <<held, paused, badStatus, badCb, ongoing, finalizing>>
  BY LoadTypesParts DEF LoadInv, SendSync, Goto, idVars
<1>3. Holding'
  BY <1>1, <1>2 DEF LoadInv, Holding
<1>4. inFlight \in [Worker -> [CtxId -> Nat]]
  BY LoadTypesParts DEF LoadInv
<1>5. SyncFlights'
  BY <1>1, <1>2, <1>4 DEF LoadInv, SyncFlights
<1>6. OngoingAccounted'
  BY <1>2 DEF OngoingAccounted
<1>7. QuietWhenPausedOrDone'
  BY <1>1, <1>2, <1>4 DEF LoadInv, QuietWhenPausedOrDone
<1> QED
  BY <1>1, <1>3, <1>5, <1>6, <1>7 DEF LoadInv

LEMMA CountOngoingKeeps ==
  ASSUME LoadInv, NEW w \in Worker, CountOngoing(w)
  PROVE  LoadInv'
<1>0. /\ held[w] \in CtxId /\ pc[w] = "sent" /\ Async /\ ~paused[w]
      /\ badStatus[w] => MayLose
  BY DEF LoadInv, Holding, CountOngoing, Parked
<1>1. /\ pc' \in [Worker -> WorkerPc] /\ pc'[w] = "send"
      /\ \A v \in Worker \ {w} : pc'[v] = pc[v]
  <2>1. "send" \in WorkerPc
    BY DEF WorkerPc
  <2> QED
    BY <2>1, GotoType DEF LoadInv, CountOngoing
<1>2. /\ held' \in [Worker -> CtxId \cup {None}] /\ held'[w] = None
      /\ \A v \in Worker \ {w} : held'[v] = held[v]
  BY LoadTypesParts DEF LoadInv, CountOngoing
<1>3. /\ inFlight \in [Worker -> [CtxId -> Nat]]
      /\ ongoing \in [Worker -> [CtxId -> Int]]
      /\ ongoing' = [ongoing EXCEPT ![w][held[w]] = ongoing[w][held[w]] + 1]
  BY LoadTypesParts DEF LoadInv, CountOngoing
<1>4. UNCHANGED <<wakeHolder, cfgVars, paused, granted, nctx, notified, sent,
                  badStatus, badCb, inFlight, finalizing, rem>>
  BY DEF CountOngoing
<1>5. LoadTypes'
  <2>1. free' \in [Worker -> Seq(CtxId)]
    BY <1>0, RestoreFreeType DEF LoadInv, CountOngoing
  <2>2. ongoing' \in [Worker -> [CtxId -> Int]]
    <3>1. ongoing[w][held[w]] + 1 \in Int
      BY <1>0, <1>3
    <3> QED
      BY <1>0, <1>3, <3>1, UpdateCtx
  <2> QED
    BY <1>1, <1>2, <1>4, <2>1, <2>2 DEF LoadInv, LoadTypes, ConfigTypes,
       ThreadTypes, IdTypes, StatTypes, ContextTypes, cfgVars
<1>6. Holding'
  BY <1>0, <1>1, <1>2, <1>4, NoneIsNoId DEF LoadInv, Holding
<1>7. SyncFlights'
  BY <1>0 DEF SyncFlights
<1>8. OngoingAccounted'
  <2> SUFFICES ASSUME NEW v \in Worker, NEW c \in CtxId
               PROVE
                 /\ ongoing'[v][c] >= inFlight[v][c] - Uncounted(v, c)'
                 /\ \/ ongoing'[v][c] = inFlight[v][c] - Uncounted(v, c)'
                    \/ MayLose /\ (badStatus[v] \/ badCb[v])
    BY <1>4 DEF OngoingAccounted
  <2>1. /\ ongoing[v][c] >= inFlight[v][c] - Uncounted(v, c)
        /\ \/ ongoing[v][c] = inFlight[v][c] - Uncounted(v, c)
           \/ MayLose /\ (badStatus[v] \/ badCb[v])
    BY <1>0 DEF LoadInv, OngoingAccounted
  <2>2. ongoing[v][c] \in Int /\ inFlight[v][c] \in Int
    BY <1>3
  <2>3. CASE v = w /\ c = held[w]
    <3>1. Uncounted(v, c)' = 0 /\ ongoing'[v][c] = ongoing[v][c] + 1
      BY <1>1, <1>3, <2>3 DEF Uncounted
    <3>2. CASE badStatus[w]
      <4>1. Uncounted(v, c) = 0
        BY <2>3, <3>2 DEF Uncounted
      <4>2. MayLose /\ badStatus[v]
        BY <1>0, <2>3, <3>2
      <4>3. ongoing'[v][c] >= inFlight[v][c] - Uncounted(v, c)'
        BY <2>1, <2>2, <3>1, <4>1
      <4> QED
        BY <4>2, <4>3
    <3>3. CASE ~badStatus[w]
      <4>1. Uncounted(v, c) = 1
        BY <1>0, <2>3, <3>3 DEF Uncounted
      <4>2. ongoing'[v][c] >= inFlight[v][c] - Uncounted(v, c)'
        BY <2>1, <2>2, <3>1, <4>1
      <4>3. CASE ongoing[v][c] = inFlight[v][c] - Uncounted(v, c)
        <5>1. ongoing'[v][c] = inFlight[v][c] - Uncounted(v, c)'
          BY <2>2, <3>1, <4>1, <4>3
        <5> QED
          BY <4>2, <5>1
      <4> QED
        BY <2>1, <4>2, <4>3
    <3> QED
      BY <3>2, <3>3
  <2>4. CASE ~(v = w /\ c = held[w])
    <3>1. /\ Uncounted(v, c)' = Uncounted(v, c)
          /\ ongoing'[v][c] = ongoing[v][c]
      BY <1>0, <1>1, <1>2, <1>3, <1>4, <2>4, NoneIsNoId DEF Uncounted
    <3> QED
      BY <2>1, <3>1
  <2> QED
    BY <2>3, <2>4
<1>9. QuietWhenPausedOrDone'
  BY <1>0, <1>1, <1>4 DEF LoadInv, QuietWhenPausedOrDone
<1> QED
  BY <1>5, <1>6, <1>7, <1>8, <1>9 DEF LoadInv

LEMMA InferReturnsKeeps ==
  ASSUME LoadInv, NEW w \in Worker, InferReturns(w)
  PROVE  LoadInv'
<1>0. /\ held[w] \in CtxId /\ pc[w] = "infer" /\ ~Async /\ ~paused[w]
  BY DEF LoadInv, Holding, InferReturns, Parked
<1>1. /\ pc' \in [Worker -> WorkerPc] /\ pc'[w] = "send"
      /\ \A v \in Worker \ {w} : pc'[v] = pc[v]
  <2>1. "send" \in WorkerPc
    BY DEF WorkerPc
  <2> QED
    BY <2>1, GotoType DEF LoadInv, InferReturns
<1>2. /\ held' \in [Worker -> CtxId \cup {None}] /\ held'[w] = None
      /\ \A v \in Worker \ {w} : held'[v] = held[v]
  BY LoadTypesParts DEF LoadInv, InferReturns
<1>3. /\ inFlight \in [Worker -> [CtxId -> Nat]]
      /\ inFlight' = [inFlight EXCEPT ![w][held[w]] = 0]
  <2>1. inFlight[w][held[w]] - 1 = 0
    BY <1>0, LoadTypesParts DEF LoadInv, SyncFlights
  <2> QED
    BY <2>1, LoadTypesParts DEF LoadInv, InferReturns
<1>4. UNCHANGED <<wakeHolder, cfgVars, paused, granted, nctx, notified, sent,
                  badCb, ongoing, finalizing, rem>>
  BY DEF InferReturns
<1>5. /\ badStatus' \in [Worker -> BOOLEAN]
      /\ \A v \in Worker \ {w} : badStatus'[v] = badStatus[v]
  BY LoadTypesParts DEF LoadInv, InferReturns
<1>6. LoadTypes'
  <2>1. free' \in [Worker -> Seq(CtxId)]
    BY <1>0, RestoreFreeType DEF LoadInv, InferReturns
  <2>2. inFlight' \in [Worker -> [CtxId -> Nat]]
    BY <1>0, <1>3, UpdateCtx
  <2> QED
    BY <1>1, <1>2, <1>4, <1>5, <2>1, <2>2 DEF LoadInv, LoadTypes,
       ConfigTypes, ThreadTypes, IdTypes, StatTypes, ContextTypes, cfgVars
<1>7. Holding'
  BY <1>0, <1>1, <1>2, <1>4, <1>5, NoneIsNoId DEF LoadInv, Holding
<1>8. SyncFlights'
  BY <1>0, <1>1, <1>2, <1>3, <1>4, NoneIsNoId DEF LoadInv, SyncFlights
<1>9. OngoingAccounted'
  BY <1>0 DEF OngoingAccounted
<1>10. QuietWhenPausedOrDone'
  BY <1>0, <1>1, <1>3, <1>4 DEF LoadInv, QuietWhenPausedOrDone
<1> QED
  BY <1>6, <1>7, <1>8, <1>9, <1>10 DEF LoadInv

LEMMA LeaveInferKeeps ==
  ASSUME LoadInv, NEW w \in Worker, LeaveInfer(w)
  PROVE  LoadInv'
<1>1. /\ pc' \in [Worker -> WorkerPc]
      /\ pc[w] = "exitwait" /\ pc'[w] = "done"
      /\ \A v \in Worker \ {w} : pc'[v] = pc[v]
  <2>1. "done" \in WorkerPc
    BY DEF WorkerPc
  <2> QED
    BY <2>1, GotoType DEF LoadInv, LeaveInfer
<1>2. NoOngoingRequests(w) /\ UNCHANGED <<wakeHolder, cfgVars, paused, idVars,
                                          reqVars>>
  BY DEF LeaveInfer
<1>3. LoadTypes'
  BY <1>1, <1>2 DEF LoadInv, LoadTypes, ConfigTypes, ThreadTypes, IdTypes,
     StatTypes, ContextTypes, cfgVars, idVars, reqVars, ctxVars
<1>4. UNCHANGED <<inFlight, ongoing, finalizing, badCb, held, paused,
                  badStatus>>
  BY <1>2 DEF idVars, reqVars, ctxVars
<1>5. \A v \in Worker :
         /\ held'[v] \in CtxId <=> pc'[v] \in {"held", "infer", "sent"}
         /\ paused'[v] => pc'[v] \in Parked
  BY <1>1, <1>4 DEF LoadInv, Holding, Parked
<1> QED
  BY <1>1, <1>2, <1>3, <1>4, <1>5, OwnStepKeeps

\* A response takes a request from the server.
LEMMA CallbackKeeps ==
  ASSUME LoadInv, NEW w \in Worker, NEW c \in CtxId, Callback(w, c)
  PROVE  LoadInv'
<1>0. /\ inFlight \in [Worker -> [CtxId -> Nat]]
      /\ ongoing \in [Worker -> [CtxId -> Int]]
      /\ finalizing \in [Worker -> [CtxId -> {0, 1}]]
      /\ badCb \in [Worker -> BOOLEAN]
  BY LoadTypesParts DEF LoadInv
<1>1. UNCHANGED <<wakeHolder, cfgVars, paused, pc, held, granted, nctx, sent,
                  badStatus, rem>>
  BY DEF Callback, AsyncCallback, AsyncCallbackGivesUp,
     AsyncCallbackFinalize, idVars
<1>2. /\ inFlight' \in [Worker -> [CtxId -> Nat]]
      /\ ongoing' \in [Worker -> [CtxId -> Int]]
      /\ finalizing' \in [Worker -> [CtxId -> {0, 1}]]
      /\ badCb' \in [Worker -> BOOLEAN]
      /\ notified' \in [Worker -> BOOLEAN]
      /\ free' \in [Worker -> Seq(CtxId)]
  <2>1. CASE AsyncCallback(w, c)
    <3>1. inFlight[w][c] - 1 \in Nat /\ ongoing[w][c] - 1 \in Int
      BY <1>0, <2>1 DEF AsyncCallback
    <3>2. inFlight' \in [Worker -> [CtxId -> Nat]]
      BY <1>0, <2>1, <3>1, UpdateCtx DEF AsyncCallback
    <3>3. ongoing' \in [Worker -> [CtxId -> Int]]
      BY <1>0, <2>1, <3>1, UpdateCtx DEF AsyncCallback, CountDown
    <3>4. finalizing' \in [Worker -> [CtxId -> {0, 1}]]
      BY <1>0, <2>1, UpdateCtx DEF AsyncCallback
    <3> QED
      BY <1>0, <2>1, <3>2, <3>3, <3>4, LoadTypesParts
         DEF LoadInv, AsyncCallback, idVars
  <2>2. CASE AsyncCallbackGivesUp(w, c)
    <3>1. inFlight[w][c] - 1 \in Nat
      BY <1>0, <2>2 DEF AsyncCallbackGivesUp
    <3>2. inFlight' \in [Worker -> [CtxId -> Nat]]
      BY <1>0, <2>2, <3>1, UpdateCtx DEF AsyncCallbackGivesUp
    <3> QED
      BY <1>0, <2>2, <3>2, LoadTypesParts
         DEF LoadInv, AsyncCallbackGivesUp, idVars
  <2>3. CASE AsyncCallbackFinalize(w, c)
    <3>1. finalizing' \in [Worker -> [CtxId -> {0, 1}]]
      BY <1>0, <2>3, UpdateCtx DEF AsyncCallbackFinalize
    <3>2. free' \in [Worker -> Seq(CtxId)]
      BY <2>3, RestoreType DEF LoadInv, AsyncCallbackFinalize
    <3> QED
      BY <1>0, <2>3, <3>1, <3>2, LoadTypesParts
         DEF LoadInv, AsyncCallbackFinalize
  <2> QED
    BY <2>1, <2>2, <2>3 DEF Callback
<1>3. LoadTypes'
  BY <1>1, <1>2 DEF LoadInv, LoadTypes, ConfigTypes, ThreadTypes, IdTypes,
     StatTypes, ContextTypes, cfgVars
<1>4. Holding'
  BY <1>1 DEF LoadInv, Holding
<1>5. SyncFlights' /\ OngoingAccounted'
  <2>1. CASE AsyncCallback(w, c)
    <3>1. SyncFlights'
      BY <2>1 DEF AsyncCallback, SyncFlights
    <3>2. OngoingAccounted'
      BY <1>0, <1>1, <2>1 DEF LoadInv, AsyncCallback, CountDown,
         OngoingAccounted, Uncounted
    <3> QED
      BY <3>1, <3>2
  <2>2. CASE AsyncCallbackGivesUp(w, c)
    <3>1. SyncFlights'
      BY <2>2 DEF AsyncCallbackGivesUp, SyncFlights
    <3>2. OngoingAccounted'
      BY <1>0, <1>1, <2>2 DEF LoadInv, AsyncCallbackGivesUp,
         OngoingAccounted, Uncounted
    <3> QED
      BY <3>1, <3>2
  <2>3. CASE AsyncCallbackFinalize(w, c)
    <3>1. Async
      BY <2>3, ModesAssumption DEF LoadInv, SyncFlights,
         AsyncCallbackFinalize
    <3> QED
      BY <1>1, <2>3, <3>1 DEF LoadInv, AsyncCallbackFinalize,
         SyncFlights, OngoingAccounted, Uncounted
  <2> QED
    BY <2>1, <2>2, <2>3 DEF Callback
<1>6. QuietWhenPausedOrDone'
  <2>1. \A v \in Worker : \A d \in CtxId :
            inFlight[v][d] = 0 => inFlight'[v][d] = 0
    BY <1>0 DEF Callback, AsyncCallback, AsyncCallbackGivesUp,
       AsyncCallbackFinalize
  <2> QED
    BY <1>1, <2>1 DEF LoadInv, QuietWhenPausedOrDone
<1> QED
  BY <1>3, <1>4, <1>5, <1>6 DEF LoadInv

LEMMA SharedWorkerStepKeeps ==
  ASSUME LoadInv, NEW w \in Worker, SharedWorkerStep(w)
  PROVE  LoadInv'
BY CompleteKeeps, TestExecuteKeeps, SkipSendKeeps, SendAsyncKeeps,
   CountOngoingKeeps, SendSyncKeeps, InferReturnsKeeps, LeaveInferKeeps
   DEF SharedWorkerStep

\* From where to where they go.
SharedMoves ==
    {<<"off", "offwait">>, <<"offcheck", "unpause">>,
     <<"offcheck", "offblock">>, <<"offblock", "offsleep">>,
     <<"ncblock", "ncsleep">>, <<"held", "send">>, <<"held", "sent">>,
     <<"held", "infer">>, <<"sent", "send">>, <<"infer", "send">>,
     <<"exiting", "exitwait">>, <<"exitwait", "done">>}

\* A worker's step moves this worker only, and it passes the wait of
\* HandleExecuteOff only with execute_ or early_exit.
LEMMA SharedMoveEffect ==
  ASSUME LoadTypes, NEW w \in Worker, SharedWorkerStep(w)
  PROVE  /\ pc' \in [Worker -> WorkerPc]
         /\ <<pc[w], pc'[w]>> \in SharedMoves
         /\ \A v \in Worker \ {w} : pc'[v] = pc[v]
         /\ pc'[w] = "unpause" => execute \/ earlyExit
<1>1. {"offwait", "unpause", "offblock", "offsleep", "ncsleep", "send",
       "sent", "infer", "exitwait", "done"} \subseteq WorkerPc
  BY DEF WorkerPc
<1> USE <1>1
<1>2. CASE CompleteForPause(w)
  BY <1>2, GotoType DEF CompleteForPause, SharedMoves
<1>3. CASE TestExecute(w)
  <2>1. CASE earlyExit \/ execute
    BY <1>3, <2>1, GotoType DEF TestExecute, SharedMoves
  <2>2. CASE ~(earlyExit \/ execute)
    BY <1>3, <2>2, GotoType DEF TestExecute, SharedMoves
  <2> QED
    BY <2>1, <2>2
<1>4. CASE Sleep(w)
  BY <1>4, GotoType DEF Sleep, SharedMoves
<1>5. CASE SkipSend(w)
  BY <1>5, GotoType DEF SkipSend, SharedMoves
<1>6. CASE SendAsync(w)
  BY <1>6, GotoType DEF SendAsync, SharedMoves
<1>7. CASE CountOngoing(w)
  BY <1>7, GotoType DEF CountOngoing, SharedMoves
<1>8. CASE SendSync(w)
  BY <1>8, GotoType DEF SendSync, SharedMoves
<1>9. CASE InferReturns(w)
  BY <1>9, GotoType DEF InferReturns, SharedMoves
<1>10. CASE CompleteForExit(w)
  BY <1>10, GotoType DEF CompleteForExit, SharedMoves
<1>11. CASE LeaveInfer(w)
  BY <1>11, GotoType DEF LeaveInfer, SharedMoves
<1> QED
  BY <1>2, <1>3, <1>4, <1>5, <1>6, <1>7, <1>8, <1>9, <1>10, <1>11
     DEF SharedWorkerStep

\* It leaves the main thread alone, and the other workers' fields.
LEMMA SharedFrame ==
  ASSUME LoadTypes, NEW w \in Worker, SharedWorkerStep(w)
  PROVE  /\ UNCHANGED <<mainVars, cfgVars, paused, granted, nctx, notified,
                        badCb, finalizing>>
         /\ \A v \in Worker \ {w} :
               /\ free'[v] = free[v] /\ held'[v] = held[v]
               /\ sent'[v] = sent[v] /\ inFlight'[v] = inFlight[v]
               /\ badStatus'[v] = badStatus[v]
         /\ free'[w] \in {free[w], Append(free[w], held[w])}
         /\ held'[w] \in {held[w], None}
<1>1. UNCHANGED <<mainVars, cfgVars, paused, granted, nctx, notified, badCb,
                  finalizing>>
  BY DEF SharedWorkerStep, CompleteForPause, TestExecute, Sleep, SkipSend,
     SendAsync, CountOngoing, SendSync, InferReturns, CompleteForExit,
     LeaveInfer, idVars, reqVars, ctxVars
<1>2. /\ free \in [Worker -> Seq(CtxId)]
      /\ held \in [Worker -> CtxId \cup {None}]
      /\ sent \in [Worker -> 0 .. SentCap]
      /\ badStatus \in [Worker -> BOOLEAN]
      /\ inFlight \in [Worker -> [CtxId -> Nat]]
  BY LoadTypesParts
<1>3. CASE CompleteForPause(w) \/ CompleteForExit(w)
  BY <1>1, <1>3, CompleteEffect DEF CompleteForPause, CompleteForExit, idVars
<1>4. CASE TestExecute(w) \/ Sleep(w) \/ LeaveInfer(w)
  BY <1>1, <1>4 DEF TestExecute, Sleep, LeaveInfer, idVars, reqVars, ctxVars
<1>5. CASE SendAsync(w) \/ SendSync(w)
  BY <1>1, <1>2, <1>5 DEF SendAsync, SendSync, idVars
<1>6. CASE SkipSend(w) \/ CountOngoing(w) \/ InferReturns(w)
  <2>1. RestoreFreeCtxId(w) /\ held' = [held EXCEPT ![w] = None]
    BY <1>6 DEF SkipSend, CountOngoing, InferReturns
  <2>2. /\ \A v \in Worker \ {w} : free'[v] = free[v]
        /\ free'[w] \in {free[w], Append(free[w], held[w])}
    BY <1>2, <2>1 DEF RestoreFreeCtxId, Restore
  <2>3. \A v \in Worker \ {w} : /\ sent'[v] = sent[v]
                                 /\ inFlight'[v] = inFlight[v]
                                 /\ badStatus'[v] = badStatus[v]
    BY <1>2, <1>6 DEF SkipSend, CountOngoing, InferReturns, reqVars, ctxVars
  <2> QED
    BY <1>1, <1>2, <2>1, <2>2, <2>3
<1> QED
  BY <1>1, <1>3, <1>4, <1>5, <1>6 DEF SharedWorkerStep

\* Without sequences requests are counted one by one, and ShouldExit is asked
\* right before.
LEMMA SharedCounts ==
  ASSUME LoadTypes, ~OnSequenceModel, NEW w \in Worker, SharedWorkerStep(w)
  PROVE  \/ sent'[w] = sent[w]
         \/ /\ sent'[w] \in Nat /\ sent'[w] <= sent[w] + 1
            /\ numReq[w] = 0 \/ sent[w] < numReq[w]
<1>1. sent[w] \in Nat /\ numReq[w] \in Nat /\ SentCap \in Nat
  BY LoadTypesParts, SizesAssumption DEF SentCap
<1>2. CASE CompleteForPause(w) \/ CompleteForExit(w)
  <2>1. OpenCtxs(w) = {}
    BY DEF OpenCtxs
  <2>2. sent' = sent
    BY <1>2, <2>1, CompleteEffect DEF CompleteForPause, CompleteForExit
  <2> QED
    BY <1>1, <2>2
<1>3. CASE SendAsync(w) \/ SendSync(w)
  <2>1. numReq[w] = 0 \/ sent[w] < numReq[w]
    BY <1>1, <1>3 DEF SendAsync, SendSync, Refused, ShouldExit
  <2>2. sent'[w] = SentAfter(w, 1)
    BY <1>3, LoadTypesParts DEF SendAsync, SendSync
  <2>3. SentAfter(w, 1) <= sent[w] + 1
    BY <1>1 DEF SentAfter
  <2>4. SentAfter(w, 1) \in Nat
    BY <1>1 DEF SentAfter
  <2> QED
    BY <2>1, <2>2, <2>3, <2>4
<1>4. CASE ~(\/ CompleteForPause(w) \/ CompleteForExit(w) \/ SendAsync(w)
             \/ SendSync(w))
  BY <1>4 DEF SharedWorkerStep, TestExecute, Sleep, SkipSend, CountOngoing,
     InferReturns, LeaveInfer, reqVars
<1> QED
  BY <1>2, <1>3, <1>4

\* A request goes out on the context of the taken id, or closes a sequence,
\* and only when it is not refused.
LEMMA SharedSends ==
  ASSUME LoadTypes, NEW w \in Worker, SharedWorkerStep(w)
  PROVE  /\ \A c \in CtxId :
               \/ inFlight'[w][c] <= inFlight[w][c]
               \/ c \in OpenCtxs(w)
               \/ held[w] = c /\ pc[w] = "held" /\ ~Refused(w)
         /\ sent'[w] = sent[w] \/ pc[w] = "held" \/ OpenCtxs(w) # {}
         /\ \A s \in Index :
               \/ rem'[s] \in {0, rem[s]}
               \/ /\ OnSequenceModel /\ s = offset[w] + held[w]
                  /\ pc[w] = "held" /\ ~Refused(w)
         /\ pc[w] \in {"off", "exiting"} =>
               \A c \in OpenCtxs(w) : rem'[offset[w] + c] = 0
<1>1. /\ inFlight \in [Worker -> [CtxId -> Nat]]
      /\ sent \in [Worker -> 0 .. SentCap]
      /\ held \in [Worker -> CtxId \cup {None}]
      /\ rem \in [Index -> Nat]
  BY LoadTypesParts
<1>2. CASE CompleteForPause(w) \/ CompleteForExit(w)
  <2>1. CompleteOngoingSequences(w)
    BY <1>2 DEF CompleteForPause, CompleteForExit
  <2>2. /\ \A c \in CtxId \ OpenCtxs(w) : inFlight'[w][c] = inFlight[w][c]
        /\ \A s \in Index : rem'[s] \in {0, rem[s]}
        /\ \A c \in OpenCtxs(w) : rem'[offset[w] + c] = 0
        /\ OpenCtxs(w) = {} => sent' = sent
    BY <2>1, CompleteEffect
  <2>3. \A c \in CtxId \ OpenCtxs(w) : inFlight'[w][c] <= inFlight[w][c]
    BY <1>1, <2>2
  <2> QED
    BY <2>2, <2>3
<1>3. CASE SendAsync(w) \/ SendSync(w)
  <2>1. pc[w] = "held" /\ ~Refused(w) /\ AdvanceSequence(w)
    BY <1>3 DEF SendAsync, SendSync
  <2>2. \/ inFlight' = inFlight
        \/ inFlight' = [inFlight EXCEPT ![w][held[w]] = @ + 1]
    BY <1>3 DEF SendAsync, SendSync
  <2>3. \A c \in CtxId : held[w] = c \/ inFlight'[w][c] = inFlight[w][c]
    BY <1>1, <2>2
  <2>4. \A c \in CtxId : held[w] = c \/ inFlight'[w][c] <= inFlight[w][c]
    BY <1>1, <2>3
  <2>5. \A s \in Index :
           rem'[s] = rem[s] \/ (OnSequenceModel /\ s = offset[w] + held[w])
    BY <2>1, AdvanceSequenceEffect
  <2> QED
    BY <2>1, <2>4, <2>5
<1>4. CASE InferReturns(w)
  <2>1. /\ inFlight' = [inFlight EXCEPT ![w][held[w]] = @ - 1]
        /\ rem' = rem /\ sent' = sent /\ pc[w] = "infer"
    BY <1>4 DEF InferReturns
  <2>2. \A c \in CtxId : inFlight'[w][c] \in {inFlight[w][c],
                                              inFlight[w][c] - 1}
    BY <1>1, <2>1
  <2>3. \A c \in CtxId : inFlight'[w][c] <= inFlight[w][c]
    BY <1>1, <2>2
  <2> QED
    BY <2>1, <2>3
<1>5. CASE \/ TestExecute(w) \/ Sleep(w) \/ LeaveInfer(w) \/ SkipSend(w)
           \/ CountOngoing(w)
  <2>1. /\ inFlight' = inFlight /\ rem' = rem /\ sent' = sent
        /\ pc[w] \notin {"off", "exiting"}
    <3>1. CASE TestExecute(w) \/ Sleep(w) \/ LeaveInfer(w) \/ SkipSend(w)
      BY <3>1 DEF TestExecute, Sleep, LeaveInfer, SkipSend, reqVars, ctxVars
    <3>2. CASE CountOngoing(w)
      BY <3>2 DEF CountOngoing
    <3> QED
      BY <1>5, <3>1, <3>2
  <2>2. \A c \in CtxId : inFlight'[w][c] <= inFlight[w][c]
    BY <1>1, <2>1
  <2> QED
    BY <2>1, <2>2
<1> QED
  BY <1>2, <1>3, <1>4, <1>5 DEF SharedWorkerStep

\* The id that a worker gives back is the one it holds.
LEMMA SharedRestores ==
  ASSUME LoadTypes, Holding, NEW w \in Worker, SharedWorkerStep(w)
  PROVE  free'[w] = free[w] \/ held[w] \in CtxId
<1>1. CASE pc[w] \in {"held", "sent", "infer"}
  BY <1>1 DEF Holding
<1>2. CASE pc[w] \notin {"held", "sent", "infer"}
  BY <1>2 DEF SharedWorkerStep, CompleteForPause, TestExecute, Sleep,
     SkipSend, SendAsync, CountOngoing, SendSync, InferReturns,
     CompleteForExit, LeaveInfer, idVars
<1> QED
  BY <1>1, <1>2
=============================================================================
