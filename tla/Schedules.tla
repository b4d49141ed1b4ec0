----------------------------- MODULE Schedules -----------------------------
(***************************************************************************)
(* When the requests of request-rate mode are due: RequestRateManager      *)
(* (constant and Poisson), CustomLoadManager (--request-intervals) and     *)
(* CustomRequestScheduleManager (--fixed-schedule) make one list of        *)
(* timestamps, deal it out to the workers, and every worker goes through   *)
(* its part again and again (RateSchedule::Next), by itself.  Times are    *)
(* small numbers for nanoseconds.                                          *)
(***************************************************************************)
EXTENDS Naturals, SequencesExt, ThreadShares

CONSTANTS
    Plans,          \* the schedules asked for: see PlansOK
    MaxTimestamps   \* bound: timestamps a worker takes without a quota

\* intervals: the file's, or the one of a constant rate; draws: the intervals
\* a Poisson schedule may draw; duration: max_duration; times: the timestamps
\* of the data of a fixed schedule; sequences: 0 for a model without.  A rate
\* above 10^9 would give an interval of 0 and a loop that never ends; that a
\* file has no negative interval is not checked by the code.
PlansOK ==
    \A p \in Plans :
        /\ p.kind \in {"constant", "poisson", "custom", "fixed"}
        /\ p.max_threads \in Nat \ {0} /\ p.sequences \in Nat
        /\ p.warmup \in Nat /\ p.duration \in Nat /\ p.draws \subseteq Nat
        /\ p.intervals \in Seq(Nat) /\ p.times \in Seq(Nat)
        /\ p.kind = "constant" =>
               Len(p.intervals) = 1 /\ p.intervals[1] > 0 /\ p.duration = 1
        /\ p.kind = "custom" => p.intervals # <<>>
        /\ p.kind = "fixed" => p.sequences = 0

VARIABLES
    plan,
    part,     \* "warmup", "benchmark" or, when refused, "failed"
    stamps,   \* the timestamps made so far, of all workers
    given,    \* the RateSchedule of each worker, or <<>> while they are made
    got       \* history: what Next has returned to each worker

scheduleVars == <<plan, part, stamps, given, got>>

Fixed == plan.kind = "fixed"

\* GetSchedulesFromDataset: the first warmup timestamps, and the others.
PartTimes ==
    IF part = "warmup" THEN SubSeq(plan.times, 1, plan.warmup)
    ELSE SubSeq(plan.times, plan.warmup + 1, Len(plan.times))

DatasetOk == Fixed => plan.times # <<>> /\ plan.warmup < Len(plan.times)

\* max_threads_: a fixed schedule has no more threads than timestamps.
ThreadLimit ==
    IF Fixed /\ Len(PartTimes) < plan.max_threads THEN Len(PartTimes)
    ELSE plan.max_threads

NumThreads ==
    IF plan.sequences # 0 /\ plan.sequences < ThreadLimit
    THEN plan.sequences ELSE ThreadLimit

CalculateThreadIds ==
    [i \in 1 .. (IF plan.sequences # 0 THEN plan.sequences ELSE ThreadLimit)
        |-> (i - 1) % NumThreads]

ThreadIdOf(j) == CalculateThreadIds[((j - 1) % Len(CalculateThreadIds)) + 1]

\* The requests ConfigureThreads allots to a worker.
NumRequests(w) ==
    IF part = "warmup" THEN Share(plan.warmup, NumThreads, w)
    ELSE IF Fixed THEN Share(Len(PartTimes), NumThreads, w)
    ELSE MaxTimestamps

ScheduleInit ==
    /\ plan \in Plans
    /\ part = IF ~DatasetOk THEN "failed"
              ELSE IF plan.warmup > 0 THEN "warmup" ELSE "benchmark"
    /\ stamps = <<>> /\ given = <<>> /\ got = <<>>

\* The loops of the three CreateWorkerSchedules are over.
Complete ==
    /\ stamps # <<>>
    /\ CASE Fixed -> Len(stamps) = Len(PartTimes)
         [] plan.kind = "custom" ->
                /\ Len(stamps) % Len(CalculateThreadIds) = 0
                /\ Len(stamps) % Len(plan.intervals) = 0
         [] OTHER ->
                /\ Last(stamps) >= plan.duration
                /\ Len(stamps) % Len(CalculateThreadIds) = 0

\* The intervals that may come next.
NextIntervals ==
    IF plan.kind = "poisson" THEN plan.draws
    ELSE {plan.intervals[(Len(stamps) % Len(plan.intervals)) + 1]}

\* One turn of those loops.
AddTimestamp ==
    /\ part # "failed" /\ given = <<>> /\ ~Complete
    /\ \/ /\ Fixed
          /\ stamps' = Append(stamps, PartTimes[Len(stamps) + 1])
       \/ /\ ~Fixed
          /\ \E d \in NextIntervals :
                stamps' = Append(stamps,
                            (IF stamps = <<>> THEN 0 ELSE Last(stamps)) + d)
    /\ UNCHANGED <<plan, part, given, got>>

\* The intervals of worker w: each timestamp goes to the thread whose turn
\* it is.
Dealt(w) ==
    LET upTo[j \in 0 .. Len(stamps)] ==
            IF j = 0 THEN <<>>
            ELSE IF ThreadIdOf(j) = w THEN Append(upTo[j - 1], stamps[j])
            ELSE upTo[j - 1]
    IN  upTo[Len(stamps)]

\* Mutant.
DurationOfLast == Last(Dealt(NumThreads - 1))

\* SetScheduleDurations: the latest last timestamp; of a worker without
\* timestamps back() is undefined.
SetScheduleDurations ==
    Max({Last(Dealt(w)) : w \in 0 .. NumThreads - 1})

GiveSchedulesToWorkers ==
    /\ given = <<>> /\ part # "failed" /\ Complete
    /\ given' = [w \in 0 .. NumThreads - 1 |->
                    [intervals |-> Dealt(w),
                     duration |-> SetScheduleDurations,
                     index |-> 0, rounds |-> 0]]
    /\ got' = [w \in 0 .. NumThreads - 1 |-> <<>>]
    /\ UNCHANGED <<plan, part, stamps>>

\* RateSchedule::Next, called by a worker before each of its requests.
NextTimestamp(w) ==
    LET s == given[w]
    IN  /\ Len(got[w]) < NumRequests(w)
        /\ got' = [got EXCEPT ![w] =
              Append(@, s.intervals[s.index + 1] + s.duration * s.rounds)]
        /\ given' = [given EXCEPT ![w] =
              IF s.index + 1 >= Len(s.intervals)
              THEN [s EXCEPT !.index = 0, !.rounds = @ + 1]
              ELSE [s EXCEPT !.index = @ + 1]]
        /\ UNCHANGED <<plan, part, stamps>>

AllSent == given # <<>> /\ \A w \in DOMAIN got : Len(got[w]) = NumRequests(w)

\* WaitForWarmupAndCleanup: workers and schedules are dropped, and made anew
\* for the benchmark.
EndWarmupPart ==
    /\ part = "warmup" /\ AllSent
    /\ part' = "benchmark" /\ stamps' = <<>> /\ given' = <<>> /\ got' = <<>>
    /\ UNCHANGED plan

SchedulesOver ==
    /\ part = "failed" \/ (part = "benchmark" /\ AllSent)
    /\ UNCHANGED scheduleVars

ScheduleNext ==
    \/ AddTimestamp \/ GiveSchedulesToWorkers
    \/ \E w \in DOMAIN given : NextTimestamp(w)
    \/ EndWarmupPart \/ SchedulesOver

ScheduleSpec == ScheduleInit /\ [][ScheduleNext]_scheduleVars

-----------------------------------------------------------------------------
(* Properties *)

\* The position, in the one endless schedule, of the k-th request of worker w.
Position(w, k) ==
    CHOOSE j \in 1 .. k * Len(CalculateThreadIds) :
        /\ ThreadIdOf(j) = w
        /\ Cardinality({i \in 1 .. j : ThreadIdOf(i) = w}) = k

\* When the j-th request of all is due: after j intervals of the file or of
\* the constant rate, over and over, or of what a Poisson schedule has drawn.
Due(j) ==
    IF plan.kind = "poisson"
    THEN stamps[((j - 1) % Len(stamps)) + 1]
             + Last(stamps) * ((j - 1) \div Len(stamps))
    ELSE LET sum[i \in 0 .. j] ==
                 IF i = 0 THEN 0
                 ELSE sum[i - 1]
                        + plan.intervals[((i - 1) % Len(plan.intervals)) + 1]
         IN  sum[j]

\* UpdateJsonData: the data of the k-th request of worker w.
Payload(w, k) ==
    (IF part = "warmup" THEN 0 ELSE plan.warmup) + w + (k - 1) * NumThreads

\* Together the workers follow the one schedule that was asked for, round
\* after round, though each only goes through its own part; with a fixed
\* schedule every request of the data is sent once, at its own time, the
\* warm-up's before the benchmark's.
OnSchedule ==
    /\ (given = <<>> /\ part # "failed" /\ Complete) =>
           \A w \in 0 .. NumThreads - 1 : Dealt(w) # <<>>
    /\ \A w \in DOMAIN got : \A k \in DOMAIN got[w] :
           got[w][k] = IF Fixed THEN plan.times[Payload(w, k) + 1]
                       ELSE Due(Position(w, k))
    /\ (Fixed /\ AllSent) =>
           {Payload(sent[1], sent[2]) : sent \in
                {x \in (DOMAIN got) \X (1 .. Len(PartTimes)) :
                    x[2] \in DOMAIN got[x[1]]}}
             = IF part = "warmup" THEN 0 .. plan.warmup - 1
               ELSE plan.warmup .. Len(plan.times) - 1
=============================================================================
