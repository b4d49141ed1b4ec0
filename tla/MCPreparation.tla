--------------------------- MODULE MCPreparation ---------------------------
(***************************************************************************)
(* Values for Preparation: the command lines of MCSetup, the data sets of  *)
(* MCInputData, and schedules of every kind for one to three workers.      *)
(***************************************************************************)
EXTENDS Preparation, MCSetup

DataSets == INSTANCE MCInputData
MCJobs == DataSets!MCJobs

Plan(kind, max, sequences, intervals) ==
    [kind |-> kind, max_threads |-> max, sequences |-> sequences,
     intervals |-> intervals, draws |-> {1, 3}, times |-> <<>>,
     duration |-> IF kind = "poisson" THEN 4 ELSE 1, warmup |-> 0]

FixedPlan(max, times, warmup) ==
    [Plan("fixed", max, 0, <<>>) EXCEPT !.times = times,
                                            !.warmup = warmup]

SchedulePlans ==
    {Plan("constant", t, s, <<5>>) : t \in 1 .. 3, s \in {0, 1, 2, 3, 5}}
    \cup {[Plan("constant", 2, 0, <<5>>) EXCEPT !.warmup = 3]}
    \cup {Plan("custom", t, s, i) :
             t \in 1 .. 3, s \in {0, 3}, i \in {<<4>>, <<1, 7>>, <<0, 2, 5>>}}
    \cup {Plan("poisson", t, s, <<>>) : t \in 1 .. 2, s \in {0, 3}}
    \cup {FixedPlan(t, x, u) :
             t \in 1 .. 3, x \in {<<>>, <<3>>, <<0, 4, 4, 9, 11>>},
             u \in {0, 1, 2, 5}}
=============================================================================
