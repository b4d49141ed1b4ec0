----------------------------- MODULE MCProfiling -----------------------------
(***************************************************************************)
(* Settings of the profiler for TLC.  Each one turns on what its question  *)
(* needs, and the faults that may befall it.                               *)
(***************************************************************************)
EXTENDS Profiling, ServerStats

Plain == [mode |-> "LINEAR", start |-> 1, end |-> 1, step |-> 1,
          counted |-> FALSE, countWindows |-> FALSE, limit |-> NO_LIMIT,
          async |-> FALSE, metrics |-> FALSE, server |-> FALSE,
          mpi |-> FALSE, max_trials |-> 3, faults |-> {},
          records |-> 1, latencies |-> {1}]

FirstConfig == [Plain EXCEPT !.records = 2]

SearchConfigs == {
    FirstConfig,
    [Plain EXCEPT !.end = 2, !.limit = 11, !.max_trials = 4,
                  !.latencies = {10, 11, 12}, !.faults = {"interrupt"}],
    [Plain EXCEPT !.mode = "NONE", !.start = 0, !.end = 0, !.async = TRUE,
                  !.latencies = {1, 2}, !.faults = {"worker"}],
    [Plain EXCEPT !.mode = "BINARY", !.end = 5, !.limit = 2,
                  !.latencies = {1, 2}],
    [Plain EXCEPT !.counted = TRUE, !.countWindows = TRUE,
                  !.latencies = {1, 2}],
    [Plain EXCEPT !.countWindows = TRUE, !.faults = {"worker"}],
    [Plain EXCEPT !.server = TRUE, !.max_trials = 5, !.faults = {"stats"}],
    [Plain EXCEPT !.metrics = TRUE, !.end = 2, !.countWindows = TRUE,
                  !.faults = {"metrics", "worker"}],
    [Plain EXCEPT !.mpi = TRUE, !.max_trials = 4]}

\* Two levels, with the server's metrics.
MetricsConfigs == {
    [Plain EXCEPT !.metrics = TRUE, !.end = 2, !.countWindows = TRUE]}

\* --request-count.
CountedConfigs == {
    [Plain EXCEPT !.counted = TRUE, !.countWindows = TRUE]}

\* Metrics and server statistics, which may fail.
StatsConfigs == {
    [Plain EXCEPT !.metrics = TRUE, !.server = TRUE, !.countWindows = TRUE,
                  !.faults = {"stats"}]}
-----------------------------------------------------------------------------
Ensemble(top, composing, loaded) ==
    [top |-> top, composing |-> composing, loaded |-> loaded,
     cache |-> FALSE, bls |-> FALSE]

\* A model of two versions; the same with one asked for; an ensemble with an
\* ensemble in it, without and with a response cache; and a BLS model.
Single == Ensemble(<<"m", 0>>, <<>>, [m |-> {1, 2}])
Nested == Ensemble(<<"e", 0>>,
                   [e |-> {<<"f", 0>>}, f |-> {<<"b", 0>>}],
                   [e |-> {1}, f |-> {1}, b |-> {1}])
Bls == [Ensemble(<<"m", 1>>, [m |-> {<<"a", 0>>, <<"b", 2>>}],
                 [m |-> {1, 2}, a |-> {1}, b |-> {1, 2}]) EXCEPT !.bls = TRUE]

NoEnsemble == Ensemble(<<"none", 1>>, <<>>, [none |-> {1}])

MCEnsembles ==
    {NoEnsemble, Single, [Single EXCEPT !.top = <<"m", 1>>], Nested,
     [Nested EXCEPT !.cache = TRUE], Bls,
     [Nested EXCEPT !.loaded.f = {1, 2}, !.composing.e = {<<"f", 2>>}]}

ASSUME EnsemblesOK

\* A behaviour is one of the profiler, or one of its server statistics.
ModesInit == /\ Init /\ StatsInit
             /\ ensemble = NoEnsemble \/ cfg = FirstConfig

ModesNext == \/ ensemble = NoEnsemble /\ Next /\ UNCHANGED statsVars
             \/ ensemble # NoEnsemble /\ StatsNext /\ UNCHANGED vars

ModesSpec == ModesInit /\ [][ModesNext]_<<vars, statsVars>> /\ Fairness

\* What the report is made of fits the windows it is about: the threads and
\* ranks that take part (WindowsInStep) and the server's statistics
\* (ServerFiguresFaithful).
WindowsFaithful == WindowsInStep /\ ServerFiguresFaithful
=============================================================================
