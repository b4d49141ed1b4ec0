---------------------------- MODULE ServerStats ----------------------------
(***************************************************************************)
(* The server's statistics in the profiler's report: which version of a    *)
(* model they are taken from (DetermineStatsModelVersion), what they are   *)
(* for one window (SummarizeServerStats) and for the stable windows        *)
(* together (MergeServerSideStats), for a model, its composing models and  *)
(* theirs.  The sixteen counters of ModelStatistics are treated alike and  *)
(* only grow: the queue count stands for all.                              *)
(*                                                                         *)
(* A model identifier is <<name, version>>; version 0 stands for the empty *)
(* string, unspecified.                                                    *)
(***************************************************************************)
EXTENDS Integers, Sequences, FiniteSetsExt, Functions

CONSTANTS
    Ensembles,     \* what is measured: see EnsemblesOK
    MaxWindows,    \* bound: windows that are measured and merged
    MaxExecutions  \* bound: executions of one version in one window

\* top: the identifier asked for; composing: GetComposingModelMap; loaded: the
\* versions the server has; cache: top level response caching; bls: a request
\* need not reach every composing model.
EnsemblesOK ==
    \A e \in Ensembles :
        /\ e.top[1] \in DOMAIN e.loaded
        /\ \A n \in DOMAIN e.composing : \A c \in e.composing[n] :
              c[1] \in DOMAIN e.loaded

VARIABLES
    ensemble,
    server,    \* identifier -> counter, of the versions that are loaded
    previous,  \* prev_server_side_stats_
    windows,   \* the windows' ServerSideStats, or FailedSummary
    merged,    \* what MergeServerSideStats made of them
    did        \* history: the executions in each window, the open one last

statsVars == <<ensemble, server, previous, windows, merged, did>>

Identifiers(e) == UNION {{n} \X e.loaded[n] : n \in DOMAIN e.loaded}

FailedSummary == [ok |-> FALSE, count |-> 0, models |-> <<>>]
NoSummary == [ok |-> TRUE, count |-> 0, models |-> <<>>]

\* (*GetComposingModelMap())[name]
Composing(name) ==
    IF name \in DOMAIN ensemble.composing THEN ensemble.composing[name]
    ELSE {}

Counter(stats, id) == IF id \in DOMAIN stats THEN stats[id] ELSE 0

StatsInit ==
    /\ ensemble \in Ensembles
    /\ server = [id \in Identifiers(ensemble) |-> 0]
    /\ previous = server /\ windows = <<>> /\ merged = NoSummary
    /\ did = << [id \in Identifiers(ensemble) |-> 0] >>

-----------------------------------------------------------------------------
\* The identifiers a request may be executed with: of each model it reaches,
\* one loaded version, the one asked for if there is one.
Versions(id) == IF id[2] # 0 THEN {id} ELSE {id[1]} \X ensemble.loaded[id[1]]

\* All composing models, on all levels.
AllComposing == UNION {Composing(n) : n \in DOMAIN ensemble.loaded}

\* External: the server executes a request, of ours or of another client.  A
\* hit of the top level response cache reaches no composing model.
Execute ==
    /\ Len(windows) < MaxWindows
    /\ \E top \in Versions(ensemble.top) :
       \E below \in SUBSET UNION {Versions(c) : c \in AllComposing} :
          /\ \/ \A c \in AllComposing : \E id \in below : id \in Versions(c)
             \/ ensemble.cache /\ below = {}
             \/ ensemble.bls
          /\ \A x, y \in below : x[1] = y[1] => x = y
          /\ LET ran == {top} \cup below
                 grown(f) == [id \in DOMAIN f |->
                                 IF id \in ran THEN f[id] + 1 ELSE f[id]]
             IN  /\ \A id \in ran :
                       did[Len(did)][id] < MaxExecutions
                 /\ server' = grown(server)
                 /\ did' = [did EXCEPT ![Len(did)] = grown(@)]
    /\ UNCHANGED <<ensemble, previous, windows, merged>>

-----------------------------------------------------------------------------
\* DetermineStatsModelVersion: of an unspecified version, the highest one that
\* was executed in the window; -1 if there is none.
DetermineStatsModelVersion(id, start, end) ==
    IF id[2] = 0
    THEN Max({-1} \cup {v \in ensemble.loaded[id[1]] :
                 Counter(end, <<id[1], v>>) > Counter(start, <<id[1], v>>)})
    ELSE IF id \in DOMAIN end THEN id[2] ELSE -1

Resolved(id, start, end) ==
    <<id[1], DetermineStatsModelVersion(id, start, end)>>

\* A missing version is an error unless the top level responses are cached.
VersionOk(id, start, end) ==
    DetermineStatsModelVersion(id, start, end) # -1 \/ ensemble.cache

\* Mutant: the counters since the server was started.
SummarizeWhole(id, start, end) ==
    Counter(end, Resolved(id, start, end))

\* SummarizeServerStatsHelper: what the window added; 0 without a version.
SummarizeServerStatsHelper(id, start, end) ==
    LET this_id == Resolved(id, start, end)
    IN  IF this_id \in DOMAIN end
        THEN end[this_id] - Counter(start, this_id) ELSE 0

\* SummarizeServerStats: the model, and below it its composing models by
\* their versions in this window.
RECURSIVE SummarizeServerStats(_, _, _)
SummarizeServerStats(id, start, end) ==
    LET models == {Resolved(c, start, end) : c \in Composing(id[1])}
        below == [m \in models |-> SummarizeServerStats(m, start, end)]
    IN  [ok |-> /\ VersionOk(id, start, end)
                /\ \A c \in Composing(id[1]) : VersionOk(c, start, end)
                /\ \A m \in models : below[m].ok,
         count |-> SummarizeServerStatsHelper(id, start, end),
         models |-> below]

\* The end of a window: its statistics are the next one's start even when
\* they cannot be summarized.
MeasureStats ==
    /\ Len(windows) < MaxWindows
    /\ LET sum == SummarizeServerStats(ensemble.top, previous, server)
       IN  windows' = Append(windows, IF sum.ok THEN sum ELSE FailedSummary)
    /\ previous' = server
    /\ did' = Append(did, [id \in Identifiers(ensemble) |-> 0])
    /\ UNCHANGED <<ensemble, server, merged>>

-----------------------------------------------------------------------------
\* composing_models_stat[m], which inserts an empty entry where there is none.
StatOf(sum, m) == IF m \in DOMAIN sum.models THEN sum.models[m] ELSE NoSummary

RECURSIVE MergeServerSideStats(_)
MergeServerSideStats(sums) ==
    LET first == sums[1].models
        below == [m \in DOMAIN first |->
            MergeServerSideStats([i \in DOMAIN sums |-> StatOf(sums[i], m)])]
    IN  [ok |-> /\ \A i \in DOMAIN sums : Cardinality(DOMAIN sums[i].models)
                                            = Cardinality(DOMAIN first)
                /\ \A m \in DOMAIN first : below[m].ok,
         count |-> MapThenSumSet(LAMBDA i : sums[i].count, DOMAIN sums),
         models |-> below]

\* MergePerfStatusReports: only of windows that succeeded.
MergeReports ==
    /\ Len(windows) = MaxWindows /\ merged = NoSummary
    /\ \A i \in DOMAIN windows : windows[i].ok
    /\ merged' = MergeServerSideStats(windows)
    /\ UNCHANGED <<ensemble, server, previous, windows, did>>

StatsOver ==
    /\ Len(windows) = MaxWindows
    /\ merged # NoSummary \/ \E i \in DOMAIN windows : ~windows[i].ok
    /\ UNCHANGED statsVars

StatsNext == Execute \/ MeasureStats \/ MergeReports \/ StatsOver

-----------------------------------------------------------------------------
(* Properties *)

\* The versions of a model that were executed in window i.
Ran(i, name) == {v \in ensemble.loaded[name] : did[i][<<name, v>>] > 0}

\* The version whose executions in window i are a model's statistics.
Wanted(i, id) ==
    IF id[2] # 0 THEN id[2]
    ELSE IF Ran(i, id[1]) = {} THEN -1 ELSE Max(Ran(i, id[1]))

Done(i, id) == IF id \in DOMAIN did[i] THEN did[i][id] ELSE 0

\* What the report says of a model, over some windows, is what was executed
\* in them, and so for every model below it.
RECURSIVE Faithful(_, _, _)
Faithful(sum, id, W) ==
    /\ sum.count = MapThenSumSet(
                       LAMBDA i : Done(i, <<id[1], Wanted(i, id)>>), W)
    /\ \A c \in Composing(id[1]) : \A i \in W :
          <<c[1], Wanted(i, c)>> \in DOMAIN sum.models
             /\ Faithful(sum.models[<<c[1], Wanted(i, c)>>], c, W)

\* In every window the same version of each unspecified model was executed.
SameVersions ==
    \A c \in AllComposing \cup {ensemble.top} :
    \A i, j \in DOMAIN windows : Wanted(i, c) = Wanted(j, c)

\* The statistics of a window are those of the executions in it and in no
\* other, on all levels of an ensemble; a window is given up only for a
\* model that was not executed in it; and the merged report is the sum of the
\* windows as long as they use the same versions.
ServerFiguresFaithful ==
    /\ \A i \in DOMAIN windows :
          \/ windows[i].ok /\ Faithful(windows[i], ensemble.top, {i})
          \/ /\ ~windows[i].ok /\ ~ensemble.cache
             /\ \E c \in AllComposing \cup {ensemble.top} : Wanted(i, c) = -1
    /\ (merged # NoSummary /\ SameVersions) =>
          merged.ok /\ Faithful(merged, ensemble.top, DOMAIN windows)

\* Composing models that were not executed because of a cache hit: "It's a
\* valid scenario and shouldn't throw error." (inference_profiler.cc:1608)
CacheHitsMerge == ensemble.cache => merged.ok

\* --bls-composing-models are models "that may be called by the input BLS
\* model" (docs/cli.md): a window in which one was not called is none the less
\* a measurement.
UncalledTolerated ==
    \A i \in DOMAIN windows :
        Ran(i, ensemble.top[1]) # {} => windows[i].ok
=============================================================================
