-------------------------------- MODULE Setup --------------------------------
(***************************************************************************)
(* The life of one invocation of perf_analyzer, from its command line to   *)
(* its exit status: CLParser::Parse, PerfAnalyzer's constructor            *)
(* (CreateAnalyzerObjects) and PerfAnalyzer::Run, main.cc around them, and *)
(* SIGINT at any moment once its handler is installed.                     *)
(*                                                                         *)
(* The command line is one of the argument vectors of CommandLines,        *)
(* followed by up to MaxExtra more options of ExtraOptions.  The server    *)
(* may refuse any call it is sent; the profiler's outcome is one of those  *)
(* its own modules show to be possible.                                    *)
(***************************************************************************)
EXTENDS CommandLine, Backends, ModelParser

CONSTANTS CommandLines, ExtraOptions, MaxExtra, LevelBound

\* The options that may be given, with the values their texts convert to.
Options == ExtraOptions
           \cup UNION {{c[i] : i \in DOMAIN c} : c \in CommandLines}

OptionsOK ==
    /\ \A c \in CommandLines : c \in Seq(Options)
    /\ \A o \in Options : o.parsed => Converted(o)
    /\ LevelBound \in Nat

VARIABLES pc,         \* the step of main that is next
          argv,       \* arguments not read yet
          extra,      \* options that may still follow
          params,     \* PerfAnalyzerParameters
          mpiRun,     \* MPIDriver::IsMPIRun()
          parser,     \* what ModelParser found out about it
          manager,    \* the load manager's parameters
          interrupts, \* SIGINTs received
          results,    \* perf_statuses_: "none", "some"
          delivered,  \* what was printed and written: an error, the
                      \* summary, the -f file ("csv"), the profile export
          exit        \* "none", or how the process ended

vars == <<pc, argv, extra, params, mpiRun, parser, manager, interrupts,
          results, delivered, exit>>

NoManager == [max_threads |-> 0, max_concurrency |-> 0, sequences |-> 0]

TypeOK ==
    /\ pc \in {"options", "verify", "backend", "parser", "checks", "manager",
               "init", "profile", "report", "export", "finalize", "exited"}
    /\ extra \in 0 .. MaxExtra
    /\ DOMAIN params = DOMAIN DefaultParams
    /\ mpiRun \in BOOLEAN
    /\ DOMAIN parser = DOMAIN ParserError
    /\ DOMAIN manager = DOMAIN NoManager
    /\ interrupts \in 0 .. 2
    /\ results \in {"none", "some"}
    /\ delivered \subseteq {"error", "summary", "csv", "export"}
    /\ exit \in {"none", "ok", "error", "terminate"}
    /\ pc = "exited" <=> exit # "none"

Init ==
    /\ pc = "options"
    /\ argv \in CommandLines
    /\ extra = MaxExtra
    /\ params = DefaultParams
    /\ mpiRun = FALSE
    /\ parser = ParserError
    /\ manager = NoManager
    /\ interrupts = 0
    /\ results = "none"
    /\ delivered = {}
    /\ exit = "none"

\* PerfAnalyzerException, caught by main, or FAIL_IF_ERR's exit: a code that
\* is not 0; any other exception terminates the process.
Exits(how) == pc' = "exited" /\ exit' = how

\* The option loop; params.stop says whether a handler gave up.
ReadOption ==
    /\ pc = "options"
    /\ \/ argv # <<>> /\ argv' = Tail(argv) /\ UNCHANGED extra
          /\ params' = ParseOption(params, Head(argv))
       \/ argv = <<>> /\ extra > 0 /\ extra' = extra - 1 /\ UNCHANGED argv
          /\ \E o \in ExtraOptions : params' = ParseOption(params, o)
    /\ \/ params'.stop = "" /\ UNCHANGED <<pc, exit>>
       \/ params'.stop = "version" /\ Exits("ok")
       \/ params'.stop = "usage" /\ Exits("error")
       \/ params'.stop = "terminate" /\ Exits("terminate")
    /\ UNCHANGED <<mpiRun, parser, manager, interrupts, results, delivered>>

\* The end of ParseCommandLine; MPIInit tells whether this is one rank of
\* several.
ReadAll ==
    /\ pc = "options"
    /\ argv = <<>>
    /\ extra' = 0
    /\ mpiRun' \in (IF params.enable_mpi THEN BOOLEAN ELSE {FALSE})
    /\ params' = FinishParsing(params)
    /\ IF params'.stop = "" THEN pc' = "verify" /\ UNCHANGED exit
                            ELSE Exits("terminate")
    /\ UNCHANGED <<argv, parser, manager, interrupts, results,
                   delivered>>

Verify ==
    /\ pc = "verify"
    /\ params' = VerifyOptions(params, mpiRun)
    /\ IF params'.stop = "" THEN pc' = "backend" /\ UNCHANGED exit
                            ELSE Exits("error")
    /\ UNCHANGED <<argv, extra, mpiRun, parser, manager, interrupts, results,
                   delivered>>

\* The constructor of PerfAnalyzer, step by step.
CreateBackend ==
    /\ pc = "backend"
    /\ \/ Creatable(params.kind, params.protocol) /\ pc' = "parser"
          /\ UNCHANGED exit
       \/ Exits("error")
    /\ UNCHANGED <<argv, extra, mpiRun, params, parser,
                   manager, interrupts, results, delivered>>

\* -m names one of the server's models; ModelMetadata and ModelConfig may
\* fail.
Parsed(p, name) ==
    CASE p.kind \in {"TRITON", "TRITON_C_API"} ->
            InitTriton(name, p.bls_composing_models, p.input_shape)
      [] p.kind = "TENSORFLOW_SERVING" ->
            InitTFServe(name, p.batch_size, p.input_shape)
      [] OTHER -> InitUndescribed(p.kind, p.batch_size)

InitParser ==
    /\ pc = "parser"
    /\ parser' \in {ParserError} \cup
                   {Parsed(params, name) : name \in DOMAIN Repository}
    /\ IF parser'.status = "ok" THEN pc' = "checks" /\ UNCHANGED exit
                                ELSE Exits("error")
    /\ UNCHANGED <<argv, extra, mpiRun, params, manager, interrupts, results,
                   delivered>>

\* The asynchronous API becomes the default of sequence models, and the only
\* one for streams.
ChooseApi(p) ==
    LET seq == IF IsSequenceModel(parser) /\ ~p.async
               THEN [p EXCEPT !.async = ~p.forced_sync] ELSE p
    IN  IF seq.streaming /\ seq.kind # "DYNAMIC_GRPC"
        THEN [seq EXCEPT !.async = TRUE] ELSE seq

ModelAccepts(p) ==
    /\ ~(parser.max_batch_size = 0 /\ p.batch_size > 1)
    /\ ~(IsSequenceModel(parser) /\ p.batch_size > 1)
    /\ ~(p.streaming /\ p.kind # "DYNAMIC_GRPC" /\ p.forced_sync)
    /\ parser.decoupled => ChooseApi(p).async /\ p.streaming

CheckModel ==
    /\ pc = "checks"
    /\ params' = IF ModelAccepts(params) THEN ChooseApi(params) ELSE params
    /\ IF ModelAccepts(params) THEN pc' = "manager" /\ UNCHANGED exit
                               ELSE Exits("error")
    /\ UNCHANGED <<argv, extra, mpiRun, parser, manager, interrupts, results,
                   delivered>>

\* max_concurrency, computed before the end of the range is settled.
MaxConcurrency(p) == Larger(p.concurrency_range.start, p.concurrency_range.end)

\* Mutant: the threads of the command line are kept.
SettleConcurrencyEndOnly(p) ==
    IF p.mode = "Concurrency" /\ ~p.async /\ p.concurrency_range.end = NO_LIMIT
    THEN [p EXCEPT !.concurrency_range.end = p.max_threads] ELSE p

\* A synchronous thread has one request at a time: as many threads as levels.
SettleConcurrency(p) ==
    IF p.mode # "Concurrency" \/ p.async THEN p
    ELSE IF p.concurrency_range.end = NO_LIMIT
         THEN [p EXCEPT !.concurrency_range.end = p.max_threads]
         ELSE [p EXCEPT !.max_threads = MaxConcurrency(p)]

\* The checks of CreateAnalyzerObjects before it creates the manager.
ManagerAccepts(p) ==
    /\ ~(/\ p.mode = "Concurrency" /\ IsSequenceModel(parser) /\ p.async
         /\ p.concurrency_range.end = NO_LIMIT)
    /\ p.mode = "Concurrency" /\ p.sequence_id_range # 0
          => p.sequence_id_range >= MaxConcurrency(p)
    /\ (/\ p.mode \in {"RequestRate", "FixedSchedule", "CustomIntervals"}
        /\ p.sequence_id_range # 0)
          => p.sequence_id_range >= p.num_of_sequences

CreateManager ==
    /\ pc = "manager"
    /\ IF ManagerAccepts(params)
       THEN /\ params' = SettleConcurrency(params)
            /\ manager' = [max_threads |-> params'.max_threads,
                           max_concurrency |-> MaxConcurrency(params),
                           sequences |-> 0]
            /\ pc' = "init"
            /\ UNCHANGED exit
       ELSE Exits("error") /\ UNCHANGED <<params, manager>>
    /\ UNCHANGED <<argv, extra, mpiRun, parser,
                   interrupts, results, delivered>>

\* InitManager: the data is read or generated, the regions and the inputs
\* are created, and a sequence model gets its sequence statuses.
CanInit(p) ==
    /\ p.user_data = <<>> => ~Dynamic(parser.shape)
    /\ RegionCalls(p.kind, p.shared_memory) \subseteq Overridden(p.kind)
    /\ parser.outputs => HasRequestedOutput(p.kind)

Sequences(p) ==
    CASE ~IsSequenceModel(parser) -> 0
      [] IsSequenceModel(parser)
         /\ p.mode \in {"Concurrency", "PeriodicConcurrency"} ->
            manager.max_concurrency
      [] OTHER -> p.num_of_sequences

InitManager ==
    /\ pc = "init"
    /\ \/ /\ CanInit(params)
          /\ manager' = [manager EXCEPT !.sequences = Sequences(params)]
          /\ pc' = "profile"
          /\ UNCHANGED exit
       \/ Exits("error") /\ UNCHANGED manager
    /\ UNCHANGED <<argv, extra, mpiRun, params, parser, interrupts, results,
                   delivered>>

\* What the profiler's calls need of the backend while it measures.
LoadCalls(p) ==
    {InferenceCall(p.async, p.streaming)} \cup ContextCalls(p.streaming)
    \cup {"ClientInferStat"}
    \cup (IF p.collect_metrics THEN {"Metrics"} ELSE {})

\* Mutant: the error is printed and forgotten.
FatalNever(err) == FALSE

\* An error of the profiler is fatal unless SIGINT explains it.
Fatal(err) == err /\ interrupts = 0

\* A search that may succeed without a level to report: its first level is
\* over the latency limit, or it has one level that no stability is asked of.
MayFindNone(p) == p.latency_threshold # NO_LIMIT \/ p.search_mode = "NONE"

\* perf_statuses_ after a profiler that ended with err or without.
Outcomes(p, err) ==
    IF p.mode \in {"PeriodicConcurrency", "SessionConcurrency"} THEN {"none"}
    ELSE IF err \/ MayFindNone(p) THEN {"none", "some"} ELSE {"some"}

\* PerfAnalyzer::Profile: a load whose calls the backend refuses ends in an
\* error; every error is printed.
Profile ==
    /\ pc = "profile"
    /\ \E err \in BOOLEAN :
          /\ LoadCalls(params) \subseteq Overridden(params.kind) \/ err
          /\ results' \in Outcomes(params, err)
          /\ delivered' = delivered \cup IF err THEN {"error"} ELSE {}
          /\ IF Fatal(err) THEN Exits("error")
                           ELSE pc' = "report" /\ UNCHANGED exit
    /\ UNCHANGED <<argv, extra, mpiRun, params, parser, manager, interrupts>>

\* The summary is printed.  Nobody looks whether the -f file could be opened.
WriteReport ==
    /\ pc = "report"
    /\ IF results = "some" /\ params.mode # "PeriodicConcurrency"
       THEN \E csv \in SUBSET {"csv"} :
               delivered' = delivered \cup {"summary"} \cup csv
       ELSE UNCHANGED delivered
    /\ pc' = "export"
    /\ UNCHANGED <<argv, extra, mpiRun, params, parser,
                   manager, interrupts, results, exit>>

\* The exporter throws when it cannot open its file.
GenerateProfileExport ==
    /\ pc = "export"
    /\ \/ /\ delivered' = IF params.profile_export
                          THEN delivered \cup {"export"} ELSE delivered
          /\ pc' = "finalize"
          /\ UNCHANGED exit
       \/ params.profile_export /\ Exits("error") /\ UNCHANGED delivered
    /\ UNCHANGED <<argv, extra, mpiRun, params, parser,
                   manager, interrupts, results>>

Finalize ==
    /\ pc = "finalize"
    /\ Exits("ok")
    /\ UNCHANGED <<argv, extra, mpiRun, params, parser,
                   manager, interrupts, results, delivered>>

\* Mutant: every signal only sets early_exit.
SignalHandlerIgnores == UNCHANGED <<pc, exit>>

\* The first signal sets early_exit, the second one ends the process.
SignalHandler ==
    IF interrupts = 0 THEN UNCHANGED <<pc, exit>> ELSE Exits("ok")

\* SIGINT, whose handler the constructor installs.
Interrupt ==
    /\ pc \in {"backend", "parser", "checks", "manager", "init", "profile",
               "report", "export", "finalize"}
    /\ interrupts' = interrupts + 1
    /\ SignalHandler
    /\ UNCHANGED <<argv, extra, mpiRun, params, parser,
                   manager, results, delivered>>

Exited == pc = "exited" /\ UNCHANGED vars

Next == \/ ReadOption \/ ReadAll \/ Verify
        \/ CreateBackend \/ InitParser \/ CheckModel \/ CreateManager
        \/ InitManager \/ Profile \/ WriteReport \/ GenerateProfileExport
        \/ Finalize \/ Interrupt \/ Exited

Spec == Init /\ [][Next]_vars
-----------------------------------------------------------------------------
\* From the moment the load may start.
Running == pc \in {"profile", "report", "export", "finalize"}

\* The concurrency levels Profile<size_t> may ask the manager for: the first
\* one always, then up to the end of the range, or without end; the model
\* looks at the levels up to LevelBound.
SearchLevels(p) ==
    LET r == p.concurrency_range
    IN  {r.start} \cup
        {l \in r.start .. LevelBound :
            /\ l =< r.end \/ r.end = NO_LIMIT
            /\ \/ p.search_mode = "BINARY"
               \/ r.step > 0 /\ (l - r.start) % r.step = 0}

\* The range the manager was created for is the range that is searched.
ClosedRange ==
    params.concurrency_range.end \in 1 .. manager.max_concurrency

(* Whatever options were combined, in whatever order: a synchronous search *)
(* never asks for more threads than the manager holds data for, but for    *)
(* the first level of an open one, which is not compared with max_threads; *)
(* the threads of a periodic range suffice for it; and every level of a    *)
(* closed search on a sequence model has its sequence and an id of its own *)
(* (perf_analyzer.cc:183, command_line_parser.cc:2042).                    *)
LevelsFit ==
    Running =>
        /\ params.mode = "Concurrency" /\ ~params.async =>
              \A l \in SearchLevels(params) :
                 \/ l =< manager.max_threads
                 \/ /\ l = params.concurrency_range.start
                    /\ params.concurrency_range.end = manager.max_threads
        /\ params.mode = "PeriodicConcurrency" =>
              LET r == params.periodic_concurrency_range
              IN  r.start =< r.end /\ r.end =< manager.max_threads
        /\ (params.mode = "Concurrency" /\ IsSequenceModel(parser)
               /\ ClosedRange) =>
              \A l \in SearchLevels(params) :
                 /\ l =< manager.sequences
                 /\ \/ params.sequence_id_range = 0
                    \/ params.sequence_id_range >= l

(* A run with a request count measures one level of a closed range, with   *)
(* one request per worker at least, in one window that waits for exactly   *)
(* that count: ProfileHelper's single window relies on all of it.          *)
CountedRunIsOneWindow ==
    Running /\ params.request_count # 0 =>
        /\ params.measurement_mode = "COUNT_WINDOWS"
        /\ params.measurement_request_count = params.request_count
        /\ params.mode = "Concurrency" /\ ClosedRange =>
              /\ SearchLevels(params) = {params.concurrency_range.start}
              /\ params.request_count >= params.concurrency_range.start

\* A range that was given belongs to the mode.
ModeAsked(p) ==
    LET unit == [start |-> 1, end |-> 1, step |-> 1]
    IN  /\ p.concurrency_range # unit => p.mode = "Concurrency"
        /\ p.request_rate_range # unit => p.mode = "RequestRate"
        /\ p.periodic_concurrency_range # unit =>
              p.mode = "PeriodicConcurrency"
        /\ p.session_concurrency # 0 => p.mode = "SessionConcurrency"

(* Two load modes on one command line are refused, so a range that was     *)
(* given is the one that is run, whatever the order of the options; the    *)
(* deprecated -d, -t and -c are the exception (command_line_parser.cc:1895 *)
(* overwrites the mode).                                                   *)
ModeIsTheOneAsked == Running => params.deprecated \/ ModeAsked(params)

(* What the parser, VerifyOptions and CreateAnalyzerObjects each settle in *)
(* part fits together when the manager starts: the levels (LevelsFit), the *)
(* counted window (CountedRunIsOneWindow) and the load mode                *)
(* (ModeIsTheOneAsked).                                                    *)
ParametersConsistent ==
    LevelsFit /\ CountedRunIsOneWindow /\ ModeIsTheOneAsked

(* What a backend cannot do is refused before the load starts: no context  *)
(* opens a stream, sends a request or asks for metrics in a way its kind   *)
(* answers with "does not support".  TorchServe with --async and dynamic   *)
(* gRPC with --streaming pass all checks and fail at the first request.    *)
RefusedBeforeLoad ==
    Running =>
        \/ LoadCalls(params) \subseteq Overridden(params.kind)
        \/ params.kind = "TORCHSERVE" /\ params.async
        \/ params.kind = "DYNAMIC_GRPC" /\ params.streaming

(* Exit status 0 hides no failure: the profile export that was asked for   *)
(* was written, the levels that were measured were printed, an error was   *)
(* forgotten only for a first SIGINT, and a search with a load of its own  *)
(* found nothing only if a latency limit, or custom intervals, allow that  *)
(* (see SomethingReported); a second SIGINT stops everything.  Of the -f   *)
(* file nothing can be said: report_writer.cc:73 does not check it.        *)
ExitStatusTruthful ==
    exit = "ok" /\ params.stop # "version" /\ interrupts < 2 =>
        /\ params.profile_export => "export" \in delivered
        /\ results = "some" => "summary" \in delivered
        /\ "error" \in delivered => interrupts = 1
        /\ \/ results = "some" \/ interrupts = 1
           \/ params.mode \in {"PeriodicConcurrency", "SessionConcurrency"}
           \/ MayFindNone(params)

(* Without SIGINT, a search that ends with exit status 0 has reported at   *)
(* least one level: the single level of a search that never became stable  *)
(* is an error (inference_profiler.h:313), whatever the search mode.       *)
SomethingReported ==
    /\ exit = "ok" /\ params.stop # "version" /\ interrupts = 0
    /\ params.mode \notin {"PeriodicConcurrency", "SessionConcurrency"}
        => "summary" \in delivered

(* The refusals of several levels with --request-count, and of more levels *)
(* than there are sequences, hold for a search without end too, and a      *)
(* synchronous level has its threads (perf_analyzer.cc:205).               *)
OpenSearchChecked ==
    Running /\ params.mode = "Concurrency" =>
        /\ params.request_count # 0 =>
              SearchLevels(params) = {params.concurrency_range.start}
        /\ IsSequenceModel(parser) =>
              \A l \in SearchLevels(params) : l =< manager.sequences
        /\ ~params.async =>
              \A l \in SearchLevels(params) : l =< manager.max_threads
=============================================================================
