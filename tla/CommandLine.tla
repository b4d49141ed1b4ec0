---------------------------- MODULE CommandLine ----------------------------
(***************************************************************************)
(* CLParser (command_line_parser.cc): what each option does to the         *)
(* parameters, what is derived once all options are read, and which        *)
(* combinations VerifyOptions refuses.                                     *)
(*                                                                         *)
(* An option is a record: its name, whether its text could be converted    *)
(* to the type the handler wants (parsed), and the converted value.  A     *)
(* ranges' value is the sequence of the numbers between its colons; a path *)
(* is one of "file" (two payloads), "emptyfile", "dir", "missing"; an      *)
(* option whose value is only stored or forwarded has the value "ok" or    *)
(* "bad", what its handler's check says of it.                             *)
(*                                                                         *)
(* params.stop is how the parser ended the program: "" while it has not,   *)
(* "usage" (Usage throws, exit code GENERIC_ERROR), "terminate" (an        *)
(* exception main does not catch), "version" (--version exits with 0).     *)
(***************************************************************************)
EXTENDS Integers, Sequences

CONSTANT DatasetSize  \* payloads in a regular, non-empty input file

NO_LIMIT == 0
DEFAULT_MAX_THREADS == 16
UINT32_MAX == 1000    \* "more ids than any run uses"

Larger(a, b) == IF a > b THEN a ELSE b

DefaultParams ==
    [mode |-> "None", deprecated |-> FALSE, streaming |-> FALSE,
     max_threads |-> 4, max_threads_specified |-> FALSE,
     sequence_length |-> 20, sequence_length_variation |-> 20,
     percentile |-> -1, user_data |-> <<>>, zero_input |-> FALSE,
     concurrency_range |-> [start |-> 1, end |-> 1, step |-> 1],
     request_rate_range |-> [start |-> 1, end |-> 1, step |-> 1],
     periodic_concurrency_range |-> [start |-> 1, end |-> 1, step |-> 1],
     request_parameters |-> FALSE, latency_threshold |-> NO_LIMIT,
     request_count |-> 0, warmup_request_count |-> 0, async |-> FALSE,
     forced_sync |-> FALSE, num_of_sequences |-> 4, serial |-> FALSE,
     search_mode |-> "LINEAR", shared_memory |-> "none", kind |-> "TRITON",
     compression |-> FALSE, measurement_mode |-> "TIME_WINDOWS",
     measurement_request_count |-> 50, triton_server_path |-> TRUE,
     model_repository |-> FALSE, start_sequence_id |-> 1,
     sequence_id_range |-> UINT32_MAX, verbose_csv |-> FALSE,
     enable_mpi |-> FALSE, url |-> "localhost:8000", url_specified |-> FALSE,
     endpoint |-> FALSE, model_name |-> FALSE, batch_size |-> 1,
     using_batch_size |-> FALSE, protocol |-> "HTTP",
     collect_metrics |-> FALSE, metrics_url_specified |-> FALSE,
     metrics_interval_specified |-> FALSE, input_shape |-> <<>>,
     bls_composing_models |-> {},
     profile_export |-> FALSE, session_concurrency |-> 0, stop |-> ""]

Usage(p) == [p EXCEPT !.stop = "usage"]

\* The parameters q if the handler's check passes, the usage message if not.
Checked(ok, p, q) == IF ok THEN q ELSE Usage(p)

\* SplitString on ':' and the assignments start, end, step by position.
SplitRange(r, vals) ==
    [start |-> vals[1],
     end |-> IF Len(vals) > 1 THEN vals[2] ELSE r.end,
     step |-> IF Len(vals) > 2 THEN vals[3] ELSE r.step]

\* Mutant: the options that select a load mode do not look at each other.
ModeFreeAlways(p) == TRUE

\* The test every option that selects a load mode begins with.
ModeFree(p) == p.mode = "None"

SizingNames == {"streaming", "max-threads", "sequence-length", "percentile",
                "data-directory", "shape", "measurement-interval"}
SizingOption(p, o) ==
    CASE o.name = "streaming" -> [p EXCEPT !.streaming = TRUE]
      [] o.name = "max-threads" ->
            Checked(o.val > 0, p, [p EXCEPT !.max_threads = o.val,
                                            !.max_threads_specified = TRUE])
      [] o.name = "sequence-length" ->   \* a bad length only warns
            IF o.val > 0 THEN [p EXCEPT !.sequence_length = o.val] ELSE p
      [] o.name = "percentile" -> [p EXCEPT !.percentile = o.val]
      [] o.name = "data-directory" ->
            [p EXCEPT !.user_data = Append(@, o.val)]
      [] o.name = "shape" ->
            Checked(\A i \in DOMAIN o.val : o.val[i] > 0, p,
                    [p EXCEPT !.input_shape = o.val])
      [] o.name = "measurement-interval" -> Checked(o.val = "ok", p, p)

ConcurrencyRange(p, o) ==
    Checked(ModeFree(p) /\ Len(o.val) =< 3, p,
            [p EXCEPT !.mode = "Concurrency",
                      !.concurrency_range = SplitRange(@, o.val)])

StabilityNames == {"latency-threshold", "stability-percentage", "max-trials",
                   "input-data", "string-length", "string-data", "async",
                   "sync"}
StabilityOption(p, o) ==
    CASE o.name = "latency-threshold" ->    \* 0 is NO_LIMIT
            Checked(o.val >= 0, p, [p EXCEPT !.latency_threshold = o.val])
      [] o.name = "input-data" /\ o.val \in {"file", "emptyfile", "dir"} ->
            [p EXCEPT !.user_data = Append(@, o.val)]
      [] o.name = "input-data" /\ o.val = "zero" ->
            [p EXCEPT !.zero_input = TRUE]
      [] o.name = "input-data"
         /\ o.val \notin {"file", "emptyfile", "dir", "zero"} ->
            Checked(o.val = "random", p, p)
      [] o.name = "async" -> [p EXCEPT !.async = TRUE]
      [] o.name = "sync" -> [p EXCEPT !.forced_sync = TRUE]
      [] o.name = "string-data" -> p
      [] o.name \in {"stability-percentage", "max-trials", "string-length"} ->
            Checked(o.val = "ok", p, p)

RequestRateRange(p, o) ==
    Checked(ModeFree(p) /\ Len(o.val) =< 3, p,
            [p EXCEPT !.mode = "RequestRate",
                      !.request_rate_range = SplitRange(@, o.val)])

ScheduleNames == {"num-of-sequences", "binary-search", "request-distribution",
                  "request-intervals"}
ScheduleOption(p, o) ==
    CASE o.name = "num-of-sequences" ->
            Checked(o.val > 0, p, [p EXCEPT !.num_of_sequences = o.val])
      [] o.name = "binary-search" -> [p EXCEPT !.search_mode = "BINARY"]
      [] o.name = "request-distribution" -> Checked(o.val = "ok", p, p)
      [] o.name = "request-intervals" ->
            Checked(ModeFree(p) /\ o.val = "file", p,
                    [p EXCEPT !.mode = "CustomIntervals"])

Kinds == {"TRITON", "TENSORFLOW_SERVING", "TORCHSERVE", "TRITON_C_API",
          "OPENAI", "DYNAMIC_GRPC"}
ServiceNames == {"shared-memory", "output-shared-memory-size", "service-kind",
                 "model-signature-name", "grpc-compression-algorithm",
                 "measurement-mode", "measurement-request-count",
                 "triton-server-directory", "model-repository"}
ServiceOption(p, o) ==
    CASE o.name = "shared-memory" ->
            Checked(o.val \in {"system", "cuda", "none"}, p,
                    [p EXCEPT !.shared_memory = o.val])
      [] o.name = "service-kind" ->
            Checked(o.val \in Kinds, p, [p EXCEPT !.kind = o.val])
      [] o.name = "grpc-compression-algorithm" ->
            Checked(o.val = "ok", p, [p EXCEPT !.compression = TRUE])
      [] o.name = "measurement-mode" ->
            Checked(o.val \in {"TIME_WINDOWS", "COUNT_WINDOWS"}, p,
                    [p EXCEPT !.measurement_mode = o.val])
      [] o.name = "measurement-request-count" ->
            Checked(o.val > 0, p,
                    [p EXCEPT !.measurement_request_count = o.val])
      [] o.name = "triton-server-directory" ->
            [p EXCEPT !.triton_server_path = o.val # ""]
      [] o.name = "model-repository" ->
            [p EXCEPT !.model_repository = o.val # ""]
      [] o.name = "model-signature-name" -> p
      [] o.name = "output-shared-memory-size" -> Checked(o.val = "ok", p, p)

\* <start> or <start>:<end>; the range is end - start, which may be 0.
SequenceIdRange(p, o) ==
    LET endId == IF Len(o.val) > 1 THEN o.val[2] ELSE o.val[1]
    IN  Checked(/\ Len(o.val) =< 2
                /\ o.val[1] >= 0 /\ endId >= 0
                /\ o.val[1] =< endId, p,
                [p EXCEPT !.start_sequence_id = o.val[1],
                          !.sequence_id_range =
                              IF Len(o.val) > 1 THEN endId - o.val[1] ELSE @])

SslNames == {"ssl-grpc-use-ssl", "ssl-grpc-file", "ssl-https-verify",
             "ssl-https-file", "ssl-https-type"}
SslOption(p, o) == Checked(o.name = "ssl-grpc-use-ssl" \/ o.val = "ok", p, p)

ReportingNames == {"verbose-csv", "enable-mpi", "trace-level", "trace-rate",
                   "trace-count", "log-frequency", "collect-metrics",
                   "metrics-url", "metrics-interval",
                   "sequence-length-variation", "bls-composing-models",
                   "serial-sequences", "tensor-format", "version",
                   "profile-export-file"}
ReportingOption(p, o) ==
    CASE o.name = "verbose-csv" -> [p EXCEPT !.verbose_csv = TRUE]
      [] o.name = "enable-mpi" -> [p EXCEPT !.enable_mpi = TRUE]
      [] o.name = "collect-metrics" -> [p EXCEPT !.collect_metrics = TRUE]
      [] o.name = "metrics-url" ->
            [p EXCEPT !.metrics_url_specified = TRUE]
      [] o.name = "metrics-interval" ->
            Checked(o.val = "ok", p,
                    [p EXCEPT !.metrics_interval_specified = TRUE])
      [] o.name = "sequence-length-variation" ->
            [p EXCEPT !.sequence_length_variation = o.val]
      [] o.name = "serial-sequences" -> [p EXCEPT !.serial = TRUE]
      [] o.name = "version" -> [p EXCEPT !.stop = "version"]
      [] o.name = "profile-export-file" ->    \* must not exist yet
            Checked(o.val = "missing", p, [p EXCEPT !.profile_export = TRUE])
      [] o.name = "bls-composing-models" ->
            [p EXCEPT !.bls_composing_models = @ \cup o.val]
      [] o.name = "trace-rate" -> p
      [] o.name \in {"trace-level", "trace-count", "log-frequency",
                     "tensor-format"} -> Checked(o.val = "ok", p, p)

PeriodicConcurrencyRange(p, o) ==
    LET r == SplitRange(p.periodic_concurrency_range, o.val)
    IN  Checked(/\ ModeFree(p)
                /\ Len(o.val) \in 2 .. 3
                /\ r.step > 0
                /\ r.start =< r.end
                /\ (r.end - r.start) % r.step = 0, p,
                [p EXCEPT !.mode = "PeriodicConcurrency",
                          !.periodic_concurrency_range = r])

CountNames == {"request-period", "request-parameter", "endpoint",
               "request-count", "warmup-request-count", "fixed-schedule",
               "session-concurrency", "grpc-method"}
CountOption(p, o) ==
    CASE o.name = "request-count" ->    \* the first one given wins
            Checked(o.val > 0, p,
                    [p EXCEPT !.request_count = IF @ = 0 THEN o.val ELSE @])
      [] o.name = "warmup-request-count" ->
            Checked(o.val >= 0, p, [p EXCEPT !.warmup_request_count = o.val])
      [] o.name = "fixed-schedule" ->
            Checked(ModeFree(p), p, [p EXCEPT !.mode = "FixedSchedule"])
      [] o.name = "session-concurrency" ->
            Checked(ModeFree(p) /\ o.val > 0, p,
                    [p EXCEPT !.mode = "SessionConcurrency",
                              !.session_concurrency = o.val])
      [] o.name = "endpoint" -> [p EXCEPT !.endpoint = o.val # ""]
      [] o.name = "request-parameter" ->
            Checked(o.val = "ok", p, [p EXCEPT !.request_parameters = TRUE])
      [] o.name \in {"request-period", "grpc-method"} ->
            Checked(o.val = "ok", p, p)

\* The deprecated -d, -t and -c test that no load mode is selected, and
\* remember that they were used, but do not select one themselves.
ShortNames == {"v", "z", "d", "u", "m", "x", "b", "t", "i", "H", "c", "f"}
ShortOption(p, o) ==
    CASE o.name = "z" -> [p EXCEPT !.zero_input = TRUE]
      [] o.name = "d" -> Checked(ModeFree(p), p,
                            [p EXCEPT !.deprecated = TRUE])
      [] o.name = "u" -> [p EXCEPT !.url_specified = TRUE, !.url = o.val]
      [] o.name = "m" -> [p EXCEPT !.model_name = o.val # ""]
      [] o.name = "b" -> Checked(o.val > 0, p,
                            [p EXCEPT !.batch_size = o.val,
                                      !.using_batch_size = TRUE])
      [] o.name = "t" -> Checked(ModeFree(p), p,
                            [p EXCEPT !.deprecated = TRUE,
                                      !.concurrency_range.start = o.val])
      [] o.name = "i" -> [p EXCEPT !.protocol = o.val]
      [] o.name = "c" -> Checked(ModeFree(p), p,
                            [p EXCEPT !.deprecated = TRUE,
                                      !.concurrency_range.end = o.val])
      [] o.name \in {"v", "x", "H", "f"} -> p

\* getopt's '?' and a value std::stoi and its like cannot convert; the loop
\* catches std::invalid_argument, but not the std::out_of_range of a number
\* that is too large, which nobody catches.
InvalidOption(p, o) ==
    IF ~o.parsed /\ o.val = "out of range"
    THEN [p EXCEPT !.stop = "terminate"] ELSE Usage(p)

OptionNames ==
    UNION {SizingNames, {"concurrency-range", "request-rate-range",
           "sequence-id-range", "periodic-concurrency-range"}, StabilityNames,
           ScheduleNames, ServiceNames, SslNames, ReportingNames, CountNames,
           ShortNames}

\* What the conversions give: numbers (std::stoi and its like; the value is
\* what comes out, so that of a negative text given to std::stoull is a large
\* one), and one number at least between the colons of a range.
NumberNames == {"max-threads", "request-count", "t", "c"}
RangeNames == {"concurrency-range", "request-rate-range",
               "periodic-concurrency-range", "sequence-id-range"}
Converted(o) ==
    /\ o.name \in NumberNames => o.val \in Int
    /\ o.name \in RangeNames => o.val \in Seq(Int) /\ o.val # <<>>

\* One turn of the option loop of ParseCommandLine.
ParseOption(p, o) ==
    CASE ~o.parsed \/ o.name \notin OptionNames -> InvalidOption(p, o)
      [] o.parsed /\ o.name \in SizingNames -> SizingOption(p, o)
      [] o.parsed /\ o.name = "concurrency-range" -> ConcurrencyRange(p, o)
      [] o.parsed /\ o.name \in StabilityNames -> StabilityOption(p, o)
      [] o.parsed /\ o.name = "request-rate-range" -> RequestRateRange(p, o)
      [] o.parsed /\ o.name \in ScheduleNames -> ScheduleOption(p, o)
      [] o.parsed /\ o.name \in ServiceNames -> ServiceOption(p, o)
      [] o.parsed /\ o.name = "sequence-id-range" -> SequenceIdRange(p, o)
      [] o.parsed /\ o.name \in SslNames -> SslOption(p, o)
      [] o.parsed /\ o.name \in ReportingNames -> ReportingOption(p, o)
      [] o.parsed /\ o.name = "periodic-concurrency-range" ->
            PeriodicConcurrencyRange(p, o)
      [] o.parsed /\ o.name \in CountNames -> CountOption(p, o)
      [] o.parsed /\ o.name \in ShortNames -> ShortOption(p, o)
-----------------------------------------------------------------------------
\* What ParseCommandLine derives when all options are read.
SelectMode(p) ==
    IF p.mode = "None" \/ p.deprecated THEN [p EXCEPT !.mode = "Concurrency"]
                                       ELSE p

DefaultUrl(p) ==
    IF p.url_specified \/ p.protocol # "GRPC" THEN p
    ELSE CASE p.kind = "TRITON" -> [p EXCEPT !.url = "localhost:8001"]
           [] p.kind = "TENSORFLOW_SERVING" ->
                 [p EXCEPT !.url = "localhost:8500"]
           [] OTHER -> p

DefaultThreads(p) ==
    IF p.max_threads_specified \/ p.mode # "Concurrency" THEN p
    ELSE [p EXCEPT !.max_threads =
                       Larger(DEFAULT_MAX_THREADS, p.concurrency_range.end)]

DefaultSearch(p) ==
    IF p.mode = "CustomIntervals" THEN [p EXCEPT !.search_mode = "NONE"] ELSE p

\* GetDatasetSize: the payloads of all the files together.
Payloads(paths) ==
    DatasetSize * Len(SelectSeq(paths, LAMBDA f : f = "file"))

\* The count of a fixed schedule is its dataset's, less the warmup; every
\* error here is a std::runtime_error.
FixedScheduleCount(p) ==
    IF p.mode # "FixedSchedule" THEN p
    ELSE IF \/ p.request_count # 0
            \/ p.user_data = <<>>
            \/ \E i \in DOMAIN p.user_data :
                  p.user_data[i] \in {"dir", "missing"}
            \/ Payloads(p.user_data) = 0
            \/ p.warmup_request_count >= Payloads(p.user_data)
         THEN [p EXCEPT !.stop = "terminate"]
         ELSE [p EXCEPT !.request_count =
                            Payloads(p.user_data) - p.warmup_request_count]

CountWindows(p) ==
    IF p.request_count = 0 THEN p
    ELSE [p EXCEPT !.measurement_mode = "COUNT_WINDOWS",
                   !.measurement_request_count = p.request_count]

FinishParsing(p) ==
    CountWindows(FixedScheduleCount(DefaultSearch(DefaultThreads(
        DefaultUrl(SelectMode(p))))))
-----------------------------------------------------------------------------
\* VerifyOptions, in its order.  A failed check is Usage; the assignments
\* among the checks are made in the parts they belong to.
BasicsOk(p) ==
    /\ p.model_name \/ p.kind = "DYNAMIC_GRPC"
    /\ p.concurrency_range.start > 0
    /\ p.request_rate_range.start > 0
    /\ p.protocol # "UNKNOWN"
    /\ p.streaming => p.protocol = "GRPC" \/ p.kind = "TRITON_C_API"
    /\ p.compression => p.protocol = "GRPC"
    /\ p.sequence_length_variation >= 0
    /\ p.percentile = -1 \/ p.percentile \in 1 .. 99
    /\ ~(p.zero_input /\ p.user_data # <<>>)
    /\ ~(p.async /\ p.forced_sync)

PeriodicOk(p) ==
    p.mode = "PeriodicConcurrency" => p.streaming /\ p.profile_export

PeriodicThreads(p) ==
    IF p.mode # "PeriodicConcurrency" THEN p
    ELSE IF p.periodic_concurrency_range.end = NO_LIMIT
         THEN [p EXCEPT !.periodic_concurrency_range.end = p.max_threads]
         ELSE [p EXCEPT !.max_threads =
                            Larger(@, p.periodic_concurrency_range.end)]

\* A run of several MPI ranks measures one level only.
SingleLevelIfMpi(p, mpiRun) ==
    LET r == IF p.mode = "RequestRate" THEN p.request_rate_range
                                       ELSE p.concurrency_range
    IN  mpiRun /\ p.mode \in {"RequestRate", "Concurrency"}
            => r.end = 1 /\ r.step = 1

SearchOk(p) ==
    LET ranges == {p.concurrency_range, p.request_rate_range}
        open == \E r \in ranges : r.end = NO_LIMIT
    IN  /\ ~(open /\ p.latency_threshold = NO_LIMIT)
        /\ p.search_mode = "BINARY" =>
              /\ ~open
              /\ p.latency_threshold # NO_LIMIT
              /\ \A r \in ranges : r.end >= r.start

\* Mutant: a request count is accepted with several levels.
CountsOkAnyLevels(p) == TRUE

CountsOk(p) ==
    \A r \in (IF p.mode = "Concurrency" THEN {p.concurrency_range} ELSE {})
             \cup (IF p.mode = "RequestRate" THEN {p.request_rate_range}
                                             ELSE {}) :
        /\ p.warmup_request_count # 0 => ~(r.start < r.end)
        /\ p.request_count # 0 => /\ p.request_count >= r.start
                                  /\ ~(r.start < r.end)

\* Mutant: the OpenAI service is used synchronously too.
ServiceOkAnyApi(p) ==
    /\ p.kind \in {"TORCHSERVE", "OPENAI", "DYNAMIC_GRPC"} =>
          p.user_data # <<>>
    /\ p.kind = "OPENAI" => p.endpoint /\ p.batch_size = 1

ServiceOk(p) ==
    /\ p.kind = "TENSORFLOW_SERVING" =>
          p.protocol = "GRPC" /\ ~p.streaming /\ ~p.async
    /\ p.kind \in {"TORCHSERVE", "OPENAI", "DYNAMIC_GRPC"} =>
          p.user_data # <<>>
    /\ p.kind = "TRITON_C_API" =>
          /\ p.triton_server_path /\ p.model_repository
          /\ ~(p.async /\ p.streaming /\ p.shared_memory # "none")
    /\ p.kind = "OPENAI" => p.endpoint /\ p.async /\ p.batch_size = 1
    /\ p.kind = "DYNAMIC_GRPC" => ~p.async

ServiceDefaults(p) ==
    CASE p.kind = "TENSORFLOW_SERVING" /\ ~p.using_batch_size ->
            [p EXCEPT !.batch_size = 0]
      [] p.kind = "TRITON_C_API" -> [p EXCEPT !.protocol = "UNKNOWN"]
      [] p.kind = "DYNAMIC_GRPC" -> [p EXCEPT !.protocol = "GRPC"]
      [] OTHER -> p

MetricsOk(p) ==
    /\ p.collect_metrics => p.kind = "TRITON"
    /\ p.metrics_url_specified \/ p.metrics_interval_specified
          => p.collect_metrics

SessionsOk(p) == p.mode = "SessionConcurrency" => p.kind = "OPENAI"

VerifyOptions(p, mpiRun) ==
    LET q == PeriodicThreads(
                 IF p.start_sequence_id = 0
                 THEN [p EXCEPT !.start_sequence_id = 1] ELSE p)
    IN  IF /\ BasicsOk(p) /\ PeriodicOk(p)
           /\ p.request_parameters => p.protocol = "GRPC"
           /\ SingleLevelIfMpi(p, mpiRun)
           /\ SearchOk(p) /\ CountsOk(p) /\ ServiceOk(p)
           /\ MetricsOk(p) /\ SessionsOk(p)
        THEN ServiceDefaults(q)
        ELSE Usage(p)
=============================================================================
