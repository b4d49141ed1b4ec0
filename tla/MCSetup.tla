------------------------------ MODULE MCSetup ------------------------------
(***************************************************************************)
(* Command lines for Setup: a base per kind of service and load mode, and  *)
(* the options that may follow it, with values on both sides of every      *)
(* check the parser makes.                                                 *)
(***************************************************************************)
EXTENDS Setup

Opt(name, val) == [name |-> name, parsed |-> TRUE, val |-> val]
Flag(name) == Opt(name, "ok")

M == Flag("m")
Kind(k) == Opt("service-kind", k)
Data == Opt("input-data", "file")
Grpc == Opt("i", "GRPC")

MCCommandLines ==
    {<<M>>, <<M, Grpc, Flag("streaming")>>, <<M, Flag("sync")>>,
     <<M, Opt("concurrency-range", <<1, 3>>)>>,
     <<M, Opt("request-rate-range", <<1, 1>>)>>,
     <<M, Opt("latency-threshold", 9)>>,
     <<M, Grpc, Flag("streaming"), Opt("profile-export-file", "missing")>>,
     <<M, Kind("TENSORFLOW_SERVING"), Grpc>>,
     <<M, Kind("TORCHSERVE"), Data>>,
     <<M, Kind("TRITON_C_API"), Flag("model-repository")>>,
     <<M, Kind("OPENAI"), Data, Flag("endpoint"), Flag("async")>>,
     <<Kind("DYNAMIC_GRPC"), Data, Grpc>>,
     <<M, Data, Flag("fixed-schedule")>>}

Ranges == {<<0>>, <<1, 0>>, <<3, 0>>, <<2, 2>>, <<1, 6, 2>>, <<3, 1>>,
            <<1, 2, 3, 4>>}

MCExtraOptions ==
    {Opt("concurrency-range", v) : v \in Ranges}
    \cup {Opt("request-rate-range", v) : v \in Ranges}
    \cup {Opt("periodic-concurrency-range", v) :
             v \in {<<1>>, <<1, 6, 5>>, <<1, 6, 3>>, <<3, 1>>, <<0, 0>>}}
    \cup {Opt("sequence-id-range", v) :
             v \in {<<0>>, <<1, 3>>, <<4, 4>>, <<3, 1>>}}
    \cup {Opt(n, v) : n \in {"max-threads", "request-count", "b",
                             "num-of-sequences", "t", "c"}, v \in {0, 2}}
    \cup {Opt(n, v) : n \in {"warmup-request-count", "latency-threshold",
                             "session-concurrency", "percentile",
                             "sequence-length", "sequence-length-variation"},
                      v \in {0, 1}}
    \cup {Opt("input-data", v) :
             v \in {"file", "emptyfile", "dir", "zero", "random", "missing"}}
    \cup {Opt("profile-export-file", v) : v \in {"missing", "file"}}
    \cup {Opt("shared-memory", v) : v \in {"none", "system", "cuda", "bad"}}
    \cup {Opt("i", v) : v \in {"GRPC", "UNKNOWN"}}
    \cup {Opt("bls-composing-models", {v}) : v \in {"seq", "unserved"}}
    \cup {Opt("measurement-mode", "COUNT_WINDOWS"), Opt("shape", <<2>>),
          Opt("measurement-request-count", 5), Opt("shape", <<0>>),
          Opt("request-intervals", "file"), Opt("data-directory", "dir"),
          Opt("service-kind", "bad"), Opt("u", "remote:9000"),
          Opt("model-repository", ""), Opt("m", ""), Opt("endpoint", ""),
          Opt("triton-server-directory", "")}
    \cup {Flag(n) : n \in {"streaming", "async", "sync", "binary-search",
             "collect-metrics", "metrics-url", "metrics-interval",
             "grpc-compression-algorithm", "enable-mpi", "serial-sequences",
             "request-parameter", "fixed-schedule", "version", "verbose-csv",
             "z", "d", "v", "string-data", "trace-rate", "unknown-option",
             "model-signature-name", "ssl-grpc-use-ssl"}}
    \cup {Opt(n, "bad") : n \in {"stability-percentage", "ssl-grpc-file",
             "trace-level", "request-distribution", "request-period",
             "output-shared-memory-size", "measurement-interval"}}
    \cup {[name |-> "max-trials", parsed |-> FALSE, val |-> v] :
             v \in {"junk", "out of range"}}

Config == [consistent |-> TRUE, ranked |-> TRUE, max_batch_size |-> 0,
           decoupled |-> FALSE, sequence_batching |-> FALSE, cache |-> FALSE,
           dynamic_batching |-> FALSE, steps |-> {}, dims |-> <<4>>]

MCRepository ==
    [plain |-> [Config EXCEPT !.dynamic_batching = TRUE,
                              !.max_batch_size = 4, !.dims = <<-1, 4>>],
     seq |-> [Config EXCEPT !.sequence_batching = TRUE, !.max_batch_size = 4,
                            !.dims = <<-1, 4>>],
     open |-> [Config EXCEPT !.dims = <<-1>>, !.decoupled = TRUE],
     ens |-> [Config EXCEPT !.steps = {"inner"}],
     inner |-> [Config EXCEPT !.steps = {"seq"}, !.ranked = FALSE],
     broken |-> [Config EXCEPT !.consistent = FALSE]]
=============================================================================
