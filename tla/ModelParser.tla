---------------------------- MODULE ModelParser ----------------------------
(***************************************************************************)
(* ModelParser (model_parser.cc): what is learnt of the model from the     *)
(* server's metadata and configuration.  Repository is what the server     *)
(* serves: for each model name, its configuration, with the names of the   *)
(* steps of an ensemble.  One input tensor stands for all.                 *)
(***************************************************************************)
EXTENDS Integers, Sequences, FiniteSets

CONSTANT Repository

\* A server never loads an ensemble that contains itself; names that are not
\* served make ModelConfig fail, and the parser with it.
Dynamic(dims) == \E i \in DOMAIN dims : dims[i] = -1

ParserError == [status |-> "error", scheduler |-> "NONE", max_batch_size |-> 0,
                decoupled |-> FALSE, cache |-> FALSE, shape |-> <<>>,
                outputs |-> FALSE]

\* AddEnsembleComposingModels, which calls itself for every step: the names
\* below a model are the least set that is closed under steps.
Below(names) ==
    LET steps(n) == IF n \in DOMAIN Repository THEN Repository[n].steps ELSE {}
        closed == {S \in SUBSET (UNION {steps(n) : n \in DOMAIN Repository}) :
                      \A n \in names \cup S : steps(n) \subseteq S}
    IN  UNION {S \in closed : \A T \in closed : S \subseteq T}

\* The models DetermineComposingModelMap collects: the BLS models named on
\* the command line, what is below them, and what is below the model itself.
ComposingModels(name, bls) == bls \cup Below(bls) \cup Below({name})

DetermineSchedulerType(name, bls) ==
    LET composing == ComposingModels(name, bls)
        config == Repository[name]
    IN  CASE composing # {} ->
                IF \E c \in composing : Repository[c].sequence_batching
                THEN "ENSEMBLE_SEQUENCE" ELSE "ENSEMBLE"
          [] composing = {} /\ config.sequence_batching -> "SEQUENCE"
          [] composing = {} /\ ~config.sequence_batching ->
                IF config.dynamic_batching THEN "DYNAMIC" ELSE "NONE"

\* The shape of an input: the metadata's, without the batch dimension of a
\* model that batches; --shape replaces it if a dimension is left open.
TensorShape(dims, dropFirst, userShape) ==
    LET own == IF dropFirst THEN SubSeq(dims, 2, Len(dims)) ELSE dims
    IN  IF Dynamic(own) /\ userShape # <<>> THEN userShape ELSE own

InitTriton(name, bls, userShape) ==
    LET config == Repository[name]
        composing == ComposingModels(name, bls)
    IN  IF composing \subseteq DOMAIN Repository /\ config.consistent
        THEN [status |-> "ok",
              scheduler |-> DetermineSchedulerType(name, bls),
              max_batch_size |-> config.max_batch_size,
              decoupled |-> config.decoupled,
              cache |-> config.cache
                          \/ \E c \in composing : Repository[c].cache,
              shape |-> TensorShape(config.dims, config.max_batch_size > 0,
                                    userShape),
              outputs |-> TRUE]
        ELSE ParserError

\* TensorFlow Serving: the batch size of the command line is the model's; it
\* needs an input whose first dimension is open.  Outputs are not asked for.
InitTFServe(name, batchSize, userShape) ==
    LET config == Repository[name]
    IN  IF /\ config.consistent
           /\ batchSize # 0 => config.ranked /\ config.dims[1] = -1
        THEN [ParserError EXCEPT
                 !.status = "ok", !.max_batch_size = batchSize,
                 !.shape = IF config.ranked
                           THEN TensorShape(config.dims, batchSize # 0,
                                            userShape)
                           ELSE userShape]
        ELSE ParserError

\* The services without metadata: one input of shape [1]; a response is
\* named, except by TorchServe.
InitUndescribed(kind, batchSize) ==
    [ParserError EXCEPT !.status = "ok", !.max_batch_size = batchSize,
                        !.shape = <<1>>, !.outputs = kind # "TORCHSERVE"]

IsSequenceModel(parser) ==
    parser.scheduler \in {"SEQUENCE", "ENSEMBLE_SEQUENCE"}
=============================================================================
