----------------------------- MODULE DataLoader -----------------------------
(***************************************************************************)
(* DataLoader (data_loader.cc): the input and validation data of a run,    *)
(* read from JSON files, from a directory, or generated.                   *)
(*                                                                         *)
(* A tensor is a record [val, dims, good]: its bytes, the shape the file   *)
(* gives it ("model" if it gives none) and whether it is well formed and   *)
(* of the size its shape asks for.  A step is a function from the member   *)
(* names to tensors.  An element of a file's "data" is either an array of  *)
(* steps (a stream) or a step.  Streams and steps count from 0.            *)
(***************************************************************************)
EXTENDS Integers, Sequences, FiniteSets, SequencesExt

CONSTANTS Inputs, Outputs    \* the names in the model's tensor maps

\* Of a model: which inputs are optional, are shape tensors, have a shape
\* with an open dimension, hold strings.  No output is a shape tensor.
Models == [optional: SUBSET Inputs, shape_tensors: SUBSET Inputs,
           open: SUBSET Inputs, strings: SUBSET Inputs]

\* TensorData: the tensor, or is_valid unset.
Found(t) == [val |-> t.val, valid |-> TRUE]
Missing == [val |-> "none", valid |-> FALSE]

\* A DataLoader after its constructor.
EmptyLoader == [ok |-> TRUE, data_stream_cnt |-> 0, step_num |-> <<>>,
                multiple_stream_mode |-> FALSE, input |-> <<>>,
                output |-> <<>>, input_buf |-> FALSE]

LoaderError(L) == [L EXCEPT !.ok = FALSE]

GetTotalSteps(L, stream) ==
    IF stream < L.data_stream_cnt THEN L.step_num[stream + 1] ELSE 0

\* ReadDataFromPipe: whatever the command of a message_generator wrote is the
\* tensor; ReadTensorData looks neither at its error nor at the size.
ReadDataFromPipe(bytes) == [val |-> bytes, dims |-> "model", good |-> TRUE]

\* ValidateTensor: ValidateTensorShape and ValidateTensorDataSize.
ValidateTensor(t, n, model) ==
    /\ t.good
    /\ t.dims = "model" => n \notin model.open
    /\ t.dims # "model" => n \in model.open

\* ReadTensorData accepts a step: it has every tensor that is not optional
\* (of the outputs none is), they are valid, and it has no member the model
\* does not know.  The loop ends at a message_generator: it is taken to be the
\* last of the model's inputs.
ReadTensorData(step, names, optional, model) ==
    /\ \A n \in names :
          IF n \in DOMAIN step THEN ValidateTensor(step[n], n, model)
          ELSE n \in optional
    /\ DOMAIN step \subseteq names \cup {"model"}

\* ValidateParsingMode, for every element of an array of streams.
ValidateParsingMode(L, data) ==
    LET mode == IF L.step_num = <<>> THEN data[1].array
                ELSE L.multiple_stream_mode
    IN  IF data[1].array THEN \A i \in DOMAIN data : data[i].array = mode
        ELSE ~mode

\* Where ParseData puts the steps of a file: behind the streams there are, or
\* behind the steps of stream 0 if the file has steps where streams could be.
Places(L, data) ==
    IF data[1].array
    THEN LET at == Len(L.step_num) - 1
         IN  [p \in UNION {{<<at + i, k - 1>> : k \in DOMAIN data[i].steps} :
                              i \in DOMAIN data}
                |-> data[p[1] - at].steps[p[2] + 1]]
    ELSE LET at == IF L.step_num = <<>> THEN 0 ELSE L.step_num[1]
         IN  [p \in {<<0, at + k - 1>> : k \in DOMAIN data}
                |-> data[p[2] - at + 1].steps[1]]

\* The entries of input_data_ and input_shapes_, or of the output maps, that
\* come of the steps at their places.
Entries(places, names) ==
    [k \in {<<key[1], key[2][1], key[2][2]>> : key \in
               {x \in names \X DOMAIN places : x[1] \in DOMAIN places[x[2]]}}
       |-> places[<<k[2], k[3]>>][k[1]]]

Extended(f, g) ==
    [x \in DOMAIN f \cup DOMAIN g |-> IF x \in DOMAIN f THEN f[x] ELSE g[x]]

NewStepNum(L, data) ==
    IF data[1].array
    THEN L.step_num \o [i \in DOMAIN data |-> Len(data[i].steps)]
    ELSE <<(IF L.step_num = <<>> THEN 0 ELSE L.step_num[1]) + Len(data)>>

\* 'validation_data' once provided must align with 'data'.
Aligned(file) ==
    file.validation # <<>> =>
        /\ Len(file.validation) = Len(file.data)
        /\ \A i \in DOMAIN file.data :
              /\ file.validation[i].array = file.data[i].array
              /\ Len(file.validation[i].steps) = Len(file.data[i].steps)

\* ReadDataFromJSON and ParseData.
ParseData(L, file, model) ==
    IF file.data = <<>> THEN [L EXCEPT !.ok = file.parses /\ Aligned(file)]
    ELSE LET in == Places(L, file.data)
             out == IF file.validation = <<>> THEN <<>>
                    ELSE Places(L, file.validation)
             num == NewStepNum(L, file.data)
         IN  IF /\ file.parses /\ Aligned(file)
                /\ ValidateParsingMode(L, file.data)
                /\ \A p \in DOMAIN in :
                      ReadTensorData(in[p], Inputs, model.optional, model)
                /\ \A p \in DOMAIN out :
                      ReadTensorData(out[p], Outputs, {}, model)
             THEN [L EXCEPT !.step_num = num, !.data_stream_cnt = Len(num),
                            !.multiple_stream_mode = file.data[1].array,
                            !.input = Extended(@, Entries(in, Inputs)),
                            !.output = Extended(@, Entries(out, Outputs))]
             ELSE LoaderError(L)

SingleStep(L) == [L EXCEPT !.data_stream_cnt = 1, !.step_num = Append(@, 1)]

\* ValidateIOExistsInModel and ReadDataFromDir: one file per tensor; the
\* inputs' must be there and have the size of the model's shape, whether they
\* are optional or not.
ReadDataFromDir(L, dir, model) ==
    LET at00(names) == [k \in (names \cap DOMAIN dir) \X {0} \X {0}
                          |-> dir[k[1]]]
    IN  IF /\ DOMAIN dir \subseteq Inputs \cup Outputs
           /\ \A n \in Inputs : /\ n \in DOMAIN dir /\ dir[n].good
                                /\ n \notin model.open
        THEN [SingleStep(L) EXCEPT !.input = at00(Inputs),
                                   !.output = at00(Outputs)]
        ELSE LoaderError(L)

\* GenerateData: strings are kept as data of step 0 of stream 0; all other
\* inputs share input_buf_.
Generated == [val |-> "generated", dims |-> "model", good |-> TRUE]

GenerateData(L, model) ==
    IF model.shape_tensors = {} /\ model.open = {}
    THEN [SingleStep(L) EXCEPT
             !.input = [k \in model.strings \X {0} \X {0} |-> Generated],
             !.input_buf = Inputs \ model.strings # {}]
    ELSE LoaderError(L)

ValidateIndexes(L, stream, step) ==
    stream < L.data_stream_cnt /\ step < GetTotalSteps(L, stream)

\* GetInputData: Missing is a tensor that is not valid, which is an error
\* unless the input is optional.
GetInputData(L, n, stream, step, model) ==
    LET key == <<n, stream, step>>
    IN  IF key \in DOMAIN L.input THEN Found(L.input[key])
        ELSE IF n \notin model.strings /\ L.input_buf THEN Found(Generated)
        ELSE Missing

InputDataOk(L, n, stream, step, model) ==
    /\ DOMAIN L.input # {} => ValidateIndexes(L, stream, step)
    /\ GetInputData(L, n, stream, step, model).valid \/ n \in model.optional

\* GetInputShape: the shape of the step, or else the model's.
GetInputShape(L, n, stream, step) ==
    LET key == <<n, stream, step>>
    IN  IF key \in DOMAIN L.input THEN L.input[key].dims ELSE "model"

GetOutputData(L, n, stream, step) ==
    LET key == <<n, stream, step>>
    IN  IF key \in DOMAIN L.output THEN Found(L.output[key]) ELSE Missing
=============================================================================
