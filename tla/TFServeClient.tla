--------------------------- MODULE TFServeClient ---------------------------
(***************************************************************************)
(* tfserving::GrpcClient: how the inputs of a request become a             *)
(* PredictRequest.  One protobuf object, infer_request_, serves all the    *)
(* requests of a context, and is brought up to date for each.  An input is *)
(* a record of its name, datatype, shape and buffers of values; the values *)
(* are small numbers, below NarrowLimit where the datatype has fewer bytes *)
(* than the protobuf field.                                                *)
(***************************************************************************)
EXTENDS Naturals, SequencesExt

CONSTANT NarrowLimit    \* 2^bits of a value narrower than its field

VARIABLE infer_request  \* infer_request_.inputs: tensors by input name

Fields == {"half_val", "float_val", "double_val", "int_val", "string_val",
           "int64_val", "bool_val", "uint32_val", "uint64_val"}

\* The datatypes GetTensorFlowDataType knows.
TFDataTypes == {"FP16", "BF16", "FP32", "FP64", "INT32", "INT16", "UINT16",
                "INT8", "UINT8", "BYTES", "INT64", "BOOL", "UINT32",
                "UINT64"}

NarrowTypes == {"FP16", "INT16", "UINT16", "INT8", "UINT8"}

\* The field meant for the values of a datatype.
FieldOf ==
    [d \in TFDataTypes \ {"BF16"} |->
       CASE d = "FP16" -> "half_val"   [] d = "FP32" -> "float_val"
         [] d = "FP64" -> "double_val" [] d = "BYTES" -> "string_val"
         [] d = "INT64" -> "int64_val" [] d = "BOOL" -> "bool_val"
         [] d = "UINT32" -> "uint32_val" [] d = "UINT64" -> "uint64_val"
         [] OTHER -> "int_val"]

\* TFServeInferInput: one buffer was appended for each element of the batch,
\* and every request reads them all from the first.
TempBuffer(input) == FlattenSeq(input.bufs)

NoValues == [f \in Fields |-> <<>>]

NewTensor == [datatype |-> "", shape |-> <<>>, vals |-> NoValues]

\* PopulateHalfVal and PopulateIntVal copy 1 or 2 bytes into an uninitialized
\* int32_t: pad stands for the bytes above.
PopulateNarrow(v, pad) == v + NarrowLimit * pad

\* PopulateInt64Val calls add_bool_val.
PopulateInt64Val(tensor, values) ==
    [tensor EXCEPT !.vals.bool_val =
        @ \o [i \in DOMAIN values |-> IF values[i] = 0 THEN 0 ELSE 1]]

\* PopulateInputData: the values are added to what the field holds.  Its
\* error for BF16 is dropped by the caller.
PopulateInputData(tensor, input, pad) ==
    CASE input.datatype = "BF16" -> tensor
      [] input.datatype = "INT64" ->
            PopulateInt64Val(tensor, TempBuffer(input))
      [] input.datatype \in NarrowTypes ->
            [tensor EXCEPT !.vals[FieldOf[input.datatype]] =
                @ \o [i \in DOMAIN TempBuffer(input) |->
                        PopulateNarrow(TempBuffer(input)[i], pad)]]
      [] OTHER ->
            [tensor EXCEPT !.vals[FieldOf[input.datatype]] =
                @ \o TempBuffer(input)]

ClearNoInputFields(tensor) == tensor

ClearAllInputFields(tensor) == [tensor EXCEPT !.vals = NoValues]

\* A tensor of an earlier request is used again when there is one.
TensorOf(request, name) ==
    IF name \in DOMAIN request THEN request[name] ELSE NewTensor

SetTensor(request, name, tensor) ==
    [n \in DOMAIN request \cup {name} |->
        IF n = name THEN tensor ELSE request[n]]

\* The loop body of PreRunProcessing for an input of a known datatype.
AddInput(request, input, pad) ==
    LET old == TensorOf(request, input.name)
        set == [old EXCEPT !.datatype = input.datatype, !.shape = input.shape]
    IN  SetTensor(request, input.name,
            PopulateInputData(ClearAllInputFields(set), input, pad))

RemoveNoInputs(request, inputs) == request

RemoveExtraInputs(request, inputs) ==
    [n \in DOMAIN request \cap {inputs[i].name : i \in DOMAIN inputs} |->
        request[n]]

Unknown(inputs) ==
    {i \in DOMAIN inputs : inputs[i].datatype \notin TFDataTypes}

\* An input of an unknown datatype leaves its tensor with DT_INVALID.
SpoilTensor(request, input) ==
    SetTensor(request, input.name,
              [TensorOf(request, input.name) EXCEPT !.datatype = ""])

\* PreRunProcessing: up to the first input of an unknown datatype, or all of
\* them; then the tensors of inputs this request lacks are removed.  A request
\* above INT_MAX bytes (large) is cleared and refused.
PreRunProcessing(inputs, pad, large) ==
    LET good == IF Unknown(inputs) = {} THEN inputs
                ELSE SubSeq(inputs, 1, Min(Unknown(inputs)) - 1)
        built == FoldLeft(LAMBDA r, i : AddInput(r, i, pad), infer_request,
                          good)
    IN  IF Unknown(inputs) # {}
        THEN [ok |-> FALSE,
              request |-> SpoilTensor(built, inputs[Len(good) + 1])]
        ELSE IF large THEN [ok |-> FALSE, request |-> <<>>]
        ELSE [ok |-> TRUE, request |-> RemoveExtraInputs(built, inputs)]

TFServeInit == infer_request = <<>>
=============================================================================
