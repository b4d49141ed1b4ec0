--------------------------- MODULE RemoteClients ---------------------------
(***************************************************************************)
(* A context that calls TensorFlow Serving, TorchServe or a dynamic gRPC   *)
(* service: only synchronous requests (the command line refuses --async    *)
(* for two of them, and TorchServe has no asynchronous call), one after    *)
(* the other, with the data of the steps in turn.  The client is used      *)
(* again for every request, until one fails.                               *)
(***************************************************************************)
EXTENDS TFServeClient, TorchServeClient, DynamicGrpcClient

CONSTANTS
    Calls,         \* [kind, steps: the data of each request, exists: files]
    MaxCalls   \* bound: requests of the context

\* What the data manager hands over.  tfserving: inputs of different names, a
\* buffer for every element of the batch, each with the values of a tensor of
\* the input's shape; dynamic_grpc: messages.
InputOK(input) ==
    /\ input.shape \in Seq(Nat)
    /\ input.bufs \in Seq(Seq(Nat)) /\ input.bufs # <<>>
    /\ \A b \in DOMAIN input.bufs :
           /\ Len(input.bufs[b]) = Len(input.bufs[1])
           /\ input.datatype \in NarrowTypes =>
                  \A k \in DOMAIN input.bufs[b] :
                      input.bufs[b][k] < NarrowLimit

DifferentNames(inputs) ==
    \A i, j \in DOMAIN inputs : inputs[i].name = inputs[j].name => i = j

CallsOK ==
    \A c \in Calls :
        /\ c.kind # "in_process" => Len(c.steps) \in Nat \ {0}
        /\ c.kind = "tfserving" =>
               \A s \in 1 .. Len(c.steps) :
                   /\ Len(c.steps[s]) \in Nat
                   /\ DOMAIN c.steps[s] = 1 .. Len(c.steps[s])
                   /\ DifferentNames(c.steps[s])
                   /\ \A i \in DOMAIN c.steps[s] : InputOK(c.steps[s][i])
        /\ c.kind = "dynamic_grpc" =>
               /\ DOMAIN c.steps = 1 .. Len(c.steps)
               /\ \A s \in 1 .. Len(c.steps) : c.steps[s] \in Seq(Nat)

ASSUME CallsAssumption == CallsOK /\ NarrowLimit \in Nat \ {0}

VARIABLES
    calls,        \* the one of Calls the context makes
    pc,
    n,            \* requests begun
    pending,      \* dynamic gRPC: messages of the request to write
    ok,           \* dynamic gRPC: the flag the queue fills in
    completed,    \* infer_stat_.completed_request_count
    answers       \* history: [call: the server's, told: the caller's] status

remoteVars == <<infer_request, torch, grpc, calls, pc, n, pending, ok,
                completed, answers>>

Step == ((n - 1) % Len(calls.steps)) + 1
NextStep == (n % Len(calls.steps)) + 1

RemoteInit ==
    /\ calls \in Calls
    /\ TFServeInit /\ TorchServeInit /\ DynamicGrpcInit(DOMAIN calls.steps)
    /\ pc = "idle" /\ n = 0 /\ pending = <<>> /\ ok = "unset"
    /\ completed = 0 /\ answers = <<>>

\* Every call of a client's Infer begins here.
Begins(kind) ==
    /\ pc = "idle" /\ calls.kind = kind /\ n < MaxCalls
    /\ n' = n + 1

Answer(call, told) ==
    /\ answers' = Append(answers, [call |-> call, told |-> told])
    /\ pc' = IF told THEN "idle" ELSE "stopped"

\* UpdateInferStat, the same for the three: the request is counted when all
\* its timestamps were captured.
CountRequest(captured) ==
    completed' = IF captured THEN completed + 1 ELSE completed

\* GrpcClient::Infer up to the call.
TFServeInfer ==
    /\ Begins("tfserving")
    /\ \E pad \in 0 .. 1, large \in BOOLEAN :
        LET r == PreRunProcessing(calls.steps[NextStep], pad, large)
        IN  /\ infer_request' = r.request
            /\ pc' = IF r.ok THEN "sent" ELSE "stopped"
    /\ UNCHANGED <<torch, grpc, calls, pending, ok, completed, answers>>

\* Predict returns; the statistics count a failed call too.
Predict ==
    /\ pc = "sent" /\ calls.kind = "tfserving"
    /\ \E call \in BOOLEAN : Answer(call, call)
    /\ CountRequest(TRUE)
    /\ UNCHANGED <<infer_request, torch, grpc, calls, n, pending, ok>>

\* HttpClient::Infer up to curl_easy_perform.
TorchServeInfer ==
    /\ Begins("torchserve")
    /\ TorchPreRunProcessing(calls.steps[NextStep], calls.exists)
    /\ pc' = IF file' = NoFile THEN "stopped" ELSE "sent"
    /\ UNCHANGED <<infer_request, grpc, calls, pending, ok, completed,
                   answers>>

\* The rest of HttpClient::Infer: without SEND_END the statistics are not
\* updated.
TorchServePerform ==
    /\ pc = "sent" /\ calls.kind = "torchserve"
    /\ \E outcome \in {"answered", "refused", "broken_sending", "broken"} :
        /\ Perform(outcome) /\ TorchFinish
        /\ Answer(HttpOk(outcome), HttpOk(outcome))
    /\ CountRequest(send_end')
    /\ UNCHANGED <<infer_request, grpc, calls, n, pending, ok>>

\* DynamicGrpcClientBackend::Infer.
DynamicGrpcInfer ==
    /\ Begins("dynamic_grpc")
    /\ PrepareForRequest(NextStep)
    /\ pc' = "prepared"
    /\ UNCHANGED <<infer_request, torch, stream, writesdone_called, calls,
                   pending, ok, completed, answers>>

\* BidiStreamRPC: the stream and the messages; ok is not initialized.
BidiStreamRPC ==
    /\ pc = "prepared" /\ pc' = "writing"
    /\ stream' = StreamOf /\ writesdone_called' = FALSE
    /\ pending' = GetSerializedMessages(calls.steps[Step], buf_pos[Step])
    /\ buf_pos' = [buf_pos EXCEPT ![Step] = @ + Len(pending')]
    /\ ok' = "unset"
    /\ UNCHANGED <<infer_request, torch, calls, n, completed, answers>>

WriteMessage ==
    /\ pc = "writing" /\ pending # <<>>
    /\ \E alive \in BOOLEAN :
        /\ stream' = Write(stream, Head(pending), alive)
        /\ ok' = IF stream'.dead THEN "false" ELSE "true"
    /\ pending' = Tail(pending)
    /\ UNCHANGED <<infer_request, torch, writesdone_called, buf_pos, calls, pc,
                   n, completed, answers>>

\* Only the last write is looked at; with no message at all the flag has no
\* defined value.
WritesEnd ==
    /\ pc = "writing" /\ pending = <<>>
    /\ \/ /\ ok \in {"true", "unset"}
          /\ WritesDone /\ pc' = "reading"
          /\ UNCHANGED <<buf_pos, answers>>
       \/ /\ ok \in {"false", "unset"}
          /\ Answer(FALSE, FALSE)
          /\ UNCHANGED grpc
    /\ UNCHANGED <<infer_request, torch, calls, n, pending, ok, completed>>

\* The responses are read until the server ends the call, well or not.
ReadResponses ==
    /\ pc = "reading"
    /\ \E call \in BOOLEAN : Answer(call, ReadStatus(call))
    /\ CountRequest(TRUE)
    /\ UNCHANGED <<infer_request, torch, grpc, calls, n, pending, ok>>

RemoteEnded ==
    /\ pc = "stopped" \/ (pc = "idle" /\ n = MaxCalls)
    /\ UNCHANGED remoteVars

RemoteNext == \/ TFServeInfer \/ Predict
        \/ TorchServeInfer \/ TorchServePerform
        \/ DynamicGrpcInfer \/ BidiStreamRPC \/ WriteMessage \/ WritesEnd
        \/ ReadResponses
        \/ RemoteEnded

RemoteSpec == RemoteInit /\ [][RemoteNext]_remoteVars

----------------------------------------------------------------------------

\* The values of a batch, one buffer after the other.
InBatchOrder(vals, bufs) ==
    LET size == Len(bufs[1])
    IN  /\ Len(vals) = Len(bufs) * size
        /\ \A b \in 1 .. Len(bufs), k \in 1 .. size :
               vals[(b - 1) * size + k] = bufs[b][k]

\* What a server looks at of the values of a datatype.
LowBytes(vals, d) ==
    [k \in DOMAIN vals |->
        IF d \in NarrowTypes THEN vals[k] % NarrowLimit ELSE vals[k]]

Carried(input) ==
    IF input.name \in DOMAIN infer_request
    THEN infer_request[input.name] ELSE NewTensor

\* Whatever the requests before left in the one PredictRequest, the request
\* carries a tensor for each of its inputs and for no other, with their
\* datatype, shape and values, and no field holds values of another datatype.
\* (BF16 and INT64 inputs, and the upper bytes of narrow ones, are left out:
\* the code sends none, other or undefined values for them.)
TensorsFaithful ==
    (pc = "sent" /\ calls.kind = "tfserving") =>
        LET inputs == calls.steps[Step]
        IN  /\ DOMAIN infer_request =
                 {inputs[i].name : i \in DOMAIN inputs}
            /\ \A i \in DOMAIN inputs :
                 LET t == Carried(inputs[i])
                     d == inputs[i].datatype
                 IN  /\ t.datatype = d /\ t.shape = inputs[i].shape
                     /\ d \notin {"BF16", "INT64"} =>
                         /\ InBatchOrder(LowBytes(t.vals[FieldOf[d]], d),
                                         inputs[i].bufs)
                         /\ \A f \in Fields \ {FieldOf[d]} :
                               t.vals[f] = <<>>

\* A dynamic gRPC request that goes on to read has written all its messages,
\* in order, on a stream no other request has written on, each time its input
\* is used, though only the last write is checked.  Only an empty message at
\* the end is missing.
StreamFaithful ==
    pc = "reading" =>
        \/ stream.written = calls.steps[Step]
        \/ Append(stream.written, EmptyMessage) = calls.steps[Step]

\* A TorchServe request posts its own file, and after it, answered or failed,
\* no file is open and no mime handle is left, but for the one of the request
\* that could not open its file and ends the run.
NothingLeft ==
    calls.kind = "torchserve" =>
        /\ (pc = "sent" /\ Len(calls.steps[Step]) = 1) =>
               file = calls.steps[Step][1]
        /\ pc = "idle" => file = NoFile /\ mime = 0
        /\ pc = "stopped" => file = NoFile /\ mime <= 1

\* What a request sends is its own, whatever the client was used for before,
\* and nothing of it is left behind.
SendsItsOwn == TensorsFaithful /\ StreamFaithful /\ NothingLeft

\* "Note that since protobuf has no int16/int8 type, we'll have some pointless
\* zero padding for each value here" (tfserve_grpc_client.cc).
NarrowZeroPadded ==
    (pc = "sent" /\ calls.kind = "tfserving") =>
        \A i \in DOMAIN calls.steps[Step] :
            LET input == calls.steps[Step][i]
            IN  input.datatype \in NarrowTypes =>
                    InBatchOrder(Carried(input).vals[FieldOf[input.datatype]],
                                 input.bufs)

\* BidiStreamRPC returns an "Error object indicating success or failure of the
\* request" (dynamic_grpc_client.h): a failed call is told as one.
CallFailureTold ==
    \A i \in DOMAIN answers : answers[i].told => answers[i].call
=============================================================================
