------------------------- MODULE DynamicGrpcClient -------------------------
(***************************************************************************)
(* dynamicgrpc::DynamicGrpcClient: a request is a bidirectional stream of  *)
(* the messages in its input buffer.  The stream is started with the       *)
(* client, closed for writing by a request, and started again by the next. *)
(***************************************************************************)
EXTENDS Naturals, Sequences

VARIABLES
    stream,             \* bidi_stream_, with what was written on it
    writesdone_called,  \* writesdone_called_
    buf_pos             \* buf_pos_ of the inputs, by step

grpc == <<stream, writesdone_called, buf_pos>>

\* StartStream: a new context, queue and call.
StartStream == [half |-> FALSE, dead |-> FALSE, written |-> <<>>]

DynamicGrpcInit(steps) ==
    /\ stream = StartStream /\ writesdone_called = FALSE
    /\ buf_pos = [s \in steps |-> 0]

\* A request restarts the stream when the one before has closed it.
StreamOf == IF writesdone_called THEN StartStream ELSE stream

PrepareNothing(s) == UNCHANGED buf_pos

\* DynamicGrpcInferInput::PrepareForRequest, called by the backend's Infer.
PrepareForRequest(s) == buf_pos' = [buf_pos EXCEPT ![s] = 0]

\* A message whose encoding has no bytes: every field has its default.
EmptyMessage == 0

\* GetSerializedMessages reads messages, each after its size, from the position
\* on, while more bytes than those of a size are left: an empty message at the
\* end of the buffer is not read.
GetSerializedMessages(messages, pos) ==
    LET rest == SubSeq(messages, pos + 1, Len(messages))
    IN  IF rest # <<>> /\ rest[Len(rest)] = EmptyMessage
        THEN SubSeq(rest, 1, Len(rest) - 1) ELSE rest

\* Write: a message on the stream.  Once one has failed, because the server
\* has gone or the stream was closed for writing, all the others fail too.
Write(str, message, alive) ==
    IF alive /\ ~str.half /\ ~str.dead
    THEN [str EXCEPT !.written = Append(@, message)]
    ELSE [str EXCEPT !.dead = TRUE]

WritesDone == /\ stream' = [stream EXCEPT !.half = TRUE]
              /\ writesdone_called' = TRUE

\* The read that finds the stream ended gives the result: its status is that
\* of the completion queue, which is true, and not that of the call.
ReadStatus(call_ok) == TRUE
=============================================================================
