----------------------------- MODULE ChatClient -----------------------------
(***************************************************************************)
(* The client of an OpenAI endpoint: HttpClient with its curl thread and   *)
(* ChatCompletionClient on top of it (client_backend/openai).              *)
(*                                                                         *)
(* A caller hands a request to Send, which puts it into                    *)
(* new_async_requests_ and wakes the curl thread.  That thread collects    *)
(* the new requests under the mutex, lets curl run the transfers (which    *)
(* calls RequestProvider, ResponseHeaderHandler and ResponseHandler),      *)
(* completes the transfers that are over, and sleeps in curl_multi_poll    *)
(* until it is woken or a transfer has something to do.                    *)
(*                                                                         *)
(* Who uses the client is left open: ResponseHandler and CompleteTransfer  *)
(* are the client's part of the actions that call the caller's             *)
(* response_callback_; PieceResult and FinalResult are what it is called   *)
(* with, in the same step.                                                 *)
(* curl and the server are external; a server's answer is a member of      *)
(* Answers: the status, whether it is an event stream, the pieces in which *)
(* the body arrives and how the transfer ends.                             *)
(***************************************************************************)
EXTENDS Naturals, Sequences

CONSTANTS Requests,     \* the requests that may ever be made
          Answers       \* [code, stream, pieces, end] of the server

Answer == [code : Nat, stream : BOOLEAN, pieces : Seq(STRING), end : STRING]

ASSUME ChatAssumption == Answers \subseteq Answer

VARIABLES new_async_requests,      \* handed over, not yet seen by the thread
          ongoing_async_requests,  \* known to curl
          wakeup,                  \* a curl_multi_wakeup not yet consumed
          exiting,                 \* exiting_
          worker,                  \* where AsyncTransfer is
          http,                    \* the HttpRequest of every request
          infer_stat               \* completed_request_count

chatVars == <<new_async_requests, ongoing_async_requests, wakeup, exiting,
              worker, http, infer_stat>>

\* A request before it is made; body is what the caller's buffer holds.
HttpRequest == [body |-> <<>>, sent |-> FALSE, answer |-> <<>>, got |-> 0,
                is_stream |-> FALSE, response_buffer |-> <<>>,
                final_response_sent |-> FALSE]

\* SendResponse's ChatCompletionResult: the code decides RequestStatus.
Result(code, buffer, is_final, is_null) ==
    [code |-> code, buffer |-> buffer,
     is_final |-> is_final, is_null |-> is_null]
RequestFailed(result) == result.code >= 400 /\ result.code <= 599

ChatInit ==
    /\ new_async_requests = {} /\ ongoing_async_requests = {}
    /\ wakeup = FALSE /\ exiting = FALSE /\ worker = "collect"
    /\ http = [r \in Requests |-> HttpRequest]
    /\ infer_stat = 0

(***************************************************************************)
(* The callers' side.                                                      *)
(***************************************************************************)
\* OpenAiInferInput::AppendRaw: what was assembled before is forgotten.
AppendRaw(input, bytes) == [data_str |-> <<>>,
                            bufs |-> Append(input.bufs, bytes)]

\* OpenAiInferInput::PrepareForRequest: the buffers are joined once.
PrepareForRequest(input) ==
    IF input.data_str # <<>> THEN input
    ELSE [input EXCEPT !.data_str = input.bufs]

\* Mutant: the curl thread is not woken.
SendNoWakeup(r, body) ==
    IF exiting
    THEN UNCHANGED <<new_async_requests, http, wakeup>>
    ELSE /\ new_async_requests' = new_async_requests \cup {r}
         /\ http' = [http EXCEPT ![r] = [HttpRequest EXCEPT !.body = body]]
         /\ UNCHANGED wakeup

\* Under mutex_: the request is left with the curl thread and the thread is
\* woken, unless the client is being destroyed.
Send(r, body) ==
    IF exiting
    THEN UNCHANGED <<new_async_requests, http, wakeup>>
    ELSE /\ new_async_requests' = new_async_requests \cup {r}
         /\ http' = [http EXCEPT ![r] = [HttpRequest EXCEPT !.body = body]]
         /\ wakeup' = TRUE

\* ChatCompletionClient::AsyncInfer with PreRunProcessing: a request whose
\* body is the caller's buffer, with its callbacks and a curl handle.
ClientAsyncInfer(r, body) ==
    /\ Send(r, body)
    /\ UNCHANGED <<ongoing_async_requests, exiting, worker, infer_stat>>

\* OpenAiClientBackend::AsyncInfer: one input, whose assembled body is sent.
AsyncInfer(r, input) ==
    ClientAsyncInfer(r, PrepareForRequest(input).data_str)

\* ~HttpClient, up to worker_.join().
DestroyClient ==
    /\ ~exiting
    /\ exiting' = TRUE /\ wakeup' = TRUE
    /\ UNCHANGED <<new_async_requests, ongoing_async_requests, worker, http,
                   infer_stat>>

(***************************************************************************)
(* The curl thread.                                                        *)
(***************************************************************************)
\* The top of AsyncTransfer's loop, under mutex_.
CollectNewRequests ==
    /\ worker = "collect"
    /\ ongoing_async_requests' = ongoing_async_requests
                                 \cup new_async_requests
    /\ new_async_requests' = {}
    /\ worker' = "perform"
    /\ UNCHANGED <<wakeup, exiting, http, infer_stat>>

Answered(r) == http[r].answer # <<>>

\* GetNextInput: curl has copied the body, if it could connect.
BodyRead(answer) == answer.end # "unreachable"

\* RequestProvider hands the body to curl, and the server
\* makes up its mind; ResponseHeaderHandler sees whether it streams.  The
\* server is external: its answer is any member of Answers.
RequestProvider(r) ==
    /\ worker = "perform" /\ r \in ongoing_async_requests /\ ~Answered(r)
    /\ \E a \in Answers :
          http' = [http EXCEPT ![r].answer = <<a>>,
                               ![r].sent = BodyRead(a),
                               ![r].is_stream = a.stream]
    /\ UNCHANGED <<new_async_requests, ongoing_async_requests, wakeup,
                   exiting, worker, infer_stat>>

\* ResponseHandler: a piece of the body.  A streamed piece is a response of
\* its own, the last one when it holds "data: [DONE]"; the code is still the
\* initial 200.  A piece of a plain answer is kept until the end.
Piece(r) == http[r].answer[1].pieces[http[r].got + 1]
PieceResult(r) ==
    IF ~http[r].is_stream THEN <<>>
    ELSE Result(200, Append(http[r].response_buffer, Piece(r)),
                Piece(r) = "[DONE]", Piece(r) = "[DONE]")
ResponseHandler(r) ==
    /\ worker = "perform" /\ r \in ongoing_async_requests /\ Answered(r)
    /\ http[r].got < Len(http[r].answer[1].pieces)
    /\ http' = [http EXCEPT
         ![r].got = @ + 1,
         ![r].response_buffer = IF http[r].is_stream THEN <<>>
                                ELSE Append(@, Piece(r)),
         ![r].final_response_sent =
            IF http[r].is_stream THEN Piece(r) = "[DONE]" ELSE @]
    /\ UNCHANGED <<new_async_requests, ongoing_async_requests, wakeup,
                   exiting, worker, infer_stat>>

\* What AsyncTransfer makes of the transfer's outcome.
HttpCode(a) == CASE a.end = "complete" -> a.code
                 [] a.end = "timeout" -> 499
                 [] OTHER -> 400

\* UpdateInferStat: a request whose body was never read has no send time
\* and is not counted.
UpdateInferStat(r) == infer_stat + (IF http[r].sent THEN 1 ELSE 0)

\* CURLMSG_DONE: the completion callback counts the request when its timers
\* make sense and sends the final response if none was sent; the request is
\* then erased.
FinalResult(r) ==
    IF http[r].final_response_sent THEN <<>>
    ELSE Result(HttpCode(http[r].answer[1]), http[r].response_buffer, TRUE,
                FALSE)
CompleteTransfer(r) ==
    /\ worker = "perform" /\ r \in ongoing_async_requests /\ Answered(r)
    /\ http[r].got = Len(http[r].answer[1].pieces)
    /\ ongoing_async_requests' = ongoing_async_requests \ {r}
    /\ infer_stat' = UpdateInferStat(r)
    /\ http' = [http EXCEPT ![r].final_response_sent = TRUE,
                            ![r].response_buffer =
                               IF http[r].final_response_sent THEN @ ELSE <<>>]
    /\ UNCHANGED <<new_async_requests, wakeup, exiting, worker>>

\* Nothing more to do for now: curl_multi_poll.
Poll ==
    /\ worker = "perform"
    /\ worker' = "poll"
    /\ UNCHANGED <<new_async_requests, ongoing_async_requests, wakeup,
                   exiting, http, infer_stat>>

\* curl_multi_poll returns: a wakeup, which it consumes, or a transfer that
\* can go on.  Then exiting_ is read, without the mutex; leaving drops
\* every request that is still known.
PollReturns ==
    /\ worker = "poll"
    /\ wakeup \/ ongoing_async_requests # {}
    /\ wakeup' = FALSE
    /\ IF exiting
       THEN /\ worker' = "ended"
            /\ ongoing_async_requests' = {} /\ new_async_requests' = {}
       ELSE /\ worker' = "collect"
            /\ UNCHANGED <<ongoing_async_requests, new_async_requests>>
    /\ UNCHANGED <<exiting, http, infer_stat>>

\* A request the thread has, or will see when it wakes up.
InTransit == new_async_requests \cup ongoing_async_requests

ChatTypeOK ==
    /\ InTransit \subseteq Requests
    /\ wakeup \in BOOLEAN /\ exiting \in BOOLEAN
    /\ worker \in {"collect", "perform", "poll", "ended"}
    /\ infer_stat \in Nat

=============================================================================
