------------------------------ MODULE ChatLoad ------------------------------
(***************************************************************************)
(* Concurrency mode against an OpenAI endpoint: one worker thread and its  *)
(* one InferContext (the model has no sequences) on a ChatClient of its    *)
(* own.  Unlike the responses of LoadWorker, which are always final, the   *)
(* answers here are streamed piece by piece, so AsyncCallbackFuncImpl has  *)
(* to tell the final response of a request from the others.                *)
(***************************************************************************)
EXTENDS ChatClient, FiniteSets, SequencesExt

CONSTANTS Concurrency,  \* contexts' worth of requests kept at the server
          Word          \* total_ongoing_requests_ is a uint modulo Word

ASSUME ChatLoadAssumption == /\ Concurrency \in Nat
                             /\ Word \in Nat \ {0}

VARIABLES load,         \* where the worker thread is
          early_exit,   \* SIGINT
          free,         \* context ids in the tracker
          notified,     \* notified_: a callback has returned an id
          sent,         \* the requests made so far, in order
          async_req_map,    \* of every request: its responses, or none
          total_ongoing_requests,
          cb_status,    \* thread_stat_->cb_status_ is ok
          request_records

loadVars == <<load, early_exit, free, notified, sent, async_req_map,
              total_ongoing_requests, cb_status, request_records>>
vars == <<chatVars, loadVars>>

Absent == [known |-> FALSE, responses |-> <<>>]

Init ==
    /\ ChatInit
    /\ load = "run" /\ early_exit = FALSE
    /\ free = Concurrency /\ notified = FALSE /\ sent = <<>>
    /\ async_req_map = [r \in Requests |-> Absent]
    /\ total_ongoing_requests = 0
    /\ cb_status = TRUE
    /\ request_records = <<>>

(***************************************************************************)
(* The worker thread.                                                      *)
(***************************************************************************)
\* ShouldExit: interrupted, failed, or the request count is reached.
ShouldExit == early_exit \/ ~cb_status \/ Len(sent) = Cardinality(Requests)

\* InferContext::SendRequest up to the call of the backend: a record is
\* prepared under the request's id and the request is left with the client.
SendRequest(r) ==
    /\ load = "run" /\ ~ShouldExit /\ free > 0
    /\ r = Len(sent) + 1
    /\ free' = free - 1
    /\ sent' = Append(sent, r)
    /\ async_req_map' = [async_req_map EXCEPT
         ![r] = [known |-> TRUE, responses |-> <<>>]]
    /\ AsyncInfer(r, AppendRaw([data_str |-> <<>>, bufs |-> <<>>], r))
    /\ load' = "count"
    /\ UNCHANGED <<early_exit, notified, total_ongoing_requests, cb_status,
                   request_records>>

\* The end of SendRequest: the answer may have come before it.
CountRequest ==
    /\ load = "count"
    /\ total_ongoing_requests' = (total_ongoing_requests + 1) % Word
    /\ load' = "run"
    /\ UNCHANGED <<chatVars, early_exit, free, notified, sent, async_req_map,
                   cb_status, request_records>>

\* HandleExitConditions: WaitForOngoingRequests begins.
HandleExit ==
    /\ load = "run" /\ ShouldExit
    /\ load' = "drain"
    /\ UNCHANGED <<chatVars, early_exit, free, notified, sent, async_req_map,
                   total_ongoing_requests, cb_status, request_records>>

\* SendInferRequests has used up the ids: WaitForResponses.
WaitForResponses ==
    /\ load = "run" /\ ~ShouldExit /\ free = 0
    /\ load' = "wait"
    /\ UNCHANGED <<chatVars, early_exit, free, notified, sent, async_req_map,
                   total_ongoing_requests, cb_status, request_records>>

\* cb_cv_.wait returns; SIGINT alone does not end it.
ResponseNotified ==
    /\ load = "wait" /\ notified
    /\ load' = "run" /\ notified' = FALSE
    /\ UNCHANGED <<chatVars, early_exit, free, sent, async_req_map,
                   total_ongoing_requests, cb_status, request_records>>

\* The polling of WaitForOngoingRequests ends when the counter is zero.
WaitForOngoingRequests ==
    /\ load = "drain" /\ total_ongoing_requests = 0
    /\ load' = "joined"
    /\ UNCHANGED <<chatVars, early_exit, free, notified, sent, async_req_map,
                   total_ongoing_requests, cb_status, request_records>>

\* The context, and with it its client, is destroyed.
DestroyContext == load = "joined" /\ DestroyClient /\ UNCHANGED loadVars

Interrupt ==
    /\ ~early_exit /\ load # "joined"
    /\ early_exit' = TRUE
    /\ UNCHANGED <<chatVars, load, free, notified, sent, async_req_map,
                   total_ongoing_requests, cb_status, request_records>>

(***************************************************************************)
(* AsyncCallbackFuncImpl, in the curl thread.                              *)
(***************************************************************************)
\* Mutant: the request is not looked up in the map.
IsKnownAlways(r, result) == cb_status /\ ~RequestFailed(result)

\* What the result does to the status, the map and the records: only a
\* response of a request that is still in the map is looked at.
IsKnown(r, result) == /\ cb_status /\ ~RequestFailed(result)
                      /\ async_req_map[r].known

\* Mutant: every response is taken for the final one.
IsFinalResponseAlways(r, result) == TRUE

\* is_final_response stays true unless a known request says otherwise.
IsFinalResponse(r, result) == IsKnown(r, result) => result.is_final

\* Mutant: a counter that is allowed to become negative.
DecrementedSigned(n) == n - 1

\* An atomic<uint> wraps.
Decremented(n) == (n + Word - 1) % Word

\* The whole callback, finalize function included; <<>> stands for no call.
\* A validation failure of the outputs is an error of the result here.
AsyncCallback(r, result) ==
    IF result = <<>> THEN UNCHANGED loadVars
    ELSE
    /\ cb_status' = (cb_status /\ ~RequestFailed(result))
    /\ LET got == Append(async_req_map[r].responses, result.buffer) IN
       IF ~IsKnown(r, result) THEN UNCHANGED <<async_req_map,
                                               request_records>>
       ELSE IF result.is_final
       THEN /\ request_records' = Append(request_records,
                                         [id |-> r, responses |-> got])
            /\ async_req_map' = [async_req_map EXCEPT ![r] = Absent]
       ELSE /\ async_req_map' = [async_req_map EXCEPT ![r].responses = got]
            /\ UNCHANGED request_records
    /\ IF IsFinalResponse(r, result)
       THEN /\ total_ongoing_requests' =
                 Decremented(total_ongoing_requests)
            /\ free' = free + 1 /\ notified' = TRUE
       ELSE UNCHANGED <<total_ongoing_requests, free, notified>>
    /\ UNCHANGED <<load, early_exit, sent>>

WorkerThread == \/ \E r \in Requests : SendRequest(r)
                \/ CountRequest \/ WaitForResponses \/ ResponseNotified
                \/ HandleExit \/ WaitForOngoingRequests
                \/ DestroyContext
Transfer(r) == \/ RequestProvider(r) /\ UNCHANGED loadVars
               \/ ResponseHandler(r) /\ AsyncCallback(r, PieceResult(r))
               \/ CompleteTransfer(r) /\ AsyncCallback(r, FinalResult(r))
CurlLoop == (CollectNewRequests \/ Poll \/ PollReturns)
            /\ UNCHANGED loadVars

Next == \/ WorkerThread \/ Interrupt \/ CurlLoop
        \/ \E r \in Requests : Transfer(r)

\* Threads are scheduled, and the server ends every transfer.
Fairness == /\ WF_vars(WorkerThread) /\ WF_vars(CurlLoop)
            /\ \A r \in Requests : SF_vars(Transfer(r))

Spec == Init /\ [][Next]_vars /\ Fairness

(***************************************************************************)
(* Properties.                                                             *)
(***************************************************************************)
\* Every variable has its type.
ChatLoadTypeOK ==
    /\ ChatTypeOK
    /\ load \in {"run", "count", "wait", "drain", "joined"}
    /\ free \in Nat /\ total_ongoing_requests \in 0..(Word - 1)
    /\ async_req_map \in [Requests -> [known : BOOLEAN,
                                       responses : Seq(Seq(STRING))]]

\* The pieces of an answer that make up its responses: all of them and the
\* completion, or those up to "[DONE]".
Responses(r) ==
    LET a == http[r].answer[1]
        done == {n \in DOMAIN a.pieces : a.pieces[n] = "[DONE]"}
    IN IF ~a.stream THEN <<a.pieces>>
       ELSE IF done # {}
       THEN [n \in 1..(CHOOSE n \in done : \A o \in done : n <= o) |->
               <<a.pieces[n]>>]
       ELSE [n \in DOMAIN a.pieces |-> <<a.pieces[n]>>] \o << <<>> >>

\* The answers of several requests arrive interleaved and some go on after
\* their final response, yet a request has one record at most, and the
\* record holds its own responses, all of them and in their order.
RecordFaithful ==
    \A n \in DOMAIN request_records :
        /\ request_records[n].responses = Responses(request_records[n].id)
        /\ \A o \in DOMAIN request_records :
             request_records[o].id = request_records[n].id => o = n

\* A piece that curl delivers after the one with "[DONE]".
Surplus(r) == /\ Answered(r) /\ http[r].is_stream
              /\ \E n \in 1..(http[r].got - 1) :
                    http[r].answer[1].pieces[n] = "[DONE]"

\* Nothing has failed and no stream went on after its end.
Orderly == cb_status /\ \A r \in Requests : ~Surplus(r)

\* Requests that have not been answered to the end.
Outstanding == {r \in ToSet(sent) : ~http[r].final_response_sent}

\* As long as all is orderly, the counter is the number of requests that
\* are out, whenever it is read, and together with the free context ids
\* they make up the concurrency.
CountedWhileOrderly ==
    Orderly =>
        /\ total_ongoing_requests =
             (Cardinality(Outstanding)
              + Word - (IF load = "count" THEN 1 ELSE 0)) % Word
        /\ free + Cardinality(Outstanding) = Concurrency

\* What InferContext keeps of the requests agrees with what the client sent
\* and received: the records always (RecordFaithful), the counter of ongoing
\* requests until something fails (CountedWhileOrderly).
BookkeepingFaithful == RecordFaithful /\ CountedWhileOrderly

\* GetNumOngoingRequests: "Returns the total number of async requests that
\* have been sent by this object and have not returned".
OngoingIsOutstanding ==
    load # "count" => total_ongoing_requests = Cardinality(Outstanding)

\* A run in which all stays orderly ends: after the last request or SIGINT
\* the worker waits for the answers that are out and is joined, and the
\* curl thread ends with the client.
OrderlyRunEnds == [](Orderly => <>(~Orderly \/ worker = "ended"))

=============================================================================
