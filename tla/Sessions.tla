------------------------------ MODULE Sessions ------------------------------
(***************************************************************************)
(* Session concurrency mode: SessionConcurrencyManager with its threads,   *)
(* RequestHandler with the response callback, and PayloadDatasetManager    *)
(* (src/session_concurrency).  All threads share one ChatClient, so the    *)
(* responses of all sessions are handled in one curl thread.               *)
(*                                                                         *)
(* A message is a tuple: <<"user", k, j>> is the j-th message of payload   *)
(* k, <<"assistant", k>> the reply to it.  A request is known by the index *)
(* of its payload in the data set.  An exception that leaves a session     *)
(* thread or the curl thread ends the program (std::terminate).            *)
(***************************************************************************)
EXTENDS ChatClient, FiniteSets, SequencesExt

CONSTANTS Threads,      \* the session concurrencies that are tried
          Data,         \* of every payload: its session and its messages
          Flaws         \* which payloads lack messages, which a delay

VARIABLES concurrency,  \* session_concurrency_
          malformed,    \* payloads without a usable "messages" array
          undelayed,    \* payloads without a "delay"
          main,         \* where Start is
          order,        \* all_session_payloads
          next_session_index,
          thread,       \* per thread: pc, session, i and chat_history
          promise,      \* per thread: response_promise is set
          records,      \* all_threads_request_records_
          terminated    \* std::terminate

dataVars == <<concurrency, malformed, undelayed, order>>
sessionVars == <<concurrency, malformed, undelayed, main, order,
                 next_session_index, thread, promise, records, terminated>>
chatSessionVars == <<chatVars, sessionVars>>

SessionIds == {Data[k].session : k \in DOMAIN Data}

\* A request is made for each payload, and a concurrency that the sessions
\* allow has its threads.
ASSUME SessionsAssumption ==
    /\ Len(Data) \in Nat /\ DOMAIN Data = 1 .. Len(Data)
    /\ \A k \in DOMAIN Data : Data[k].messages \in Nat
    /\ Requests = DOMAIN Data
    /\ Threads \subseteq Nat \ {0}
    /\ \A c \in Threads :
           c <= Cardinality(SessionIds) => 1 .. c \subseteq Threads

\* CreateSessionIdToPayloadsMap: the payloads of a session, in file order.
SessionPayloads(s) ==
    LET upTo[k \in 0 .. Len(Data)] ==
            IF k = 0 THEN <<>>
            ELSE IF Data[k].session = s THEN Append(upTo[k - 1], k)
            ELSE upTo[k - 1]
    IN  upTo[Len(Data)]

\* A payload's messages.
Messages(k) == [j \in 1..Data[k].messages |-> <<"user", k, j>>]
Reply(k) == <<"assistant", k>>

SessionsInit ==
    /\ ChatInit
    /\ concurrency \in Threads
    /\ \E flaws \in Flaws : /\ malformed = flaws.malformed
                            /\ undelayed = flaws.undelayed
    /\ main = "start" /\ order = <<>> /\ next_session_index = 0
    /\ thread = [t \in Threads |-> [pc |-> "none", session |-> 0, i |-> 0,
                                    chat_history |-> <<>>]]
    /\ promise = [t \in Threads |-> FALSE]
    /\ records = [t \in Threads |-> <<>>]
    /\ terminated = FALSE

Terminate ==
    /\ terminated' = TRUE
    /\ UNCHANGED <<dataVars, main, next_session_index, thread, promise,
                   records>>

(***************************************************************************)
(* The manager and its threads.                                            *)
(***************************************************************************)
\* GroupPayloadsBySession: an unordered_map, so the sessions come in any
\* order.
GroupPayloadsBySession ==
    {[n \in DOMAIN ids |-> SessionPayloads(ids[n])] :
        ids \in SetToSeqs(SessionIds)}

\* MakeAndWaitForThreads up to the join; fewer sessions than threads are an
\* exception of the main thread.
MakeThreads ==
    /\ main = "start"
    /\ order' \in GroupPayloadsBySession
    /\ IF Len(order') < concurrency
       THEN main' = "threw" /\ UNCHANGED thread
       ELSE /\ main' = "join"
            /\ thread' = [t \in Threads |->
                 [thread[t] EXCEPT !.pc = IF t <= concurrency THEN "next"
                                          ELSE "none"]]
    /\ UNCHANGED <<chatVars, concurrency, malformed, undelayed,
                   next_session_index, promise, records, terminated>>

\* Mutant: the loop is not left when the sessions are used up.
NextSessionNoBreak(t) ==
    /\ thread[t].pc = "next"
    /\ next_session_index' = next_session_index + 1
    /\ thread' = [thread EXCEPT ![t] =
         IF next_session_index >= Len(order) THEN @
         ELSE [pc |-> "send", session |-> next_session_index + 1, i |-> 1,
               chat_history |-> <<>>]]
    /\ UNCHANGED <<chatVars, dataVars, main, promise, records, terminated>>

\* ProcessSessionsUntilComplete: the index is fetched and advanced in one
\* atomic step.
NextSession(t) ==
    /\ thread[t].pc = "next"
    /\ next_session_index' = next_session_index + 1
    /\ thread' = [thread EXCEPT ![t] =
         IF next_session_index >= Len(order)
         THEN [@ EXCEPT !.pc = "ended"]
         ELSE [pc |-> "send", session |-> next_session_index + 1, i |-> 1,
               chat_history |-> <<>>]]
    /\ UNCHANGED <<chatVars, dataVars, main, promise, records, terminated>>

Payload(t) == order[thread[t].session][thread[t].i]

\* Mutant: off by one, the last request of a session is not sent.
IsLastRequestEarly(t) == thread[t].i >= Len(order[thread[t].session]) - 1

IsLastRequest(t) == thread[t].i = Len(order[thread[t].session])

\* Mutant: the payload is sent as it stands in the file.
UpdateHistoryOwnOnly(t) == Messages(Payload(t))

\* UpdateHistoryAndAddToPayload: the payload's messages join the history,
\* and the whole history becomes the payload's messages.
UpdateHistory(t) == thread[t].chat_history \o Messages(Payload(t))

\* The request record: what was sent and what has come back.
Record(k, body) == [index |-> k, payload |-> body, responses |-> <<>>]

\* SendRequestAndWaitForResponse up to the wait: a new record, a new input
\* and promise, and the request is left with the client.
SendSessionRequest(t) ==
    /\ thread[t].pc = "send"
    /\ IF Payload(t) \in malformed
       THEN Terminate /\ UNCHANGED chatVars
       ELSE /\ records' = [records EXCEPT ![t] =
                 Append(@, Record(Payload(t), UpdateHistory(t)))]
            /\ promise' = [promise EXCEPT ![t] = FALSE]
            /\ AsyncInfer(Payload(t),
                          AppendRaw([data_str |-> <<>>, bufs |-> <<>>],
                                    UpdateHistory(t)))
            /\ thread' = [thread EXCEPT ![t].pc = "wait",
                             ![t].chat_history = UpdateHistory(t)]
            /\ UNCHANGED <<dataVars, main, next_session_index, terminated>>

\* Mutant: the future is not waited for.
WaitForResponseNot(t) ==
    /\ thread[t].pc = "wait"
    /\ thread' = [thread EXCEPT ![t].pc = IF IsLastRequest(t) THEN "next"
                                          ELSE "delay"]
    /\ UNCHANGED <<chatVars, dataVars, main, next_session_index, promise,
                   records, terminated>>

\* Mutant: the delay is asked for after the last request too.
WaitForResponseAlwaysDelay(t) ==
    /\ thread[t].pc = "wait" /\ promise[t]
    /\ thread' = [thread EXCEPT ![t].pc = "delay"]
    /\ UNCHANGED <<chatVars, dataVars, main, next_session_index, promise,
                   records, terminated>>

\* response_future.get() returns, and the session goes on or is over.
WaitForResponse(t) ==
    /\ thread[t].pc = "wait" /\ promise[t]
    /\ thread' = [thread EXCEPT ![t].pc = IF IsLastRequest(t) THEN "next"
                                          ELSE "delay"]
    /\ UNCHANGED <<chatVars, dataVars, main, next_session_index, promise,
                   records, terminated>>

\* Between two requests the payload's delay is slept; it must be given.
GetAndWaitForDelay(t) ==
    /\ thread[t].pc = "delay"
    /\ IF Payload(t) \in undelayed
       THEN Terminate
       ELSE /\ thread' = [thread EXCEPT ![t].pc = "send", ![t].i = @ + 1]
            /\ UNCHANGED <<dataVars, main, next_session_index, promise,
                           records, terminated>>
    /\ UNCHANGED chatVars

\* Every thread is joined and the records are gathered.
JoinThreads ==
    /\ main = "join"
    /\ \A t \in 1..concurrency : thread[t].pc = "ended"
    /\ main' = "joined"
    /\ UNCHANGED <<chatVars, dataVars, next_session_index, thread, promise,
                   records, terminated>>

\* The RequestHandler goes with the manager, and its client with it.
DestroyManager ==
    /\ main = "joined" /\ DestroyClient
    /\ UNCHANGED sessionVars

\* GetRequestRecords: the threads' records one after the other.
GetRequestRecords == FlattenSeq([t \in 1..concurrency |-> records[t]])

(***************************************************************************)
(* The response callback, in the curl thread.                              *)
(***************************************************************************)
\* GetResponseDocument and GetMessage accept a whole completion only.
IsCompletion(buffer) == buffer = <<"{choices:", "message}">>

Waiting(k) == CHOOSE t \in Threads : thread[t].pc = "wait" /\ Payload(t) = k

\* PrepareCallback's lambda; <<>> stands for no call.
Callback(k, result) ==
    IF result = <<>> THEN UNCHANGED sessionVars
    ELSE IF RequestFailed(result) \/ ~IsCompletion(result.buffer)
    THEN Terminate
    ELSE LET t == Waiting(k) IN
         /\ records' = [records EXCEPT
              ![t][Len(records[t])].responses = Append(@, result.buffer)]
         /\ thread' = [thread EXCEPT ![t].chat_history = Append(@, Reply(k))]
         /\ promise' = [promise EXCEPT ![t] = TRUE]
         /\ UNCHANGED <<dataVars, main, next_session_index, terminated>>

Thread(t) == NextSession(t) \/ SendSessionRequest(t) \/ WaitForResponse(t)
             \/ GetAndWaitForDelay(t)
Main == MakeThreads \/ JoinThreads \/ DestroyManager
SessionTransfer(r) ==
    \/ RequestProvider(r) /\ UNCHANGED sessionVars
    \/ ResponseHandler(r) /\ Callback(r, PieceResult(r))
    \/ CompleteTransfer(r) /\ Callback(r, FinalResult(r))
SessionCurlLoop == (CollectNewRequests \/ Poll \/ PollReturns)
                   /\ UNCHANGED sessionVars

SessionsNext ==
    /\ ~terminated
    /\ \/ Main \/ SessionCurlLoop
       \/ \E t \in Threads : Thread(t)
       \/ \E r \in Requests : SessionTransfer(r)

\* Threads are scheduled, and the server ends every transfer: curl is given
\* no time limit by this client.
SessionsFairness ==
    /\ WF_chatSessionVars(~terminated /\ Main)
    /\ WF_chatSessionVars(~terminated /\ SessionCurlLoop)
    /\ \A t \in Threads : WF_chatSessionVars(~terminated /\ Thread(t))
    /\ \A r \in Requests :
          SF_chatSessionVars(~terminated /\ SessionTransfer(r))

SessionsSpec ==
    /\ SessionsInit /\ [][SessionsNext]_chatSessionVars
    /\ SessionsFairness

(***************************************************************************)
(* Properties.                                                             *)
(***************************************************************************)
\* Every variable has its type.
SessionsTypeOK ==
    /\ ChatTypeOK
    /\ main \in {"start", "join", "joined", "threw"}
    /\ next_session_index \in 0..(Len(Data) + Cardinality(Threads))
    /\ \A t \in Threads :
          thread[t].pc \in {"none", "next", "send", "wait", "delay", "ended"}
    /\ promise \in [Threads -> BOOLEAN] /\ terminated \in BOOLEAN

\* The callback holds a reference into the thread's vector of records and
\* to its chat history until the transfer is over: while a request is with
\* the client and not answered, its record is the last one of a thread that
\* waits, so no later emplace_back can have moved it.
RecordAlive ==
    \A r \in InTransit : http[r].final_response_sent \/
        \E t \in Threads : /\ thread[t].pc = "wait"
                           /\ Last(records[t]).index = r
                           /\ Last(records[t]).payload = http[r].body[1]

\* What the threads recorded, whoever served a session: when all have been
\* joined, every payload of the file was sent once and has one response.
RecordsComplete ==
    main = "joined" =>
        /\ Len(GetRequestRecords) = Len(Data)
        /\ \A k \in DOMAIN Data : \E n \in DOMAIN GetRequestRecords :
              /\ GetRequestRecords[n].index = k
              /\ Len(GetRequestRecords[n].responses) = 1
        /\ infer_stat = Len(Data)

\* No record is lost: while its request is out (RecordAlive), and when the
\* threads are joined (RecordsComplete).
RecordsKept == RecordAlive /\ RecordsComplete

\* One session's trouble ends the whole program, but nothing else does: a
\* payload without messages, one without a delay although its session goes
\* on, or an answer that is no completion.
DiesOnlyOfFault ==
    terminated =>
        \/ malformed # {}
        \/ \E k \in undelayed : k # Last(SessionPayloads(Data[k].session))
        \/ \E r \in Requests : Answered(r) /\
             ~ (/\ http[r].answer[1].end = "complete"
                /\ http[r].answer[1].code = 200
                /\ ~http[r].answer[1].stream
                /\ IsCompletion(http[r].answer[1].pieces))

\* The sessions some thread is in the middle of, by their ids.
OpenSessions == {Data[order[thread[t].session][1]].session :
                    t \in {u \in Threads :
                            thread[u].pc \in {"send", "wait", "delay"}}}

SessionRecords(s) ==
    {rec \in UNION {ToSet(records[t]) : t \in Threads} :
        Data[rec.index].session = s}

\* What the server has been told of a session and has said itself: the body
\* of the latest request and the responses to it.
Talk(s) ==
    IF SessionRecords(s) = {} THEN <<>>
    ELSE LET rec == CHOOSE rec \in SessionRecords(s) :
                      \A other \in SessionRecords(s) :
                          other.index <= rec.index
         IN http[rec.index].body[1]
            \o [n \in DOMAIN rec.responses |-> Reply(rec.index)]

\* What the payloads of every session say, and the replies to them.
TurnsOfSession ==
    [s \in SessionIds |-> [i \in DOMAIN SessionPayloads(s) |->
                             Messages(SessionPayloads(s)[i])]]
RepliesOfSession ==
    [s \in SessionIds |-> [i \in DOMAIN SessionPayloads(s) |->
                             Reply(SessionPayloads(s)[i])]]

Pool == INSTANCE SessionPool WITH
          Sessions <- SessionIds,
          Turns <- TurnsOfSession,
          Replies <- RepliesOfSession,
          talk <- [s \in SessionIds |-> Talk(s)],
          turn <- [s \in SessionIds |-> Cardinality(SessionRecords(s))],
          open <- OpenSessions,
          limit <- concurrency,
          failed <- terminated \/ main = "threw"

\* The threads, the shared client and the curl thread implement the pool of
\* sessions: the requests of a session are sent in file order, each after
\* the reply to the one before and with the whole conversation, no more
\* sessions are open than asked for, and unless the program dies every
\* session is held to its end.
ImplementsPool == Pool!PoolSpec

=============================================================================
