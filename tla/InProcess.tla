----------------------------- MODULE InProcess -----------------------------
(***************************************************************************)
(* The server inside the process: TritonLoader opens libtritonserver.so,   *)
(* starts a server, waits for it and for its model, and hands it the       *)
(* requests of all worker threads; TritonCApiClientBackend is the thin     *)
(* layer the contexts call.  The server answers on threads of its own,     *)
(* through callbacks that may run before the call that sent the request    *)
(* has returned.                                                           *)
(***************************************************************************)
EXTENDS Naturals, Sequences, FiniteSets

CONSTANTS
    Threads,        \* the worker threads, one context each
    Jobs,           \* how the contexts call the backend: see JobsOK
    MaxRequests,    \* bound: requests of the run
    MaxResponses,   \* bound: responses of a decoupled request
    HealthIters,    \* polls before giving up, 10 in the code
    SizeLimit       \* 2^width of size_t

Requests == 1 .. MaxRequests

\* sync: Infer or AsyncInfer; enable_stats, decoupled: of a stream; memory:
\* the type of the registered output region ("none": outputs are on the heap);
\* size: its bytes; need: the bytes of the output.  A decoupled model is
\* refused unless the requests are asynchronous.
JobsOK ==
    /\ Jobs \subseteq [sync : BOOLEAN, enable_stats : BOOLEAN,
                       decoupled : BOOLEAN, memory : {"none", "cpu", "gpu"},
                       size : Nat, need : Nat]
    /\ \A j \in Jobs : j.decoupled => ~j.sync

ASSUME JobsAssumption == JobsOK

ASSUME SizesAssumption ==
    /\ IsFiniteSet(Threads)
    /\ MaxRequests \in Nat
    /\ MaxResponses \in Nat \ {0}
    /\ HealthIters \in Nat \ {0}
    /\ SizeLimit \in Nat \ {0}

VARIABLES
    job,
    main,      \* the main thread: its place and the polls it has made
    loader,    \* the singleton: handles, server, flags, allocator
    shm,       \* shared_memory_map_: the registered memory types
    thread,    \* worker threads: place, request, statistics read
    req,       \* the requests and what hangs on them
    stat,      \* infer_stat_.completed_request_count
    mutex,     \* update_infer_stat_mutex_: the request holding it, or 0
    counted,   \* history: successful calls of UpdateInferStat
    faults     \* history: requests whose freed memory was used

vars == <<job, main, loader, shm, thread, req, stat, mutex, counted, faults>>
serving == <<stat, mutex, counted, faults>>

NoHandles == [handles |-> FALSE, server |-> FALSE, server_is_ready |-> FALSE,
              model_is_loaded |-> FALSE, allocator |-> FALSE]

NoResponse == [at |-> "none", failed |-> FALSE, final |-> FALSE,
               timed |-> FALSE, seen |-> 0]

\* A request not made yet: irequest is the server's object, info the
\* AsyncRequestInfo with its AllocPayload, or the promise of Infer; got is
\* what the caller was given, sent what the server answered.
NewRequest ==
    [by |-> 0, irequest |-> "none",
     info |-> "none", held |-> FALSE, timed |-> FALSE, answered |-> FALSE,
     resp |-> NoResponse, sent |-> <<>>, got |-> <<>>]

Init ==
    /\ job \in Jobs
    /\ main = [pc |-> "create", iters |-> 0]
    /\ loader = NoHandles
    /\ shm = {}
    /\ thread = [t \in Threads |-> [pc |-> "idle", req |-> 0, seen |-> 0,
                                    stat |-> 0]]
    /\ req = [r \in Requests |-> NewRequest]
    /\ stat = 0 /\ mutex = 0 /\ counted = 0 /\ faults = {}

----------------------------------------------------------------------------
(* The main thread: TritonCApiClientBackend::Create, LoadModel, shared     *)
(* memory, the run, and the end of the process.                            *)

\* LoadServerLibrary: the library is opened and every entry point looked up;
\* the handles are set only when none is missing.
LoadServerLibrary(found) ==
    IF found THEN [NoHandles EXCEPT !.handles = TRUE] ELSE NoHandles

\* Create: with no ready server the handles are cleared, the paths and the
\* library checked, and a server made with options that may be refused.
Create ==
    /\ main.pc = "create"
    /\ \E paths, found, version, made \in BOOLEAN :
        /\ loader' =
             IF ~paths THEN NoHandles
             ELSE [LoadServerLibrary(found) EXCEPT
                     !.server = found /\ version /\ made]
        /\ main' = [main EXCEPT !.pc = IF loader'.server THEN "wait_server"
                                                         ELSE "failed"]
    /\ UNCHANGED <<job, shm, thread, req, serving>>

\* A poll of the server's or the model's health: ready, an error of the call,
\* or one iteration more.
Poll(ready, error, next) ==
    IF error THEN [main EXCEPT !.pc = "failed"]
    ELSE IF ready THEN [pc |-> next, iters |-> 0]
    ELSE IF main.iters + 1 >= HealthIters THEN [main EXCEPT !.pc = "failed"]
    ELSE [main EXCEPT !.iters = @ + 1]

\* StartTriton waits until the server is live and ready.
WaitServer ==
    /\ main.pc = "wait_server"
    /\ \E live, ready, error \in BOOLEAN :
        /\ main' = Poll(live /\ ready, error, "allocator")
        /\ loader' = [loader EXCEPT
             !.server_is_ready = main'.pc = "allocator"]
    /\ UNCHANGED <<job, shm, thread, req, serving>>

\* The end of StartTriton: server_is_ready_ stays set when this fails.
NewAllocator ==
    /\ main.pc = "allocator"
    /\ \E ok \in BOOLEAN :
        /\ loader' = [loader EXCEPT !.allocator = ok]
        /\ main' = [main EXCEPT !.pc = IF ok THEN "load" ELSE "failed"]
    /\ UNCHANGED <<job, shm, thread, req, serving>>

\* LoadModel, called by the backend's ModelMetadata, which drops its error:
\* the loader then refuses to give the metadata of a model not loaded.
LoadModel ==
    /\ main.pc = "load"
    /\ \E version, ready, error \in BOOLEAN :
        /\ main' = Poll(ready, error \/ ~version, "metadata")
        /\ loader' = [loader EXCEPT
             !.model_is_loaded = main'.pc = "metadata"]
    /\ UNCHANGED <<job, shm, thread, req, serving>>

\* ModelMetadata checks name and version, ModelConfig and ServerExtensions
\* need a ready server; any of their calls may fail.
ModelMetadata ==
    /\ main.pc = "metadata"
    /\ \E ok \in BOOLEAN :
        main' = [main EXCEPT
          !.pc = IF ~(/\ ok /\ loader.model_is_loaded
                      /\ loader.server_is_ready) THEN "failed"
                 ELSE IF job.memory = "none" THEN "run" ELSE "register"]
    /\ UNCHANGED <<job, loader, shm, thread, req, serving>>

\* RegisterSystemMemory, RegisterCUDAMemory: a name registered before is
\* refused.
RegisterMemory ==
    /\ main.pc = "register"
    /\ IF job.memory \in shm
       THEN shm' = shm /\ main' = [main EXCEPT !.pc = "failed"]
       ELSE /\ shm' = shm \cup {job.memory}
            /\ main' = [main EXCEPT !.pc = "run"]
    /\ UNCHANGED <<job, loader, thread, req, serving>>

Quiet ==
    /\ \A t \in Threads : thread[t].pc \in {"idle", "stopped"}
    /\ \A r \in Requests : req[r].held => req[r].answered

\* UnregisterAllSharedMemory asks twice for the GPU regions.
UnregisterAllSharedMemory ==
    /\ main.pc = "run" /\ Quiet
    /\ shm' = shm \ {"gpu"}
    /\ main' = [main EXCEPT !.pc = "exit"]
    /\ UNCHANGED <<job, loader, thread, req, serving>>

\* ~TritonLoader: the allocator is deleted, Delete gives up the server, which
\* waits for its own work, and the library is closed.
Delete ==
    /\ main.pc \in {"exit", "failed"}
    /\ \A r \in Requests : req[r].held => req[r].irequest = "deleted"
    /\ loader' = NoHandles
    /\ main' = [main EXCEPT !.pc = "end"]
    /\ UNCHANGED <<job, shm, thread, req, serving>>

----------------------------------------------------------------------------
(* The worker threads: Infer and AsyncInfer.                               *)

\* GetMemoryInfo of a whole region: its offset is 0 in every request.  The
\* last byte of an empty region is computed modulo SizeLimit.
GetMemoryInfo(size) ==
    LET region_end == IF size > 0 THEN size - 1 ELSE 0
    IN  /\ job.memory \in shm
        /\ (size + SizeLimit - 1) % SizeLimit <= region_end

\* ResponseAlloc: an output in a registered region must fit it; the outputs
\* of AsyncInfer, whose payload names no region, are put on the heap.
ResponseAlloc == job.sync /\ job.memory # "none" => job.need <= job.size

\* InitializeRequest, AddInputs, AddOutputs and the regions of the outputs:
\* what has been made of a request that is given up is not deleted.
Prepare(t) ==
    /\ main.pc = "run" /\ thread[t].pc = "idle"
    /\ \E r \in Requests, made, ok \in BOOLEAN :
        LET fits == job.memory = "none" \/ ~job.sync \/ GetMemoryInfo(job.size)
            go == made /\ ok /\ fits /\ loader.server_is_ready
                       /\ loader.model_is_loaded
        IN  /\ \A s \in Requests : s < r <=> req[s] # NewRequest
            /\ req' = [req EXCEPT
                 ![r].by = t,
                 ![r].irequest = IF made THEN "live" ELSE "none",
                 ![r].info = IF go THEN "live" ELSE "none"]
            /\ thread' = [thread EXCEPT
                 ![t].pc = IF go THEN "submit" ELSE "stopped",
                 ![t].req = r]
    /\ UNCHANGED <<job, main, loader, shm, serving>>

\* infer_async_fn_: the server takes the request, or refuses it.
Submit(t) ==
    /\ thread[t].pc = "submit"
    /\ \E ok \in BOOLEAN :
        /\ req' = [req EXCEPT ![thread[t].req].held = ok]
        /\ thread' = [thread EXCEPT ![t].pc = IF ok THEN "sent"
                                                    ELSE "stopped"]
    /\ UNCHANGED <<job, main, loader, shm, serving>>

Touched(r) == IF req[r].info = "live" THEN faults ELSE faults \cup {r}

SendEndOfInfo(t) ==
    /\ thread[t].pc = "sent"
    /\ req' = [req EXCEPT ![thread[t].req].timed = TRUE]
    /\ faults' = Touched(thread[t].req)
    /\ thread' = [thread EXCEPT ![t].pc = IF job.sync THEN "wait"
                                                      ELSE "idle"]
    /\ UNCHANGED <<job, main, loader, shm, stat, mutex, counted>>

\* SEND_END is captured after the server has the request: through the shared
\* timer, not through the AsyncRequestInfo, which may be gone by then.
SendEnd(t) ==
    /\ thread[t].pc = "sent"
    /\ req' = [req EXCEPT ![thread[t].req].timed = TRUE]
    /\ thread' = [thread EXCEPT ![t].pc = IF job.sync THEN "wait"
                                                      ELSE "idle"]
    /\ UNCHANGED <<job, main, loader, shm, serving>>

\* Infer, once the future has its value: a failed response is returned as an
\* error, after CleanUp (ScopedDefer); otherwise UpdateInferStat begins, here
\* without the mutex.
GetCompleted(t) ==
    LET r == thread[t].req
    IN  /\ thread[t].pc = "wait" /\ req[r].resp.at = "value"
        /\ req' = [req EXCEPT ![r].resp = NoResponse, ![r].answered = TRUE,
                              ![r].got = <<[failed |-> req[r].resp.failed,
                                              final |-> TRUE]>>]
        /\ thread' = [thread EXCEPT
             ![t].pc = IF req[r].resp.failed THEN "stopped" ELSE "update",
             ![t].seen = stat]
        /\ UNCHANGED <<job, main, loader, shm, serving>>

\* The end of UpdateInferStat in Infer, and ClientInferStat, which gives
\* every context the totals of the singleton.
UpdateInferStat(t) ==
    /\ thread[t].pc = "update"
    /\ stat' = thread[t].seen + 1 /\ counted' = counted + 1
    /\ thread' = [thread EXCEPT ![t].pc = "idle", ![t].stat = stat']
    /\ UNCHANGED <<job, main, loader, shm, req, mutex, faults>>

----------------------------------------------------------------------------
(* The server's threads.                                                   *)

IsFinalAlways(final) == TRUE

\* is_final_response: flags == TRITONSERVER_RESPONSE_COMPLETE_FINAL.
IsFinal(final) == final

\* The server sends a response: one at a time for a request, one in all
\* unless the model is decoupled.  InferResponseComplete sets the promise's
\* value and deletes it; InferResponseCompleteAsync copies the timer first.
Respond(r) ==
    /\ req[r].held /\ ~req[r].answered /\ req[r].resp = NoResponse
    /\ \E failed, final \in BOOLEAN :
        /\ ~ResponseAlloc => failed
        /\ ~job.decoupled => final
        /\ Len(req[r].sent) + 1 >= MaxResponses => final
        /\ req' = [req EXCEPT
             ![r].sent = Append(@, [failed |-> failed, final |-> final]),
             ![r].info = IF job.sync THEN "freed" ELSE @,
             ![r].resp = [at |-> IF job.sync THEN "value"
                                 ELSE IF job.enable_stats THEN "stat"
                                 ELSE "deliver",
                          failed |-> failed, final |-> final,
                          timed |-> req[r].timed, seen |-> 0]]
    /\ faults' = Touched(r)
    /\ UNCHANGED <<job, main, loader, shm, thread, stat, mutex, counted>>

LockStatKept(r) ==
    /\ req[r].resp.at = "stat" /\ mutex = 0 /\ mutex' = r
    /\ req' = [req EXCEPT
         ![r].resp.at = IF req[r].resp.timed THEN "write" ELSE "deliver",
         ![r].resp.seen = stat]
    /\ UNCHANGED <<job, main, loader, shm, thread, stat, counted, faults>>

LockStatUnlocked(r) ==
    /\ req[r].resp.at = "stat" /\ mutex' = 0
    /\ req' = [req EXCEPT
         ![r].resp.at = IF req[r].resp.timed THEN "write" ELSE "deliver",
         ![r].resp.seen = stat]
    /\ UNCHANGED <<job, main, loader, shm, thread, stat, counted, faults>>

\* UpdateInferStat under its mutex, which is given back on every path: with a
\* timer that has no SEND_END it fails, and only prints.
LockStat(r) ==
    /\ req[r].resp.at = "stat" /\ mutex = 0
    /\ mutex' = IF req[r].resp.timed THEN r ELSE 0
    /\ req' = [req EXCEPT
         ![r].resp.at = IF req[r].resp.timed THEN "write" ELSE "deliver",
         ![r].resp.seen = stat]
    /\ UNCHANGED <<job, main, loader, shm, thread, stat, counted, faults>>

WriteStat(r) ==
    /\ req[r].resp.at = "write"
    /\ stat' = req[r].resp.seen + 1 /\ counted' = counted + 1
    /\ mutex' = 0
    /\ req' = [req EXCEPT ![r].resp.at = "deliver"]
    /\ UNCHANGED <<job, main, loader, shm, thread, faults>>

\* The callback with a result that is a success whatever the response was,
\* the context's copy of the statistics, delete of the info when the response
\* is final, and CleanUp of the response.
Deliver(r) ==
    /\ req[r].resp.at = "deliver"
    /\ LET final == IsFinal(req[r].resp.final)
       IN  req' = [req EXCEPT
             ![r].got = Append(@, [failed |-> FALSE, final |-> final]),
             ![r].resp = NoResponse,
             ![r].answered = @ \/ req[r].resp.final,
             ![r].info = IF final THEN "freed" ELSE @]
    /\ faults' = Touched(r)
    /\ thread' = [thread EXCEPT ![req[r].by].stat = stat]
    /\ UNCHANGED <<job, main, loader, shm, stat, mutex, counted>>

\* The server is done with a request and calls InferRequestComplete, before
\* or after its responses.
Release(r) ==
    /\ req[r].held /\ req[r].irequest = "live" /\ loader.server
    /\ req' = [req EXCEPT ![r].irequest = "deleted"]
    /\ UNCHANGED <<job, main, loader, shm, thread, serving>>

Main == \/ Create \/ WaitServer \/ NewAllocator \/ LoadModel
        \/ ModelMetadata \/ RegisterMemory \/ UnregisterAllSharedMemory
        \/ Delete

Worker(t) == \/ Prepare(t) \/ Submit(t) \/ SendEnd(t) \/ GetCompleted(t)
             \/ UpdateInferStat(t)

Callback(r) == LockStat(r) \/ WriteStat(r) \/ Deliver(r)

Ended == main.pc = "end" /\ UNCHANGED vars

Next == \/ Main
        \/ \E t \in Threads : Worker(t)
        \/ \E r \in Requests : Respond(r) \/ Callback(r) \/ Release(r)
        \/ Ended

\* The server answers and releases what it has taken (the final response of a
\* decoupled request comes at last: MaxResponses); its callbacks and the
\* sending threads keep running.  A worker need not send another request.
Fairness ==
    /\ \A r \in Requests : /\ WF_vars(Respond(r)) /\ WF_vars(Release(r))
                           /\ SF_vars(LockStat(r)) /\ WF_vars(Callback(r))
    /\ \A t \in Threads :
        WF_vars(Submit(t) \/ SendEnd(t) \/ GetCompleted(t)
                \/ UpdateInferStat(t))

Spec == Init /\ [][Next]_vars /\ Fairness

----------------------------------------------------------------------------

\* The server and the sending threads use a request's AsyncRequestInfo or
\* promise only while it lives: not after the final response has freed it,
\* which may come before AsyncInfer has returned, and the server never holds
\* an unanswered request whose info is gone.
NoUseAfterFree ==
    /\ faults = {}
    /\ \A r \in Requests :
        (req[r].held /\ ~req[r].answered) =>
            req[r].info = "live" \/ (job.sync /\ req[r].resp.at = "value")

\* The caller of a request is given one result for every response the server
\* has sent, in order, the last of them final, and when the request is
\* answered its info is freed.
\* A failed response of Infer is an error to the caller.
AnswersComplete ==
    \A r \in Requests :
        /\ Len(req[r].got) =
             Len(req[r].sent) - (IF req[r].resp = NoResponse THEN 0 ELSE 1)
        /\ req[r].answered => /\ req[r].info = "freed"
                              /\ req[r].sent[Len(req[r].sent)].final
        /\ \A i \in DOMAIN req[r].got :
             /\ req[r].got[i].final = req[r].sent[i].final
             /\ job.sync => req[r].got[i].failed = req[r].sent[i].failed

\* update_infer_stat_mutex_ keeps concurrent callbacks from losing updates:
\* the count is the number of successful updates.  Infer takes no mutex, and
\* is left out when it is called by several threads.
StatsExact ==
    (~job.sync \/ Cardinality(Threads) = 1) => stat = counted

\* A request the server has taken is answered at last, whatever its other
\* callbacks do with the mutex, and its object is deleted.
Answered ==
    \A r \in Requests :
        req[r].held ~> (req[r].answered /\ req[r].irequest = "deleted")

\* The status of a result tells whether the request succeeded
\* (InferResult::RequestStatus in client_backend.h).
FailureReported ==
    \A r \in Requests : \A i \in DOMAIN req[r].got :
        req[r].got[i].failed = req[r].sent[i].failed
=============================================================================
